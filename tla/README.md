# A formal model of ExamAware2

TLA+ modules, TLC configurations and machine-checked proofs about the parts of
ExamAware2 in which several parties act on shared state: the control server,
the control agent of the desktop app, the exam that is deployed to devices, and
the services and stores of the desktop app itself. All paths are relative to
`src/packages/` of the repository unless they start with `src/`.

Run `tlc -config DeliveryTroubles.cfg MCCommandDelivery.tla` for a check and
`tlapm CommandDeliveryProofs.tla` for the proofs.

## 1. The system and its parts

ExamAware2 is a pnpm monorepo. A **control server** (NestJS, PostgreSQL) keeps
devices, exams, policies and the commands it sends; administrators use it
through the **control console** (a Vue application that polls the HTTP API).
On every exam device an Electron **desktop app** shows the exam; its control
agent keeps one WebSocket to the server, executes commands and reports state.
The **player** library draws the exam and its reminders; a **plugin host** runs
extensions over a **JSON-RPC** endpoint.

| Component | State it keeps | Operations |
| --- | --- | --- |
| commands (`control-server/src/commands/control-commands.{service,repository}.ts`) | `control_command`, `control_command_target` rows: pending, delivered, acknowledged, succeeded, failed, expired | issue, deliver, deliverPending, recordResult, expireTargets, get/list, finalizePrepareCommand |
| device gateway (`control-server/src/devices/device.gateway.ts`, `device-connections.service.ts`) | sessions per socket, one registered socket per device, hello timers | handleConnection, hello, heartbeat, result, snapshot, disconnect, replacement |
| control operations (`control-server/src/commands/control-operations.service.ts`) | `exam_config.status` | prepareExam, activateExam, stopExam, reconcileDeviceState, broadcast, revoke |
| exam configs (`control-server/src/exam-configs/`) | exam, versions, target devices | create, createVersion, update, remove, in transactions that lock the exam |
| enrolment and devices (`control-server/src/devices/device-enrollment.*`, `devices.*`) | enrolment codes, devices, credential hash and version | createCode, enroll, revokeCode, rotateCredential, revoke, remove, authenticate |
| policies and partitions (`control-server/src/policies/`, `partitions/`) | policies and their targets; a tree of nodes and the devices in it | effectiveForDevice, create, update, setTargets, remove, syncEffectiveSettings; create and remove nodes, setPartitions |
| control agent (`desktop/src/main/control/controlAgentService.ts`) | connection, agent state, `pendingResults`, `completedResults`, `inFlightCommands` | start, enroll, connect, reconnect, executeCommand, resendPendingResults |
| control service (`desktop/src/main/control/controlService.ts`) | prepared deployments, player state, managed settings | prepareDeployment, activateDeployment, stopDeployment, applySettings, unbind |
| control stores (`desktop/src/main/control/controlCredentialStore.ts`, `managedControlStore.ts`) | the credential in a file, a shadow and, on Windows, the registry; the file of managed settings | load, save, clear, watch and restore |
| player sessions (`desktop/src/main/player/playerSessionService.ts`) | sessions (preparing, opening, ready, closing, closed, failed), the active one, its window | start, replace, close, time-outs, the loader of the renderer |
| player (`player/src/`) | current exam, task queue with timers, event gate, notices and alerts | load, start, stop, reschedule, execute; notify, close, show and hide alerts |
| JSON-RPC (`rpc/src/`) | pending requests, handlers that run, cancellation | request, cancel, time-out, respond, dispose |
| plugin host and service registry (`desktop/src/main/plugins/host.ts`, `desktop/src/shared/services/registry.ts`) | records, disposer groups, statuses, providers | scan, load, unload, setEnabled, reload, install, uninstall |
| plugin host of a window (`desktop/src/renderer/src/runtime/desktopPluginHost.ts`) | the list heard last, runtimes | refresh, onState, one synchronisation at a time |
| installation and downloads (`desktop/src/main/plugins/registryInstaller.ts`, `runtime/downloadManager.ts`) | cached tarballs, a queue with a limit | installFromRegistry, enqueue, retry, time-out |
| configuration and preferences (`desktop/src/main/config/configStore.ts`, `plugins/preferences.ts`) | settings in memory, a scheduled write, files | setConfig, startWrite, flushConfig at quit; setEnabled, setConfig, persist |
| local HTTP API (`desktop/src/main/httpApi/httpApiService.ts`) | a server, a WebSocket server, routes | setConfig, start, stop, restart, registerRoute |
| exam editor (`desktop/src/renderer/src/composables/useExamEditor.ts` and what it uses) | the configuration, the file and its mark, the history, the question whether to close | edit, undo, save, save as, open, import, close, restore the last session |
| time (`desktop/src/main/timeSync/`) | settings, the offsets of NTP and of the user, requests, timers | initializeTimeSync, performTimeSync, apply and save settings, the daily increment |
| sounds of reminders (`desktop/src/renderer/src/services/reminderSound.ts`) | a media element for a kind, pending `play()` promises, the active request | play, preview, stop, dispose |
| casting, sound packs (`desktop/src/main/cast/`, `desktop/src/main/reminderSound/`) | an HTTP server, files | see `PROJECT.json` |

How they interact:

* The console calls the control operations over HTTP. An operation writes
  `exam_config.status` and calls `issue()`; `issue()` commits rows and then
  sends over the socket that is registered for the device.
* The gateway handles the messages of one socket one after another (`enqueue`
  chains promises), but different sockets, also two of one device during a
  reconnection, and HTTP requests interleave at every `await`.
* A result on the socket changes a row, may finalize the preparation of an exam
  and, through the state it carries, the device row; a heartbeat with an idle
  player may complete an exam. So three kinds of process write
  `exam_config.status` without a common lock.
* A change of a policy, and a hello, issue commands with what is effective then;
  on the device they become managed settings, which are kept in a file of their
  own and imposed on the configuration store.
* On the device the control service, the player session and the agent are in
  one process and call each other through promises and listeners. Windows talk
  to it over IPC; plugins run in the main process and in windows, and each side
  hears of the other by messages.

What is hard here: **ordering** (a result before `markDelivered`, answers for an
acknowledgement after the final result, an old list of plugins after a newer
one), **redelivery** (every reconnection sends again what is not closed),
**loss** (of messages with a socket, of memory with a process, of file events),
**read-await-write** (on the exam's status, on files, on the records of the
plugin host), **overlapping calls** of services that keep nothing apart,
**time-outs against late answers**, **crashes between two file operations**, and
**everything that must eventually happen**.

## 2. Correctness, component by component

* Commands: a row is closed once and never reopened or moved back; success means
  that the handler ran; a result is not dropped before the row is closed; a
  connected device answers everything it can.
* Exam lifecycle: an exam is ready only if a device prepared it; devices play
  only what they prepared; a stopped deployment stays stopped; a new version takes
  back what was ready; completion waits for all players; preparation ends.
* Gateway and enrolment: a device that is online is where its commands are sent;
  a connection outlives the revocation of its device only in one known race; an
  agent never waits for nothing, and what stops it for good has a known cause.
* Policies: one policy decides for a device, and the last command of the device
  says which; on the device a managed value prevails, and one that was replaced
  or released does not come back.
* Player sessions: the active session is the one whose window is open, it shows
  its own exam, and every start returns.
* Player: there is a task for every beginning and end of an exam, and it runs
  once, not early and not late; the screen skips no exam; no reminder comes twice;
  notices come in order and each is shown.
* Reminder sounds: one is heard at a time, the newest is not silenced by an older
  one, and nothing stays behind.
* Exam editor: what is not marked as modified is in the file, the window closes
  over lost edits only by choice, undo starts from what is shown.
* Time: each day adds its increment once; what is in use, stored and shown agree.
* Stores: what a caller was told is saved survives a crash; no change is
  forgotten between memory, timer and file; a quit saves; a credential that was
  saved and not cleared is found by the next start, wherever a crash fell; a policy
  that was replaced is not enforced by the next start.
* JSON-RPC: every call settles, and no call of another window settles it.
* HTTP API: one listener that can be closed, with the registered routes, and
  operations that end.
* Plugins: a status says what runs; stopped code offers no service and holds no
  registration; dependents stop first; a window runs what is active; what is
  unpacked was verified; installations end.

`PROJECT.json` lists the hazards at their lines, with the properties about them.

## 3. The modules

| Module | What it is |
| --- | --- |
| `CommandOutcome` | The abstract promise about commands: open, closed once, success only after a run |
| `CommandDelivery` | Server, socket and agent in detail; implements `CommandOutcome` |
| `CommandDeliveryProofs` | Theorems about `CommandDelivery` |
| `ExamLifecycle`, `ExamLifecycleProofs` | `exam_config.status` and all its writers, commands in one step, several devices; theorems |
| `DeviceLink` | Authentication, registry, revocation, enrolment and the agent's connection states |
| `PolicySync` | Policies, the tree of partitions, and the commands that tell devices what is effective |
| `DeviceLinkProofs` | Theorems about these two |
| `ManagedSettings` | What a device does with them: memory, files, watch and reconciliation |
| `CredentialStore` | The device credential in three copies, with the watcher that restores the file |
| `SettingsStore` | The configuration store and the quit of the app |
| `DurableStore` | The abstract promise of a store: what was told to be saved is on the disk |
| `PreferenceStore` | The plugin preferences; implements `DurableStore` |
| `TimeSync` | The time service: settings, NTP requests, the user's offset and its daily increment |
| `DesktopFilesProofs` | Theorems about these five: what the desktop app keeps on its disk |
| `PlayerSession` | Sessions, their window and the loader in it |
| `ExamEditor` | The exam editor: edits, history, files and dialogs that overlap |
| `ExamSchedule` | The timing of the player |
| `Reminders`, `ReminderSound` | What the player shows on top, and the sounds it makes |
| `PlayerProofs` | Theorems about these three |
| `HttpApi` | The local API server |
| `DesktopPartsProofs` | Theorems about `PlayerSession`, `HttpApi` and `ExamEditor` |
| `JsonRpc` | The endpoints of `rpc/` as the plugin host joins them |
| `PluginHost`, `PluginHostProofs` | Plugins in the main process; theorems |
| `RendererPlugins` | Plugins in a window |
| `PluginDownloads` | Installations up to the unpacked directory, and the downloads they share |
| `DesktopPluginsProofs` | Theorems about `RendererPlugins`, `PluginDownloads` and `JsonRpc` |
| `MCCommandDelivery`, `MCExamLifecycle`, `MCExamLiveness`, `MCPluginHost` | Instances of one module for TLC |
| `MCDesktopParts`, `MCDesktopFiles`, `MCServiceParts` | Instances of several independent modules each, one of which acts in a behaviour |

Operators whose name begins with `Bug` are variants of the definition below
them, as a plausible mistake in the code would have it; no action uses them.
They are there to see that each property notices such a mistake.

### CommandDelivery

One device, a set of commands, connections numbered in the order of opening.

| Variables | In the code |
| --- | --- |
| `target`, `lapsed`, `caps` | `control_command_target.status`, `expiresAt` against the server's clock, `devices.lastCapabilities` |
| `dispatch`, `marking` | the part of `issue()` after its transaction: commands not sent yet, commands sent and not marked yet |
| `registered`, `readable`, `attached` | the entry of `DeviceConnectionsService`, `socket.readyState`, whether the disconnect event is still to come |
| `stage`, `todo` | where the handler of the first message of a socket is; what is left of the list `deliverPending` read |
| `toServer`, `toDevice` | messages received and waiting in `enqueue`; messages on their way to the device |
| `conn`, `link`, `cursor` | the agent's current socket, its state, and the position in `resendPendingResults` |
| `pending`, `completed`, `inFlight`, `nextRid`, `skills` | `pendingResults`, `completedResults`, `inFlightCommands`, request ids, the handlers of the app's version |
| `ran`, `finished`, `faulted`, `rerun` | history for the properties; no action reads them |

Each `await` of `handleHello`, `deliverPending`, `deliver`, `recordResult` and
`handleCommandResult` ends an action. `HandleHello` covers the lines from
`recordConnectionState` to `helloAccepted`. `RecordTx` is the transaction on the
locked row. On the agent each message handler is one action because it contains
no `await`; `executeCommand` is two, before and after the handler it calls.
`resendPendingResults` is a loop without `await`: `link = "resending"` keeps the
rest of the agent still while its iterations are steps of their own.

Abstracted: payloads, partitions (a command names the device or it does not),
audit rows, heartbeats and snapshots (they change no row), pushes of settings at
the end of the hello, and the database columns with error texts. A database
error is a step (`HelloFails`, `RecordFails`) that takes the code's error path.
The two clocks are independent: with `ClockSkew` the device may refuse as expired
what the server still counts as valid, and it may always execute what expired on
the server.

### ExamLifecycle

One exam, its devices, administrators' requests. `status` and `version` are
columns of `exam_config`; `commands` the prepare, activate and stop commands with
a row per device (open rows are not divided further, `CommandDelivery` is about
that); `reported` is `device.lastReportedState.player`; `app[d]` the memory of
`ControlService` and the agent of device `d`; `proc[p]` the program counter of a
request or of a device's message handler with what it has read so far.

Every function that reads the status, awaits and writes it is split at its
awaits: `prepareExam` into `PrepareRead`, `PrepareMark`, `PrepareIssue`,
`PrepareRestore`, for the version that the request names, whichever there is (`of`
in a command); `activateExam` into `ActivateStart`, `ActivateRead`,
`ActivateTargets`, `ActivateIssue`, `ActivateMark`; `stopExam` likewise;
`reconcileDeviceState` and `allActivatedDevicesExited` into the `Reconcile...`
actions; `finalizePrepareCommand` into the `Finalize...` actions, which the
callers of `get()`, `list()` and `recordResult()` enter. `createVersion`,
`update` and `remove` run in a transaction that locks the exam and are one step.

Abstracted, and named in the module: a device's answer and its receipt by the
server are one step, because what interleaves in between is the subject of
`CommandDelivery`; the finalizations that `get()` starts with `Promise.all` run
in an arbitrary order one after the other; each device has one message handler
(two sockets of one device are again in `CommandDelivery`); the start of a
second activation while one is starting is left to the player session.

### DeviceLink

One installation of the desktop app and the devices it has been: every enrolment
creates a new one, numbered in order. `CommandDelivery` takes for granted that a
connection is authenticated and its device in order; this module is about that.

| Variables | In the code |
| --- | --- |
| `lifecycle` | `device.lifecycleStatus`, and whether the credential of the enrolment is still the current one |
| `cutting` | `disconnect()` calls of `revoke()` and `rotateCredential()` whose transaction is committed |
| `registered`, `readable`, `attached` | as in `CommandDelivery` |
| `hello`, `dev`, `condemned` | where `handleHello` is, for which device, and the close code that the callback of `fatal()` will use |
| `disk` | what `load()` of the credential store would find in a file or a copy |
| `enrolling`, `clearing` | where `enroll()` and `clearEnrollment()` are |
| `started`, `reg`, `sock`, `phase`, `timer`, `state` | `started`, `registration`, `socket` with its `readyState`, `reconnectTimer`, `snapshot.state` |
| `raced`, `mistimed` | history for the properties: connections that were past `authenticate` and not yet registered when their device was disconnected; a handshake timer fired, or an older connection replaced a newer one |

`handleHello` ends an action at each of its awaits: `Authenticate`
(`findAuthenticatedDevice`), `Admit` (`markCredentialUsed`), `Register`
(`recordConnectionState`); `handleDisconnect`, the hello timer and the commit and
the disconnection of a revocation fall between them. `fatal()` is two steps, the
sending and the callback that closes. On the agent the WebSocket's close
handshake is modelled as the `ws` library does it: a server that is asked to
close echoes the agent's own code, so `HandshakeTimeout` ends in
`authentication-failed`.

Abstracted: the opening of a connection is one step for both ends; of several
fatal errors on one connection only the first counts, as its close does; messages
other than those of the hello; `incompatible` and other protocol versions;
`createSocket` that throws (treated like `OpenFails`); a restart of the server
(for the agent, `Break`); an enrolment during `start()`; the files of the
credential store and their watcher (`CredentialStore`), of which `clear()` may
leave a copy behind.

### The policies: PolicySync and ManagedSettings

`PolicySync` is the server's side. `policy` and `targets` are the rows of the
policies, `parent` and `member` the tree of nodes and the devices in it,
`issued` the value of the last command of each device, and `requests` the
requests under way with what they have read. `compareEffectivePolicies` and
`effectiveForDevice` say which policy decides. `update`, `setTargets` and
`remove` end an action at each await (`readTargets`, the transactions
`UpdateRow`, `SetTargets`, `RemovePolicy`, then `Expand`, `Resolve` for one device
after another, and `Issue`); a hello resolves and issues for its device.
Operations on nodes and memberships issue nothing. One setting stands for all,
since each is resolved by itself; validation, audit rows and dimensions are
abstracted, and the delivery of the command is `CommandDelivery`.

`ManagedSettings` is the device's side: `managed` is `managedValues`, `file` and
`tmp` are `managed-control.json` and its temporary file, `saves` the saves and
removals that are not awaited, `config`, `configDirty` and `configOnDisk` the
setting in the configuration store, `pending` the debounced watch and `jobs` the
reconciliations it starts, which are not awaited either and may overlap. Every
write, rename, removal and reading may fail (`SaveFails`, `ReadFails`,
`NothingLoaded`), and nobody is told. Another program edits or deletes the files,
and the app may stop at any step. A file operation is one step, and leaves nothing
when it fails; when the store writes is abstracted, as `SettingsStore` has it.

### The stores: CredentialStore, SettingsStore, PreferenceStore, TimeSync

The first three take a file apart at its operations. `CredentialStore` has three copies (the
file, replaced by a rename; a shadow written in place; the registry's, which only Windows has:
`CredentialInit` chooses whether there is one, and what is to be written there is `Mirrored`),
the calls of `start`, `enroll`, `clearEnrollment` and of the watcher that restores the file,
each a sequence of steps in `fileCalls`; failures (also of reading the registry,
`MirrorUnread`), crashes and another program that deletes or breaks the file come between any
two. A credential is the number of its enrolment; encryption is whether a copy can be read.
`SettingsStore` counts changes: contents `n` include changes 1 to `n`. `startWrite` takes a
snapshot and clears `dirty`; `config.json` is torn between `OpenFile` and `FileWritten`;
`BeforeQuit` and `Exit` are the before-quit handler with the shutdown coordinator.
`PreferenceStore` counts in the same way; every caller waits for a write of all of memory, one
at a time, through a temporary file and a rename. It implements `DurableStore`: memory, disk,
and the last change a caller was told is saved.

`TimeSync` has the settings three times: in use (`conf`), in the configuration
store (`store`, and `disk` for what of it is written) and in the older
`timeSync.json` (`legacy`). An offset of NTP is the server it came from; an offset
of the user is what was set and the increments added since. `day` is the date of
the system clock, which may also be set back; `ShortDays` are days of 23 hours,
since `daysBetween` divides milliseconds between midnights by 24 hours. A save of
`timeSync.json` that throws may have cut the file off (`SaveThrows`). The ghosts
are `since` (the last day that had been counted when the offset was set, or, if
none had, the first one counted), `overlapped` and `unsaved`.

### PlayerSession

`sessions[s]` has the state of a session, its window and where its `start()` is,
`active` is `activeSessionId`, `newest` the first entry of the shared
configurations, `renderers[s]` how far the window's loader is and the messages
between it and the main process. An action is one task: an IPC call (`start`,
`replace`, `close`), the end of `prepare()`, a time-out, a window event, a message.
`WindowGone` is what `onClosed` does; `BrowserWindow.destroy()` emits `closed` before it
returns, so that `closing` ends in its own step. The renderer shows whichever
comes first of the pushed configuration and the answer to `getPlayback`.

### ExamEditor

A configuration is a number, every edit makes a new one. `editorJobs` are the
operations begun (save, save as, open, import, the file of the start), each at
its dialog, its write, its read or its loading; nothing locks the editor
meanwhile, so any number of them overlap with edits, undo and the closing of the
window. `modified`, `isNew` and `path` are `isFileModified`, `isNewFile` and
`currentFilePath`; `entries`, `pointer` and `debounced` are the history with its
timer. A save takes the configuration before its first await, that is before its
dialog, and clears the mark when the disk has answered. Ghosts: `work` (edits that no file has),
`misled` (the mark was last cleared by an answer about another configuration or
file), `unrecorded` (the history was not told) and `consented`.

### ExamSchedule, Reminders and ReminderSound

`ExamSchedule` has `ExamPlayerCore`, `ExamTaskQueue` with its timers, the corrected
clock of a `TimeProvider` (`real + offset`) and the watchers of `ExamPlayer.vue` that
present reminders through `ReminderEventGate`. The core calls `getCurrentTime` on the
provider, but hands it to the queue without it (`ExamPlayerCore.ts:30,51`).
`player.bound` says which kind of provider there is: the one of the web player, like
those of the library and of its tests, is a closure, and the queue reads the clock;
`ElectronTimeProvider` has a method that looks for the offset in the queue, and the
queue reads NaN. `Reading` is what the queue reads, the empty set for NaN, so that
every comparison with it fails as in JavaScript: no task is created, none is due, and
a timer would fire at once. `ScheduleInit` chooses the kind. A step is a task of the renderer
with the watchers Vue runs before the next. A timer is set to the computer's
time and may be shorter than its delay (`MaxTimerDelay` stands for 2^31 - 1 ms);
what is due is read from the corrected clock. Configurations are those
`validateExamConfig` and `hasExamTimeOverlap` accept: they may be in any order
(`InOrder` sorts them), empty, and with an alert longer than their exam. The queue
starts by a loop over its pending tasks, some of which it executes at once
(`StartQueue`, a recursive function of the number of tasks it has got to). `Reminders` is
`useReminderService`: notices with a countdown, and the alert that interrupts them.
`ReminderSound` is `createReminderSoundController`: `elements` are all media
elements ever made, `cache` the one of a kind, `plays` what was asked for, each
with its `generation` and its answer; `PlaySettles` comes at any time after `begin`,
also when the element has long been given to another request.

### HttpApi and JsonRpc

`HttpApi` has the fields of the service, every server it has made, and the
operations begun, each with the await it is at: `stop()` waits for the WebSocket
server and then for the server, `start()` for a free port. Nothing keeps two
operations apart, and an operation that was asked for over the API is itself a
connection its server waits for. `JsonRpc` puts one server and the clients of each
window on one channel, as the plugin host does. The `dispose` of a client, when its
plugin is unloaded in the window, takes away the listener and rejects what is pending;
the plugin that is loaded again has a new client (`NewClient`) on the same channel.
Clients count their ids from 1 each, and the server keeps its running requests by
id. Messages carry, as a ghost, the client they belong to.

### The plugins: PluginHost, RendererPlugins, PluginDownloads

In `PluginHost`, `plugins[p]` has the current record of a plugin and every record,
disposer group and run of its entry there ever was, since a task may hold an old
one; `tasks` are the calls (`setEnabled`, `reloadPlugin`, `uninstallPlugin`, an
installation's or the app's scan and `loadAll`), each at its await: a preference
saved, manifests read, an entry imported, activated or disposed of. An entry may
throw at any point of its activation, and a cleanup may throw. Left out are
dependency cycles, versions and the renderer's side.

`RendererPlugins` is the renderer's side: payloads of `onState`, the list of
`refresh()`, and the loop of a synchronisation that unloads and loads one plugin
after the other. `PluginDownloads` follows an installation through looking at the
cache, verifying, downloading to a temporary file, renaming and unpacking, with
the shared queue of downloads and its limit.

## 4. The runs

| Run | Question | Bounds |
| --- | --- | --- |
| `DeliveryTroubles` | Do rows only move forward, does `CommandOutcome` hold, and do results stay with the agent until the row is closed, when commands expire and the clocks differ, or through one crash or database error anywhere, with an app that may come back in another version? | one command, two connections; the expiry of a command the device can execute, or one mishap (`LapseOrMishap`) |
| `DeliveryLive` | Is every command of a connected device answered? | one command, two connections |
| `DeliveryRerun` | Is a command run once by one run of the agent? (No.) | one command, two connections |
| `ExamRaces` | Can overlapping requests, transactions and device handlers make an exam ready that nobody prepared? | two requests, one device, two commands, two versions, each request naming either, one mishap: a refusal, a repeated result, a restart of the app or an expiry |
| `ExamSequential` | Which promises hold as long as no two handlers overlap? | one request, two devices, three commands, two deployments, two versions, each request naming either |
| `ExamLiveness` | Does a preparation end if devices stay silent, and do heartbeats complete an exam once everybody has left? | one request, two commands, one refusal, one repeated result, any expiry; two devices that only prepare, or one that prepares and activates |
| `ExamReactivated` | Does a stopped deployment stay stopped? (No.) | one request at a time, one device, four commands |
| `DesktopParts` | Do sessions and their window, the HTTP API, JSON-RPC, notices and their sounds, the plugins of a window, installations and the exam editor keep what they promise when their calls overlap and fail, and does what was begun end? | see below |
| `DesktopFiles` | Do managed settings, settings, preferences, the credential and the time survive overlapping writes, failures, crashes, other programs and restarts? | see below |
| `ServiceParts` | Is an online agent reachable and does it come back; are devices told what is effective; does a plugin leave nothing behind; does the player act in time? | see below |
| `ScheduleUnbound` | Does the queue of the player have a task for every beginning and end of an exam? (Not in the desktop app.) | two exams |
| `PluginServiceMissing` | Is a plugin whose service is missing kept from loading? (No.) | two plugins, three calls |

The last three passing runs check several modules that share no state, one of
them per behaviour: the initial state chooses the `part`, and the others stay as
they are. So the states add up instead of multiplying, and a property of one
part is checked as if alone. `PartsTypeOK` and `FilesTypeOK` conjoin the types;
`EverythingEnds` (`OperationsEnd`, `StartsAndEnds`, `InstallsEnd`, `CloseIsDecided`)
and `EverythingSettles` (`ChangesAreSaved`, `CallsAreAnswered`, `FileIsRestored`)
conjoin what the parts promise to happen in the end.

Why the bounds are enough to be interesting:

* Delivery: an expiry and a mishap are not combined (`LapseOrMishap`), nor an expiry with an
  app that cannot execute the command; the proofs know no such bound. One command already has
  up to three senders (`issue`, and `deliverPending` on either connection) and three writers
  of its row; two connections give replacement, loss and redelivery. Commands of one device
  share only the order of `deliverPending` and the request ids, which the proofs cover for any
  number.
* Exam: two prepare commands are needed to overtake each other and three
  commands for prepare, stop, activate; two devices make "all have exited" differ
  from "one has exited". Devices are symmetric in `ExamSequential`; the runs with
  liveness use no symmetry. No action looks at the version a request has named, so
  `ExamRaces` and `ExamSequential` do not tell states apart that differ in it only
  (the view `NoVersionsNamed`).
* `DesktopParts`: two sessions, so that a start, a replacement or a close meets
  one that is anywhere in its life, and shared entries of a third party; four
  operations of the API, which may overlap at every await; two windows that
  choose the same request id, in one of which the plugin may be unloaded, loaded
  again with a new client, or its transport break; three notices and three alerts; a list of plugins
  that is overtaken while one is loading; a queue with room for one of two
  tarballs, and two installations that share one or queue for both. Two kinds of
  sounds and three requests, stops or disposals, so that a late promise meets a
  sound of its own kind and of another; for the editor two files, one edit after
  the restored one, and two operations that wait at once.
* `DesktopFiles`: two saves and two reconciliations at once, and two of these: an
  operation that fails, an overlap, a restart, another program; three changes, one
  failure and one crash; three callers, so that one joins a write, one starts
  the next; two enrolments, so that an old credential could come back, with one
  fault and one interference; for the time three days, one of them short, two
  servers, two requests in a run of the app and one change of settings, with
  restarts at every step.
* `ServiceParts`: for the link two connections let the hello of one overtake the
  other's, and the third, with the second enrolment, a reconnect timer that
  outlives the enrolment it was set for; a disturbance is a failure, crash,
  time-out, cleared enrolment, revocation or rotation, and with two of them each
  cause meets another. For policies, two nodes, one below the other, two
  policies and two requests that overlap, from every placement of the device and
  of the targets. For plugins, one that needs the service of another and three
  calls. For the player, two exams, the later first in the file, a delay longer
  than the longest timer, a correction of the clock backwards, and both kinds of
  provider.

Deadlock checking is off in the delivery runs and in those of several parts:
once connections, commands, calls and tasks of the bounds are used up the model
really stops, like a device that is switched off. In `ExamLifecycle` the system
never stops, so it stays on.

### Fairness

`DeliveryLive` assumes weak fairness of what runs by itself: the part of
`issue()` after its commit, each connection's handlers (the event loop goes on
and the database answers), the agent's reactions and the handlers it has
started. Nothing is assumed of users, of connecting, of the expiry sweep, or of
clocks. The property is conditional: it speaks of devices that finally stay
connected.

`Fairness` of `ExamLifecycle` assumes that handlers under way go on, that devices
send heartbeats (the agent's interval timer), that time passes, and that the page
of a deployment under way polls it
(`control-console/src/pages/exams/detail/index.vue:574`). The last one is
essential: the server itself has no timer that expires commands
(`expireTargets` is only called by `get` and `list`), and without a reader a
preparation whose devices stay silent remains `preparing`. No device has to
answer and no user has to start anything.

`Fairness` of `DeviceLink` assumes that the hello of an open connection is handled,
errors that are sent close their socket, committed disconnections happen, the
agent's connection opens and delivers what was sent, and its reconnect timer
fires. It assumes nothing of users, administrators, enrolment or the network:
a break is allowed at any time, but not after the last connection of the bound.
`ComesOnline` is then a promise to an agent that is left alone in the end.

On the desktop, fairness is that of one process with an event loop: an awaited
read, write, import or request ends, with success or not; a timer that is set
fires; a client of a server that is closing leaves. Nothing is assumed of users,
callers, other programs, crashes or of the success of anything. Each part states
its own: sessions that their preparation and their time-out end, calls of
JSON-RPC that their timer fires, downloads that they finish or time out, the
editor that its dialogs are answered and the disk answers its writes. In a
run of several parts the fairness of all is assumed, and asks nothing of those
that stay: at first none of them has a fair action enabled.

### What the passing runs say about the code

Some properties hold with exceptions, which they name. Each exception is
reached by a trace of the model, so it is a behaviour of the code.

* `LinkIsHonest` has four parts. A revocation that falls between `authenticate`
  and `register` finds nothing to disconnect, and the connection stays
  (`StaleOnlyIfRaced`). Either handshake timer, when the server is only slow, stops
  an enrolled agent with `authentication-failed` until the app is restarted, since
  it closes with the code of a bad credential; a delayed hello of an older
  connection does the same with `connection-replaced` (`GivesUpOnlyForCause`). And
  an agent may say that it is online without a socket, but then its timer is set
  (`NeverStranded`); if the socket is open, it is the registered one
  (`OnlineIsReachable`).
* `PoliciesArrive` excuses devices of requests that overlapped, since an earlier
  reading may be issued last, and devices whose nodes have changed, since no
  command follows until their next hello.
* `ManagedIsKept` excuses saves that overlap, since they share a temporary file
  and a flag; a save, a removal or a reading at the start that fails, since
  callers do not wait for it (`void saveManagedValues(...)`) and the file keeps the
  policy that was replaced or released, which the next start enforces; and file
  events that the watcher dropped or never had, with readings of a reconciliation
  that fail. The first two are excused only until the file holds what is managed
  again (`MadeGood`); then the property holds again.
* `TimeIsKept` counts the days since the offset was set, or since the first date
  that was counted after that; when the stored date is lost, counting starts
  anew. It excuses days of 23 hours, which `daysBetween` rounds away if they are
  counted alone; requests that overlap, since the answer of an older one is taken
  after a newer server was chosen, also after the synchronisation was turned
  off (`NtpAnswers` has no guard, and the status is then a success again); and a
  save of `timeSync.json` that throws half-way. Three more things it does not hold
  against the code, and the model shows them: the days while the increment was
  switched off are all added when it is switched on again, since the last date
  stays; settings that are only in `timeSync.json` are lost at the second start,
  once the first has put a date into the configuration store; and a change by a
  plugin of the main process lasts for this run alone.
* `CredentialIsKept` and `FileIsRestored` excuse calls that overlap (a restore with
  the old registration may come after an enrolment), copies that could not be
  written or removed, crashes that leave copies that differ, and a registry that
  cannot be read when its copy is the only one. Only Windows has a registry copy
  (`controlRegistry.ts:10,27,42` return at once elsewhere). Without it the file is
  the only copy while the shadow is being written, and the shadow when another
  program has deleted the file: a deletion in the one case, or the
  emptying of the shadow that begins its writing in the other, followed by a crash,
  loses the credential. Both are excused (`OnlyCopy`, "copy"), and nothing else is
  that a lone call, a crash or a deletion does.
* `SettingsAreKept` excuses a failed write until the next one, and says that only a
  change that comes after the flush of a quit can leave the file torn.
* `ServesAsAsked` requires one listener only while operations do not overlap: two
  starts at once leave a listener that no `stop()` will close. `OperationsEnd`
  (in `EverythingEnds`) excuses an operation asked for over the API itself: it waits for the end of
  the request that waits for it, until that client gives up.
* `RunsWhatIsActive` excuses a `refresh()` that puts an older list over a payload,
  until the next payload, and plugins whose code has thrown.
* `UnpacksWhatItVerified` excuses two installations of one tarball at once: one of
  them may replace the file between the other's verification and unpacking.
* `HostIsTrue` speaks of plugins that no two tasks meddled with, that were not
  enabled while active or found active without their service, and whose
  cleanups did not throw; what is `OfferedByTheLiving` holds however tasks overlap.
* `WorkIsKept` excuses saves and reads that were overtaken: `saveProject` clears the
  mark when the disk answers, also over an edit or another file that came in
  between, and then the window closes without asking. It also excuses changes
  the history is never told of (an added exam, a restored session, the file of
  the start), until the history records the next one.
* `SessionsMatchWindows` lets a window show an entry that another tool has shared
  in the meantime.
* `CallsSettleRightly` lets a call be settled by the late answer to an earlier client of
  the same window: a plugin that is unloaded and loaded again there counts its ids
  from 1 again (`rpc/src/index.ts:99`), and neither it nor the server tells the answer
  for the old call 1 from that for the new one. No other window's answer can.
* `ScreenFollows` and `TasksAreKept` excuse an index set by hand, a clock set back
  past a change of exam, and a correction before the core has started. What they
  say of tasks and of the moment of a change of exam is said of providers that
  are closures. In the desktop app, whose queue reads NaN, `TimersArePending`,
  `Punctual` and `NeverEarly` hold because there are no tasks; what is checked
  there is that the interval and the watchers alone skip no exam (`SkipsNothing`)
  and repeat no reminder (`OnceEach`).
* `ReadyIsRenewed` and `CompletedOnlyAfterExit` hold only as long as no two
  handlers overlap: the first fails with a `createVersion` between the
  check and the write of `activateExam`, the second when another device's
  activation is recorded while `reconcileDeviceState` is between its reads and its
  write. Setting `OneAtATime = FALSE` shows the traces. `CompletedOnlyAfterExit`
  also needs that no activation is repeated: when `issue()` throws after it has
  committed an activation and the administrator repeats it, a device may start
  the first one after the second has ended; if the first has expired by then, its
  success is refused and the player it opened is not reported before the next
  heartbeat, so that the other device's heartbeat completes the exam
  (`MaxFailures = 1`, `MaxMishaps = 2` and `MayLapse = TRUE`, with one deployment, show it).
  Likewise two overlapping
  `prepareExam` requests that are both refused can leave the exam `preparing`
  without a command, because the second reads `preparing` as the status to put
  back.

### What the runs refute

* `DeliveryRerun`. `acceptCommandResult` deletes the completed result, so a
  redelivery that was already under way when the acceptance arrives starts the
  handler again. A device test expects one call for two deliveries; it delivers
  the second before the acceptance.
* `ScheduleUnbound`. The queue of the player gets `timeProvider.getCurrentTime` without
  its object. With the `ElectronTimeProvider` of the desktop's player
  (`desktop/src/renderer/src/views/PlayerView.vue:222`) it reads NaN, finds nothing in
  the future and creates no task: `onExamStart` and `onExamEnd`, which
  `player/README.md:75-76` promises at the beginning and the end of an exam, are not
  called, nor is the alert's task. The reminders of the screen still come, from the
  watchers of the status and of the time left, which follow the interval of the core;
  of two exams back to back the second is shown up to half a minute late.
* `ExamReactivated`. `activateExam` looks at the exam's status but not at the
  deployment: prepare 1, stop 1, prepare 2, and deployment 1 can be activated
  although it was stopped. On the device the activation then fails, since the
  stop removed the prepared files, but the exam is active. For the same reason a
  deployment of an older version can be activated, and is played, once another
  deployment has made the exam ready.
* `PluginServiceMissing`. `loadAll` gives a plugin whose injected service is
  missing the status `error` and loads it all the same
  (`desktop/src/main/plugins/host.ts:280`); the documentation says that a missing
  service blocks loading (`src/docs/plugin-dev/api.md:161`).

### Versions of an exam

A `prepareExam` request names a version, any that exists
(`control-operations.service.ts:50-53`), and neither the status nor the activation
looks at it again. The console names the latest version that its page has loaded
(`control-console/src/pages/exams/detail/index.vue:713`), which another administrator
may have followed by a new one. So a stale version can be prepared, make the
exam ready and be played, with one handler at a time, while the page says that the
latest one is in use (`detail/index.vue:238`, "当前使用 v{{ exam.latestVersion }}").
Therefore `ReadyIsRenewed` does not say that the current version was prepared or is
the one activated. It says that `createVersion` takes back what was ready: while an
exam is ready or active, a device has succeeded in a preparation asked for since the
current version exists.

## 5. What is proved

By TLAPS, for every value of the constants and every behaviour.

Of the delivery of commands:

* `TypesHold` (`CommandDeliveryProofs`): `Spec => [](TypeOK /\ HandlerOK)`. Type
  correctness is not inductive alone: the handlers take the head of a queue, so
  the invariant carries `HandlerOK`, which says that a handler's stage fits the
  message at the head of its connection's queue and that connections not yet
  opened are empty.
* `OnlyHonestReports`: `Spec => []ReportsHonest`. Wherever a success is reported
  (row, queue of a connection, maps of the agent) the handler ran, and wherever a
  command is named it was issued. This is the inductive invariant, with the
  types, of all that follows: a row becomes `succeeded` from a message, a message
  is made from the agent's maps, and those only from a run.
* `RowsOnlyAdvance`: `Spec => ProgressNeverRegresses`.
* `DeliveryImplementsOutcome`: `Spec => ImplementsOutcome`. The refinement
  mapping reads pending, delivered and acknowledged as open. `RowSteps` sorts
  every step into one of six things it may do to the rows, and `OutcomeStep`
  maps each to a step of `CommandOutcome` or a stutter.

Of the status of an exam (`ExamLifecycleProofs`):

* `ReadyOnlyIfPrepared`: `Spec => []ReadyIsPrepared`, `NothingElseIsPlayed`:
  `Spec => []PlaysOnlyPrepared`, and `TypesAreKept`. `LifecycleInv` has five parts,
  one per group of variables. The argument is that commands only grow
  (`Grows`): rows are closed and commands appended, and a row that has succeeded
  stays so. Hence what a handler has read before an `await` may be old but is not
  wrong: `Knows` says what follows from where a handler is (it marks an exam
  active only after some device succeeded; the status it may put back was ready
  only if some device had), `Plays` what a device's memory refers to, and
  `CommandsOK` that an activation names devices that had prepared. One lemma per
  action, with `ProcStep`, `AppStep` and `StatusStep` for what every step shares.
  `NeverReactivated` and `CompletedOnlyAfterExit` are no theorems of `Spec`: the
  first is refuted, the second needs hypotheses, see below.
* `ReadyIsAlwaysRenewed`: `OneAtATime => (Spec => []ReadyIsRenewed)`, for any number
  of deployments and versions, with refusals, expiries, repeated results and restarts.
  `SequentialInv` says that one handler is under way at most and what it knows of
  the current version (`UpToDate`): a request that issues has read the exam as it
  is, a finalization that has seen "preparing" is of a deployment asked for since
  that version, and the status a request may put back still fits the version
  (`Fits`). While the exam is "preparing", the latest deployment was asked for since the
  current version exists, or a request is between its two writes (`Unissued`). That no handler
  overlaps is a hypothesis about the load of the server, not about the code, which
  takes no lock there.
* `CompletionFollowsExits`:
  `OneAtATime => (Spec /\ []Undisturbed => CompletedOnlyAfterExit)`. `ExitInv` says of
  every device that it does not say it has left the deployment it plays, and that the
  database does not say so either unless a handler is about to record its state
  (`Shown`), and of a reconciliation that the activation and the reports it has read
  are still the latest (`Reconciling`). A session starts only with the success of
  an activation, which carries the new state; hence the second hypothesis: while a
  device executes a command, its row is open and has not expired, and its answer is
  accepted at once (`Undisturbed`). It is needed: section 4 describes what happens
  when a second activation of a deployment or an expiry gets between. Requests
  may be refused, commands expire before they start, and devices restart.
* `WithoutMishapsExitsComeFirst`: with `MaxMishaps = 0`, so nothing refused, repeated,
  restarted or expired, `Undisturbed` always holds (`Calm` is inductive), and
  `OneAtATime` alone gives `CompletedOnlyAfterExit`, for any number of devices,
  deployments, activations and versions.

Of the delivery, too:

* `NothingIsForgottenEarly` (`CommandDeliveryProofs`):
  `Spec => []ForgottenOnlyWhenSettled`. `MemoryInv` is what it takes beyond the
  theorems above: a request id stands for one result wherever it is met (in the
  agent's maps, in either queue, in an answer), a final result that is answered
  as accepted has its row closed or met a database error, and an answer that is
  still under way has too. The property speaks of the agent's memory and the row, and a
  late answer to an acknowledgement is between them: without the ids it could
  drop a final result it is not about.

Of the link (`DeviceLinkProofs`):

* `LinkStaysHonest`: `Spec => []LinkIsHonest`, and `LinkTypes`. `LinkInv`: a
  connection that was accepted and is still open is the registered one of its
  device; the agent's socket is its newest connection or none, and it is online
  only with one that was accepted; a close or a refusal on the wire, and a
  connection that is about to be closed for its credential, carry their cause (the
  device is not active, or a timer was too early); and a connection that is past
  `authenticate` for a device that was revoked is known as raced, or the
  disconnection is still to come. Devices are numbered in the order of enrolment
  and none becomes active again, so a cause stays one.

Of the policies (`DeviceLinkProofs`):

* `PoliciesAlwaysArrive`: `PolicySpec => []PoliciesArrive`, and `PolicyTypesHold`, for
  any tree of partitions, any devices and policies and any number of requests.
  That one policy decides is a fact about `compareEffectivePolicies`: it is
  irreflexive, transitive and total on the policies that apply, which are
  finitely many, so one comes before all others (`FirstExists`). Ids break the last
  ties; without them `OneDecides` would fail.
* That the devices are told rests on `PolicyInv`. A request that is `alone` has no
  other beside it (`Lonely`), so what it has read of targets and settings is still so
  (`KnowsRight`). And a device that is not excused either was told what is
  effective, or is among those a committed request will come to
  (`ToldOrReached`), by its `scope` before `Expand` and by its list after. The step that matters is
  the commit (`ChangeReaches`): a policy whose targets, before and after, do not
  reach a device applies to it neither before nor after, and so changes nothing
  for it. It needs that `Distance`, which climbs from the device's nodes, and `Below`,
  which `Expand` takes from the targets down, agree (`DistanceIs`).
* The depth of a node is a recursive function, and that there is one is proved
  without an induction over the tree: it is the length of the shortest way up
  (`Climbs`, `DepthExists`). A way has fewer steps than there are nodes, since each
  leads to a lower level (`DepthBounded`), so no node is too far below another to
  be found, and the removal of a node takes all that is below it: no child keeps a
  parent that is gone.

Of the configuration store (`DesktopFilesProofs`):

* `SettingsStayKept`: `SettingsSpec => []SettingsAreKept`, and its halves
  `NoChangeIsForgotten` and `QuitSavesSettings`. The invariant `SettingsInv` has the
  types, `Tracked` and `Flushed`. `Tracked` says where memory's contents are: in the
  file when nothing is dirty and nobody writes, in the snapshot when a write has
  taken them, and otherwise dirty with something that will write them, or after
  a failure. `Flushed` follows the contents there were when the flush began:
  memory has them, the file has them once the flush is over, and a timer or a
  write there is from then on has a later change to write. Neither property is
  inductive by itself, since a write that ends turns one case into another, and
  one that starts after the flush could otherwise write older contents.

Of the plugin preferences (`DesktopFilesProofs`):

* `PreferencesAreDurable`: `PreferenceSpec => KeepsItsPromise`, the refinement of
  `DurableStore`, and `SavedChangesAreOnDisk` and `WaitersHaveAWrite`. The invariant
  `PreferenceInv` has the types, `WriteGoesForward` (the file lies between what was
  told and what is in memory, and the snapshot of a write between the file and
  memory) and `CallersKnow`
  (who waits has a write to wait for, who was told has the change in the file).

Of the managed settings (`DesktopFilesProofs`):

* `OldPoliciesStayAway`: `ManagedSpec => []NoOldPolicyReturns`, the safety half of
  `ManagedIsKept`, and `ManagedTypesHold`. `ManagedInv`: as long as no two saves have
  overlapped and none has failed since the file was last right (`OneSave`) there is at most
  one, it is of what is managed, and each of its steps leaves the file and `last` with that or
  with nothing; nothing is under way before the app has read the file at its start, and a
  reconciliation that goes on has a value. Any number of reconciliations may overlap, since
  they only read, or save what `last` holds. The property speaks of the time between saves,
  the steps are what carries it over them.

Of the device credential (`DesktopFilesProofs`):

* `CredentialStaysKept`: `CredentialSpec => []CredentialIsKept`, and `CredentialTypesHold`,
  with a registry and without. `CredentialInv`: from the rename of its save on an enrolment is
  in one of the copies, unless one could not be written or the only one was lost
  (`SavedIsThere`), so that it is found wherever a crash falls; the step that a lone call is
  at tells which copies it has written or removed (`SaveFollows`, `ClearFollows`,
  `StartFollows`); and when none is under way and nothing was disturbed, the copies there are
  are those of memory (`Copies`). The property says nothing of the steps in between, where
  copies differ.

Of the time (`DesktopFilesProofs`):

* `TimeStaysKept`: `TimeSpec => []TimeIsKept`, and `TimeTypesHold`. `TimeInv`: an
  offset is fairly counted up to the last date that was counted, wherever it is
  stored; the store's date is the one in use while the app runs and has one; and
  a request that is alone asks the server that is shown. The lemmas
  `FewShortDays` and `DaysCounted` are about `DaysBetween`: without short days it
  is the number of days, and with them never more. An earlier form of the
  property counted from the day the offset was set in the store, and the proof
  did not go through: when the file with the last date is lost, the code begins
  anew and the days before are not counted. The ghost `since` says so now.

Of what the player shows on top and plays (`PlayerProofs`): `NoticesAreAlwaysShown`,
`ReminderSpec => [](ReminderTypeOK /\ NoticesAreShown)`. The queue is sorted by the
numbers of its notices, the notice that is shown has a smaller one, and one
is shown at a time; so a new notice at the end and an interrupted one at the front
keep it sorted, which is what shows that none comes twice or out of order.
And `SoundsStayRight`, `SoundSpec => []SoundsAreRight`: `SoundInv` says that only
the element begun last may sound, that the element of the newest request has no
promise of an earlier one to come (it was taken out of the cache if it had), and
that an element that is kept is cached or waits for a promise. The late answer of
an old `play()` is harmless only because of the second.

Of the timing of the exams (`PlayerProofs`):

* `TasksStayKept`: `ScheduleSpec => []TasksAreKept`, `ScreenAlwaysFollows`:
  `ScheduleSpec => []ScreenFollows`, the action property `NothingIsEarly`:
  `ScheduleSpec => NeverEarly`, and `PlayerTypesHold`, for any valid configurations,
  corrections of the clock and lengths of timers, and both kinds of provider: a queue
  that reads NaN has no pending task. `ScheduleInv` is a predicate on
  the record that the helpers pass on, and holds between them. The index was right
  at some time c (`Follows`), so that every exam before it has ended
  (`PastHasEnded`); and where the queue reads the time, every begin and end of an exam
  after c has a task that is pending (`Covers`): so as long as no task is due the exam that was
  right at c is right now. Every pending task has one timer, which fires no later than the task
  is due (`Timed`). The start of the queue, which executes what is due and sets a
  timer for the rest, keeps this at every task it gets to: an induction over
  its loop, as the absence of a least task at which it fails. Where the index is
  set anew, by a task or by a look every half minute, c becomes the clock of that
  moment; where it is not, the time up to the next begin or end changes nothing
  (`Target` is the same). `OnceEach` rests on the gate alone: it accepts a
  reminder once between two configurations.
* Two things came out of these proofs. A valid configuration may have no exams,
  and then the index is that of an older one while there is no exam to show
  (`HasExam`), and an alert may be longer than its exam; an earlier form of
  `ScheduleAssumption` excluded both. And the step of `updateCurrentExam` past an
  exam that has ended (`ExamPlayerCore.ts:219-226`) never changes the outcome,
  since the exam in progress, or the next one, is always a later one (`UpdateIs`).

Of player sessions, the HTTP API and the editor (`DesktopPartsProofs`):

* `SessionsAgree`: `PlayerSpec => []SessionsMatchWindows`. An action is composed of
  several helpers of the service, so the invariant (`PlayerInv`) is a predicate on
  the record they pass on, and holds between them: a call that still prepares has
  no window; the window that is open is the active session's, and either its call
  waits or the renderer has settled without a report; what a renderer was told,
  shows or may still be told is of its own session or was shared by others.
* `ApiServesAsAsked`: `HttpSpec => []ServesAsAsked`. `HttpInv` has the stage of each
  operation tell which server and which WebSocket server it waits for; while
  they do not overlap only the last can be under way, and `RoutesFollow` says
  that routes other than the registered ones are answered only by a server
  that an operation under way is about to end.
* `WorkIsAlwaysKept`: `EditorSpec => []WorkIsKept`. `EditorInv`: edits that no file
  has are marked or the mark was taken away by an overtaken answer, what is being
  written has a path and is a configuration, and the entry of the history is
  what is shown, or a timer or an unrecorded change explains the difference.

Of the plugins of the main process (`PluginHostProofs`): `HostIsAlwaysTrue`,
`HostSpec => []HostIsTrue`, and `HostTypesHold`, for any number of plugins, whatever
they depend on, and any number of calls that overlap. `HostIsTrue` only speaks of
plugins that nobody works on; `HostInv` says where a plugin stands while a call
works on it, which is what that rests on:

* `InPhase` ties the step a task is at to its plugin: while the preference is being
  saved status and runs agree, while the main entry is imported nothing runs,
  while it is activated only the task's run does, while a cleanup is awaited only
  the run that stops does. Of the plugins of an uninstallation, the ones that are not
  its turn are at rest.
* `Calm` claims this only for plugins that are not `disturbed`: by two calls that
  overlap, an enabling while active, a cleanup or a preference that failed. For
  those an old record or a second run is what really happens.
* What remains true of all plugins, disturbed or not, is what keeps stopped code
  from being offered (`Offered`: the provider is a run that is alive and has
  provided), and that two tasks never hold the same run (`Owned`), so that one
  cannot end what another waits for; indices of records, groups and runs stay in
  their bounds (`InBounds`, `Refers`).

The host's functions call each other (a reload unloads and loads, an uninstallation
unloads several), so the proof follows them: a step takes plugins in hand (`Held`,
which is `HostInv` but for those plugins), every helper keeps that (one lemma
each), and letting go restores `HostInv` (`Released`, `EndKeeps`).

`DependentsAlwaysStopFirst`, `HostSpec => DependentsStopFirst`, the action property of
the order in which an uninstallation takes plugins, rests on `HostInv` and on
`TasksInOrder`: a call that is over works on nothing, and an uninstallation that
unloads a plugin has none left to unload that this one needs.

* Every step is one of a single task (`EachSteps`): by one lemma per helper (`Moves`)
  it changes no other task and no plugin that another task works on, unless that
  plugin is disturbed. So a service of an undisturbed plugin of an uninstallation can
  only be withdrawn by the uninstallation, and only where it unloads a plugin
  (`UnloadNext`) or goes on after a cleanup (`Disposed`).
* The next plugin it takes is one that nobody left needs. A plugin it works on that
  needs this one has therefore had its turn, and what `HostInv` says of a plugin that
  waits (`Waits`) is that after its turn nothing of it runs (`Emptied`).
* That there always is such a plugin is `PluginAssumption`: what plugins need is not
  circular (cycles, which `graph.ts` finds and reports apart, are not modelled).

Of the plugins of a window (`DesktopPluginsProofs`): `RunsWhatIsAlwaysActive`,
`RendererSpec => []RunsWhatIsActive`. The invariant has two independent halves:
`SyncInv` says what the loops of a synchronisation have left to do, and that it
works on the list there is unless another is pending; `NewsInv` that the last
payload on its way, or the list if there is none, is the truth. `RendererTypesHold`
has the types.

Of the endpoints of JSON-RPC (`DesktopPluginsProofs`): `NobodyElseAnswers`,
`RpcSpec => AnsweredByItsHandler`, the action property in `CallsSettleRightly`. A
call is in one place (`InOnePlace`): in its window's queue to the server, with its
handler, or in the queue of answers, and what is in any of them is of a client of
that window that there has been. So an answer at the head of a window's queue can only
come from a handler that ran for that window, for the client that listens or for an
earlier one, although the server's own table of running requests confuses equal ids.
`RpcTypesHold` adds that what travels or runs has an id that its client gave. The bound
on requests is one on all clients together, and that no client exceeds it is a fact
about the number of requests there are (`Asked`), not about any one step.

Of installations (`DesktopPluginsProofs`): `UnpacksVerified`,
`DownloadSpec => []UnpacksWhatItVerified`, and `DownloadsAreAwaited`. A file of the
cache is only changed by a download, a renaming or a removal, each of which
belongs to an installation at work on that tarball (`DownloadIsAwaited`), and two
at work on one are known (`SharedIsKnown`); so nobody changes what an
installation that works alone has verified. `DownloadTypesHold` has the types and the
limit of the pool: no more than `Concurrency` downloads have their turn. The code
only compares and changes a counter, so the invariant (`TurnsAreCounted`) is that the
counter is the number of downloads that have their turn, also when one ends and
the first that waits takes its turn over.

Of the composed modules: `FilesTypesHold` (`FilesSpec => []FilesTypeOK`,
`DesktopFilesProofs`) and two `PartsTypesHold` (`PartsSpec => []PartsTypeOK`, in
`DesktopPluginsProofs` for `MCDesktopParts` and in `DeviceLinkProofs` for `MCServiceParts`), the
type invariants that those runs check. A composed module steps one of its parts,
so a behaviour of it is one of each part (`OneOfEachPart`), and the theorems about the
parts, here those about their types, hold of it. The proof modules extend the
composed modules for this.

The proofs use the assumptions on the constants and nothing else:
`DeliveryAssumption` (commands are natural numbers in their order of issue, the
other sets are subsets of them, the bounds are numbers), `LifecycleAssumption`
(a request is not a device, there is a device, the bounds are numbers), and
those of the desktop's modules (`SettingsAssumption`, `PreferenceAssumption`,
`ManagedAssumption`, `TimeAssumption`, `LinkAssumption`, `PolicyAssumption`
(nodes and policies are finitely many, ids differ, and every node's parent at
first is there and on a lower level, which the foreign key and the lack of an
operation that moves a node ensure), `PlayerAssumption`, `ScheduleAssumption`
(an exam ends after it begins, two do not overlap), `EditorAssumption`,
`RpcAssumption` and so on): bounds are numbers, a torn or missing file is no
contents, sets that name special plugins or files are subsets of all, kinds of
sounds are finitely many. The bounds on changes, failures, crashes and
connections play no role in the proofs, and neither does fairness. TLC evaluates
every assumption in a passing run.

Only model-checked:

* every liveness property, since TLAPS has no rules for fairness and `ENABLED`
  that could be used here: `EverythingEnds`, `EverythingSettles`, `ComesOnline`,
  the liveness halves of `ManagedIsKept` and `CallsSettleRightly`, and those of the
  delivery and of exams.

Every safety invariant of a passing run is a theorem; `ReadyIsRenewed` and
`CompletedOnlyAfterExit` are under the hypotheses named above.

## 6. What is not modelled, and what may follow

Not modelled, with the reason for each in `PROJECT.json`: the console, the
renderer's views and the web player (user interfaces), users and sessions (a library
behind single transactions), audit, proctor calls and device errors (independent
records), the schemas of the control protocol, installation scripts, sound packs
and casting (file and network I/O with little state).

Parts of modelled components that are left out: the measurement of the offset in
an NTP exchange and the length of the sync interval; export, presentation and the
list of recent files of the editor (`closeProject` leaves the path as it is, and so
does the model); watchers, defaults and scopes of the service registry; the validation of
configurations and packages; malformed messages and other protocol versions; the
alert that `ExamPlayer.vue:771-781` may present when it is mounted; dimensions of
partitions; creation and expiry of enrolment codes; several settings at once.

What the models take for granted of libraries: the close handshake of `ws` and
the callbacks of `http.Server.close()`; `BrowserWindow.destroy()` emits `closed`
synchronously; a rename replaces a file in one step; messages of one IPC channel
and one socket keep their order; the transactions of the database are
serialised by the locks they take.

What may follow, in this order:

1. An abstract session (one window, one exam) that `PlayerSession` implements, and
   its composition with the activation of `ExamLifecycle`.
2. The service registry with its watchers, composed with `PluginHost`.
