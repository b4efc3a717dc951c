---------------------------- MODULE ExamLifecycle ----------------------------
(***************************************************************************)
(* exam_config.status of ONE exam: who writes it, from what, and when.     *)
(*                                                                         *)
(* Writers: prepareExam, activateExam, stopExam and reconcileDeviceState   *)
(* of control-operations.service.ts, finalizePrepareCommand of             *)
(* control-commands.service.ts (run after every final result and by every  *)
(* get and list), and createVersion, update and remove of                  *)
(* exam-configs.service.ts.  The last three lock the exam's row; the       *)
(* others read the status, await other queries and write without a lock,   *)
(* so each of their awaits is a step boundary here.                        *)
(*                                                                         *)
(* A process is one administrator's request or the message handler of one  *)
(* device's connection.  The delivery of the commands is the business of   *)
(* CommandDelivery: here a device answers a command in one step and the    *)
(* acknowledgements, which leave a row open, are left out.                 *)
(***************************************************************************)
EXTENDS Naturals, Sequences, FiniteSets

CONSTANTS
  Admins,       \* requests that may be under way at a time
  Devices,      \* the devices the exam is deployed to
  OneAtATime,   \* whether a handler starts only when no other is under way
  MaxCommands,  \* bound: commands issued
  MaxPrepares,  \* bound: deployments prepared
  MaxVersions,  \* bound: versions of the exam
  MaxFailures,  \* bound: commands that issue() refuses
  MaxRepeats,   \* bound: final results the agent has to send again
  MaxRestarts,  \* bound: restarts of the desktop app
  MayLapse,     \* bound: whether commands expire within the run
  MaxMishaps    \* bound: refusals, repeats, restarts and expiries together

ASSUME LifecycleAssumption ==
  /\ Admins \cap Devices = {}
  /\ Devices # {}
  /\ OneAtATime \in BOOLEAN
  /\ MaxCommands \in Nat /\ MaxPrepares \in Nat /\ MaxVersions \in Nat
  /\ MaxFailures \in Nat /\ MaxRepeats \in Nat /\ MaxRestarts \in Nat
  /\ MayLapse \in BOOLEAN /\ MaxMishaps \in Nat

Procs == Admins \cup Devices

ExamStatus == {"draft", "preparing", "ready", "active", "completed", "archived"}

\* "none": not a target of the command; "open": pending, delivered, acknowledged.
RowStatus == {"none", "open", "succeeded", "failed", "expired"}

\* ControlService.playerState: what the device says of the player, and about
\* which deployment.  Deployment 0: none, playerState is undefined.
NoPlayer == [status |-> "idle", dep |-> 0]

VARIABLES
  status,    \* exam_config.status; "archived" stands for deletedAt too
  version,   \* exam_config.latestVersion
  commands,  \* the commands about the exam, in the order of issuedAt
  lapsed,    \* those whose expiresAt has passed
  reported,  \* reported[d]: device.lastReportedState.player, in the database
  app,       \* app[d]: the ControlService and the agent of the desktop app
  proc,      \* proc[p]: where a process is and what it has read so far
  spent      \* refusals, repeats and restarts so far, for the bounds

vars == <<status, version, commands, lapsed, reported, app, proc, spent>>

Mishaps == spent.failures + spent.repeats + spent.restarts + Cardinality(lapsed)

exam == <<status, version>>
devices == <<reported, app>>

-----------------------------------------------------------------------------

Ids == 1..Len(commands)
Kind(c) == commands[c].kind
Targets(c) == {d \in Devices : commands[c].row[d] # "none"}
Succeeded(c) == {d \in Devices : commands[c].row[d] = "succeeded"}

Latest(S) == IF S = {} THEN 0 ELSE CHOOSE c \in S : \A e \in S : e <= c
Prepares == {c \in Ids : Kind(c) = "prepare"}
latestPrepareForExam == Latest(Prepares)
latestActivationForDeployment(d) ==
  Latest({c \in Ids : Kind(c) = "activate" /\ commands[c].dep = d})

Idle == [step |-> "idle", next |-> "idle", fin |-> {}, fixing |-> 0, cmd |-> 0,
         of |-> 0, seen |-> "draft", devs |-> {}, state |-> NoPlayer]

Quiet == OneAtATime => \A q \in Procs : proc[q].step = "idle"
MayStart(p) == proc[p].step = "idle" /\ Quiet

At(p, step) == proc[p].step = step
Goto(p, step) == proc' = [proc EXCEPT ![p].step = step]
Done(p) == proc' = [proc EXCEPT ![p] = Idle]

\* setStatus writes unless the exam was deleted.
SetStatus(s) == status' = IF status = "archived" THEN status ELSE s

\* The part of issue() the exam depends on: the command and its target rows.
\* of is the version of the exam that the payload names, 0 when it names none:
\* the devices play that one, the server does not look at it again.
\* asOf is not in the code: it is exam_config.latestVersion when the request that
\* prepared the deployment read the exam, and only properties look at it.
Issued(kind, dep, of, asOf, targets) ==
  Append(commands, [kind |-> kind, dep |-> dep, of |-> of, asOf |-> asOf,
                    row |-> [d \in Devices |-> IF d \in targets THEN "open" ELSE "none"]])

-----------------------------------------------------------------------------
(* get() and list(): expireTargets, then finalizePrepareCommand for every    *)
(* command whose rows just expired and for the command that is read.         *)

\* What a slip would make of it: a read that expires nothing.
BugSweepsNothing == commands

Swept ==
  [c \in Ids |->
     IF c \in lapsed
     THEN [commands[c] EXCEPT !.row =
             [d \in Devices |-> IF @[d] = "open" THEN "expired" ELSE @[d]]]
     ELSE commands[c]]

JustExpired == {c \in Prepares \cap lapsed : \E d \in Devices : commands[c].row[d] = "open"}

\* get(c) on behalf of p, which goes on with step `next`.
Get(p, c, next) ==
  /\ commands' = Swept
  /\ proc' = [proc EXCEPT ![p] =
                [Idle EXCEPT !.step = "finalize", !.fin = JustExpired \cup {c},
                             !.cmd = c, !.next = next]]

\* finalizePrepareCommand returns, and what it read is of no more use.
Finalized(p) ==
  [proc[p] EXCEPT !.step = "finalize", !.fixing = Idle.fixing, !.seen = Idle.seen]

\* finalizePrepareCommand: is this the exam's latest prepare command?
FinalizeLatest(p) ==
  /\ At(p, "finalize")
  /\ \E c \in proc[p].fin :
       proc' = [proc EXCEPT ![p] =
         IF latestPrepareForExam = c
         THEN [proc[p] EXCEPT !.fin = proc[p].fin \ {c}, !.fixing = c, !.step = "finalizeStatus"]
         ELSE [proc[p] EXCEPT !.fin = proc[p].fin \ {c}]]
  /\ UNCHANGED <<commands, lapsed, spent>> /\ UNCHANGED exam /\ UNCHANGED devices

\* Is the exam still being prepared?
FinalizeStatus(p) ==
  /\ At(p, "finalizeStatus")
  /\ proc' = [proc EXCEPT ![p] =
                IF status = "preparing" THEN [@ EXCEPT !.step = "finalizeTargets"]
                ELSE Finalized(p)]
  /\ UNCHANGED <<commands, lapsed, spent>> /\ UNCHANGED exam /\ UNCHANGED devices

\* What a slip would make of it: a status that only the rows have.
BugRowStatus(c) == IF Succeeded(c) # {} THEN "ready" ELSE "failed"

\* What becomes of the exam once the rows of its prepare command are closed.
PreparedStatus(c) == IF Succeeded(c) # {} THEN "ready" ELSE "draft"

\* Are all the rows closed, and did one of the devices succeed?
FinalizeTargets(p) ==
  LET c == proc[p].fixing IN
  /\ At(p, "finalizeTargets")
  /\ proc' = [proc EXCEPT ![p] =
                IF \E d \in Devices : commands[c].row[d] = "open" THEN Finalized(p)
                ELSE [@ EXCEPT !.step = "finalizeMark",
                               !.seen = PreparedStatus(c)]]
  /\ UNCHANGED <<commands, lapsed, spent>> /\ UNCHANGED exam /\ UNCHANGED devices

FinalizeMark(p) ==
  /\ At(p, "finalizeMark")
  /\ SetStatus(proc[p].seen)
  /\ proc' = [proc EXCEPT ![p] = Finalized(p)]
  /\ UNCHANGED <<version, commands, lapsed, spent>> /\ UNCHANGED devices

FinalizeEnd(p) ==
  /\ At(p, "finalize")
  /\ proc[p].fin = {}
  /\ IF proc[p].next = "idle" THEN Done(p) ELSE Goto(p, proc[p].next)
  /\ UNCHANGED <<commands, lapsed, spent>> /\ UNCHANGED exam /\ UNCHANGED devices

Finalize(p) ==
  \/ FinalizeLatest(p) \/ FinalizeStatus(p) \/ FinalizeTargets(p)
  \/ FinalizeMark(p) \/ FinalizeEnd(p)

\* The exam page polls the deployment it shows.
Read(p, c) ==
  /\ MayStart(p)
  /\ c \in Prepares
  /\ Get(p, c, "idle")
  /\ UNCHANGED <<lapsed, spent>> /\ UNCHANGED exam /\ UNCHANGED devices

\* The server's clock passes a command's expiresAt.
Lapse(c) ==
  /\ MayLapse /\ Mishaps < MaxMishaps
  /\ c \in Ids \ lapsed
  /\ lapsed' = lapsed \cup {c}
  /\ UNCHANGED <<commands, proc, spent>> /\ UNCHANGED exam /\ UNCHANGED devices

-----------------------------------------------------------------------------
(* prepareExam.                                                              *)

\* The bounds leave room for the commands of the requests under way.
RoomForCommand ==
  Len(commands) + Cardinality({p \in Admins : proc[p].step # "idle"}) < MaxCommands
RoomForPrepare ==
  Cardinality(Prepares)
    + Cardinality({p \in Admins : proc[p].step \in {"prepareMark", "prepareIssue"}})
  < MaxPrepares

\* The exam and the version the request names are read; both must exist. The
\* console names the latest version its page knows, which others may have followed.
PrepareRead(p) ==
  /\ MayStart(p)
  /\ RoomForCommand /\ RoomForPrepare
  /\ status # "archived"
  /\ \E of \in 1..version :
       proc' = [proc EXCEPT ![p] =
                  [Idle EXCEPT !.step = "prepareMark", !.seen = status, !.cmd = version,
                               !.of = of]]
  /\ UNCHANGED <<commands, lapsed, spent>> /\ UNCHANGED exam /\ UNCHANGED devices

PrepareMark(p) ==
  /\ At(p, "prepareMark")
  /\ SetStatus("preparing")
  /\ Goto(p, "prepareIssue")
  /\ UNCHANGED <<version, commands, lapsed, spent>> /\ UNCHANGED devices

\* issue() has committed the command; it may still throw while it delivers it.
IssueReturns(p, onReturn, onThrow) ==
  \/ proc' = [proc EXCEPT ![p] = onReturn] /\ UNCHANGED spent
  \/ /\ spent.failures < MaxFailures /\ Mishaps < MaxMishaps
     /\ spent' = [spent EXCEPT !.failures = @ + 1]
     /\ proc' = [proc EXCEPT ![p] = onThrow]

PrepareIssue(p) ==
  /\ At(p, "prepareIssue")
  /\ \E targets \in SUBSET Devices \ {{}} :
       commands' = Issued("prepare", Len(commands) + 1, proc[p].of, proc[p].cmd, targets)
  /\ IssueReturns(p, Idle, [proc[p] EXCEPT !.step = "prepareRestore"])
  /\ UNCHANGED lapsed /\ UNCHANGED exam /\ UNCHANGED devices

\* issue() refuses the command: a target was revoked, or cannot execute it.
PrepareRefused(p) ==
  /\ At(p, "prepareIssue")
  /\ spent.failures < MaxFailures /\ Mishaps < MaxMishaps
  /\ spent' = [spent EXCEPT !.failures = @ + 1]
  /\ Goto(p, "prepareRestore")
  /\ UNCHANGED <<commands, lapsed>> /\ UNCHANGED exam /\ UNCHANGED devices

\* What a slip would make of it: the exam is left ready.
BugRestoresReady(p) == "ready"

\* The status read at the beginning is put back.
RestoredStatus(p) == proc[p].seen

PrepareRestore(p) ==
  /\ At(p, "prepareRestore")
  /\ SetStatus(RestoredStatus(p))
  /\ Done(p)
  /\ UNCHANGED <<version, commands, lapsed, spent>> /\ UNCHANGED devices

-----------------------------------------------------------------------------
(* activateExam and stopExam.                                                *)

ActivateStart(p, d) ==
  /\ MayStart(p)
  /\ RoomForCommand
  /\ d \in Prepares
  /\ Get(p, d, "activateRead")
  /\ UNCHANGED <<lapsed, spent>> /\ UNCHANGED exam /\ UNCHANGED devices

MayActivate == status = "ready"

ActivateRead(p) ==
  /\ At(p, "activateRead")
  /\ IF MayActivate THEN Goto(p, "activateTargets") ELSE Done(p)
  /\ UNCHANGED <<commands, lapsed, spent>> /\ UNCHANGED exam /\ UNCHANGED devices

\* What a slip would make of it: every target of the deployment.
BugActivatesEveryTarget(c) == Targets(c)

\* successfulDeviceIds of the deployment that is to be activated.
PreparedDevices(c) == Succeeded(c)

ActivateTargets(p) ==
  LET devs == PreparedDevices(proc[p].cmd) IN
  /\ At(p, "activateTargets")
  /\ IF devs = {} THEN Done(p)
     ELSE proc' = [proc EXCEPT ![p].step = "activateIssue", ![p].devs = devs]
  /\ UNCHANGED <<commands, lapsed, spent>> /\ UNCHANGED exam /\ UNCHANGED devices

ActivateIssue(p) ==
  /\ At(p, "activateIssue")
  /\ commands' = Issued("activate", proc[p].cmd, commands[proc[p].cmd].of,
                        commands[proc[p].cmd].asOf, proc[p].devs)
  /\ IssueReturns(p, [proc[p] EXCEPT !.step = "activateMark"], Idle)
  /\ UNCHANGED lapsed /\ UNCHANGED exam /\ UNCHANGED devices

ActivateMark(p) ==
  /\ At(p, "activateMark")
  /\ SetStatus("active")
  /\ Done(p)
  /\ UNCHANGED <<version, commands, lapsed, spent>> /\ UNCHANGED devices

\* A deployment may be stopped whatever the exam's status is.
StopStart(p, d) ==
  /\ MayStart(p)
  /\ RoomForCommand
  /\ d \in Prepares
  /\ Get(p, d, "stopIssue")
  /\ UNCHANGED <<lapsed, spent>> /\ UNCHANGED exam /\ UNCHANGED devices

StopIssue(p) ==
  /\ At(p, "stopIssue")
  /\ commands' = Issued("stop", proc[p].cmd, 0, commands[proc[p].cmd].asOf,
                        Targets(proc[p].cmd))
  /\ IssueReturns(p, [proc[p] EXCEPT !.step = "stopMark"], Idle)
  /\ UNCHANGED lapsed /\ UNCHANGED exam /\ UNCHANGED devices

StopMark(p) ==
  /\ At(p, "stopMark")
  /\ SetStatus("completed")
  /\ Done(p)
  /\ UNCHANGED <<version, commands, lapsed, spent>> /\ UNCHANGED devices

\* issue() refuses the activation or the stop, and the request ends there.
IssueRefused(p) ==
  /\ At(p, "activateIssue") \/ At(p, "stopIssue")
  /\ spent.failures < MaxFailures /\ Mishaps < MaxMishaps
  /\ spent' = [spent EXCEPT !.failures = @ + 1]
  /\ Done(p)
  /\ UNCHANGED <<commands, lapsed>> /\ UNCHANGED exam /\ UNCHANGED devices

-----------------------------------------------------------------------------
(* The transactions of exam-configs.service.ts, which lock the exam's row.   *)

InProgress == status \in {"preparing", "active"}

\* What a slip would make of it: a ready exam stays ready.
BugKeepsStatus == status

\* An exam with a new version has to be prepared again.
NewVersionStatus == "draft"

\* Of a deleted exam too: lockById does not look at deletedAt, update() does.
createVersion ==
  /\ Quiet
  /\ version < MaxVersions
  /\ ~InProgress
  /\ version' = version + 1
  /\ SetStatus(NewVersionStatus)
  /\ UNCHANGED <<commands, lapsed, proc, spent>> /\ UNCHANGED devices

\* update() with another assignment of devices.
updateTargets ==
  /\ Quiet
  /\ ~InProgress
  /\ status \notin {"draft", "archived"}
  /\ status' = "draft"
  /\ UNCHANGED <<version, commands, lapsed, proc, spent>> /\ UNCHANGED devices

remove ==
  /\ Quiet
  /\ ~InProgress
  /\ status # "archived"
  /\ status' = "archived"
  /\ UNCHANGED <<version, commands, lapsed, proc, spent>> /\ UNCHANGED devices

-----------------------------------------------------------------------------
(* The desktop app.                                                          *)

Started == [session |-> 0, prepared |-> {}, player |-> NoPlayer,
            running |-> {}, unaccepted |-> {}]

Open(d, c) == commands[c].row[d] = "open"

\* The listener of ControlService when the session of dep is closed.
Closed(d, dep) ==
  [app[d] EXCEPT !.session = 0,
                 !.prepared = @ \ {dep},
                 !.player = [status |-> "idle", dep |-> dep]]

\* The agent receives a command that has not expired and calls its handler.
\* start() of an activation closes the session that is on first; a second
\* activation while one is starting is the business of PlayerSessionService.
BeginCommand(d, c) ==
  /\ c \in Ids \ lapsed
  /\ Open(d, c)
  /\ c \notin app[d].running
  /\ Kind(c) = "activate" => /\ commands[c].dep \in app[d].prepared
                             /\ \A e \in app[d].running : Kind(e) # "activate"
  /\ LET now == IF Kind(c) = "activate" /\ app[d].session # 0
                THEN Closed(d, app[d].session) ELSE app[d]
     IN app' = [app EXCEPT ![d] = [now EXCEPT !.running = @ \cup {c}]]
  /\ UNCHANGED <<commands, lapsed, reported, proc, spent>> /\ UNCHANGED exam

\* What prepareDeployment, activateDeployment and stopDeployment leave behind.
Executed(d, c) ==
  LET dep == commands[c].dep IN
  CASE Kind(c) = "prepare" ->
         [app[d] EXCEPT !.prepared = @ \cup {dep},
                        !.player = [status |-> "ready", dep |-> dep]]
    [] Kind(c) = "activate" ->
         [app[d] EXCEPT !.session = dep,
                        !.player = [status |-> "playing", dep |-> dep]]
    [] Kind(c) = "stop" ->
         [app[d] EXCEPT !.session = IF @ = dep THEN 0 ELSE @,
                        !.prepared = @ \ {dep},
                        !.player = [status |-> "idle", dep |-> dep]]

\* A download that fails changes nothing; a start that fails is reported by
\* the session's listener; a command may also fail before its handler runs.
FailedToExecute(d, c) ==
  IF Kind(c) = "activate" /\ c \in app[d].running
  THEN [app[d] EXCEPT !.player = [status |-> "error", dep |-> commands[c].dep]]
  ELSE app[d]

\* recordResult and the rest of handleCommandResult, up to the finalization.
\* A row that is closed accepts the same status again and nothing else.
RecordResult(d, c, st, state) ==
  LET accepted == (Open(d, c) /\ c \notin lapsed) \/ commands[c].row[d] = st
      go == [Idle EXCEPT !.step = "finalize", !.fin = {c} \cap Prepares, !.state = state]
  IN /\ commands' = IF Open(d, c)
                    THEN [commands EXCEPT ![c].row[d] = IF c \in lapsed THEN "expired" ELSE st]
                    ELSE commands
     /\ proc' = [proc EXCEPT ![d] =
                   IF accepted THEN [go EXCEPT !.next = "recordState"]
                   ELSE IF Open(d, c) THEN go ELSE @]

\* The handler is done and the server records what the device answers; the
\* acceptance of the answer may get lost, and the agent then keeps the answer.
AnswerCommand(d, c, st) ==
  /\ MayStart(d)
  /\ c \in app[d].running \/ (Open(d, c) /\ st = "failed")
  /\ st = "failed" /\ c \in app[d].running => Kind(c) # "stop"
  /\ LET done == IF st = "succeeded" THEN Executed(d, c) ELSE FailedToExecute(d, c)
         result == [cmd |-> c, st |-> st, state |-> done.player]
     IN /\ RecordResult(d, c, st, done.player)
        /\ \/ /\ app' = [app EXCEPT ![d] = [done EXCEPT !.running = @ \ {c}]]
              /\ UNCHANGED spent
           \/ /\ spent.repeats < MaxRepeats /\ Mishaps < MaxMishaps
              /\ spent' = [spent EXCEPT !.repeats = @ + 1]
              /\ app' = [app EXCEPT ![d] = [done EXCEPT !.running = @ \ {c},
                                                       !.unaccepted = @ \cup {result}]]
  /\ UNCHANGED <<lapsed, reported>> /\ UNCHANGED exam

\* After a reconnection the result is sent again, with the state it had then.
RepeatResult(d) ==
  /\ MayStart(d)
  /\ \E r \in app[d].unaccepted :
       /\ RecordResult(d, r.cmd, r.st, r.state)
       /\ app' = [app EXCEPT ![d].unaccepted = @ \ {r}]
  /\ UNCHANGED <<lapsed, reported, spent>> /\ UNCHANGED exam

\* recordHeartbeat of the state a result came with.
RecordState(d) ==
  /\ At(d, "recordState")
  /\ reported' = [reported EXCEPT ![d] = proc[d].state]
  /\ Done(d)
  /\ UNCHANGED <<commands, lapsed, app, spent>> /\ UNCHANGED exam

\* deliverPending finds that the device can no longer execute the command.
CapabilityRejected(d, c) ==
  /\ MayStart(d)
  /\ c \in Ids \ lapsed
  /\ Open(d, c)
  /\ spent.failures < MaxFailures /\ Mishaps < MaxMishaps
  /\ spent' = [spent EXCEPT !.failures = @ + 1]
  /\ commands' = [commands EXCEPT ![c].row[d] = "failed"]
  /\ proc' = [proc EXCEPT ![d] = [Idle EXCEPT !.step = "finalize", !.fin = {c} \cap Prepares]]
  /\ UNCHANGED lapsed /\ UNCHANGED exam /\ UNCHANGED devices

\* The player's window is closed: the session listener of ControlService.
PlayerExits(d) ==
  /\ app[d].session # 0
  /\ app' = [app EXCEPT ![d] = Closed(d, app[d].session)]
  /\ UNCHANGED <<commands, lapsed, reported, proc, spent>> /\ UNCHANGED exam

\* ControlService keeps nothing of this on disk.
Restart(d) ==
  /\ spent.restarts < MaxRestarts /\ Mishaps < MaxMishaps
  /\ spent' = [spent EXCEPT !.restarts = @ + 1]
  /\ app' = [app EXCEPT ![d] = Started]
  /\ UNCHANGED <<commands, lapsed, reported, proc>> /\ UNCHANGED exam

-----------------------------------------------------------------------------
(* A heartbeat, and reconcileDeviceState of the state it carries.            *)

Heartbeat(d) ==
  /\ MayStart(d)
  /\ reported' = [reported EXCEPT ![d] = app[d].player]
  /\ IF app[d].player.status = "idle" /\ app[d].player.dep # 0
     THEN proc' = [proc EXCEPT ![d] =
                     [Idle EXCEPT !.step = "reconcileGet", !.cmd = app[d].player.dep]]
     ELSE UNCHANGED proc
  /\ UNCHANGED <<commands, lapsed, app, spent>> /\ UNCHANGED exam

ReconcileGet(d) ==
  /\ At(d, "reconcileGet")
  /\ Get(d, proc[d].cmd, "reconcileRead")
  /\ UNCHANGED <<lapsed, spent>> /\ UNCHANGED exam /\ UNCHANGED devices

\* The exam and its latest prepare command are read together.
ReconcileRead(d) ==
  /\ At(d, "reconcileRead")
  /\ IF status = "active" /\ latestPrepareForExam = proc[d].cmd
     THEN Goto(d, "reconcileActivation")
     ELSE Done(d)
  /\ UNCHANGED <<commands, lapsed, spent>> /\ UNCHANGED exam /\ UNCHANGED devices

ReconcileActivation(d) ==
  LET activation == latestActivationForDeployment(proc[d].cmd) IN
  /\ At(d, "reconcileActivation")
  /\ IF activation = 0 THEN Done(d)
     ELSE proc' = [proc EXCEPT ![d].step = "reconcileTargets", ![d].fixing = activation]
  /\ UNCHANGED <<commands, lapsed, spent>> /\ UNCHANGED exam /\ UNCHANGED devices

ReconcileTargets(d) ==
  LET devs == Succeeded(proc[d].fixing) IN
  /\ At(d, "reconcileTargets")
  /\ IF devs = {} THEN Done(d)
     ELSE proc' = [proc EXCEPT ![d].step = "reconcileDevices", ![d].devs = devs]
  /\ UNCHANGED <<commands, lapsed, spent>> /\ UNCHANGED exam /\ UNCHANGED devices

\* What a slip would make of it: one device is enough.
BugAnyExited(devs, dep) == \E d \in devs : reported[d] = [status |-> "idle", dep |-> dep]

\* What a slip would make of it: the devices have to be ready.
BugWaitsForReady(devs, dep) == \A d \in devs : reported[d] = [status |-> "ready", dep |-> dep]

\* allActivatedDevicesExited: each of them says that it is idle for the deployment.
AllExited(devs, dep) == \A d \in devs : reported[d] = [status |-> "idle", dep |-> dep]

ReconcileDevices(d) ==
  /\ At(d, "reconcileDevices")
  /\ IF AllExited(proc[d].devs, proc[d].cmd) THEN Goto(d, "reconcileMark") ELSE Done(d)
  /\ UNCHANGED <<commands, lapsed, spent>> /\ UNCHANGED exam /\ UNCHANGED devices

ReconcileMark(d) ==
  /\ At(d, "reconcileMark")
  /\ SetStatus("completed")
  /\ Done(d)
  /\ UNCHANGED <<version, commands, lapsed, spent>> /\ UNCHANGED devices

Reconcile(d) ==
  \/ ReconcileGet(d) \/ ReconcileRead(d) \/ ReconcileActivation(d)
  \/ ReconcileTargets(d) \/ ReconcileDevices(d) \/ ReconcileMark(d)

-----------------------------------------------------------------------------

Init ==
  /\ status = "draft"
  /\ version = 1
  /\ commands = <<>>
  /\ lapsed = {}
  /\ reported = [d \in Devices |-> NoPlayer]
  /\ app = [d \in Devices |-> Started]
  /\ proc = [p \in Procs |-> Idle]
  /\ spent = [failures |-> 0, repeats |-> 0, restarts |-> 0]

\* A request that is under way goes on.
Request(p) ==
  \/ PrepareMark(p) \/ PrepareIssue(p) \/ PrepareRefused(p) \/ PrepareRestore(p)
  \/ ActivateRead(p) \/ ActivateTargets(p) \/ ActivateIssue(p) \/ ActivateMark(p)
  \/ StopIssue(p) \/ StopMark(p) \/ IssueRefused(p)

Handler(p) ==
  \/ Finalize(p)
  \/ p \in Admins /\ Request(p)
  \/ p \in Devices /\ (RecordState(p) \/ Reconcile(p))

Next ==
  \/ \E p \in Procs : Handler(p)
  \/ \E p \in Admins : PrepareRead(p)
  \/ \E p \in Admins, c \in Ids : Read(p, c) \/ ActivateStart(p, c) \/ StopStart(p, c)
  \/ createVersion \/ updateTargets \/ remove
  \/ \E c \in Ids : Lapse(c)
  \/ \E d \in Devices, c \in Ids :
       \/ BeginCommand(d, c)
       \/ \E st \in {"succeeded", "failed"} : AnswerCommand(d, c, st)
       \/ CapabilityRejected(d, c)
  \/ \E d \in Devices : RepeatResult(d) \/ PlayerExits(d) \/ Restart(d) \/ Heartbeat(d)

Spec == Init /\ [][Next]_vars

\* A handler that was started goes on, the console reads the deployment it
\* shows every second until it is terminal, devices send heartbeats and time
\* passes.  Nobody has to start a request, and no device has to answer.
Poll(p) ==
  /\ latestPrepareForExam # 0
  /\ \E d \in Devices : Open(d, latestPrepareForExam)
  /\ Read(p, latestPrepareForExam)

Fairness ==
  /\ \A p \in Procs : WF_vars(Handler(p))
  /\ \A p \in Admins : WF_vars(Poll(p))
  /\ \A d \in Devices : WF_vars(Heartbeat(d))
  /\ WF_vars(\E c \in Ids : Lapse(c))

LiveSpec == Spec /\ Fairness

-----------------------------------------------------------------------------
(* Properties.                                                               *)

Steps == {"idle", "finalize", "finalizeStatus", "finalizeTargets", "finalizeMark",
          "prepareMark", "prepareIssue", "prepareRestore",
          "activateRead", "activateTargets", "activateIssue", "activateMark",
          "stopIssue", "stopMark", "recordState",
          "reconcileGet", "reconcileRead", "reconcileActivation", "reconcileTargets",
          "reconcileDevices", "reconcileMark"}

PlayerState == [status : {"idle", "ready", "playing", "error"}, dep : Nat]

\* Every variable keeps its type: rows hold statuses of a command's target, an
\* open row is never reopened under another name, and a process refers to
\* commands that were issued.
TypeOK ==
  /\ status \in ExamStatus
  /\ version \in 1..MaxVersions \cup {1}
  /\ commands \in Seq([kind : {"prepare", "activate", "stop"}, dep : Nat \ {0},
                        of : Nat, asOf : Nat \ {0}, row : [Devices -> RowStatus]])
  /\ lapsed \subseteq Ids
  /\ reported \in [Devices -> PlayerState]
  /\ app \in [Devices -> [session : Nat, prepared : SUBSET Prepares, player : PlayerState,
                          running : SUBSET Ids,
                          unaccepted : SUBSET [cmd : Ids, st : {"succeeded", "failed"},
                                               state : PlayerState]]]
  /\ proc \in [Procs -> [step : Steps, next : Steps, fin : SUBSET Ids, fixing : Nat,
                         cmd : Nat, of : Nat, seen : ExamStatus, devs : SUBSET Devices,
                         state : PlayerState]]
  /\ spent \in [failures : Nat, repeats : Nat, restarts : Nat]

\* An exam is ready, and can become active, only while some deployment of it
\* was prepared by a device: neither a rejected capability, nor an expiry, nor
\* the status a refused prepare request puts back makes an exam ready.
ReadyIsPrepared ==
  status \in {"ready", "active"} => \E c \in Prepares : Succeeded(c) # {}

\* Whatever interleaves, a device is told to play, and plays, only what it had
\* prepared: an activation's targets had succeeded in the deployment it names,
\* and the session on a device is of a deployment the device is a target of.
PlaysOnlyPrepared ==
  /\ \A c \in Ids : Kind(c) = "activate" => Targets(c) \subseteq Succeeded(commands[c].dep)
  /\ \A d \in Devices :
       app[d].session # 0 => d \in Succeeded(app[d].session)

\* activateExam refuses a deployment that was stopped ("Exam must be prepared
\* again before activation"): no activation follows a stop of its deployment.
NeverReactivated ==
  \A s, a \in Ids : s < a /\ Kind(s) = "stop" /\ Kind(a) = "activate"
                  => commands[s].dep # commands[a].dep

\* A new version takes back what was ready: while an exam is ready or active, a
\* device has succeeded in a deployment that was asked for since the exam has had
\* its current version. No late result, expiry or refused request of a deployment
\* asked for before that makes the exam ready again.
ReadyIsRenewed ==
  status \in {"ready", "active"} =>
    \E c \in Prepares : commands[c].asOf = version /\ Succeeded(c) # {}

\* reconcileDeviceState completes an exam only after every activated client
\* exits: none of the devices that reported a successful activation of the
\* deployment plays it at that moment.
CompletedOnlyAfterExit ==
  [][\A d \in Devices :
       proc[d].step = "reconcileMark" /\ proc'[d].step = "idle" =>
         \A e \in Succeeded(latestActivationForDeployment(proc[d].cmd)) :
           app[e].session # proc[d].cmd]_vars

\* An exam does not stay in preparation: devices that never answer let the
\* command expire, and reading it then ends the preparation.
PreparationEnds == status = "preparing" ~> status # "preparing"

\* Once the devices that activated the latest deployment have all exited it
\* and say so, the exam does not stay active.
EveryoneExited ==
  LET dep == latestPrepareForExam
      activation == latestActivationForDeployment(dep)
  IN /\ dep # 0 /\ activation # 0
     /\ Succeeded(activation) # {}
     /\ \A d \in Succeeded(activation) : app[d].player = [status |-> "idle", dep |-> dep]

ExitCompletes == (status = "active" /\ EveryoneExited) ~> (status # "active" \/ ~EveryoneExited)

=============================================================================
