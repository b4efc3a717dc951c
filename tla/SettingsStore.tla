---------------------------- MODULE SettingsStore ----------------------------
(***************************************************************************)
(* The configuration store of the desktop app (configStore.ts) and the way *)
(* the app quits (shutdownCoordinator.ts, the before-quit handler of       *)
(* index.ts). The contents of the store are the number of changes they     *)
(* contain: contents n include changes 1 to n, and 0 is the empty object.  *)
(*                                                                         *)
(* config.json is written in place, so that it is torn between the opening *)
(* of the file, which truncates it, and the end of the write.              *)
(***************************************************************************)
EXTENDS Naturals

CONSTANTS Torn,          \* a file that does not parse
          MaxChanges,    \* bound: changes of the settings
          MaxFailures,   \* bound: writes that fail
          MaxCrashes     \* bound: ends of the process without a quit

ASSUME SettingsAssumption ==
    /\ Torn \notin Nat
    /\ MaxChanges \in Nat /\ MaxFailures \in Nat /\ MaxCrashes \in Nat

VARIABLES
    cache,       \* the settings in memory
    dirty,       \* they have changed since the last snapshot was taken
    writeTimer,  \* a write is scheduled
    writer,      \* the write under way: its step and its snapshot
    configFile,  \* config.json
    quit,        \* "no", "flushing", "leaving" or "gone"
    flushed,     \* ghost: the settings there were when the flush began
    excuse,      \* ghost: a write has failed since the last one that ended
    changes, failures, crashes

settingsVars == <<cache, dirty, writeTimer, writer, configFile, quit, flushed, excuse,
                  changes, failures, crashes>>

NotWriting == [pc |-> "none", snapshot |-> 0]
Running == quit \in {"no", "flushing", "leaving"}

BugEnsureLoaded == configFile

\* What a start reads: nothing, when the file does not parse.
ensureLoaded == IF configFile = Torn THEN 0 ELSE configFile

\* startWrite, from its first line to its first await: the snapshot is taken,
\* and what changes from then on is dirty again.
startWrite(dirtyNow) ==
    IF writer.pc = "none" /\ dirtyNow
    THEN /\ writer' = [pc |-> "opening", snapshot |-> cache]
         /\ dirty' = FALSE
    ELSE UNCHANGED <<writer, dirty>>

-----------------------------------------------------------------------------
\* setConfig and patchConfig, from any window, plugin or service
setConfig ==
    /\ Running /\ changes < MaxChanges
    /\ changes' = changes + 1
    /\ cache' = cache + 1 /\ dirty' = TRUE
    /\ writeTimer' = TRUE
    /\ UNCHANGED <<writer, configFile, quit, flushed, excuse, failures, crashes>>

\* The write scheduled 100 ms after the last change begins, unless one is under
\* way: that one goes on until nothing is dirty.
WriteTimer ==
    /\ Running /\ writeTimer
    /\ writeTimer' = FALSE
    /\ startWrite(dirty)
    /\ UNCHANGED <<cache, configFile, quit, flushed, excuse, changes, failures, crashes>>

\* The file is opened and truncated.
OpenFile ==
    /\ Running /\ writer.pc = "opening"
    /\ writer' = [writer EXCEPT !.pc = "writing"]
    /\ configFile' = Torn
    /\ UNCHANGED <<cache, dirty, writeTimer, quit, flushed, excuse, changes, failures, crashes>>

\* What is awaiting the write goes on once nothing is left to write.
WriteSettled == quit' = IF quit = "flushing" THEN "leaving" ELSE quit

BugFileWritten ==
    /\ Running /\ writer.pc = "writing"
    /\ configFile' = writer.snapshot
    /\ writer' = NotWriting /\ dirty' = FALSE /\ excuse' = FALSE /\ WriteSettled
    /\ UNCHANGED <<cache, writeTimer, flushed, changes, failures, crashes>>

\* The write ends; what changed meanwhile is written next.
FileWritten ==
    /\ Running /\ writer.pc = "writing"
    /\ configFile' = writer.snapshot
    /\ excuse' = FALSE
    /\ dirty' = FALSE
    /\ IF dirty THEN writer' = [pc |-> "opening", snapshot |-> cache] /\ UNCHANGED quit
       ELSE writer' = NotWriting /\ WriteSettled
    /\ UNCHANGED <<cache, writeTimer, flushed, changes, failures, crashes>>

\* The directory, the opening or the write fails. A scheduled write is called
\* off: the next change or the flush will try again.
WriteFails ==
    /\ Running /\ writer.pc # "none" /\ failures < MaxFailures
    /\ failures' = failures + 1
    /\ dirty' = TRUE /\ writeTimer' = FALSE
    /\ writer' = NotWriting /\ WriteSettled
    /\ excuse' = TRUE
    /\ UNCHANGED <<cache, configFile, flushed, changes, crashes>>

-----------------------------------------------------------------------------
(* Quitting                                                                *)

\* before-quit, unless a control policy forbids it: the services are told to
\* stop, and the settings are flushed, by the write that is under way if there
\* is one. Later before-quit events wait for it too.
BeforeQuit ==
    /\ quit = "no"
    /\ flushed' = cache
    /\ writeTimer' = FALSE
    /\ startWrite(dirty)
    /\ quit' = IF writer.pc = "none" /\ ~dirty THEN "leaving" ELSE "flushing"
    /\ UNCHANGED <<cache, configFile, excuse, changes, failures, crashes>>

\* app.quit() a second time: nothing waits for the settings any more.
Exit ==
    /\ quit = "leaving"
    /\ quit' = "gone"
    /\ UNCHANGED <<cache, dirty, writeTimer, writer, configFile, flushed, excuse, changes,
                   failures, crashes>>

\* The process is killed, or loses its power; or has quit. It starts again.
Restart(crashed) ==
    /\ IF crashed THEN Running /\ crashes < MaxCrashes /\ crashes' = crashes + 1
       ELSE quit = "gone" /\ UNCHANGED crashes
    /\ cache' = ensureLoaded
    /\ dirty' = FALSE /\ writeTimer' = FALSE /\ writer' = NotWriting
    /\ quit' = "no" /\ flushed' = 0 /\ excuse' = FALSE
    /\ UNCHANGED <<configFile, changes, failures>>

-----------------------------------------------------------------------------
SettingsInit ==
    /\ cache = 0 /\ dirty = FALSE /\ writeTimer = FALSE /\ writer = NotWriting
    /\ configFile = 0 /\ quit = "no" /\ flushed = 0 /\ excuse = FALSE
    /\ changes = 0 /\ failures = 0 /\ crashes = 0

SettingsNext ==
    \/ setConfig
    \/ WriteTimer
    \/ OpenFile
    \/ FileWritten
    \/ WriteFails
    \/ BeforeQuit
    \/ Exit
    \/ \E crashed \in BOOLEAN : Restart(crashed)

\* Timers fire, and what is awaited settles.
SettingsFairness ==
    /\ WF_settingsVars(WriteTimer)
    /\ WF_settingsVars(OpenFile)
    /\ WF_settingsVars(FileWritten)
    /\ WF_settingsVars(Exit)

SettingsSpec == SettingsInit /\ [][SettingsNext]_settingsVars /\ SettingsFairness

-----------------------------------------------------------------------------
\* The state has the shape of the store's variables.
SettingsTypeOK ==
    /\ cache \in Nat /\ flushed \in Nat
    /\ configFile \in Nat \union {Torn}
    /\ dirty \in BOOLEAN /\ writeTimer \in BOOLEAN /\ excuse \in BOOLEAN
    /\ writer \in [pc : {"none", "opening", "writing"}, snapshot : Nat]
    /\ quit \in {"no", "flushing", "leaving", "gone"}
    /\ changes \in Nat /\ failures \in Nat /\ crashes \in Nat

\* Between changes and writes, nothing is lost sight of: settings the file does
\* not hold are dirty or in the snapshot being written (startWrite), and dirty
\* settings have a timer, a write or the flush to save them, or a write has
\* failed.
NothingForgotten ==
    quit # "gone" /\ cache # ensureLoaded =>
        \/ dirty /\ (writeTimer \/ writer.pc # "none" \/ excuse)
        \/ ~dirty /\ writer.pc # "none" /\ writer.snapshot = cache

\* Quitting waits for the settings: those there were when it began are in the
\* file when the app is gone, also when a write was under way with older ones
\* (createShutdownCoordinator, flushConfig), unless a write has failed; only a
\* change that comes after the flush may leave the file torn.
SavedAtQuit ==
    quit = "gone" /\ ~excuse =>
        ensureLoaded >= flushed \/ (configFile = Torn /\ cache # flushed)

\* Once the changes come to an end, the file holds what is in memory, every
\* change and not only the one that set the timer: a write that ends takes up
\* what came meanwhile, unless it has failed or the app quits.
ChangesAreSaved ==
    (Running /\ cache # ensureLoaded) ~> (~Running \/ cache = ensureLoaded \/ excuse)

\* No change is lost between memory, timer and writes, nor by quitting.
SettingsAreKept == NothingForgotten /\ SavedAtQuit
=============================================================================
