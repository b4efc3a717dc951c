--------------------------- MODULE ManagedSettings ---------------------------
(***************************************************************************)
(* The managed settings of the desktop app, for one setting:               *)
(* ControlService.applyManagedSettings, unbind and initializeManagedState, *)
(* the file managed-control.json with its temporary file, and the watch    *)
(* that reconciles config.json with it. Saves and reconciliations are not  *)
(* awaited, so that two of each may be under way, and a save that fails    *)
(* fails unnoticed.                                                        *)
(*                                                                         *)
(* A file operation is one step, and leaves nothing when it fails. What    *)
(* writes config.json is abstracted to "later, with the value there is     *)
(* then"; SettingsStore has its detail. Not modelled: a config.json that   *)
(* cannot be read, which is repaired as if it differed.                    *)
(***************************************************************************)
EXTENDS Naturals, FiniteSets

CONSTANTS Policies,      \* values the control server may impose
          Own,           \* the value the user gives the setting
          None,          \* no value: not managed, or no file
          MaxSaves,      \* bound: saves and removals under way at once
          MaxJobs,       \* bound: reconciliations under way at once
          MaxMeddling    \* bound: changes of the files by other programs, crashes, file
                         \* operations that fail, saves that overlap another

ASSUME ManagedAssumption ==
    /\ None \notin Policies /\ Own \notin Policies /\ Own # None
    /\ MaxSaves \in Nat \ {0} /\ MaxJobs \in Nat \ {0} /\ MaxMeddling \in Nat

VARIABLES
    managed,     \* managedValues (and managedKeys)
    last,        \* lastManagedValues
    file, tmp,   \* managed-control.json and its temporary file
    saves,       \* per slot: a save or removal under way
    selfWrite,   \* isSelfWrite
    config,      \* the setting in the cache of the configuration store
    configDirty,       \* config.json is to be written
    configOnDisk,  \* the setting in config.json
    watching,    \* initializeManagedState is over
    pending,     \* pendingFile, with its debounce timer
    jobs,        \* per slot: a reconciliation under way
    excused,     \* ghost: "unsaved" when saves have overlapped or what is managed could
                 \* not be saved or read, until the file is right; "missed" when the
                 \* watch has missed something
    meddling     \* what MaxMeddling bounds

managedVars == <<managed, last, file, tmp, saves, selfWrite, config, configDirty, configOnDisk,
                 watching, pending, jobs, excused, meddling>>

fileVars == <<last, file, tmp, selfWrite>>
configVars == <<config, configDirty, configOnDisk>>
watchVars == <<watching, pending, jobs>>

NoSave == [pc |-> "none", value |-> None]
NoJob == [pc |-> "none", stored |-> None]
UnderWay == {i \in 1..MaxSaves : saves[i].pc # "none"}
Meddle == meddling < MaxMeddling /\ meddling' = meddling + 1

\* saveManagedValues(value), or clearManagedValues when there are none. Two at
\* once share the temporary file and the flag. It takes the first slot that is free.
Save(value) ==
    \E i \in 1..MaxSaves \ UnderWay :
        /\ 1..(i - 1) \subseteq UnderWay
        /\ saves' = [saves EXCEPT ![i] = [pc |-> IF value = None THEN "clearing" ELSE "writing",
                                          value |-> value]]
        /\ IF UnderWay = {} THEN UNCHANGED <<excused, meddling>>
           ELSE excused' = excused \union {"unsaved"} /\ Meddle
        /\ selfWrite' = TRUE

\* When nothing is under way and the file is right, earlier saves are made good.
MadeGood ==
    IF UnderWay' = {} /\ file' = managed' /\ last' = managed'
    THEN excused \ {"unsaved"} ELSE excused

\* The watcher hears of a file: only the last one is remembered.
Hear(f, excuses) ==
    /\ pending' = IF watching THEN f ELSE pending
    /\ excused' = IF watching /\ pending \notin {"none", f}
                  THEN excuses \union {"missed"} ELSE excuses

\* An event of managed-control.json, if the watcher delivers it before the flag
\* is cleared, is ignored.
HearManaged(excuses) ==
    Hear("managed", excuses) \/ (UNCHANGED pending /\ excused' = excuses)

-----------------------------------------------------------------------------
(* The control service                                                     *)

\* applyManagedSettings, replacing what was managed. Nothing is managed after
\* an empty list, or after unbind; the setting keeps its value.
applyManagedSettings(policy) ==
    /\ watching /\ policy # managed
    /\ managed' = policy
    /\ IF policy = None THEN UNCHANGED <<config, configDirty>>
       ELSE config' = policy /\ configDirty' = TRUE
    /\ Save(policy)
    /\ UNCHANGED <<last, file, tmp, configOnDisk, watching, pending, jobs>>

\* setConfig by anybody else: the IPC handlers refuse a managed key, but not
\* the parent of one, and the local HTTP API refuses neither.
SetConfig ==
    /\ config # Own
    /\ config' = Own /\ configDirty' = TRUE
    /\ UNCHANGED <<managed, fileVars, saves, configOnDisk, watchVars, excused, meddling>>

\* The configuration store writes config.json, and the watcher hears of it.
WriteConfig ==
    /\ configDirty
    /\ configOnDisk' = config /\ configDirty' = FALSE
    /\ Hear("config", excused)
    /\ UNCHANGED <<managed, fileVars, saves, config, watching, jobs, meddling>>

-----------------------------------------------------------------------------
(* The steps of a save or removal                                          *)

WriteTmp(i) ==
    /\ saves[i].pc = "writing"
    /\ tmp' = saves[i].value
    /\ saves' = [saves EXCEPT ![i].pc = "renaming"]
    /\ UNCHANGED <<managed, last, file, selfWrite, configVars, watchVars, excused, meddling>>

\* rename fails when another save has taken the temporary file away.
Rename(i) ==
    /\ saves[i].pc = "renaming"
    /\ IF tmp = None THEN UNCHANGED <<file, last, pending, excused>>
       ELSE file' = tmp /\ last' = saves[i].value /\ HearManaged(excused)
    /\ tmp' = None /\ selfWrite' = FALSE
    /\ saves' = [saves EXCEPT ![i].pc = "cleaning"]
    /\ UNCHANGED <<managed, configVars, watching, jobs, meddling>>

RemoveTmp(i) ==
    /\ saves[i].pc = "cleaning"
    /\ tmp' = None
    /\ saves' = [saves EXCEPT ![i] = NoSave]
    /\ UNCHANGED <<managed, last, file, selfWrite, configVars, watchVars, meddling>>
    /\ excused' = MadeGood

Clear(i) ==
    /\ saves[i].pc = "clearing"
    /\ file' = None /\ last' = None /\ selfWrite' = FALSE
    /\ saves' = [saves EXCEPT ![i] = NoSave]
    /\ UNCHANGED <<managed, tmp, configVars, watching, jobs, meddling>>
    /\ HearManaged(MadeGood)

\* The write, the rename or the removal fails. Nobody is told: the file and
\* lastManagedValues keep what they had, and the next start enforces it.
SaveFails(i) ==
    /\ saves[i].pc \in {"writing", "renaming", "clearing"} /\ Meddle
    /\ selfWrite' = FALSE
    /\ saves' = [saves EXCEPT ![i] = IF @.pc = "clearing" THEN NoSave ELSE [@ EXCEPT !.pc = "cleaning"]]
    /\ excused' = excused \union {"unsaved"}
    /\ UNCHANGED <<managed, last, file, tmp, configVars, watchVars>>

-----------------------------------------------------------------------------
(* reconcile                                                               *)

\* The debounce timer fires, also while an earlier reconciliation reads.
Reconcile(k) ==
    /\ pending # "none" /\ jobs[k].pc = "none"
    /\ \A j \in 1..(k - 1) : jobs[j].pc # "none"
    /\ jobs' = [jobs EXCEPT ![k].pc = pending]
    /\ pending' = "none"
    /\ UNCHANGED <<managed, fileVars, saves, configVars, watching, excused, meddling>>

\* managed-control.json is read; when it is missing, it is saved again.
ReadManaged(k) ==
    /\ jobs[k].pc = "managed"
    /\ jobs' = [jobs EXCEPT ![k] = NoJob]
    /\ IF file = None /\ last # None THEN Save(last)
       ELSE UNCHANGED <<saves, excused, meddling, selfWrite>>
    /\ UNCHANGED <<managed, last, file, tmp, configVars, watching, pending>>

\* loadManagedValues, which also sets lastManagedValues: with the file gone,
\* it forgets what is to be restored. It may come before a save has ended,
\* though it waits longer (two delays of 300 ms) than a save takes.
LoadStored(k) ==
    /\ jobs[k].pc = "config"
    /\ last' = file
    /\ excused' = IF UnderWay # {} \/ (file = None /\ last # None)
                  THEN excused \union {"missed"} ELSE excused
    /\ jobs' = [jobs EXCEPT ![k] = IF file = None THEN NoJob ELSE [pc |-> "loaded", stored |-> file]]
    /\ UNCHANGED <<managed, file, tmp, selfWrite, saves, configVars, watching, pending, meddling>>

\* The file cannot be read: for loadManagedValues it is as if there were none.
ReadFails(k) ==
    /\ jobs[k].pc \in {"managed", "config"} /\ Meddle
    /\ last' = IF jobs[k].pc = "config" THEN None ELSE last
    /\ excused' = excused \union {"missed"}
    /\ jobs' = [jobs EXCEPT ![k] = NoJob]
    /\ UNCHANGED <<managed, file, tmp, selfWrite, saves, configVars, watching, pending>>

BugRepair(k) ==
    /\ jobs[k].pc = "loaded"
    /\ jobs' = [jobs EXCEPT ![k] = NoJob]
    /\ UNCHANGED <<managed, fileVars, saves, configVars, watching, pending, excused, meddling>>

\* config.json is read, and repaired by a setConfig of what was stored.
Repair(k) ==
    /\ jobs[k].pc = "loaded"
    /\ jobs' = [jobs EXCEPT ![k] = NoJob]
    /\ IF configOnDisk = jobs[k].stored THEN UNCHANGED <<config, configDirty>>
       ELSE config' = jobs[k].stored /\ configDirty' = TRUE
    /\ UNCHANGED <<managed, fileVars, saves, configOnDisk, watching, pending, excused, meddling>>

-----------------------------------------------------------------------------
(* Crashes, restarts and other programs                                    *)

\* Another program changes config.json, or deletes managed-control.json.
EditConfigFile ==
    /\ configOnDisk # Own /\ Meddle
    /\ configOnDisk' = Own
    /\ Hear("config", excused)
    /\ UNCHANGED <<managed, fileVars, saves, config, configDirty, watching, jobs>>

DeleteManagedFile ==
    /\ file # None /\ Meddle
    /\ file' = None
    /\ IF selfWrite \/ ~watching
       THEN excused' = excused \union {"missed"} /\ UNCHANGED pending
       ELSE Hear("managed", excused)
    /\ UNCHANGED <<managed, last, tmp, saves, selfWrite, configVars, watching, jobs>>

\* The app ends, at any point, and starts again: it has written its defaults
\* to the configuration before it looks at the managed settings.
RestartApp ==
    /\ watching /\ Meddle
    /\ managed' = None /\ last' = None /\ tmp' = None /\ selfWrite' = FALSE
    /\ saves' = [i \in 1..MaxSaves |-> NoSave]
    /\ config' = configOnDisk /\ configDirty' = TRUE
    /\ watching' = FALSE /\ pending' = "none" /\ jobs' = [k \in 1..MaxJobs |-> NoJob]
    /\ UNCHANGED <<file, configOnDisk, excused>>

\* initializeManagedState: what the file holds is managed again, and the watch
\* begins; the setting itself is not looked at. After a failed save it may be
\* an old policy, which is from here on the one that is managed.
initializeManagedState ==
    /\ ~watching
    /\ watching' = TRUE
    /\ managed' = file /\ last' = file
    /\ UNCHANGED <<file, tmp, saves, selfWrite, configVars, pending, jobs, meddling>>
    /\ excused' = MadeGood \union IF configDirty \/ file = None \/ config = file THEN {}
                                  ELSE {"missed"}

\* The file cannot be read at the start: nothing is managed, and it stays.
NothingLoaded ==
    /\ ~watching /\ file # None /\ Meddle
    /\ watching' = TRUE
    /\ managed' = None /\ last' = None
    /\ excused' = excused \union {"unsaved"}
    /\ UNCHANGED <<file, tmp, saves, selfWrite, configVars, pending, jobs>>

-----------------------------------------------------------------------------
ManagedInit ==
    /\ managed = None /\ last = None /\ file = None /\ tmp = None
    /\ saves = [i \in 1..MaxSaves |-> NoSave] /\ selfWrite = FALSE
    /\ config = Own /\ configDirty = FALSE /\ configOnDisk = Own
    /\ watching = TRUE /\ pending = "none" /\ jobs = [k \in 1..MaxJobs |-> NoJob]
    /\ excused = {} /\ meddling = 0

SaveStep(i) == WriteTmp(i) \/ Rename(i) \/ RemoveTmp(i) \/ Clear(i) \/ SaveFails(i)
JobStep(k) == ReadManaged(k) \/ LoadStored(k) \/ ReadFails(k) \/ Repair(k)
StartManaged == initializeManagedState \/ NothingLoaded

ManagedNext ==
    \/ \E policy \in Policies \union {None} : applyManagedSettings(policy)
    \/ SetConfig
    \/ WriteConfig
    \/ \E i \in 1..MaxSaves : SaveStep(i)
    \/ \E k \in 1..MaxJobs : Reconcile(k) \/ JobStep(k)
    \/ EditConfigFile
    \/ DeleteManagedFile
    \/ RestartApp
    \/ StartManaged

\* Timers fire, awaited reads and writes end, and a start completes.
ManagedFairness ==
    /\ WF_managedVars(WriteConfig)
    /\ \A i \in 1..MaxSaves : WF_managedVars(SaveStep(i))
    /\ WF_managedVars(\E k \in 1..MaxJobs : Reconcile(k))
    /\ \A k \in 1..MaxJobs : WF_managedVars(JobStep(k))
    /\ WF_managedVars(StartManaged)

ManagedSpec == ManagedInit /\ [][ManagedNext]_managedVars /\ ManagedFairness

-----------------------------------------------------------------------------
Values == Policies \union {None}

\* The setting always has a value, also after a reconciliation.
ManagedTypeOK ==
    /\ {managed, last, file, tmp} \subseteq Values
    /\ saves \in [1..MaxSaves -> [pc : {"none", "writing", "renaming", "cleaning", "clearing"},
                                  value : Values]]
    /\ selfWrite \in BOOLEAN /\ configDirty \in BOOLEAN /\ watching \in BOOLEAN
    /\ {config, configOnDisk} \subseteq Policies \union {Own}
    /\ pending \in {"none", "managed", "config"}
    /\ jobs \in [1..MaxJobs -> [pc : {"none", "managed", "config", "loaded"}, stored : Values]]
    /\ excused \subseteq {"unsaved", "missed"}
    /\ meddling \in 0..MaxMeddling

\* Once saves are over that did not overlap, what the next start will enforce
\* is what is enforced now, or nothing when another program has deleted it:
\* a policy that was replaced or released does not come back, unless a save or
\* the reading of the file has failed since it was last known to be right.
NoOldPolicyReturns ==
    watching /\ UnderWay = {} /\ "unsaved" \notin excused
        => file \in {managed, None}

\* What is managed prevails in the end over every other way to set it, over
\* changes of config.json and over reconciliations that have read an older
\* policy, unless the watcher has missed or dropped an event.
ManagedPrevails ==
    (managed # None /\ config # managed)
        ~> (managed = None \/ config = managed \/ excused # {})

\* The file that was deleted is restored: in the end it holds what is managed.
FileFollows ==
    (watching /\ file # managed) ~> (~watching \/ file = managed \/ excused # {})

\* A managed value wins over every change of memory and of both files, and only
\* as long as it is managed.
ManagedIsKept == []NoOldPolicyReturns /\ ManagedPrevails /\ FileFollows
=============================================================================
