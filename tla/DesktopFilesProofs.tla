-------------------------- MODULE DesktopFilesProofs --------------------------
(***************************************************************************)
(* What the files of the desktop app guarantee for every number of         *)
(* changes, failures, crashes and callers.  The configuration store: no    *)
(* change is lost sight of, and quitting waits for the changes made before *)
(* it.  The plugin preference store: a change told to be saved is on disk, *)
(* nobody waits for a write nobody does, and it implements DurableStore.   *)
(* Managed settings: a policy that was replaced does not come back.  The   *)
(* device credential: what was saved is found again.  The time: every day  *)
(* counts once, and what is shown is what is in use.  And what   *)
(* is proved of each holds of FilesSpec, which composes them.              *)
(***************************************************************************)
EXTENDS MCDesktopFiles,
        FiniteSetTheorems, TLAPS

-----------------------------------------------------------------------------
(* The configuration store.                                                  *)

\* While the app runs, what the file lacks is dirty or being written, and what
\* is dirty will be written, or has failed to be.
Tracked ==
    quit # "gone" =>
        /\ ~dirty /\ writer.pc = "none" => ensureLoaded = cache
        /\ ~dirty /\ writer.pc # "none" => writer.snapshot = cache
        /\ dirty => writeTimer \/ writer.pc # "none" \/ excuse

\* From the flush on, memory has what was flushed. Once the flush is over so
\* has the file, unless it failed; and whoever writes after it has a change to
\* write that came later.
Flushed ==
    /\ quit # "no" => flushed <= cache
    /\ quit \in {"leaving", "gone"} /\ ~excuse =>
           ensureLoaded >= flushed \/ (configFile = Torn /\ cache # flushed)
    /\ quit \in {"flushing", "leaving"} /\ writeTimer => cache # flushed
    /\ quit = "leaving" /\ writer.pc # "none" => cache # flushed /\ writer.snapshot >= flushed

SettingsInv == SettingsTypeOK /\ Tracked /\ Flushed

\* The two halves of the types: a solver of arithmetic does the one, a
\* first-order prover the other.
FlagsOK == dirty \in BOOLEAN /\ writeTimer \in BOOLEAN /\ excuse \in BOOLEAN
ContentsOK ==
    /\ cache \in Nat /\ flushed \in Nat /\ configFile \in Nat \union {Torn}
    /\ writer \in [pc : {"none", "opening", "writing"}, snapshot : Nat]
    /\ quit \in {"no", "flushing", "leaving", "gone"}
    /\ changes \in Nat /\ failures \in Nat /\ crashes \in Nat

LEMMA TypeHalves == SettingsTypeOK <=> FlagsOK /\ ContentsOK
BY Zenon DEF SettingsTypeOK, FlagsOK, ContentsOK

LEMMA InitSettingsInv == SettingsInit => SettingsInv
<1> SUFFICES ASSUME SettingsInit PROVE SettingsInv
    OBVIOUS
<1>1. FlagsOK BY Zenon DEF SettingsInit, FlagsOK
<1>2. ContentsOK BY DEF SettingsInit, ContentsOK, NotWriting
<1>3. Tracked /\ Flushed
      BY SettingsAssumption DEF SettingsInit, Tracked, Flushed, ensureLoaded, NotWriting
<1> QED BY <1>1, <1>2, <1>3, TypeHalves DEF SettingsInv

LEMMA FlagsStep == FlagsOK /\ [SettingsNext]_settingsVars => FlagsOK'
<1> SUFFICES ASSUME FlagsOK, [SettingsNext]_settingsVars PROVE FlagsOK'
    OBVIOUS
<1> USE DEF FlagsOK
<1>1. CASE setConfig BY <1>1, Zenon DEF setConfig
<1>2. CASE WriteTimer BY <1>2, Zenon DEF WriteTimer, startWrite
<1>3. CASE OpenFile BY <1>3, Zenon DEF OpenFile
<1>4. CASE FileWritten BY <1>4, Zenon DEF FileWritten
<1>5. CASE WriteFails BY <1>5, Zenon DEF WriteFails
<1>6. CASE BeforeQuit BY <1>6, Zenon DEF BeforeQuit, startWrite
<1>7. CASE Exit BY <1>7, Zenon DEF Exit
<1>8. CASE \E crashed \in BOOLEAN : Restart(crashed) BY <1>8, Zenon DEF Restart
<1>9. CASE UNCHANGED settingsVars BY <1>9, Zenon DEF settingsVars
<1> QED BY <1>1, <1>2, <1>3, <1>4, <1>5, <1>6, <1>7, <1>8, <1>9 DEF SettingsNext

LEMMA ContentsStep == ContentsOK /\ [SettingsNext]_settingsVars => ContentsOK'
<1> SUFFICES ASSUME ContentsOK, [SettingsNext]_settingsVars PROVE ContentsOK'
    OBVIOUS
<1> USE SettingsAssumption DEF ContentsOK
<1>1. CASE setConfig BY <1>1 DEF setConfig
<1>2. CASE WriteTimer BY <1>2 DEF WriteTimer, startWrite
<1>3. CASE OpenFile BY <1>3 DEF OpenFile
<1>4. CASE FileWritten BY <1>4 DEF FileWritten, WriteSettled, NotWriting
<1>5. CASE WriteFails BY <1>5 DEF WriteFails, WriteSettled, NotWriting
<1>6. CASE BeforeQuit BY <1>6 DEF BeforeQuit, startWrite
<1>7. CASE Exit BY <1>7 DEF Exit
<1>8. CASE \E crashed \in BOOLEAN : Restart(crashed)
      BY <1>8 DEF Restart, ensureLoaded, NotWriting
<1>9. CASE UNCHANGED settingsVars BY <1>9 DEF settingsVars
<1> QED BY <1>1, <1>2, <1>3, <1>4, <1>5, <1>6, <1>7, <1>8, <1>9 DEF SettingsNext

LEMMA SettingsTypeStep == SettingsTypeOK /\ [SettingsNext]_settingsVars => SettingsTypeOK'
<1>1. FlagsOK' /\ ContentsOK' => SettingsTypeOK'
      BY Zenon DEF SettingsTypeOK, FlagsOK, ContentsOK
<1> QED BY <1>1, TypeHalves, FlagsStep, ContentsStep

LEMMA TrackedStep ==
    ASSUME SettingsInv, [SettingsNext]_settingsVars
    PROVE  Tracked'
<1> USE SettingsAssumption DEF SettingsInv, SettingsTypeOK, Tracked, ensureLoaded
<1>1. CASE setConfig BY <1>1 DEF setConfig, Running
<1>2. CASE WriteTimer BY <1>2 DEF WriteTimer, startWrite, Running
<1>3. CASE OpenFile BY <1>3 DEF OpenFile, Running
<1>4. CASE FileWritten BY <1>4 DEF FileWritten, WriteSettled, NotWriting, Running
<1>5. CASE WriteFails BY <1>5 DEF WriteFails, NotWriting, Running
<1>6. CASE BeforeQuit BY <1>6 DEF BeforeQuit, startWrite
<1>7. CASE Exit BY <1>7 DEF Exit
<1>8. CASE \E crashed \in BOOLEAN : Restart(crashed) BY <1>8 DEF Restart, NotWriting
<1>9. CASE UNCHANGED settingsVars BY <1>9 DEF settingsVars
<1> QED BY <1>1, <1>2, <1>3, <1>4, <1>5, <1>6, <1>7, <1>8, <1>9 DEF SettingsNext

LEMMA FlushedStep ==
    ASSUME SettingsInv, [SettingsNext]_settingsVars
    PROVE  Flushed'
<1>0. ContentsOK /\ Tracked /\ Flushed BY TypeHalves DEF SettingsInv
<1> USE <1>0, SettingsAssumption DEF ContentsOK, Flushed, ensureLoaded
<1>1. CASE setConfig BY <1>1 DEF setConfig
<1>2. CASE WriteTimer BY <1>2 DEF WriteTimer, startWrite
<1>3. CASE OpenFile BY <1>3 DEF OpenFile, Running
<1>4. CASE FileWritten
  <2>1. CASE dirty BY <1>4, <2>1 DEF FileWritten, Running
  <2>2. CASE ~dirty BY <1>4, <2>2 DEF FileWritten, WriteSettled, NotWriting, Running, Tracked
  <2> QED BY <2>1, <2>2
<1>5. CASE WriteFails BY <1>5 DEF WriteFails, WriteSettled, NotWriting, Running
<1>6. CASE BeforeQuit BY <1>6 DEF BeforeQuit, startWrite, Tracked
<1>7. CASE Exit BY <1>7 DEF Exit
<1>8. CASE \E crashed \in BOOLEAN : Restart(crashed) BY <1>8 DEF Restart, NotWriting
<1>9. CASE UNCHANGED settingsVars BY <1>9 DEF settingsVars
<1> QED BY <1>1, <1>2, <1>3, <1>4, <1>5, <1>6, <1>7, <1>8, <1>9 DEF SettingsNext

LEMMA SettingsInvariant == SettingsSpec => []SettingsInv
<1>1. SettingsInv /\ [SettingsNext]_settingsVars => SettingsInv'
      BY SettingsTypeStep, TrackedStep, FlushedStep DEF SettingsInv
<1> QED BY InitSettingsInv, <1>1, PTL DEF SettingsSpec

-----------------------------------------------------------------------------
\* The variables of the configuration store keep their types.
THEOREM SettingsTypesHold == SettingsSpec => []SettingsTypeOK
<1>1. SettingsInv => SettingsTypeOK BY DEF SettingsInv
<1> QED BY SettingsInvariant, <1>1, PTL

\* No change of the settings is lost sight of: until the file has it, it is
\* dirty or in the snapshot being written, and somebody is to write it, or a
\* write has failed (startWrite, scheduleWrite).
THEOREM NoChangeIsForgotten == SettingsSpec => []NothingForgotten
<1>1. SettingsInv => NothingForgotten
      BY DEF SettingsInv, SettingsTypeOK, Tracked, NothingForgotten, ensureLoaded
<1> QED BY SettingsInvariant, <1>1, PTL

\* The app is gone only when the file holds the settings there were at
\* before-quit (createShutdownCoordinator, flushConfig), or a write failed, or
\* a later change was being written.
THEOREM QuitSavesSettings == SettingsSpec => []SavedAtQuit
<1>1. SettingsInv => SavedAtQuit BY DEF SettingsInv, Flushed, SavedAtQuit
<1> QED BY SettingsInvariant, <1>1, PTL

\* Both: no change is lost between memory, timer, writes and the quit
\* (scheduleWrite, startWrite, flushConfig).
THEOREM SettingsStayKept == SettingsSpec => []SettingsAreKept
<1>1. NothingForgotten /\ SavedAtQuit => SettingsAreKept BY DEF SettingsAreKept
<1> QED BY NoChangeIsForgotten, QuitSavesSettings, <1>1, PTL

-----------------------------------------------------------------------------
(* The plugin preference store.                                              *)

\* The disk lies between what was told and what is in memory, and a write
\* brings it forward: its snapshot is never older than the file.
WriteGoesForward ==
    /\ told <= prefFile /\ prefFile <= revision
    /\ writing # "none" => prefFile <= snapshot /\ snapshot <= revision
    /\ writing = "rename" => tmpFile = snapshot
    /\ writing = "written" => prefFile = snapshot

\* What a caller waits for is in memory, and what it was told is on disk.
CallersKnow ==
    \A c \in Callers :
        /\ calls[c] = "waiting" => asked[c] <= revision /\ writing # "none"
        /\ calls[c] = "saved" => asked[c] <= prefFile

PreferenceInv == PreferenceTypeOK /\ WriteGoesForward /\ CallersKnow

LEMMA InitPreferenceInv == PreferenceInit => PreferenceInv
BY PreferenceAssumption
   DEF PreferenceInit, PreferenceInv, PreferenceTypeOK, WriteGoesForward, CallersKnow

\* Every step keeps the types.
LEMMA PreferenceTypeStep ==
    ASSUME PreferenceInv, [PreferenceNext]_preferenceVars
    PROVE  PreferenceTypeOK'
<1> USE PreferenceAssumption DEF PreferenceInv, PreferenceTypeOK, WriteGoesForward
<1>1. CASE \E c \in Callers : Set(c) BY <1>1 DEF Set
<1>2. CASE \E c \in Callers : SetSame(c) BY <1>2 DEF SetSame
<1>3. CASE OpenTmp \/ WriteTmpFile \/ RenameTmp
      BY <1>3 DEF OpenTmp, WriteTmpFile, RenameTmp
<1>4. CASE Written BY <1>4 DEF Written, Settle
<1>5. CASE PersistFails BY <1>5 DEF PersistFails, Settle
<1>6. CASE Killed BY <1>6 DEF Killed
<1>7. CASE UNCHANGED preferenceVars BY <1>7 DEF preferenceVars
<1> QED BY <1>1, <1>2, <1>3, <1>4, <1>5, <1>6, <1>7 DEF PreferenceNext

\* Every step keeps the disk between what was told and memory.
LEMMA ForwardStep ==
    ASSUME PreferenceInv, [PreferenceNext]_preferenceVars
    PROVE  WriteGoesForward'
<1> USE DEF PreferenceInv, PreferenceTypeOK, WriteGoesForward
<1>1. CASE \E c \in Callers : Set(c) BY <1>1 DEF Set
<1>2. CASE \E c \in Callers : SetSame(c) BY <1>2 DEF SetSame
<1>3. CASE OpenTmp \/ WriteTmpFile \/ RenameTmp
      BY <1>3 DEF OpenTmp, WriteTmpFile, RenameTmp
<1>4. CASE Written BY <1>4 DEF Written
<1>5. CASE PersistFails BY <1>5 DEF PersistFails
<1>6. CASE Killed BY <1>6 DEF Killed
<1>7. CASE UNCHANGED preferenceVars BY <1>7 DEF preferenceVars
<1> QED BY <1>1, <1>2, <1>3, <1>4, <1>5, <1>6, <1>7 DEF PreferenceNext

\* Every step keeps what the callers know.
LEMMA CallersStep ==
    ASSUME PreferenceInv, [PreferenceNext]_preferenceVars
    PROVE  CallersKnow'
<1> SUFFICES ASSUME NEW d \in Callers
             PROVE  /\ calls'[d] = "waiting" => asked'[d] <= revision' /\ writing' # "none"
                    /\ calls'[d] = "saved" => asked'[d] <= prefFile'
    BY DEF CallersKnow
<1> USE DEF PreferenceInv, PreferenceTypeOK, WriteGoesForward, CallersKnow
<1>1. CASE \E c \in Callers : Set(c)
  <2>1. PICK c \in Callers : Set(c) BY <1>1
  <2>2. CASE d = c BY <2>1, <2>2 DEF Set
  <2>3. CASE d # c BY <2>1, <2>3 DEF Set
  <2> QED BY <2>2, <2>3
<1>2. CASE \E c \in Callers : SetSame(c) BY <1>2 DEF SetSame
<1>3. CASE OpenTmp \/ WriteTmpFile BY <1>3 DEF OpenTmp, WriteTmpFile
<1>4. CASE RenameTmp BY <1>4 DEF RenameTmp
<1>5. CASE Written BY <1>5 DEF Written, Settle
<1>6. CASE PersistFails BY <1>6 DEF PersistFails, Settle
<1>7. CASE Killed BY <1>7 DEF Killed
<1>8. CASE UNCHANGED preferenceVars BY <1>8 DEF preferenceVars
<1> QED BY <1>1, <1>2, <1>3, <1>4, <1>5, <1>6, <1>7, <1>8 DEF PreferenceNext

LEMMA PreferenceInvariant == PreferenceSpec => []PreferenceInv
<1>1. PreferenceInv /\ [PreferenceNext]_preferenceVars => PreferenceInv'
      BY PreferenceTypeStep, ForwardStep, CallersStep DEF PreferenceInv
<1> QED BY InitPreferenceInv, <1>1, PTL DEF PreferenceSpec

-----------------------------------------------------------------------------
\* The fields of the store keep their types (FilePluginPreferenceStore).
THEOREM PreferenceTypesHold == PreferenceSpec => []PreferenceTypeOK
<1>1. PreferenceInv => PreferenceTypeOK BY DEF PreferenceInv
<1> QED BY PreferenceInvariant, <1>1, PTL

\* A caller that setEnabled, setConfig or remove has told that its change is
\* saved finds it on the disk, however many changes, writes, failures and
\* restarts there are.
THEOREM SavedChangesAreOnDisk == PreferenceSpec => []SavedIsOnDisk
<1>1. PreferenceInv => SavedIsOnDisk BY DEF PreferenceInv, CallersKnow, SavedIsOnDisk
<1> QED BY PreferenceInvariant, <1>1, PTL

\* A caller of persist never waits without a write under way.
THEOREM WaitersHaveAWrite == PreferenceSpec => []NobodyWaitsInVain
<1>1. PreferenceInv => NobodyWaitsInVain
      BY DEF PreferenceInv, CallersKnow, NobodyWaitsInVain, Waiting
<1> QED BY PreferenceInvariant, <1>1, PTL

\* Every step of the store is a step of a durable store, or changes nothing a
\* durable store speaks of.
LEMMA StoreStep ==
    ASSUME PreferenceInv, [PreferenceNext]_preferenceVars
    PROVE  [Durable!DurableNext]_(Durable!durableVars)
<1> USE DEF PreferenceInv, PreferenceTypeOK, WriteGoesForward, Durable!DurableNext,
            Durable!durableVars
<1>1. CASE \E c \in Callers : Set(c)
      BY <1>1 DEF Set, Durable!Change
<1>2. CASE (\E c \in Callers : SetSame(c)) \/ OpenTmp \/ WriteTmpFile \/ PersistFails
      BY <1>2 DEF SetSame, OpenTmp, WriteTmpFile, PersistFails
<1>3. CASE RenameTmp BY <1>3 DEF RenameTmp, Durable!Persist
<1>4. CASE Written BY <1>4 DEF Written, Durable!Tell
<1>5. CASE Killed BY <1>5 DEF Killed, Durable!Crash
<1>6. CASE UNCHANGED preferenceVars BY <1>6 DEF preferenceVars
<1> QED BY <1>1, <1>2, <1>3, <1>4, <1>5, <1>6 DEF PreferenceNext

\* The preference store implements the durable store: what it has told to be
\* saved survives crashes, because the write goes to a temporary file first.
THEOREM PreferencesAreDurable == PreferenceSpec => KeepsItsPromise
<1>1. PreferenceInit => Durable!DurableInit
      BY DEF PreferenceInit, Durable!DurableInit
<1>2. PreferenceInv /\ [PreferenceNext]_preferenceVars
          => [Durable!DurableNext]_(Durable!durableVars)
      BY StoreStep
<1> QED BY <1>1, <1>2, PreferenceInvariant, PTL
        DEF PreferenceSpec, KeepsItsPromise, Durable!DurableSpec

-----------------------------------------------------------------------------
(* The managed settings.                                                     *)

\* As long as no two saves have overlapped and none has failed there is at most one,
\* of what is managed, and each of its steps leaves the file with that or without a value.
\* Memory may forget what the file should hold, but never holds an older value
\* once the save is over.
OneSave ==
    /\ \A i, j \in UnderWay : i = j
    /\ watching /\ UnderWay = {} => file \in {managed, None} /\ last \in {managed, None}
    /\ \A i \in UnderWay :
          /\ saves[i].pc = "cleaning" => file \in {managed, None} /\ last \in {managed, None}
          /\ saves[i].pc # "cleaning" => saves[i].value = managed
          /\ saves[i].pc = "renaming" => tmp = managed
          /\ saves[i].pc \in {"writing", "renaming"} => managed # None
          /\ saves[i].pc = "clearing" => managed = None

SavesAgree == "unsaved" \notin excused => OneSave

\* Nothing is under way before the app has read the file at its start, and a
\* reconciliation that goes on to repair the setting has a value for it.
JobsFollow ==
    /\ ~watching => UnderWay = {} /\ pending = "none"
    /\ \A k \in 1..MaxJobs : ~watching => jobs[k].pc = "none"
    /\ \A k \in 1..MaxJobs : jobs[k].pc = "loaded" => jobs[k].stored # None

ManagedInv == ManagedTypeOK /\ SavesAgree /\ JobsFollow

SaveRecords == [1..MaxSaves -> [pc : {"none", "writing", "renaming", "cleaning", "clearing"},
                                value : Values]]
JobRecord == [pc : {"none", "managed", "config", "loaded"}, stored : Values]

\* A save that begins has a value to write.
LEMMA SaveTyped ==
    ASSUME ManagedTypeOK, NEW value \in Values, Save(value)
    PROVE  saves' \in SaveRecords /\ meddling' \in 0..MaxMeddling
BY ManagedAssumption DEF ManagedTypeOK, SaveRecords, Save, Meddle

\* A reconciliation that is under way has been begun by the watch.
LEMMA JobRuns ==
    ASSUME JobsFollow, NEW k \in 1..MaxJobs, jobs[k].pc # "none"
    PROVE  /\ watching
           /\ jobs[k].pc = "loaded" => jobs[k].stored # None
<1>1. ~watching => jobs[k].pc = "none" BY DEF JobsFollow
<1>2. jobs[k].pc = "loaded" => jobs[k].stored # None BY DEF JobsFollow
<1> QED BY <1>1, <1>2

LEMMA MeddleTyped == ASSUME ManagedTypeOK, Meddle PROVE meddling' \in 0..MaxMeddling
BY ManagedAssumption DEF ManagedTypeOK, Meddle

\* The type of the settings, step by step.
LEMMA ManagedTypeStep ==
    ManagedTypeOK /\ JobsFollow /\ [ManagedNext]_managedVars => ManagedTypeOK'
<1> SUFFICES ASSUME ManagedTypeOK, JobsFollow, [ManagedNext]_managedVars PROVE ManagedTypeOK'
    OBVIOUS
<1> USE ManagedAssumption
    DEF ManagedTypeOK, Values, SaveRecords, JobRecord, managedVars, configVars, fileVars, watchVars
<1>0. /\ MadeGood \subseteq {"unsaved", "missed"}
      /\ \A f, reasons : f \in {"managed", "config"} /\ reasons \subseteq {"unsaved", "missed"}
            /\ (Hear(f, reasons) \/ HearManaged(reasons))
            => pending' \in {"none", "managed", "config"} /\ excused' \subseteq {"unsaved", "missed"}
      BY DEF MadeGood, Hear, HearManaged
<1>1. ASSUME NEW policy \in Policies \union {None}, applyManagedSettings(policy)
      PROVE ManagedTypeOK'
  <2>1. saves' \in SaveRecords /\ meddling' \in 0..MaxMeddling
        BY <1>1, SaveTyped DEF applyManagedSettings, Values
  <2>2. config' \in Policies \union {Own} BY <1>1 DEF applyManagedSettings
  <2>3. configDirty' \in BOOLEAN BY <1>1, Zenon DEF applyManagedSettings
  <2>4. excused' \subseteq {"unsaved", "missed"} /\ selfWrite' \in BOOLEAN
        BY <1>1 DEF applyManagedSettings, Save
  <2> QED BY <1>1, <2>1, <2>2, <2>3, <2>4 DEF applyManagedSettings
<1>2. CASE SetConfig BY <1>2 DEF SetConfig
<1>3. CASE WriteConfig BY <1>0, <1>3 DEF WriteConfig
<1>4. ASSUME NEW i \in 1..MaxSaves, WriteTmp(i) PROVE ManagedTypeOK'
      BY <1>4 DEF WriteTmp
<1>5. ASSUME NEW i \in 1..MaxSaves, Rename(i) PROVE ManagedTypeOK'
  <2>1. saves[i].value \in Values BY SMT
  <2>2. saves' \in SaveRecords BY <1>5 DEF Rename
  <2>3. file' \in Values /\ last' \in Values /\ tmp' \in Values
        BY <1>5, <2>1 DEF Rename
  <2>4. pending' \in {"none", "managed", "config"} /\ excused' \subseteq {"unsaved", "missed"}
        BY <1>0, <1>5 DEF Rename
  <2> QED BY <1>5, <2>2, <2>3, <2>4 DEF Rename
<1>6. ASSUME NEW i \in 1..MaxSaves, RemoveTmp(i) PROVE ManagedTypeOK'
      BY <1>0, <1>6 DEF RemoveTmp, NoSave
<1>7. ASSUME NEW i \in 1..MaxSaves, Clear(i) PROVE ManagedTypeOK'
      BY <1>0, <1>7 DEF Clear, NoSave
<1>17. ASSUME NEW i \in 1..MaxSaves, SaveFails(i) PROVE ManagedTypeOK'
  <2>1. saves[i] \in [pc : {"none", "writing", "renaming", "cleaning", "clearing"}, value : Values]
        OBVIOUS
  <2>2. saves' \in SaveRecords BY <1>17, <2>1 DEF SaveFails, NoSave
  <2>3. meddling' \in 0..MaxMeddling BY <1>17, MeddleTyped DEF SaveFails
  <2>4. selfWrite' \in BOOLEAN BY <1>17 DEF SaveFails
  <2> QED BY <1>17, <2>2, <2>3, <2>4 DEF SaveFails
<1>8. ASSUME NEW k \in 1..MaxJobs, Reconcile(k) PROVE ManagedTypeOK'
  <2>1. jobs' \in [1..MaxJobs -> JobRecord] BY <1>8 DEF Reconcile
  <2> QED BY <1>8, <2>1 DEF Reconcile
<1>18. ASSUME NEW k \in 1..MaxJobs, jobs' = [jobs EXCEPT ![k] = NoJob]
       PROVE jobs' \in [1..MaxJobs -> JobRecord]
       BY <1>18 DEF NoJob
<1>9. ASSUME NEW k \in 1..MaxJobs, ReadManaged(k) PROVE ManagedTypeOK'
  <2>1. saves' \in SaveRecords /\ meddling' \in 0..MaxMeddling
        BY <1>9, SaveTyped DEF ReadManaged
  <2>2. excused' \subseteq {"unsaved", "missed"} /\ selfWrite' \in BOOLEAN
        BY <1>9 DEF ReadManaged, Save
  <2>3. jobs' \in [1..MaxJobs -> JobRecord] BY <1>9, <1>18 DEF ReadManaged
  <2> QED BY <1>9, <2>1, <2>2, <2>3 DEF ReadManaged
<1>10. ASSUME NEW k \in 1..MaxJobs, LoadStored(k) PROVE ManagedTypeOK'
  <2>1. jobs' \in [1..MaxJobs -> JobRecord] BY <1>10 DEF LoadStored, NoJob
  <2> QED BY <1>10, <2>1 DEF LoadStored
<1>19. ASSUME NEW k \in 1..MaxJobs, ReadFails(k) PROVE ManagedTypeOK'
  <2>1. jobs' \in [1..MaxJobs -> JobRecord] BY <1>18, <1>19 DEF ReadFails
  <2>2. meddling' \in 0..MaxMeddling BY <1>19 DEF ReadFails, Meddle
  <2> QED BY <1>19, <2>1, <2>2 DEF ReadFails
<1>11. ASSUME NEW k \in 1..MaxJobs, Repair(k) PROVE ManagedTypeOK'
  <2>1. jobs[k].pc = "loaded" /\ jobs[k].stored \in Values BY <1>11 DEF Repair
  <2>5. jobs[k].stored \in Policies BY <2>1, JobRuns
  <2>2. config' \in Policies \union {Own} BY <1>11, <2>5 DEF Repair
  <2>3. configDirty' \in BOOLEAN BY <1>11, Zenon DEF Repair
  <2>4. jobs' \in [1..MaxJobs -> JobRecord] BY <1>11, <1>18 DEF Repair
  <2> QED BY <1>11, <2>2, <2>3, <2>4 DEF Repair
<1>12. CASE EditConfigFile
  <2>1. pending' \in {"none", "managed", "config"} /\ excused' \subseteq {"unsaved", "missed"}
        BY <1>0, <1>12 DEF EditConfigFile
  <2>2. meddling' \in 0..MaxMeddling BY <1>12, MeddleTyped DEF EditConfigFile
  <2> QED BY <1>12, <2>1, <2>2 DEF EditConfigFile
<1>13. CASE DeleteManagedFile
  <2>1. pending' \in {"none", "managed", "config"} /\ excused' \subseteq {"unsaved", "missed"}
        BY <1>0, <1>13 DEF DeleteManagedFile
  <2> QED BY <1>13, <2>1 DEF DeleteManagedFile, Meddle
<1>14. CASE RestartApp
  <2>1. saves' \in SaveRecords BY <1>14 DEF RestartApp, NoSave
  <2>2. jobs' \in [1..MaxJobs -> JobRecord] BY <1>14 DEF RestartApp, NoJob
  <2>3. {config, configOnDisk}' \subseteq Policies \union {Own} BY <1>14 DEF RestartApp
  <2>4. {managed, last, file, tmp}' \subseteq Values BY <1>14 DEF RestartApp
  <2>5. selfWrite' \in BOOLEAN /\ configDirty' \in BOOLEAN /\ watching' \in BOOLEAN
        BY <1>14 DEF RestartApp
  <2>6. meddling' \in 0..MaxMeddling /\ pending' \in {"none", "managed", "config"}
        BY <1>14 DEF RestartApp, Meddle
  <2>7. excused' \subseteq {"unsaved", "missed"} BY <1>14 DEF RestartApp
  <2> QED BY <2>1, <2>2, <2>3, <2>4, <2>5, <2>6, <2>7
<1>15. CASE initializeManagedState BY <1>0, <1>15 DEF initializeManagedState
<1>20. CASE NothingLoaded BY <1>20 DEF NothingLoaded, Meddle
<1>16. CASE UNCHANGED managedVars BY <1>16
<1> QED BY <1>1, <1>2, <1>3, <1>4, <1>5, <1>6, <1>7, <1>8, <1>9, <1>10, <1>11, <1>12, <1>13,
           <1>14, <1>15, <1>16, <1>17, <1>19, <1>20 DEF ManagedNext, SaveStep, JobStep, StartManaged

\* A save that begins with no other under way, of what is managed, keeps the agreement.
LEMMA SaveAgrees ==
    ASSUME NEW value \in Values, ManagedTypeOK, SavesAgree, Save(value), value = managed',
           UNCHANGED <<last, file, tmp, watching>>
    PROVE  SavesAgree'
<1> SUFFICES ASSUME "unsaved" \notin excused'
             PROVE  OneSave'
    BY DEF SavesAgree
<1>1. UnderWay = {} BY DEF Save
<1>2. PICK k \in 1..MaxSaves :
         saves' = [saves EXCEPT ![k] = [pc |-> IF value = None THEN "clearing" ELSE "writing",
                                        value |-> value]]
      BY DEF Save
<1>3. \A i \in 1..MaxSaves : saves[i].pc = "none" BY <1>1 DEF UnderWay
<1>4. saves'[k] = [pc |-> IF value = None THEN "clearing" ELSE "writing", value |-> value]
      BY <1>2 DEF ManagedTypeOK
<1>5. \A i \in 1..MaxSaves : i # k => saves'[i].pc = "none" BY <1>2, <1>3 DEF ManagedTypeOK
<1>6. UnderWay' = {k} BY <1>4, <1>5 DEF UnderWay
<1> QED BY <1>4, <1>6 DEF OneSave

\* What is made good is that nothing is under way and both copies are right.
LEMMA GoodAgrees ==
    ASSUME SavesAgree, "unsaved" \in excused, "unsaved" \notin MadeGood
    PROVE  OneSave'
BY DEF MadeGood, OneSave

LEMMA HeardKeeps ==
    ASSUME NEW f, NEW reasons, Hear(f, reasons) \/ HearManaged(reasons), "unsaved" \in reasons
    PROVE  "unsaved" \in excused'
BY DEF Hear, HearManaged

\* A save that is under way goes on or ends.
LEMMA SaveGoesOn ==
    ASSUME NEW i \in 1..MaxSaves, ManagedTypeOK, SavesAgree, JobsFollow, SaveStep(i)
    PROVE  SavesAgree'
<1> SUFFICES ASSUME "unsaved" \notin excused'
             PROVE  OneSave'
    BY DEF SavesAgree
<1>1. CASE "unsaved" \in excused
  <2>1. ~WriteTmp(i) /\ ~Rename(i) /\ ~SaveFails(i)
        BY <1>1, HeardKeeps DEF WriteTmp, Rename, SaveFails
  <2>2. RemoveTmp(i) \/ Clear(i) BY <2>1 DEF SaveStep
  <2>3. "unsaved" \notin MadeGood
        BY <2>2, HeardKeeps DEF RemoveTmp, Clear
  <2> QED BY <1>1, <2>3, GoodAgrees
<1>2. CASE "unsaved" \notin excused
  <2>2. i \in UnderWay /\ ~SaveFails(i)
        BY DEF SaveStep, WriteTmp, Rename, RemoveTmp, Clear, SaveFails, UnderWay
  <2>3. UnderWay = {i} BY <1>2, <2>2 DEF SavesAgree, OneSave
  <2>4. \A j \in 1..MaxSaves : j # i => saves[j].pc = "none" BY <2>3 DEF UnderWay
  <2>5. \A j \in 1..MaxSaves : j # i => saves'[j].pc = "none"
        BY <2>2, <2>4 DEF SaveStep, WriteTmp, Rename, RemoveTmp, Clear, ManagedTypeOK
  <2>6. UnderWay' \subseteq {i} BY <2>5 DEF UnderWay
  <2>7. \A j \in UnderWay' : j = i BY <2>6
  <2>8. saves[i] \in [pc : {"none", "writing", "renaming", "cleaning", "clearing"}, value : Values]
        BY DEF ManagedTypeOK
  <2>9. saves[i].pc = "cleaning" => file \in {managed, None} /\ last \in {managed, None}
        BY <1>2, <2>2 DEF SavesAgree, OneSave
  <2>10. /\ saves[i].pc # "cleaning" => saves[i].value = managed
         /\ saves[i].pc = "renaming" => tmp = managed
         /\ saves[i].pc \in {"writing", "renaming"} => managed # None
         /\ saves[i].pc = "clearing" => managed = None
        BY <1>2, <2>2 DEF SavesAgree, OneSave
  <2>11. CASE WriteTmp(i)
    <3>1. saves'[i].pc = "renaming" /\ saves'[i].value = saves[i].value
          BY <2>11, <2>8 DEF WriteTmp, ManagedTypeOK
    <3>2. i \in UnderWay' BY <3>1 DEF UnderWay
    <3> QED BY <2>7, <2>10, <2>11, <3>1, <3>2 DEF WriteTmp, OneSave
  <2>12. CASE Rename(i)
    <3>1. saves'[i].pc = "cleaning" BY <2>12, <2>8 DEF Rename, ManagedTypeOK
    <3>2. i \in UnderWay' BY <3>1 DEF UnderWay
    <3>3. file' = managed /\ last' = managed BY <2>10, <2>12 DEF Rename
    <3> QED BY <2>7, <2>12, <3>1, <3>2, <3>3 DEF Rename, OneSave
  <2>13. CASE RemoveTmp(i)
    <3>1. saves'[i].pc = "none" BY <2>13 DEF RemoveTmp, NoSave, ManagedTypeOK
    <3>2. UnderWay' = {} BY <2>6, <3>1 DEF UnderWay
    <3> QED BY <2>9, <2>13, <3>2 DEF RemoveTmp, OneSave
  <2>14. CASE Clear(i)
    <3>1. saves'[i].pc = "none" BY <2>14 DEF Clear, NoSave, ManagedTypeOK
    <3>2. UnderWay' = {} BY <2>6, <3>1 DEF UnderWay
    <3> QED BY <2>14, <3>2 DEF Clear, OneSave
  <2> QED BY <2>2, <2>11, <2>12, <2>13, <2>14 DEF SaveStep
<1> QED BY <1>1, <1>2

LEMMA SavesAgreeStep == ManagedInv /\ [ManagedNext]_managedVars => SavesAgree'
<1> SUFFICES ASSUME ManagedInv, [ManagedNext]_managedVars PROVE SavesAgree'
    OBVIOUS
<1> USE DEF ManagedInv
<1>1. ASSUME NEW policy \in Policies \union {None}, applyManagedSettings(policy)
      PROVE SavesAgree'
      BY <1>1, SaveAgrees DEF applyManagedSettings, Values
<1>2. CASE SetConfig
      BY <1>2 DEF SetConfig, SavesAgree, OneSave, UnderWay, fileVars, watchVars
<1>3. CASE WriteConfig
      BY <1>3, HeardKeeps DEF WriteConfig, SavesAgree, OneSave, UnderWay, fileVars
<1>4. ASSUME NEW i \in 1..MaxSaves, SaveStep(i) PROVE SavesAgree'
      BY <1>4, SaveGoesOn
<1>5. ASSUME NEW k \in 1..MaxJobs, Reconcile(k) PROVE SavesAgree'
      BY <1>5 DEF Reconcile, SavesAgree, OneSave, UnderWay, fileVars, configVars
<1>6. ASSUME NEW k \in 1..MaxJobs, ReadManaged(k) PROVE SavesAgree'
  <2>1. CASE file = None /\ last # None
    <3>1. watching BY <1>6, JobRuns DEF ReadManaged
    <3>2. last \in Values BY DEF ManagedTypeOK
    <3>3. Save(last) /\ UNCHANGED <<managed, last, file, tmp, watching>>
          BY <1>6, <2>1 DEF ReadManaged
    <3>4. CASE last = managed
      <4>1. last = managed' BY <3>3, <3>4
      <4> QED BY <3>2, <3>3, <4>1, SaveAgrees
    <3>5. CASE last # managed
      <4>1. "unsaved" \in excused \/ UnderWay # {} BY <2>1, <3>1, <3>5 DEF SavesAgree, OneSave
      <4>2. "unsaved" \in excused' BY <3>3, <4>1 DEF Save
      <4> QED BY <4>2 DEF SavesAgree, OneSave
    <3> QED BY <3>4, <3>5
  <2>2. CASE ~(file = None /\ last # None)
        BY <1>6, <2>2 DEF ReadManaged, SavesAgree, OneSave, UnderWay, configVars
  <2> QED BY <2>1, <2>2
<1>7. ASSUME NEW k \in 1..MaxJobs, LoadStored(k) PROVE SavesAgree'
      BY <1>7 DEF LoadStored, SavesAgree, OneSave, UnderWay, configVars
<1>14. ASSUME NEW k \in 1..MaxJobs, ReadFails(k) PROVE SavesAgree'
      BY <1>14 DEF ReadFails, SavesAgree, OneSave, UnderWay, configVars
<1>8. ASSUME NEW k \in 1..MaxJobs, Repair(k) PROVE SavesAgree'
      BY <1>8 DEF Repair, SavesAgree, OneSave, UnderWay, fileVars
<1>9. CASE EditConfigFile
      BY <1>9, HeardKeeps DEF EditConfigFile, SavesAgree, OneSave, UnderWay, fileVars
<1>10. CASE DeleteManagedFile
      BY <1>10, HeardKeeps DEF DeleteManagedFile, SavesAgree, OneSave, UnderWay, configVars
<1>11. CASE RestartApp
  <2>1. UnderWay' = {} /\ ~watching' BY <1>11 DEF RestartApp, NoSave, UnderWay
  <2> QED BY <2>1 DEF SavesAgree, OneSave
<1>12. CASE initializeManagedState
  <2>1. UnderWay' = {} BY <1>12 DEF initializeManagedState, JobsFollow, UnderWay
  <2>2. file' = managed' /\ last' = managed' BY <1>12 DEF initializeManagedState
  <2> QED BY <2>1, <2>2 DEF SavesAgree, OneSave
<1>15. CASE NothingLoaded
      BY <1>15 DEF NothingLoaded, SavesAgree
<1>13. CASE UNCHANGED managedVars
      BY <1>13 DEF managedVars, SavesAgree, OneSave, UnderWay
<1> QED BY <1>1, <1>2, <1>3, <1>4, <1>5, <1>6, <1>7, <1>8, <1>9, <1>10, <1>11, <1>12, <1>13,
           <1>14, <1>15 DEF ManagedNext, JobStep, StartManaged

LEMMA JobsFollowStep == ManagedInv /\ [ManagedNext]_managedVars => JobsFollow'
<1> SUFFICES ASSUME ManagedInv, [ManagedNext]_managedVars PROVE JobsFollow'
    OBVIOUS
<1> USE DEF ManagedInv
<1>1. jobs \in [1..MaxJobs -> JobRecord] BY DEF ManagedTypeOK, JobRecord
<1>2. ASSUME watching, watching', UNCHANGED jobs PROVE JobsFollow'
      BY <1>2 DEF JobsFollow
<1>3. ASSUME NEW k \in 1..MaxJobs, NEW j, jobs' = [jobs EXCEPT ![k] = j],
             j.pc = "loaded" => j.stored # None, watching, watching'
      PROVE  JobsFollow'
      BY <1>1, <1>3 DEF JobsFollow
<1>4. NoJob.pc = "none" BY DEF NoJob
<1>5. ASSUME NEW policy \in Policies \union {None}, applyManagedSettings(policy)
      PROVE JobsFollow'
      BY <1>2, <1>5 DEF applyManagedSettings
<1>6. CASE SetConfig \/ WriteConfig
      BY <1>6 DEF SetConfig, WriteConfig, Hear, watchVars, JobsFollow, UnderWay
<1>7. ASSUME NEW i \in 1..MaxSaves, SaveStep(i) PROVE JobsFollow'
  <2>1. watching
        BY <1>7 DEF SaveStep, WriteTmp, Rename, RemoveTmp, Clear, SaveFails, JobsFollow, UnderWay
  <2> QED BY <1>2, <1>7, <2>1 DEF SaveStep, WriteTmp, Rename, RemoveTmp, Clear, SaveFails, watchVars
<1>8. ASSUME NEW k \in 1..MaxJobs, Reconcile(k) PROVE JobsFollow'
  <2>1. watching BY <1>8 DEF Reconcile, JobsFollow
  <2>2. jobs[k] \in JobRecord BY <1>1
  <2>3. [jobs[k] EXCEPT !.pc = pending].pc = pending BY <2>2 DEF JobRecord
  <2>4. pending # "loaded" BY DEF ManagedTypeOK
  <2> QED BY <1>3, <1>8, <2>1, <2>3, <2>4 DEF Reconcile
<1>9. ASSUME NEW k \in 1..MaxJobs, JobStep(k) PROVE JobsFollow'
  <2>1. watching
        BY <1>9, JobRuns DEF JobStep, ReadManaged, LoadStored, ReadFails, Repair
  <2>2. CASE LoadStored(k)
    <3> DEFINE j == IF file = None THEN NoJob ELSE [pc |-> "loaded", stored |-> file]
    <3>1. j.pc = "loaded" => j.stored # None BY <1>4
    <3>2. jobs' = [jobs EXCEPT ![k] = j] /\ UNCHANGED watching BY <2>2 DEF LoadStored
    <3> HIDE DEF j
    <3> QED BY <1>3, <2>1, <3>1, <3>2
  <2>3. CASE jobs' = [jobs EXCEPT ![k] = NoJob] /\ UNCHANGED watching
        BY <1>3, <1>4, <2>1, <2>3
  <2> QED BY <1>9, <2>2, <2>3 DEF JobStep, ReadManaged, ReadFails, Repair
<1>10. CASE EditConfigFile
       BY <1>10 DEF EditConfigFile, Hear, JobsFollow, UnderWay
<1>11. CASE DeleteManagedFile
       BY <1>11 DEF DeleteManagedFile, Hear, JobsFollow, UnderWay
<1>12. CASE RestartApp BY <1>12 DEF RestartApp, NoSave, NoJob, JobsFollow, UnderWay
<1>13. CASE StartManaged
  <2>1. watching' /\ UNCHANGED jobs
        BY <1>13 DEF StartManaged, initializeManagedState, NothingLoaded
  <2> QED BY <2>1 DEF JobsFollow
<1>14. CASE UNCHANGED managedVars BY <1>14 DEF managedVars, JobsFollow, UnderWay
<1> QED BY <1>5, <1>6, <1>7, <1>8, <1>9, <1>10, <1>11, <1>12, <1>13, <1>14
        DEF ManagedNext

\* The invariant of the managed settings.
LEMMA ManagedInvariant == ManagedSpec => []ManagedInv
<1>1. ManagedInit => ManagedInv
  <2> SUFFICES ASSUME ManagedInit PROVE ManagedInv
      OBVIOUS
  <2>1. \A i \in 1..MaxSaves : saves[i].pc = "none" BY DEF ManagedInit, NoSave
  <2>2. UnderWay = {} BY <2>1 DEF UnderWay
  <2>3. saves \in SaveRecords BY DEF ManagedInit, NoSave, SaveRecords, Values
  <2>4. jobs \in [1..MaxJobs -> JobRecord] BY DEF ManagedInit, NoJob, Values, JobRecord
  <2>6. {managed, last, file, tmp} \subseteq Values /\ {config, configOnDisk} \subseteq {Own}
        BY DEF ManagedInit, Values
  <2>7. selfWrite \in BOOLEAN /\ configDirty \in BOOLEAN /\ watching \in BOOLEAN
        BY Zenon DEF ManagedInit
  <2>8. pending = "none" /\ excused = {} /\ meddling \in 0..MaxMeddling
        BY ManagedAssumption DEF ManagedInit
  <2>5. ManagedTypeOK
        BY <2>3, <2>4, <2>6, <2>7, <2>8 DEF SaveRecords, JobRecord, ManagedTypeOK
  <2> QED BY <2>2, <2>5 DEF ManagedInit, ManagedInv, SavesAgree, OneSave, JobsFollow, NoJob
<1>2. ManagedInv /\ [ManagedNext]_managedVars => ManagedInv'
      BY ManagedTypeStep, SavesAgreeStep, JobsFollowStep DEF ManagedInv
<1> QED BY <1>1, <1>2, PTL DEF ManagedSpec

\* A managed setting, its file and what is remembered of it are values a server may
\* impose or none, and the setting itself is never without a value: a reconciliation
\* that has read the file before it was deleted does not write the absence of one.
THEOREM ManagedTypesHold == ManagedSpec => []ManagedTypeOK
<1>1. ManagedInv => ManagedTypeOK BY DEF ManagedInv
<1> QED BY <1>1, ManagedInvariant, PTL

\* Once the saves are over, unless since the file was last right two have overlapped or
\* one has failed or the file could not be read at a start, the file that the next start
\* will enforce holds what is managed now or nothing, however the steps of saves,
\* reconciliations, deletions, crashes and restarts follow each other: a policy that
\* was replaced or released does not come back.
THEOREM OldPoliciesStayAway == ManagedSpec => []NoOldPolicyReturns
<1>1. ManagedInv => NoOldPolicyReturns BY DEF ManagedInv, SavesAgree, OneSave, NoOldPolicyReturns
<1> QED BY <1>1, ManagedInvariant, PTL

-----------------------------------------------------------------------------
(* The credential.                                                           *)

SaveSteps == {"temporary", "rename", "cleanup", "failing", "shadow", "copying", "mirror"}
ClearSteps == {"removeFile", "removeShadow", "removeMirror"}

\* Each call is at a step of its own, with the number of an enrolment.
CallsFit ==
    /\ fileCalls \in [CredentialCalls -> [pc : {"idle", "reading"} \union SaveSteps \union ClearSteps,
                                          credential : 0..MaxEnrollments]]
    /\ \A j \in CredentialCalls : fileCalls[j].pc \in
          {"idle"} \union (CASE j = "clear" -> ClearSteps
                             [] j = "start" -> {"reading"} \union SaveSteps
                             [] OTHER -> SaveSteps)

\* The enrolment's save is past its rename and has met no clearing.
Renamed ==
    /\ fileCalls["enroll"].pc \in {"cleanup", "shadow", "copying", "mirror"}
    /\ "cleared" \notin excuses

\* From the rename on, and as long as it is kept, the enrolment is somewhere: in the file,
\* the shadow or the registry, unless a copy could not be written or the only one was
\* lost. Nothing that is kept is being cleared.
SavedIsThere ==
    /\ kept => fileCalls["clear"].pc = "idle"
    /\ fileCalls["clear"].pc # "idle" /\ fileCalls["enroll"].pc # "idle" => "cleared" \in excuses
    /\ "copy" \notin excuses /\ (kept \/ Renamed) => load # 0

\* An enrolment and a clearing that meet have overlapped.
ClearingsOverlap == "cleared" \in excuses => "disturbed" \in excuses

\* The file and its copies as a complete save leaves them, but for what other programs do
\* to the file
Copies(credential) ==
    /\ files.primary \in {credential, 0, Broken} /\ files.shadow = credential
    /\ files.mirror \in {credential, NoMirror}

\* What the steps of a call that is alone have done so far
StartFollows ==
    /\ registration = 0 /\ files.shadow \in 0..MaxEnrollments /\ Copies(files.shadow)
    /\ fileCalls["start"].pc \in {"reading", "temporary", "rename", "cleanup"}
    /\ fileCalls["start"].pc # "reading" => fileCalls["start"].credential = files.shadow

SaveFollows(j) ==
    /\ fileCalls[j].pc \in {"temporary", "rename", "failing"} => Copies(registration)
    /\ fileCalls[j].pc \in {"cleanup", "shadow", "copying", "mirror"} =>
           files.primary \in {fileCalls[j].credential, 0, Broken}
    /\ fileCalls[j].pc = "mirror" => files.shadow = fileCalls[j].credential
    /\ j = "restore" => /\ fileCalls[j].credential = registration /\ fileCalls[j].pc # "failing"
                        /\ files.mirror \in {registration, NoMirror}

ClearFollows ==
    /\ fileCalls["clear"].pc = "removeFile" => Copies(registration)
    /\ fileCalls["clear"].pc \in {"removeShadow", "removeMirror"} => files.primary \in {0, Broken}
    /\ fileCalls["clear"].pc = "removeMirror" => files.shadow = 0

\* As long as nothing excuses it, one call at most is under way, and when it ends the
\* file and its copies are those of the credential in memory.
Undisturbed ==
    /\ \A i, j \in CallsUnderWay : i = j
    /\ CallsUnderWay = {} => Copies(registration)
    /\ "start" \in CallsUnderWay => StartFollows
    /\ \A j \in CallsUnderWay \intersect {"enroll", "restore"} : SaveFollows(j)
    /\ "clear" \in CallsUnderWay => ClearFollows
    /\ \A j \in CallsUnderWay : fileCalls[j].pc = "rename" => temporary = fileCalls[j].credential

FilesAgree == excuses = {} => Undisturbed

CredentialInv == CredentialTypeOK /\ CallsFit /\ SavedIsThere /\ ClearingsOverlap /\ FilesAgree

\* The type of the files and of memory, step by step.
LEMMA CredentialTypeStep ==
    ASSUME CredentialTypeOK, CallsFit, [CredentialNext]_credentialVars
    PROVE  CredentialTypeOK'
<1> USE CredentialAssumption DEF CredentialTypeOK, Credentials, Broken, NoMirror
<1> DEFINE Calls == [CredentialCalls -> [pc : {"idle", "reading"} \union SaveSteps \union ClearSteps,
                                         credential : 0..MaxEnrollments]]
           Watcher == [on : BOOLEAN, event : BOOLEAN, timer : BOOLEAN]
           Files == [primary : 0..Broken, shadow : 0..Broken, mirror : 0..NoMirror]
           HasCredential(j) == fileCalls[j].pc \notin {"idle", "reading"}
                                   => fileCalls[j].credential \in Credentials
           Whys == {"disturbed", "cleared", "copy"}
<1>1. fileCalls \in Calls BY DEF CallsFit
<1>2. files \in Files /\ watcher \in Watcher /\ excuses \in SUBSET Whys
      /\ registration \in 0..MaxEnrollments
      OBVIOUS
<1>3. ASSUME NEW j \in {"start", "enroll", "restore"}, SaveCredentialStep(j)
      PROVE  CredentialTypeOK'
  <2>1. j \in CredentialCalls BY DEF CredentialCalls
  <2>2. fileCalls[j].credential \in 1..MaxEnrollments
        BY <1>3 DEF SaveCredentialStep, WriteTemporary, RenameCredential, WriteCredentialFails,
           RemoveTemporary, OpenShadow, WriteShadow, EndSave, CredentialCalls
  <2>3. \A pc : Goto(j, pc) => \A i \in CredentialCalls \ {"clear"} : HasCredential(i)'
        BY <1>1, <2>1, <2>2 DEF Goto
  <2>4. fileCalls' = [fileCalls EXCEPT ![j] = NoCall]
            => \A i \in CredentialCalls \ {"clear"} : HasCredential(i)'
        BY <1>1, <2>1 DEF NoCall
  <2>5. ASSUME NEW whys \in SUBSET Whys, Adopt(fileCalls[j].credential, whys)
        PROVE  registration' \in 0..MaxEnrollments /\ watcher' \in Watcher /\ excuses' \in SUBSET Whys
    <3>1. registration' \in 0..MaxEnrollments BY <2>2, <2>5 DEF Adopt
    <3>2. watcher' \in Watcher BY <2>5 DEF Adopt
    <3>3. excuses' \in SUBSET Whys BY <2>5 DEF Adopt
    <3> QED BY <3>1, <3>2, <3>3
  <2>6. CASE WriteTemporary(j)
    <3>1. \A i \in CredentialCalls \ {"clear"} : HasCredential(i)'
          BY <2>3, <2>6 DEF WriteTemporary
    <3>2. temporary' \in 0..MaxEnrollments /\ isSelfWrite' \in BOOLEAN
          BY <2>2, <2>6 DEF WriteTemporary
    <3> QED BY <2>6, <3>1, <3>2 DEF WriteTemporary
  <2>7. CASE RenameCredential(j)
    <3>1. \A i \in CredentialCalls \ {"clear"} : HasCredential(i)'
          BY <2>3, <2>7 DEF RenameCredential
    <3>2. temporary' \in 0..MaxEnrollments BY <2>7 DEF RenameCredential
    <3>5. isSelfWrite' \in BOOLEAN BY <2>7, Zenon DEF RenameCredential
    <3>3. files' \in Files BY <1>2, <2>7 DEF RenameCredential
    <3>4. watcher' \in Watcher
      <4>1. PICK heard \in BOOLEAN :
               watcher' = [watcher EXCEPT !.event = watcher.on /\ (watcher.event \/ ~heard)]
            BY <2>7 DEF RenameCredential
      <4>2. (watcher.on /\ (watcher.event \/ ~heard)) \in BOOLEAN BY Zenon
      <4> QED BY <1>2, <4>1, <4>2
    <3> QED BY <2>7, <3>1, <3>2, <3>3, <3>4, <3>5 DEF RenameCredential
  <2>8. CASE WriteCredentialFails(j)
    <3>1. \A i \in CredentialCalls \ {"clear"} : HasCredential(i)'
          BY <2>3, <2>8 DEF WriteCredentialFails
    <3>2. faults' \in 0..MaxFaults BY <2>8 DEF WriteCredentialFails, Fault
    <3>3. isSelfWrite' \in BOOLEAN BY <2>8, Zenon DEF WriteCredentialFails
    <3>4. excuses' \in SUBSET Whys BY <1>2, <2>8 DEF WriteCredentialFails
    <3> QED BY <2>8, <3>1, <3>2, <3>3, <3>4 DEF WriteCredentialFails
  <2>9. CASE RemoveTemporary(j)
    <3>1. \A i \in CredentialCalls \ {"clear"} : HasCredential(i)'
          BY <2>3, <2>4, <2>9 DEF RemoveTemporary
    <3>2. registration' \in 0..MaxEnrollments /\ watcher' \in Watcher /\ excuses' \in SUBSET Whys
          BY <1>2, <2>5, <2>9 DEF RemoveTemporary
    <3>3. temporary' \in 0..MaxEnrollments BY <2>9 DEF RemoveTemporary
    <3> QED BY <2>9, <3>1, <3>2, <3>3 DEF RemoveTemporary
  <2>10. CASE OpenShadow(j)
    <3>1. \A i \in CredentialCalls \ {"clear"} : HasCredential(i)'
          BY <2>3, <2>10 DEF OpenShadow
    <3>2. files' \in Files BY <1>2, <2>10 DEF OpenShadow
    <3>3. isSelfWrite' \in BOOLEAN BY <2>10, Zenon DEF OpenShadow
    <3>4. excuses' \in SUBSET Whys BY <1>2, <2>10 DEF OpenShadow
    <3> QED BY <2>10, <3>1, <3>2, <3>3, <3>4 DEF OpenShadow
  <2>11. CASE WriteShadow(j)
    <3>1. \A i \in CredentialCalls \ {"clear"} : HasCredential(i)'
          BY <2>3, <2>11 DEF WriteShadow
    <3>2. files' \in Files BY <1>2, <2>2, <2>11 DEF WriteShadow
    <3>4. isSelfWrite' \in BOOLEAN BY <2>11, Zenon DEF WriteShadow
    <3>3. excuses' \in SUBSET Whys /\ faults' \in 0..MaxFaults
          BY <1>2, <2>11 DEF WriteShadow, ExcusedBy, Fault
    <3> QED BY <2>11, <3>1, <3>2, <3>3, <3>4 DEF WriteShadow
  <2>12. CASE EndSave(j)
    <3>1. \A i \in CredentialCalls \ {"clear"} : HasCredential(i)'
          BY <2>4, <2>12 DEF EndSave
    <3>2. files' \in Files /\ faults' \in 0..MaxFaults
          BY <1>2, <2>2, <2>12 DEF EndSave, Fault, Mirrored
    <3> DEFINE whys == IF files'.mirror = Mirrored(fileCalls[j].credential) THEN excuses
                          ELSE excuses \union {"copy"}
    <3>3. whys \in SUBSET Whys BY <1>2
    <3>4. \/ excuses' = whys /\ UNCHANGED <<registration, watcher>>
          \/ Adopt(fileCalls[j].credential, whys)
          BY <2>12 DEF EndSave
    <3> HIDE DEF whys
    <3>5. registration' \in 0..MaxEnrollments /\ watcher' \in Watcher /\ excuses' \in SUBSET Whys
          BY <1>2, <2>5, <3>3, <3>4
    <3>6. kept' \in BOOLEAN
      <4>1. (fileCalls["clear"].pc = "idle" /\ "cleared" \notin excuses) \in BOOLEAN BY Zenon
      <4>2. kept' = (fileCalls["clear"].pc = "idle" /\ "cleared" \notin excuses) \/ kept' = kept
            BY <2>12 DEF EndSave
      <4> QED BY <4>1, <4>2
    <3> QED BY <2>12, <3>1, <3>2, <3>5, <3>6 DEF EndSave
  <2> QED BY <1>3, <2>6, <2>7, <2>8, <2>9, <2>10, <2>11, <2>12 DEF SaveCredentialStep
<1>4. CASE StartAgent
  <2>1. load \in 0..MaxEnrollments BY DEF load
  <2>2. \A i \in CredentialCalls \ {"clear"} : HasCredential(i)'
    <3>1. \/ fileCalls' = [fileCalls EXCEPT !["start"] = NoCall]
          \/ load # 0 /\ fileCalls' = [fileCalls EXCEPT !["start"] =
                                         [pc |-> "temporary", credential |-> load]]
          BY <1>4 DEF StartAgent
    <3> HIDE DEF load
    <3> QED BY <1>1, <2>1, <3>1 DEF NoCall, CredentialCalls
  <2>3. registration' \in 0..MaxEnrollments /\ watcher' \in Watcher /\ excuses' \in SUBSET Whys
    <3>1. CASE Adopt(load, excuses)
      <4>1. registration' = load /\ watcher' \in Watcher BY <3>1 DEF Adopt
      <4>2. excuses' \in SUBSET Whys BY <1>2, <3>1 DEF Adopt
      <4> QED BY <2>1, <4>1, <4>2
    <3>2. CASE UNCHANGED <<registration, watcher, excuses>> BY <1>2, <3>2
    <3> QED BY <1>4, <3>1, <3>2 DEF StartAgent
  <2> QED BY <1>4, <2>2, <2>3 DEF StartAgent
<1>5. CASE Enroll
  <2>1. \A i \in CredentialCalls \ {"clear"} : HasCredential(i)'
        BY <1>1, <1>5 DEF Enroll, CredentialCalls
  <2>2. excuses' \in SUBSET Whys BY <1>2, <1>5 DEF Enroll, Overlapping, Cleared
  <2>3. enrolled' \in 0..MaxEnrollments BY <1>5 DEF Enroll
  <2> QED BY <1>5, <2>1, <2>2, <2>3 DEF Enroll
<1>6. CASE ClearEnrollment
  <2>1. \A i \in CredentialCalls \ {"clear"} : HasCredential(i)'
        BY <1>1, <1>6 DEF ClearEnrollment, Goto, CredentialCalls
  <2>2. excuses' \in SUBSET Whys BY <1>2, <1>6 DEF ClearEnrollment, Overlapping, Cleared
  <2>3. watcher' \in Watcher /\ kept' \in BOOLEAN BY <1>6 DEF ClearEnrollment
  <2> QED BY <1>6, <2>1, <2>2, <2>3 DEF ClearEnrollment
<1>7. ASSUME ClearStep PROVE CredentialTypeOK'
  <2>1. \A i \in CredentialCalls \ {"clear"} : HasCredential(i)'
        BY <1>1, <1>7 DEF ClearStep, RemoveFile, RemoveShadow, RemoveMirror, Goto, CredentialCalls
  <2>2. files' \in Files
        BY <1>2, <1>7 DEF ClearStep, RemoveFile, RemoveShadow, RemoveMirror, Mirrored
  <2>3. excuses' \in SUBSET Whys /\ faults' \in 0..MaxFaults /\ registration' \in 0..MaxEnrollments
        BY <1>2, <1>7 DEF ClearStep, RemoveFile, RemoveShadow, RemoveMirror, ExcusedBy, Fault
  <2>4. isSelfWrite' \in BOOLEAN
        BY <1>7 DEF ClearStep, RemoveFile, RemoveShadow, RemoveMirror
  <2>5. UNCHANGED <<temporary, enrolled, watcher, kept, touches>>
        BY <1>7 DEF ClearStep, RemoveFile, RemoveShadow, RemoveMirror
  <2> QED BY <2>1, <2>2, <2>3, <2>4, <2>5
<1>8. CASE Touch
  <2>1. files' \in Files BY <1>2, <1>8 DEF Touch
  <2>2. watcher' \in Watcher BY <1>2, <1>8 DEF Touch
  <2>3. touches' \in 0..MaxTouches BY <1>8 DEF Touch
  <2>4. excuses' \in SUBSET Whys BY <1>2, <1>8 DEF Touch
  <2> QED BY <1>8, <2>1, <2>2, <2>3, <2>4 DEF Touch
<1>9. CASE HearFile
  <2>1. watcher' \in Watcher
    <3>1. watcher' = [watcher EXCEPT !.event = FALSE, !.timer = watcher.timer \/ ~isSelfWrite]
          BY <1>9 DEF HearFile
    <3>2. (watcher.timer \/ ~isSelfWrite) \in BOOLEAN BY Zenon
    <3> QED BY <1>2, <3>1, <3>2
  <2>2. excuses' \in SUBSET Whys BY <1>2, <1>9 DEF HearFile
  <2> QED BY <1>9, <2>1, <2>2 DEF HearFile
<1>10. CASE Restore
  <2>1. \A i \in CredentialCalls \ {"clear"} : HasCredential(i)'
        BY <1>1, <1>10 DEF Restore, CredentialCalls
  <2>2. excuses' \in SUBSET Whys BY <1>2, <1>10 DEF Restore, Overlapping
  <2>3. watcher' \in Watcher BY <1>2, <1>10 DEF Restore
  <2> QED BY <1>10, <2>1, <2>2, <2>3 DEF Restore
<1>11. CASE Crash
  <2>1. \A i \in CredentialCalls \ {"clear"} : HasCredential(i)'
        BY <1>11 DEF Crash, CredentialCalls, NoCall
  <2>2. excuses' \in SUBSET Whys /\ faults' \in 0..MaxFaults BY <1>2, <1>11 DEF Crash, Fault
  <2>3. watcher' \in Watcher /\ isSelfWrite' \in BOOLEAN BY <1>11 DEF Crash
  <2> QED BY <1>11, <2>1, <2>2, <2>3 DEF Crash
<1>12. CASE MirrorUnread
  <2>1. \A i \in CredentialCalls \ {"clear"} : HasCredential(i)'
        BY <1>1, <1>12 DEF MirrorUnread, CredentialCalls, NoCall
  <2>2. excuses' \in SUBSET Whys /\ faults' \in 0..MaxFaults
        BY <1>2, <1>12 DEF MirrorUnread, ExcusedBy, Fault
  <2> QED BY <1>12, <2>1, <2>2 DEF MirrorUnread
<1>13. CASE UNCHANGED credentialVars BY <1>13 DEF credentialVars
<1> QED BY <1>3, <1>4, <1>5, <1>6, <1>7, <1>8, <1>9, <1>10, <1>11, <1>12, <1>13
        DEF CredentialNext

\* The calls, step by step.
LEMMA CallsFitStep ==
    ASSUME CredentialTypeOK, CallsFit, [CredentialNext]_credentialVars
    PROVE  CallsFit'
<1> USE CredentialAssumption
<1> DEFINE Pcs == {"idle", "reading"} \union SaveSteps \union ClearSteps
           Calls == [CredentialCalls -> [pc : Pcs, credential : 0..MaxEnrollments]]
           Steps(j) == {"idle"} \union (CASE j = "clear" -> ClearSteps
                                          [] j = "start" -> {"reading"} \union SaveSteps
                                          [] OTHER -> SaveSteps)
<1>1. fileCalls \in Calls /\ \A j \in CredentialCalls : fileCalls[j].pc \in Steps(j)
      BY DEF CallsFit
<1>2. ASSUME NEW j \in CredentialCalls, NEW c \in [pc : Steps(j), credential : 0..MaxEnrollments],
             fileCalls' = [fileCalls EXCEPT ![j] = c]
      PROVE  CallsFit'
  <2>1. c.pc \in Steps(j) /\ Steps(j) \subseteq Pcs OBVIOUS
  <2>2. c \in [pc : Pcs, credential : 0..MaxEnrollments] BY <2>1
  <2> HIDE DEF Pcs, Steps
  <2>3. fileCalls' \in Calls BY <1>1, <1>2, <2>2
  <2>4. \A i \in CredentialCalls : fileCalls'[i].pc \in Steps(i) BY <1>1, <1>2, <2>1
  <2> QED BY <2>3, <2>4 DEF CallsFit, Pcs, Steps
<1>3. ASSUME NEW j \in CredentialCalls, NEW pc \in Steps(j), Goto(j, pc)
      PROVE  CallsFit'
  <2>1. fileCalls' = [fileCalls EXCEPT ![j] = [fileCalls[j] EXCEPT !.pc = pc]]
        BY <1>3 DEF Goto
  <2>2. fileCalls[j] \in [pc : Pcs, credential : 0..MaxEnrollments] BY <1>1
  <2> HIDE DEF Pcs, Steps
  <2>3. [fileCalls[j] EXCEPT !.pc = pc] \in [pc : Steps(j), credential : 0..MaxEnrollments]
        BY <2>2
  <2> QED BY <1>2, <2>1, <2>3
<1>4. ASSUME NEW j \in CredentialCalls, fileCalls' = [fileCalls EXCEPT ![j] = NoCall]
      PROVE  CallsFit'
  <2>1. NoCall \in [pc : Steps(j), credential : 0..MaxEnrollments] BY DEF NoCall
  <2> HIDE DEF Steps
  <2> QED BY <1>2, <1>4, <2>1
<1>5. ASSUME UNCHANGED fileCalls PROVE CallsFit'
      BY <1>5 DEF CallsFit
<1>6. ASSUME NEW j \in {"start", "enroll", "restore"}, SaveCredentialStep(j)
      PROVE  CallsFit'
  <2>1. j \in CredentialCalls /\ j # "clear" BY DEF CredentialCalls
  <2>2. \A pc \in SaveSteps : pc \in Steps(j) BY <2>1
  <2>3. \/ \E pc \in SaveSteps : Goto(j, pc)
        \/ fileCalls' = [fileCalls EXCEPT ![j] = NoCall]
        BY <1>6 DEF SaveCredentialStep, WriteTemporary, RenameCredential, WriteCredentialFails,
           RemoveTemporary, OpenShadow, WriteShadow, EndSave, SaveSteps
  <2> HIDE DEF Steps
  <2> QED BY <1>3, <1>4, <2>1, <2>2, <2>3
<1>7. CASE StartAgent
  <2>1. load \in 0..MaxEnrollments BY DEF load, Credentials, CredentialTypeOK
  <2> DEFINE c == [pc |-> "temporary", credential |-> load]
  <2>2. "start" \in CredentialCalls /\ c \in [pc : Steps("start"), credential : 0..MaxEnrollments]
        BY <2>1 DEF CredentialCalls, SaveSteps
  <2>3. \/ fileCalls' = [fileCalls EXCEPT !["start"] = NoCall]
        \/ fileCalls' = [fileCalls EXCEPT !["start"] = c]
        BY <1>7 DEF StartAgent
  <2> HIDE DEF c, Steps
  <2> QED BY <1>2, <1>4, <2>2, <2>3
<1>8. CASE Enroll
  <2> DEFINE c == [pc |-> "temporary", credential |-> enrolled + 1]
  <2>1. enrolled + 1 \in 0..MaxEnrollments BY <1>8 DEF Enroll, CredentialTypeOK
  <2>2. "enroll" \in CredentialCalls /\ c \in [pc : Steps("enroll"), credential : 0..MaxEnrollments]
        BY <2>1 DEF CredentialCalls, SaveSteps
  <2>3. fileCalls' = [fileCalls EXCEPT !["enroll"] = c] BY <1>8 DEF Enroll
  <2> HIDE DEF c, Steps
  <2> QED BY <1>2, <2>2, <2>3
<1>9. ASSUME ClearEnrollment \/ ClearStep PROVE CallsFit'
  <2>1. \A pc \in {"idle"} \union ClearSteps : pc \in Steps("clear") OBVIOUS
  <2>2. \E pc \in {"idle"} \union ClearSteps : Goto("clear", pc)
        BY <1>9 DEF ClearEnrollment, ClearStep, RemoveFile, RemoveShadow, RemoveMirror, ClearSteps
  <2>3. "clear" \in CredentialCalls BY DEF CredentialCalls
  <2> HIDE DEF Steps
  <2> QED BY <1>3, <2>1, <2>2, <2>3
<1>10. CASE Touch BY <1>5, <1>10 DEF Touch
<1>11. CASE HearFile BY <1>5, <1>11 DEF HearFile
<1>12. CASE Restore
  <2> DEFINE c == [pc |-> "temporary", credential |-> registration]
  <2>1. registration \in 0..MaxEnrollments BY DEF CredentialTypeOK
  <2>2. "restore" \in CredentialCalls
        /\ c \in [pc : Steps("restore"), credential : 0..MaxEnrollments]
        BY <2>1 DEF CredentialCalls, SaveSteps
  <2>3. UNCHANGED fileCalls \/ fileCalls' = [fileCalls EXCEPT !["restore"] = c]
        BY <1>12 DEF Restore
  <2> HIDE DEF c, Steps
  <2> QED BY <1>2, <1>5, <2>2, <2>3
<1>13. CASE Crash
  <2>1. \A j \in CredentialCalls :
           /\ fileCalls'[j].pc \in {"idle", "reading"} /\ fileCalls'[j].credential = 0
           /\ j # "start" => fileCalls'[j].pc = "idle"
        BY <1>13 DEF Crash, NoCall
  <2>2. fileCalls' \in Calls BY <1>13 DEF Crash, NoCall
  <2>3. \A j \in CredentialCalls : fileCalls'[j].pc \in Steps(j) BY <2>1
  <2> QED BY <2>2, <2>3 DEF CallsFit
<1>14. CASE MirrorUnread BY <1>4, <1>14 DEF MirrorUnread, CredentialCalls
<1>15. CASE UNCHANGED credentialVars BY <1>5, <1>15 DEF credentialVars
<1> QED BY <1>6, <1>7, <1>8, <1>9, <1>10, <1>11, <1>12, <1>13, <1>14, <1>15 DEF CredentialNext

\* A place that can be loaded is all that load() needs.
LEMMA SomewhereIsFound ==
    ASSUME CredentialTypeOK
    PROVE  load # 0 <=> \/ files.primary \in Credentials \/ files.shadow \in Credentials
                        \/ files.mirror \in Credentials
BY CredentialAssumption DEF load, Credentials

\* What is lost was not the only copy.
LEMMA AnotherCopy ==
    ASSUME CredentialTypeOK
    PROVE  /\ files.primary \in Credentials /\ ~OnlyCopy("primary")
                => files.shadow \in Credentials \/ files.mirror \in Credentials
           /\ files.shadow \in Credentials /\ ~OnlyCopy("shadow")
                => files.primary \in Credentials \/ files.mirror \in Credentials
<1>1. files \in [primary : 0..Broken, shadow : 0..Broken, mirror : 0..NoMirror]
      BY DEF CredentialTypeOK
<1>2. DOMAIN files = {"primary", "shadow", "mirror"} BY <1>1
<1>3. /\ OnlyCopy("primary") <=> /\ files.primary \in Credentials
                                 /\ files.shadow \notin Credentials
                                 /\ files.mirror \notin Credentials
      /\ OnlyCopy("shadow") <=> /\ files.primary \notin Credentials
                                /\ files.shadow \in Credentials
                                /\ files.mirror \notin Credentials
      BY <1>2 DEF OnlyCopy
<1> QED BY <1>3

\* The credential is somewhere, step by step.
LEMMA SavedStep ==
    ASSUME CredentialTypeOK, CredentialTypeOK', CallsFit, SavedIsThere,
           [CredentialNext]_credentialVars
    PROVE  SavedIsThere'
<1> DEFINE There == \/ files.primary \in Credentials \/ files.shadow \in Credentials
                    \/ files.mirror \in Credentials
<1>0. /\ load # 0 <=> There
      /\ load' # 0 <=> There'
  <2>1. load # 0 <=> There BY SomewhereIsFound
  <2>2. load' # 0 <=> There' BY CredentialAssumption DEF load, Credentials, CredentialTypeOK
  <2> QED BY <2>1, <2>2
<1>1. files \in [primary : 0..Broken, shadow : 0..Broken, mirror : 0..NoMirror]
      BY DEF CredentialTypeOK
<1>2. ASSUME kept' => kept, There => There' \/ "copy" \in excuses',
             fileCalls'["clear"].pc = fileCalls["clear"].pc,
             fileCalls'["enroll"].pc = fileCalls["enroll"].pc \/ fileCalls'["enroll"].pc = "idle",
             "copy" \in excuses => "copy" \in excuses',
             "cleared" \in excuses <=> "cleared" \in excuses'
      PROVE  SavedIsThere'
      BY <1>0, <1>2 DEF SavedIsThere, Renamed
<1>3. \A i, j \in CredentialCalls : \A c :
         i # j /\ fileCalls' = [fileCalls EXCEPT ![j] = c] => fileCalls'[i] = fileCalls[i]
      BY DEF CallsFit
<1>4. \A i, j \in CredentialCalls : \A pc :
         /\ i # j /\ Goto(j, pc) => fileCalls'[i] = fileCalls[i]
         /\ Goto(j, pc) => fileCalls'[j].pc = pc
      BY DEF CallsFit, Goto
<1>5. "clear" \in CredentialCalls /\ "enroll" \in CredentialCalls /\ "start" \in CredentialCalls
      /\ "restore" \in CredentialCalls
      BY DEF CredentialCalls
<1>6. ASSUME NEW j \in {"start", "enroll", "restore"}, SaveCredentialStep(j)
      PROVE  SavedIsThere'
  <2>1. j \in CredentialCalls /\ j # "clear" BY DEF CredentialCalls
  <2>2. fileCalls'["clear"] = fileCalls["clear"]
        BY <1>3, <1>4, <1>5, <1>6, <2>1 DEF SaveCredentialStep, WriteTemporary, RenameCredential,
           WriteCredentialFails, RemoveTemporary, OpenShadow, WriteShadow, EndSave
  <2>3. j # "enroll" => fileCalls'["enroll"] = fileCalls["enroll"]
        BY <1>3, <1>4, <1>5, <1>6, <2>1 DEF SaveCredentialStep, WriteTemporary, RenameCredential,
           WriteCredentialFails, RemoveTemporary, OpenShadow, WriteShadow, EndSave
  <2>4. fileCalls[j].credential \in Credentials
        BY <1>6, <2>1 DEF SaveCredentialStep, WriteTemporary, RenameCredential, WriteCredentialFails,
           RemoveTemporary, OpenShadow, WriteShadow, EndSave, CredentialTypeOK
  <2>5. "copy" \in excuses => "copy" \in excuses'
        BY <1>6 DEF SaveCredentialStep, WriteTemporary, RenameCredential, WriteCredentialFails,
           RemoveTemporary, OpenShadow, WriteShadow, EndSave, Adopt, ExcusedBy
  <2>6. "cleared" \in excuses <=> "cleared" \in excuses'
        BY <1>6 DEF SaveCredentialStep, WriteTemporary, RenameCredential, WriteCredentialFails,
           RemoveTemporary, OpenShadow, WriteShadow, EndSave, Adopt, ExcusedBy
  <2>7. fileCalls[j].pc # "idle"
        BY <1>6 DEF SaveCredentialStep, WriteTemporary, RenameCredential, WriteCredentialFails,
           RemoveTemporary, OpenShadow, WriteShadow, EndSave
  <2>8. fileCalls'["clear"].pc # "idle" /\ fileCalls'["enroll"].pc # "idle" => "cleared" \in excuses'
        BY <2>2, <2>3, <2>6, <2>7 DEF SavedIsThere
  <2>9. CASE WriteTemporary(j)
    <3>1. Goto(j, "rename") /\ UNCHANGED <<files, kept>> BY <2>9 DEF WriteTemporary
    <3>2. Renamed' => Renamed BY <1>4, <2>1, <2>3, <2>6, <3>1 DEF Renamed
    <3> QED BY <1>0, <2>2, <2>5, <2>8, <3>1, <3>2 DEF SavedIsThere
  <2>10. CASE RenameCredential(j)
    <3>1. files' = [files EXCEPT !.primary = temporary] /\ temporary # 0 /\ UNCHANGED kept
          BY <2>10 DEF RenameCredential
    <3>2. files'.primary \in Credentials
          BY <1>1, <3>1, CredentialAssumption DEF Credentials, CredentialTypeOK
    <3> QED BY <1>0, <2>2, <2>8, <3>1, <3>2 DEF SavedIsThere
  <2>11. CASE WriteCredentialFails(j)
    <3>1. Goto(j, "failing") /\ UNCHANGED <<files, kept>> BY <2>11 DEF WriteCredentialFails
    <3>2. Renamed' => Renamed BY <1>4, <2>1, <2>3, <2>6, <3>1 DEF Renamed
    <3> QED BY <1>0, <2>2, <2>5, <2>8, <3>1, <3>2 DEF SavedIsThere
  <2>12. CASE RemoveTemporary(j)
    <3>1. fileCalls[j].pc \in {"cleanup", "failing"} /\ UNCHANGED <<files, kept>>
          BY <2>12 DEF RemoveTemporary
    <3>2. \/ Goto(j, "shadow") /\ fileCalls[j].pc = "cleanup"
          \/ fileCalls' = [fileCalls EXCEPT ![j] = NoCall]
          BY <2>12 DEF RemoveTemporary
    <3>3. NoCall.pc = "idle" BY DEF NoCall
    <3>4. Renamed' => Renamed
      <4>1. CASE Goto(j, "shadow") /\ fileCalls[j].pc = "cleanup"
            BY <2>3, <2>6, <4>1 DEF Renamed
      <4>2. CASE fileCalls' = [fileCalls EXCEPT ![j] = NoCall]
        <5>1. fileCalls'[j].pc = "idle" BY <2>1, <3>3, <4>2 DEF CallsFit
        <5> QED BY <2>3, <2>6, <5>1 DEF Renamed
      <4> QED BY <3>2, <4>1, <4>2
    <3> QED BY <1>0, <2>2, <2>5, <2>8, <3>1, <3>4 DEF SavedIsThere
  <2>13. CASE OpenShadow(j)
    <3>1. Goto(j, "copying") /\ files' = [files EXCEPT !.shadow = Broken] /\ UNCHANGED kept
          /\ fileCalls[j].pc = "shadow" /\ (OnlyCopy("shadow") => "copy" \in excuses')
          BY <2>13 DEF OpenShadow
    <3>2. files'.primary = files.primary /\ files'.mirror = files.mirror BY <1>1, <3>1
    <3>3. There => There' \/ "copy" \in excuses' BY <3>1, <3>2, AnotherCopy
    <3>4. Renamed' => Renamed BY <2>3, <2>6, <3>1 DEF Renamed
    <3> QED BY <1>0, <2>2, <2>5, <2>8, <3>1, <3>3, <3>4 DEF SavedIsThere
  <2>14. CASE WriteShadow(j)
    <3>1. Goto(j, "mirror") /\ UNCHANGED kept /\ fileCalls[j].pc = "copying"
          BY <2>14 DEF WriteShadow
    <3>2. files'.shadow \in Credentials \/ "copy" \in excuses'
          BY <1>1, <2>4, <2>14 DEF WriteShadow, ExcusedBy
    <3> QED BY <1>0, <2>2, <2>8, <3>1, <3>2 DEF SavedIsThere
  <2>15. CASE EndSave(j)
    <3>1. fileCalls' = [fileCalls EXCEPT ![j] = NoCall] /\ fileCalls[j].pc = "mirror"
          BY <2>15 DEF EndSave
    <3>2. kept' => kept \/ (Renamed /\ fileCalls["clear"].pc = "idle")
      <4>1. CASE j = "enroll"
        <5>1. kept' = (fileCalls["clear"].pc = "idle" /\ "cleared" \notin excuses)
              BY <2>15, <4>1 DEF EndSave
        <5>2. fileCalls["enroll"].pc = "mirror" BY <3>1, <4>1
        <5> QED BY <5>1, <5>2 DEF Renamed
      <4>2. CASE j # "enroll" BY <2>15, <4>2 DEF EndSave
      <4> QED BY <4>1, <4>2
    <3>3. fileCalls'[j].pc = "idle" BY <2>1, <3>1 DEF CallsFit, NoCall
    <3>4. Renamed' => Renamed BY <2>3, <2>6, <3>3 DEF Renamed
    <3>5. There => There'
      <4>1. files'.primary = files.primary /\ files'.shadow = files.shadow
            BY <1>1, <2>15 DEF EndSave
      <4>2. files'.mirror \in {files.mirror, fileCalls[j].credential}
            BY <1>1, <2>15 DEF EndSave, Mirrored
      <4> QED BY <2>4, <4>1, <4>2
    <3> QED BY <1>0, <2>2, <2>5, <2>8, <3>2, <3>4, <3>5 DEF SavedIsThere
  <2> QED BY <1>6, <2>9, <2>10, <2>11, <2>12, <2>13, <2>14, <2>15 DEF SaveCredentialStep
<1>7. CASE StartAgent
  <2>1. fileCalls'["clear"] = fileCalls["clear"] /\ fileCalls'["enroll"] = fileCalls["enroll"]
        BY <1>3, <1>5, <1>7 DEF StartAgent
  <2>2. /\ UNCHANGED <<kept, files>> /\ ("copy" \in excuses => "copy" \in excuses')
        /\ "cleared" \in excuses <=> "cleared" \in excuses'
        BY <1>7 DEF StartAgent, Adopt
  <2> QED BY <1>2, <2>1, <2>2
<1>8. CASE MirrorUnread
  <2>1. fileCalls'["clear"] = fileCalls["clear"] /\ fileCalls'["enroll"] = fileCalls["enroll"]
        BY <1>3, <1>5, <1>8 DEF MirrorUnread
  <2> QED BY <1>2, <1>8, <2>1 DEF MirrorUnread, ExcusedBy
<1>9. CASE Enroll
  <2>1. fileCalls'["clear"] = fileCalls["clear"] BY <1>3, <1>5, <1>9 DEF Enroll
  <2>2. fileCalls'["enroll"].pc = "temporary" BY <1>5, <1>9 DEF Enroll, CallsFit
  <2>3. UNCHANGED <<kept, files>> /\ ("copy" \in excuses => "copy" \in excuses')
        BY <1>9 DEF Enroll
  <2>4. fileCalls["clear"].pc # "idle" => "cleared" \in excuses' BY <1>9 DEF Enroll, Cleared
  <2> QED BY <1>0, <2>1, <2>2, <2>3, <2>4 DEF SavedIsThere, Renamed
<1>10. CASE ClearEnrollment
  <2>1. fileCalls'["enroll"] = fileCalls["enroll"] BY <1>4, <1>5, <1>10 DEF ClearEnrollment
  <2>2. ~kept' /\ UNCHANGED files /\ ("copy" \in excuses => "copy" \in excuses')
        /\ ("cleared" \in excuses => "cleared" \in excuses')
        BY <1>10 DEF ClearEnrollment
  <2>3. fileCalls["enroll"].pc # "idle" => "cleared" \in excuses'
        BY <1>10 DEF ClearEnrollment, Cleared
  <2> QED BY <1>0, <2>1, <2>2, <2>3 DEF SavedIsThere, Renamed
<1>11. ASSUME ClearStep PROVE SavedIsThere'
  <2>1. fileCalls["clear"].pc # "idle" /\ kept' = kept
        BY <1>11 DEF ClearStep, RemoveFile, RemoveShadow, RemoveMirror
  <2>2. fileCalls'["enroll"] = fileCalls["enroll"]
        BY <1>4, <1>5, <1>11 DEF ClearStep, RemoveFile, RemoveShadow, RemoveMirror
  <2>3. "cleared" \in excuses => "cleared" \in excuses'
        BY <1>11 DEF ClearStep, RemoveFile, RemoveShadow, RemoveMirror, ExcusedBy
  <2> QED BY <2>1, <2>2, <2>3 DEF SavedIsThere, Renamed
<1>12. CASE Touch
  <2>1. files'.mirror = files.mirror /\ files'.shadow = files.shadow BY <1>1, <1>12 DEF Touch
  <2>2. OnlyCopy("primary") => "copy" \in excuses' BY <1>12 DEF Touch
  <2>3. There => There' \/ "copy" \in excuses' BY <2>1, <2>2, AnotherCopy
  <2> QED BY <1>2, <1>12, <2>3 DEF Touch
<1>13. CASE HearFile BY <1>2, <1>13 DEF HearFile
<1>14. CASE Restore
  <2>1. fileCalls'["clear"] = fileCalls["clear"] /\ fileCalls'["enroll"] = fileCalls["enroll"]
        BY <1>3, <1>5, <1>14 DEF Restore
  <2> QED BY <1>2, <1>14, <2>1 DEF Restore, Overlapping
<1>15. CASE Crash
  <2>1. fileCalls'["clear"].pc = "idle" /\ fileCalls'["enroll"].pc = "idle"
        BY <1>15 DEF Crash, CredentialCalls, NoCall
  <2>2. UNCHANGED <<kept, files>> /\ ("copy" \in excuses => "copy" \in excuses')
        BY <1>15 DEF Crash
  <2> QED BY <1>0, <2>1, <2>2 DEF SavedIsThere, Renamed
<1>16. CASE UNCHANGED credentialVars BY <1>2, <1>16 DEF credentialVars
<1> QED BY <1>6, <1>7, <1>8, <1>9, <1>10, <1>11, <1>12, <1>13, <1>14, <1>15, <1>16
        DEF CredentialNext

LEMMA OverlapStep ==
    ASSUME CallsFit, ClearingsOverlap, [CredentialNext]_credentialVars
    PROVE  ClearingsOverlap'
<1>1. ASSUME "disturbed" \in excuses => "disturbed" \in excuses',
             "cleared" \in excuses' => "cleared" \in excuses
      PROVE  ClearingsOverlap'
      BY <1>1 DEF ClearingsOverlap
<1>2. CASE Enroll
  <2>1. "enroll" \in CredentialCalls /\ "clear" \in CredentialCalls BY DEF CredentialCalls
  <2>2. "cleared" \in excuses' => fileCalls["clear"].pc # "idle" BY <1>2 DEF Enroll, Cleared, Overlapping
  <2>3. fileCalls["clear"].pc # "idle" => CallsUnderWay # {} BY <2>1 DEF CallsUnderWay
  <2>4. CallsUnderWay # {} => "disturbed" \in excuses' BY <1>2 DEF Enroll, Overlapping
  <2> QED BY <2>2, <2>3, <2>4 DEF ClearingsOverlap
<1>3. CASE ClearEnrollment
  <2>1. "enroll" \in CredentialCalls BY DEF CredentialCalls
  <2>2. CASE fileCalls["enroll"].pc = "idle"
        BY <1>3, <2>2 DEF ClearEnrollment, Cleared, Overlapping, ClearingsOverlap
  <2>3. CASE fileCalls["enroll"].pc # "idle"
    <3>1. CallsUnderWay # {} BY <2>1, <2>3 DEF CallsUnderWay
    <3> QED BY <1>3, <3>1 DEF ClearEnrollment, Overlapping, ClearingsOverlap
  <2> QED BY <2>2, <2>3
<1>4. ASSUME NEW j \in {"start", "enroll", "restore"}, SaveCredentialStep(j)
      PROVE  ClearingsOverlap'
      BY <1>1, <1>4 DEF SaveCredentialStep, WriteTemporary, RenameCredential, WriteCredentialFails,
         RemoveTemporary, OpenShadow, WriteShadow, EndSave, Adopt, ExcusedBy
<1>5. CASE StartAgent BY <1>1, <1>5 DEF StartAgent, Adopt
<1>6. CASE MirrorUnread BY <1>1, <1>6 DEF MirrorUnread, ExcusedBy
<1>7. CASE ClearStep
      BY <1>1, <1>7 DEF ClearStep, RemoveFile, RemoveShadow, RemoveMirror, ExcusedBy
<1>8. CASE Touch BY <1>1, <1>8 DEF Touch
<1>9. CASE HearFile BY <1>1, <1>9 DEF HearFile
<1>10. CASE Restore BY <1>1, <1>10 DEF Restore, Overlapping
<1>11. CASE Crash BY <1>1, <1>11 DEF Crash
<1>12. CASE UNCHANGED credentialVars BY <1>1, <1>12 DEF credentialVars
<1> QED BY <1>2, <1>3, <1>4, <1>5, <1>6, <1>7, <1>8, <1>9, <1>10, <1>11, <1>12 DEF CredentialNext

\* With one call alone, which goes on as it has to, nothing is disturbed.
LEMMA AloneFits ==
    ASSUME NEW j \in CredentialCalls,
           \A i \in CredentialCalls \ {j} : fileCalls'[i].pc = "idle",
           fileCalls'[j].pc = "idle" => Copies(registration)',
           fileCalls'[j].pc # "idle" =>
               /\ j = "start" => StartFollows'
               /\ j \in {"enroll", "restore"} => SaveFollows(j)'
               /\ j = "clear" => ClearFollows'
               /\ fileCalls'[j].pc = "rename" => temporary' = fileCalls'[j].credential
    PROVE  Undisturbed'
<1>1. CallsUnderWay' \subseteq {j} BY DEF CallsUnderWay
<1>2. j \in CallsUnderWay' <=> fileCalls'[j].pc # "idle" BY DEF CallsUnderWay
<1> QED BY <1>1, <1>2 DEF Undisturbed

\* A call that goes on, undisturbed, is alone.
LEMMA GoesOnAlone ==
    ASSUME Undisturbed, CallsFit, NEW j \in CredentialCalls, fileCalls[j].pc # "idle",
           NEW c, fileCalls' = [fileCalls EXCEPT ![j] = c]
    PROVE  /\ \A i \in CredentialCalls \ {j} : fileCalls'[i].pc = "idle"
           /\ fileCalls'[j] = c /\ CallsUnderWay = {j}
<1>1. \A i \in CredentialCalls \ {j} : fileCalls[i].pc = "idle"
      BY DEF Undisturbed, CallsUnderWay
<1>2. fileCalls'[j] = c /\ \A i \in CredentialCalls \ {j} : fileCalls'[i] = fileCalls[i]
      BY DEF CallsFit
<1> QED BY <1>1, <1>2 DEF CallsUnderWay

\* A call that begins while no other is under way
LEMMA BeginsAlone ==
    ASSUME CallsFit, CallsUnderWay = {}, NEW j \in CredentialCalls,
           NEW c, fileCalls' = [fileCalls EXCEPT ![j] = c]
    PROVE  /\ \A i \in CredentialCalls \ {j} : fileCalls'[i].pc = "idle"
           /\ fileCalls'[j] = c
<1>1. \A i \in CredentialCalls : fileCalls[i].pc = "idle" BY DEF CallsUnderWay
<1>2. fileCalls'[j] = c /\ \A i \in CredentialCalls \ {j} : fileCalls'[i] = fileCalls[i]
      BY DEF CallsFit
<1> QED BY <1>1, <1>2

\* A step of a save, with no excuse.
LEMMA SaveAgreesStep ==
    ASSUME CredentialTypeOK, CallsFit, Undisturbed, excuses' = {},
           NEW j \in {"start", "enroll", "restore"}, SaveCredentialStep(j)
    PROVE  Undisturbed'
<1> USE CredentialAssumption
<1>1. j \in CredentialCalls /\ fileCalls[j].pc # "idle" /\ fileCalls[j].pc # "reading" /\ j # "clear"
      BY DEF CredentialCalls, SaveCredentialStep, WriteTemporary, RenameCredential, WriteCredentialFails,
         RemoveTemporary, OpenShadow, WriteShadow, EndSave
<1>2. j \in CallsUnderWay BY <1>1 DEF CallsUnderWay
<1>3. /\ j = "start" => StartFollows
      /\ j \in {"enroll", "restore"} => SaveFollows(j)
      /\ fileCalls[j].pc = "rename" => temporary = fileCalls[j].credential
      BY <1>2 DEF Undisturbed
<1>4. fileCalls[j].credential \in Credentials BY <1>1 DEF CredentialTypeOK
<1>5. fileCalls[j] \in [pc : {"idle", "reading"} \union SaveSteps \union ClearSteps,
                        credential : 0..MaxEnrollments]
      BY <1>1 DEF CallsFit
<1>6. ASSUME NEW pc \in SaveSteps, Goto(j, pc)
      PROVE  /\ \A i \in CredentialCalls \ {j} : fileCalls'[i].pc = "idle"
             /\ fileCalls'[j].pc = pc /\ fileCalls'[j].credential = fileCalls[j].credential
  <2>1. fileCalls' = [fileCalls EXCEPT ![j] = [fileCalls[j] EXCEPT !.pc = pc]]
        BY <1>6 DEF Goto
  <2> DEFINE c == [fileCalls[j] EXCEPT !.pc = pc]
  <2>2. c.pc = pc /\ c.credential = fileCalls[j].credential BY <1>5
  <2> HIDE DEF c
  <2> QED BY <1>1, <2>1, <2>2, GoesOnAlone DEF c
<1>7. ASSUME fileCalls' = [fileCalls EXCEPT ![j] = NoCall]
      PROVE  /\ \A i \in CredentialCalls \ {j} : fileCalls'[i].pc = "idle"
             /\ fileCalls'[j].pc = "idle"
  <2>1. NoCall.pc = "idle" BY DEF NoCall
  <2> QED BY <1>1, <1>7, <2>1, GoesOnAlone
<1>8. files \in [primary : 0..Broken, shadow : 0..Broken, mirror : 0..NoMirror]
      BY DEF CredentialTypeOK
<1>9. CASE WriteTemporary(j)
  <2>1. Goto(j, "rename") /\ temporary' = fileCalls[j].credential /\ fileCalls[j].pc = "temporary"
        /\ UNCHANGED <<files, registration>>
        BY <1>9 DEF WriteTemporary
  <2>2. /\ \A i \in CredentialCalls \ {j} : fileCalls'[i].pc = "idle"
        /\ fileCalls'[j].pc = "rename" /\ fileCalls'[j].credential = fileCalls[j].credential
        BY <1>6, <2>1 DEF SaveSteps
  <2>3. j = "start" => StartFollows' BY <1>3, <2>1, <2>2 DEF StartFollows, Copies
  <2>4. j \in {"enroll", "restore"} => SaveFollows(j)'
        BY <1>3, <2>1, <2>2 DEF SaveFollows, Copies
  <2> QED BY <1>1, <2>1, <2>2, <2>3, <2>4, AloneFits
<1>10. CASE RenameCredential(j)
  <2>1. Goto(j, "cleanup") /\ files' = [files EXCEPT !.primary = temporary]
        /\ fileCalls[j].pc = "rename" /\ UNCHANGED registration
        BY <1>10 DEF RenameCredential
  <2>2. /\ \A i \in CredentialCalls \ {j} : fileCalls'[i].pc = "idle"
        /\ fileCalls'[j].pc = "cleanup" /\ fileCalls'[j].credential = fileCalls[j].credential
        BY <1>6, <2>1 DEF SaveSteps
  <2>3. files'.primary = fileCalls[j].credential /\ files'.shadow = files.shadow
        /\ files'.mirror = files.mirror
        BY <1>3, <1>8, <2>1
  <2>4. j = "start" => StartFollows' BY <1>3, <2>1, <2>2, <2>3 DEF StartFollows, Copies
  <2>5. j \in {"enroll", "restore"} => SaveFollows(j)'
        BY <1>3, <2>1, <2>2, <2>3 DEF SaveFollows, Copies
  <2> QED BY <1>1, <2>2, <2>4, <2>5, AloneFits
<1>11. CASE WriteCredentialFails(j)
  <2>1. Goto(j, "failing") /\ j = "enroll" /\ fileCalls[j].pc \in {"temporary", "rename"}
        /\ UNCHANGED <<files, registration>>
        BY <1>11 DEF WriteCredentialFails
  <2>2. /\ \A i \in CredentialCalls \ {j} : fileCalls'[i].pc = "idle"
        /\ fileCalls'[j].pc = "failing"
        BY <1>6, <2>1 DEF SaveSteps
  <2>3. SaveFollows(j)' BY <1>3, <2>1, <2>2 DEF SaveFollows, Copies
  <2> QED BY <1>1, <2>1, <2>2, <2>3, AloneFits
<1>12. CASE RemoveTemporary(j)
  <2>1. UNCHANGED files /\ fileCalls[j].pc \in {"cleanup", "failing"}
        BY <1>12 DEF RemoveTemporary
  <2>2. CASE j = "start"
    <3>1. files.shadow = fileCalls[j].credential /\ Copies(files.shadow)
          BY <1>1, <1>3, <2>2 DEF StartFollows
    <3>2. Adopt(fileCalls[j].credential, excuses) /\ fileCalls' = [fileCalls EXCEPT ![j] = NoCall]
          BY <1>12, <2>2, <3>1 DEF RemoveTemporary
    <3>3. registration' = fileCalls[j].credential BY <3>2 DEF Adopt
    <3>4. Copies(registration)' BY <2>1, <3>1, <3>3 DEF Copies
    <3> QED BY <1>1, <1>7, <3>2, <3>4, AloneFits
  <2>3. CASE j # "start" /\ fileCalls[j].pc = "cleanup"
    <3>1. Goto(j, "shadow") /\ UNCHANGED registration BY <1>12, <2>3 DEF RemoveTemporary
    <3>2. /\ \A i \in CredentialCalls \ {j} : fileCalls'[i].pc = "idle"
          /\ fileCalls'[j].pc = "shadow" /\ fileCalls'[j].credential = fileCalls[j].credential
          BY <1>6, <3>1 DEF SaveSteps
    <3>3. SaveFollows(j)' BY <1>3, <2>1, <2>3, <3>1, <3>2 DEF SaveFollows
    <3> QED BY <1>1, <2>3, <3>2, <3>3, AloneFits
  <2>4. CASE j # "start" /\ fileCalls[j].pc = "failing"
    <3>1. fileCalls' = [fileCalls EXCEPT ![j] = NoCall] /\ UNCHANGED registration
          BY <1>12, <2>4 DEF RemoveTemporary
    <3>2. Copies(registration)' BY <1>3, <2>1, <2>4, <3>1 DEF SaveFollows, Copies
    <3> QED BY <1>1, <1>7, <3>1, <3>2, AloneFits
  <2> QED BY <2>1, <2>2, <2>3, <2>4
<1>13. CASE OpenShadow(j)
  <2>1. Goto(j, "copying") /\ files' = [files EXCEPT !.shadow = Broken]
        /\ fileCalls[j].pc = "shadow" /\ UNCHANGED registration
        BY <1>13 DEF OpenShadow
  <2>2. /\ \A i \in CredentialCalls \ {j} : fileCalls'[i].pc = "idle"
        /\ fileCalls'[j].pc = "copying" /\ fileCalls'[j].credential = fileCalls[j].credential
        BY <1>6, <2>1 DEF SaveSteps
  <2>3. files'.primary = files.primary /\ files'.mirror = files.mirror BY <1>8, <2>1
  <2>4. j # "start" BY <1>3, <2>1 DEF StartFollows
  <2>5. SaveFollows(j)' BY <1>3, <2>1, <2>2, <2>3, <2>4 DEF SaveFollows
  <2> QED BY <1>1, <2>2, <2>4, <2>5, AloneFits
<1>14. CASE WriteShadow(j)
  <2>1. Goto(j, "mirror") /\ files' = [files EXCEPT !.shadow = fileCalls[j].credential]
        /\ fileCalls[j].pc = "copying" /\ UNCHANGED registration
        BY <1>14 DEF WriteShadow, ExcusedBy
  <2>2. /\ \A i \in CredentialCalls \ {j} : fileCalls'[i].pc = "idle"
        /\ fileCalls'[j].pc = "mirror" /\ fileCalls'[j].credential = fileCalls[j].credential
        BY <1>6, <2>1 DEF SaveSteps
  <2>3. files'.primary = files.primary /\ files'.mirror = files.mirror
        /\ files'.shadow = fileCalls[j].credential
        BY <1>8, <2>1
  <2>4. j # "start" BY <1>3, <2>1 DEF StartFollows
  <2>5. SaveFollows(j)' BY <1>3, <2>1, <2>2, <2>3, <2>4 DEF SaveFollows
  <2> QED BY <1>1, <2>2, <2>4, <2>5, AloneFits
<1>15. CASE EndSave(j)
  <2>1. fileCalls' = [fileCalls EXCEPT ![j] = NoCall] /\ fileCalls[j].pc = "mirror"
        BY <1>15 DEF EndSave
  <2>2. files'.mirror \in {fileCalls[j].credential, NoMirror}
        BY <1>8, <1>15 DEF EndSave, Adopt, Mirrored
  <2>3. files'.primary = files.primary /\ files'.shadow = files.shadow
        BY <1>8, <1>15 DEF EndSave
  <2>4. j # "start" BY <1>3, <2>1 DEF StartFollows
  <2>5. files.primary \in {fileCalls[j].credential, 0, Broken}
        /\ files.shadow = fileCalls[j].credential
        /\ (j = "restore" => fileCalls[j].credential = registration)
        BY <1>3, <2>1, <2>4 DEF SaveFollows
  <2>6. registration' = fileCalls[j].credential
    <3>1. CASE j = "restore"
      <4>1. UNCHANGED registration BY <1>15, <3>1 DEF EndSave
      <4> QED BY <2>5, <3>1, <4>1
    <3>2. CASE j # "restore" BY <1>15, <3>2 DEF EndSave, Adopt
    <3> QED BY <3>1, <3>2
  <2>7. Copies(registration)' BY <2>2, <2>3, <2>5, <2>6 DEF Copies
  <2> QED BY <1>1, <1>7, <2>1, <2>7, AloneFits
<1> QED BY <1>9, <1>10, <1>11, <1>12, <1>13, <1>14, <1>15 DEF SaveCredentialStep

\* A step of a clearing, with no excuse.
LEMMA ClearAgreesStep ==
    ASSUME CredentialTypeOK, CallsFit, Undisturbed, excuses' = {}, ClearStep
    PROVE  Undisturbed'
<1> DEFINE j == "clear"
<1>1. j \in CredentialCalls /\ fileCalls[j].pc \in ClearSteps
      BY DEF CredentialCalls, ClearStep, RemoveFile, RemoveShadow, RemoveMirror, ClearSteps
<1>2. j \in CallsUnderWay /\ ClearFollows BY <1>1 DEF CallsUnderWay, ClearSteps, Undisturbed
<1>3. fileCalls[j] \in [pc : {"idle", "reading"} \union SaveSteps \union ClearSteps,
                        credential : 0..MaxEnrollments]
      BY <1>1 DEF CallsFit
<1>4. ASSUME NEW pc, Goto(j, pc)
      PROVE  (\A i \in CredentialCalls \ {j} : fileCalls'[i].pc = "idle") /\ fileCalls'[j].pc = pc
  <2>1. fileCalls' = [fileCalls EXCEPT ![j] = [fileCalls[j] EXCEPT !.pc = pc]]
        BY <1>4 DEF Goto
  <2>2. [fileCalls[j] EXCEPT !.pc = pc].pc = pc BY <1>3
  <2>3. fileCalls[j].pc # "idle" BY <1>1 DEF ClearSteps
  <2> QED BY <1>1, <2>1, <2>2, <2>3, GoesOnAlone
<1>5. files \in [primary : 0..Broken, shadow : 0..Broken, mirror : 0..NoMirror]
      BY DEF CredentialTypeOK
<1>6. CASE RemoveFile
  <2>1. UNCHANGED registration /\ fileCalls[j].pc = "removeFile" BY <1>6 DEF RemoveFile
  <2>2. CASE Goto(j, "removeShadow") /\ files' = [files EXCEPT !.primary = 0]
    <3>1. files'.primary = 0 BY <1>5, <2>2
    <3>2. ClearFollows' BY <1>4, <2>2, <3>1 DEF ClearFollows
    <3> QED BY <1>1, <1>4, <2>2, <3>2, AloneFits
  <2>3. CASE Goto(j, "idle") /\ UNCHANGED files
    <3>1. Copies(registration)' BY <1>2, <2>1, <2>3 DEF ClearFollows, Copies
    <3> QED BY <1>1, <1>4, <2>3, <3>1, AloneFits
  <2> QED BY <1>6, <2>2, <2>3 DEF RemoveFile
<1>7. CASE RemoveShadow
  <2>1. Goto(j, "removeMirror") /\ files' = [files EXCEPT !.shadow = 0]
        /\ fileCalls[j].pc = "removeShadow"
        BY <1>7 DEF RemoveShadow, ExcusedBy
  <2>2. files'.shadow = 0 /\ files'.primary = files.primary BY <1>5, <2>1
  <2>3. ClearFollows' BY <1>2, <1>4, <2>1, <2>2 DEF ClearFollows
  <2> QED BY <1>1, <1>4, <2>1, <2>3, AloneFits
<1>8. CASE RemoveMirror
  <2>1. Goto(j, "idle") /\ files' = [files EXCEPT !.mirror = Mirrored(0)] /\ registration' = 0
        /\ fileCalls[j].pc = "removeMirror"
        BY <1>8 DEF RemoveMirror, ExcusedBy
  <2>2. files'.mirror \in {0, NoMirror} /\ files'.primary = files.primary /\ files'.shadow = files.shadow
        BY <1>5, <2>1 DEF Mirrored
  <2>3. Copies(registration)' BY <1>2, <2>1, <2>2 DEF ClearFollows, Copies
  <2> QED BY <1>1, <1>4, <2>1, <2>3, AloneFits
<1> QED BY <1>6, <1>7, <1>8 DEF ClearStep

\* What changes neither calls nor copies nor memory disturbs nothing; another program
\* changes the file alone.
LEMMA FilesStay ==
    ASSUME Undisturbed, UNCHANGED <<registration, fileCalls, temporary>>,
           files'.shadow = files.shadow, files'.mirror = files.mirror,
           files'.primary = files.primary \/ files'.primary \in {0, Broken}
    PROVE  Undisturbed'
<1>1. \A c : Copies(c) => Copies(c)' BY DEF Copies
<1>2. Copies(registration) => Copies(registration)' BY DEF Copies
<1>3. StartFollows => StartFollows' BY DEF StartFollows, Copies
<1>4. \A j : SaveFollows(j) => SaveFollows(j)' BY <1>2 DEF SaveFollows
<1>5. ClearFollows => ClearFollows' BY <1>2 DEF ClearFollows
<1>6. CallsUnderWay' = CallsUnderWay BY DEF CallsUnderWay
<1> QED BY <1>2, <1>3, <1>4, <1>5, <1>6 DEF Undisturbed

\* The files and the memory agree, step by step.
LEMMA FilesAgreeStep ==
    ASSUME CredentialTypeOK, CallsFit, ClearingsOverlap, FilesAgree,
           [CredentialNext]_credentialVars
    PROVE  FilesAgree'
<1> SUFFICES ASSUME excuses' = {} PROVE Undisturbed'
    BY DEF FilesAgree
<1> USE CredentialAssumption
<1>1. ASSUME NEW j \in {"start", "enroll", "restore"}, SaveCredentialStep(j)
      PROVE  Undisturbed'
  <2>1. excuses = {}
        BY <1>1 DEF SaveCredentialStep, WriteTemporary, RenameCredential, WriteCredentialFails,
           RemoveTemporary, OpenShadow, WriteShadow, EndSave, Adopt, ExcusedBy
  <2> QED BY <1>1, <2>1, SaveAgreesStep DEF FilesAgree
<1>2. CASE StartAgent
  <2> DEFINE j == "start"
  <2>1. excuses = {} BY <1>2 DEF StartAgent, Adopt
  <2>2. Undisturbed /\ j \in CredentialCalls /\ fileCalls[j].pc = "reading" /\ UNCHANGED files
        BY <1>2, <2>1 DEF FilesAgree, StartAgent, CredentialCalls
  <2>3. StartFollows BY <2>2 DEF Undisturbed, CallsUnderWay
  <2>4. /\ files.shadow \in 0..MaxEnrollments /\ files.mirror \in {files.shadow, NoMirror}
        /\ files.primary \in {files.shadow, 0, Broken} /\ registration = 0
        BY <2>3 DEF StartFollows, Copies
  <2>5. load = files.shadow BY <2>4 DEF load, Credentials, Broken, NoMirror
  <2> HIDE DEF load
  <2>6. NoCall.pc = "idle" /\ fileCalls[j].pc # "idle" BY <2>2 DEF NoCall
  <2>7. CASE load # 0 /\ load = files.primary
    <3>1. fileCalls' = [fileCalls EXCEPT ![j] = NoCall] /\ registration' = load
          BY <1>2, <2>7 DEF StartAgent, Adopt
    <3>2. Copies(registration)' BY <2>2, <2>4, <2>5, <3>1 DEF Copies
    <3>3. (\A i \in CredentialCalls \ {j} : fileCalls'[i].pc = "idle") /\ fileCalls'[j].pc = "idle"
          BY <2>2, <2>6, <3>1, GoesOnAlone
    <3> QED BY <2>2, <3>2, <3>3, AloneFits
  <2>8. CASE load = 0
    <3>1. fileCalls' = [fileCalls EXCEPT ![j] = NoCall] /\ registration' = 0
          BY <1>2, <2>4, <2>8 DEF StartAgent
    <3>2. Copies(registration)' BY <2>2, <2>4, <2>5, <2>8, <3>1 DEF Copies
    <3>3. (\A i \in CredentialCalls \ {j} : fileCalls'[i].pc = "idle") /\ fileCalls'[j].pc = "idle"
          BY <2>2, <2>6, <3>1, GoesOnAlone
    <3> QED BY <2>2, <3>2, <3>3, AloneFits
  <2>9. CASE load # 0 /\ load # files.primary
    <3> DEFINE c == [pc |-> "temporary", credential |-> load]
    <3>1. fileCalls' = [fileCalls EXCEPT ![j] = c] /\ UNCHANGED registration
          BY <1>2, <2>9 DEF StartAgent
    <3>2. c.pc = "temporary" /\ c.credential = load OBVIOUS
    <3> HIDE DEF c
    <3>3. (\A i \in CredentialCalls \ {j} : fileCalls'[i].pc = "idle") /\ fileCalls'[j] = c
          BY <2>2, <3>1, GoesOnAlone
    <3>4. StartFollows' BY <2>2, <2>4, <2>5, <3>1, <3>2, <3>3 DEF StartFollows, Copies
    <3> QED BY <2>2, <3>2, <3>3, <3>4, AloneFits
  <2> QED BY <2>7, <2>8, <2>9
<1>3. CASE Enroll
  <2> DEFINE j == "enroll"
             c == [pc |-> "temporary", credential |-> enrolled + 1]
  <2>1. excuses = {} /\ CallsUnderWay = {} BY <1>3 DEF Enroll, Overlapping, ClearingsOverlap
  <2>2. j \in CredentialCalls /\ fileCalls' = [fileCalls EXCEPT ![j] = c]
        /\ UNCHANGED <<files, registration>>
        BY <1>3 DEF Enroll, CredentialCalls
  <2>3. c.pc = "temporary" OBVIOUS
  <2> HIDE DEF c
  <2>4. (\A i \in CredentialCalls \ {j} : fileCalls'[i].pc = "idle") /\ fileCalls'[j] = c
        BY <2>1, <2>2, BeginsAlone
  <2>5. Copies(registration)' BY <2>1, <2>2 DEF FilesAgree, Undisturbed, Copies
  <2>6. SaveFollows(j)' BY <2>3, <2>4, <2>5 DEF SaveFollows
  <2> QED BY <2>2, <2>3, <2>4, <2>6, AloneFits
<1>4. CASE ClearEnrollment
  <2> DEFINE j == "clear"
  <2>1. excuses = {} /\ CallsUnderWay = {} BY <1>4 DEF ClearEnrollment, Overlapping
  <2>2. j \in CredentialCalls /\ UNCHANGED <<files, registration>>
        /\ fileCalls' = [fileCalls EXCEPT ![j] = [fileCalls[j] EXCEPT !.pc = "removeFile"]]
        BY <1>4 DEF ClearEnrollment, CredentialCalls, Goto
  <2> DEFINE c == [fileCalls[j] EXCEPT !.pc = "removeFile"]
  <2>3. c.pc = "removeFile" BY <2>2 DEF CallsFit
  <2> HIDE DEF c
  <2>4. (\A i \in CredentialCalls \ {j} : fileCalls'[i].pc = "idle") /\ fileCalls'[j] = c
        BY <2>1, <2>2, BeginsAlone DEF c
  <2>5. Copies(registration)' BY <2>1, <2>2 DEF FilesAgree, Undisturbed, Copies
  <2>6. ClearFollows' BY <2>3, <2>4, <2>5 DEF ClearFollows
  <2> QED BY <2>2, <2>3, <2>4, <2>6, AloneFits
<1>5. ASSUME ClearStep PROVE Undisturbed'
  <2>1. excuses = {}
        BY <1>5 DEF ClearStep, RemoveFile, RemoveShadow, RemoveMirror, ExcusedBy
  <2> QED BY <1>5, <2>1, ClearAgreesStep DEF FilesAgree
<1>6. CASE Touch
  <2>1. Undisturbed BY <1>6 DEF Touch, FilesAgree
  <2>2. UNCHANGED <<registration, fileCalls, temporary>> BY <1>6 DEF Touch
  <2>3. /\ files'.shadow = files.shadow /\ files'.mirror = files.mirror
        /\ files'.primary \in {0, Broken}
        BY <1>6 DEF Touch, CredentialTypeOK
  <2> QED BY <2>1, <2>2, <2>3, FilesStay
<1>7. CASE HearFile
  <2>1. excuses = {} BY <1>7 DEF HearFile
  <2>2. UNCHANGED <<registration, fileCalls, temporary, files>> BY <1>7 DEF HearFile
  <2> QED BY <2>1, <2>2, FilesStay DEF FilesAgree
<1>8. CASE Restore
  <2> DEFINE j == "restore"
             c == [pc |-> "temporary", credential |-> registration]
  <2>1. CASE registration = 0
    <3>1. Undisturbed BY <1>8, <2>1 DEF Restore, FilesAgree
    <3>2. UNCHANGED <<registration, fileCalls, temporary, files>> BY <1>8, <2>1 DEF Restore
    <3> QED BY <3>1, <3>2, FilesStay
  <2>2. CASE registration # 0
    <3>1. excuses = {} /\ CallsUnderWay = {} BY <1>8, <2>2 DEF Restore, Overlapping
    <3>2. j \in CredentialCalls /\ fileCalls' = [fileCalls EXCEPT ![j] = c]
          /\ UNCHANGED <<files, registration>>
          BY <1>8, <2>2 DEF Restore, CredentialCalls
    <3>3. c.pc = "temporary" /\ c.credential = registration OBVIOUS
    <3> HIDE DEF c
    <3>4. (\A i \in CredentialCalls \ {j} : fileCalls'[i].pc = "idle") /\ fileCalls'[j] = c
          BY <3>1, <3>2, BeginsAlone
    <3>5. Copies(registration)' BY <3>1, <3>2 DEF FilesAgree, Undisturbed, Copies
    <3>6. SaveFollows(j)' BY <3>2, <3>3, <3>4, <3>5 DEF SaveFollows, Copies
    <3> QED BY <3>2, <3>3, <3>4, <3>6, AloneFits
  <2> QED BY <2>1, <2>2
<1>9. CASE Crash
  <2> DEFINE j == "start"
  <2>1. excuses = {} /\ CallsUnderWay = {} BY <1>9 DEF Crash
  <2>2. /\ j \in CredentialCalls /\ registration' = 0 /\ UNCHANGED files
        /\ \A i \in CredentialCalls \ {j} : fileCalls'[i].pc = "idle"
        /\ fileCalls'[j].pc = "reading"
        BY <1>9 DEF Crash, CredentialCalls, NoCall
  <2>3. Copies(registration) /\ registration \in 0..MaxEnrollments
        BY <2>1 DEF FilesAgree, Undisturbed, CredentialTypeOK
  <2>4. StartFollows' BY <2>2, <2>3 DEF StartFollows, Copies
  <2> QED BY <2>2, <2>4, AloneFits
<1>10. CASE MirrorUnread BY <1>10 DEF MirrorUnread, ExcusedBy
<1>11. CASE UNCHANGED credentialVars
      BY <1>11, FilesStay DEF credentialVars, FilesAgree
<1> QED BY <1>1, <1>2, <1>3, <1>4, <1>5, <1>6, <1>7, <1>8, <1>9, <1>10, <1>11 DEF CredentialNext

LEMMA CredentialInvariant == CredentialSpec => []CredentialInv
<1>1. CredentialInit => CredentialInv
  <2> SUFFICES ASSUME CredentialInit PROVE CredentialInv
      OBVIOUS
  <2> USE CredentialAssumption
  <2>1. CallsFit BY DEF CredentialInit, CallsFit, NoCall
  <2>2. \A j \in CredentialCalls : fileCalls[j].pc = "idle" BY DEF CredentialInit, NoCall
  <2>3. PICK mirror \in {0, NoMirror} : files = [primary |-> 0, shadow |-> 0, mirror |-> mirror]
        BY DEF CredentialInit
  <2>11. registration = 0 /\ excuses = {} /\ ~kept BY DEF CredentialInit
  <2>4. CallsUnderWay = {} BY <2>2 DEF CallsUnderWay
  <2>5. FilesAgree BY <2>3, <2>4, <2>11 DEF FilesAgree, Undisturbed, Copies
  <2>6. SavedIsThere /\ ClearingsOverlap
    <3>1. "clear" \in CredentialCalls /\ "enroll" \in CredentialCalls BY DEF CredentialCalls
    <3> QED BY <2>2, <2>11, <3>1 DEF SavedIsThere, Renamed, ClearingsOverlap
  <2>7. files \in [primary : 0..Broken, shadow : 0..Broken, mirror : 0..NoMirror]
        BY <2>3 DEF Broken, NoMirror
  <2>8. watcher \in [on : BOOLEAN, event : BOOLEAN, timer : BOOLEAN] BY DEF CredentialInit
  <2>9. isSelfWrite \in BOOLEAN /\ kept \in BOOLEAN BY Zenon DEF CredentialInit
  <2>10. CredentialTypeOK BY <2>2, <2>7, <2>8, <2>9 DEF CredentialInit, CredentialTypeOK
  <2> QED BY <2>1, <2>5, <2>6, <2>10 DEF CredentialInv
<1>2. CredentialInv /\ [CredentialNext]_credentialVars => CredentialInv'
  <2> SUFFICES ASSUME CredentialInv, [CredentialNext]_credentialVars PROVE CredentialInv'
      OBVIOUS
  <2>1. CredentialTypeOK' BY CredentialTypeStep DEF CredentialInv
  <2>2. CallsFit' BY CallsFitStep DEF CredentialInv
  <2>3. SavedIsThere' BY <2>1, SavedStep DEF CredentialInv
  <2>4. ClearingsOverlap' BY OverlapStep DEF CredentialInv
  <2>5. FilesAgree' BY FilesAgreeStep DEF CredentialInv
  <2> QED BY <2>1, <2>2, <2>3, <2>4, <2>5 DEF CredentialInv
<1> QED BY <1>1, <1>2, PTL DEF CredentialSpec

\* A job that writes has a credential to write: nothing but enrolments, or what cannot
\* be read, ever gets into the files.
THEOREM CredentialTypesHold == CredentialSpec => []CredentialTypeOK
<1>1. CredentialInv => CredentialTypeOK BY DEF CredentialInv
<1> QED BY <1>1, CredentialInvariant, PTL

\* A credential that was saved and not cleared is found by the next start, even if saves,
\* restores and enrolments have overlapped, whether or not there is a registry, as long as
\* its copies could be written and the only one was not deleted; and
\* undisturbed calls end with that in the files which is in memory.
THEOREM CredentialStaysKept == CredentialSpec => []CredentialIsKept
<1>1. CredentialInv => CredentialIsKept
  <2> SUFFICES ASSUME CredentialInv PROVE CredentialIsKept
      OBVIOUS
  <2>1. kept /\ "copy" \notin excuses => load # 0
        BY DEF CredentialInv, SavedIsThere
  <2>2. ASSUME CallsUnderWay = {}, excuses = {} PROVE load = registration
    <3>1. Copies(registration) /\ registration \in 0..MaxEnrollments
          BY <2>2 DEF CredentialInv, FilesAgree, Undisturbed, CredentialTypeOK
    <3> QED BY <3>1, CredentialAssumption DEF Copies, load, Credentials, Broken, NoMirror
  <2> QED BY <2>1, <2>2 DEF CredentialIsKept
<1> QED BY <1>1, CredentialInvariant, PTL

-----------------------------------------------------------------------------
(* The time.                                                                 *)

\* An offset and the day its increments are counted to: as long as no day has been
\* counted nothing has been added, and the offset was not set after that day.
FairlyCounted(m, counted) ==
    /\ counted = Absent => m.added = 0
    /\ counted # Absent /\ m.since # Absent => m.since <= counted
    /\ CountsEachDayOnce(m, counted)

Configuration(c) ==
    /\ c = [k \in Keys |-> c[k]]
    /\ c.ntpServer \in Servers /\ c.autoSync \in BOOLEAN /\ c.manual \in Offsets
    /\ c.enabled \in BOOLEAN /\ c.last \in Dates
    /\ FairlyCounted(c.manual, c.last)

Stored(s) ==
    /\ s = [k \in Keys |-> s[k]]
    /\ s.ntpServer \in Servers \union {Absent} /\ s.autoSync \in BOOLEAN \union {Absent}
    /\ s.manual \in Offsets \union {Absent} /\ s.enabled \in BOOLEAN \union {Absent}
    /\ s.last \in Dates
    /\ s.manual # Absent => FairlyCounted(s.manual, s.last)

\* A store that has the last day counted has the one of the configuration.
InStep(s, c) == s.last # Absent => c.last = s.last

TimeSettingsFit ==
    /\ Configuration(conf) /\ Stored(store) /\ Stored(disk)
    /\ legacy # Absent => Configuration(legacy)
    /\ timeOn => InStep(store, conf)

\* While requests have not overlapped, the one under way asks the server shown.
AskedIsShown ==
    ~overlapped => \A s \in DOMAIN syncs : syncs[s].pending => syncs[s].server = address

\* The short days between two days are at most as many as the days.
LEMMA FewShortDays ==
    ASSUME NEW a \in Nat, NEW b \in Nat, a <= b
    PROVE  /\ Cardinality(ShortDays \intersect a..(b - 1)) \in 0..(b - a)
           /\ ShortDays \intersect a..(b - 1) = {}
                  => Cardinality(ShortDays \intersect a..(b - 1)) = 0
<1> DEFINE days == a..(b - 1)
           short == ShortDays \intersect days
<1>1. IsFiniteSet(days) /\ Cardinality(days) = b - a
  <2>1. IsFiniteSet(days)
        /\ Cardinality(days) = IF a > b - 1 THEN 0 ELSE b - 1 - a + 1
        BY FS_Interval
  <2> QED BY <2>1
<1> HIDE DEF days
<1>2. short \subseteq days OBVIOUS
<1>3. IsFiniteSet(short) /\ Cardinality(short) <= Cardinality(days)
      BY <1>1, <1>2, FS_Subset
<1>4. Cardinality(short) \in Nat BY <1>3, FS_CardinalityType
<1>5. short = {} => Cardinality(short) = 0 BY FS_EmptySet
<1> HIDE DEF short
<1>6. Cardinality(short) \in 0..(b - a) BY <1>1, <1>3, <1>4
<1> QED BY <1>5, <1>6 DEF short, days

\* What is added for the days between two dates is positive only if the second is
\* later, and then is their number if no day among them is short.
LEMMA DaysCounted ==
    ASSUME NEW a \in Nat, NEW b \in Nat
    PROVE  /\ DaysBetween(a, b) \in Int
           /\ DaysBetween(a, b) > 0 => a < b
           /\ a < b /\ ShortDays \intersect a..(b - 1) = {} => DaysBetween(a, b) = b - a
<1>1. CASE a <= b
  <2> DEFINE n == Cardinality(ShortDays \intersect a..(b - 1))
  <2>1. n \in 0..(b - a) /\ (ShortDays \intersect a..(b - 1) = {} => n = 0)
        BY <1>1, FewShortDays
  <2>2. DaysBetween(a, b) = (24 * (b - a) - n) \div 24 BY <1>1 DEF DaysBetween
  <2> HIDE DEF n
  <2>3. DaysBetween(a, b) \in Int BY <2>1, <2>2
  <2>4. a = b => DaysBetween(a, b) = 0 BY <2>1, <2>2
  <2>5. n = 0 => DaysBetween(a, b) = b - a BY <2>1, <2>2
  <2> QED BY <1>1, <2>1, <2>3, <2>4, <2>5
<1>2. CASE b < a
  <2> DEFINE n == Cardinality(ShortDays \intersect b..(a - 1))
  <2>1. n \in 0..(a - b) BY <1>2, FewShortDays
  <2>2. DaysBetween(a, b) = (24 * (b - a) - (-n)) \div 24 BY <1>2 DEF DaysBetween
  <2> HIDE DEF n
  <2>3. 24 * (b - a) - (-n) < 0 BY <1>2, <2>1
  <2>4. DaysBetween(a, b) \in Int /\ DaysBetween(a, b) <= 0 BY <2>1, <2>2, <2>3
  <2> QED BY <1>2, <2>4
<1> QED BY <1>1, <1>2

\* Counting the days keeps a configuration fair, and ends at today.
LEMMA CountedFits ==
    ASSUME NEW c, Configuration(c), day \in 0..MaxDay, Due(c)
    PROVE  /\ Configuration(Counted(c)) /\ Counted(c).last = day
           /\ Counted(c).manual \in Offsets /\ FairlyCounted(Counted(c).manual, day)
<1> USE TimeAssumption
<1>1. day \in Nat /\ day \in Dates /\ day # Absent BY DEF Dates
<1>2. c.manual \in Offsets /\ c.last \in Dates /\ FairlyCounted(c.manual, c.last)
      BY DEF Configuration
<1>3. CASE c.last = Absent
  <2>1. Counted(c) = [c EXCEPT !.last = day, !.manual = [c.manual EXCEPT !.since = day]]
        BY <1>3 DEF Counted
  <2>2. c.manual.added = 0 BY <1>2, <1>3 DEF FairlyCounted
  <2> DEFINE m == [c.manual EXCEPT !.since = day]
  <2>3. m \in Offsets /\ m.added = 0 /\ m.since = day BY <1>1, <1>2, <2>2 DEF Offsets
  <2>4. FairlyCounted(m, day) BY <1>1, <2>3 DEF FairlyCounted, CountsEachDayOnce
  <2> HIDE DEF m
  <2>5. Counted(c) = [c EXCEPT !.last = day, !.manual = m] BY <2>1 DEF m
  <2>6. Counted(c).last = day /\ Counted(c).manual = m
        BY <2>5 DEF Configuration, Keys
  <2>7. Counted(c).ntpServer = c.ntpServer /\ Counted(c).autoSync = c.autoSync
        /\ Counted(c).enabled = c.enabled
        /\ Counted(c) = [k \in Keys |-> Counted(c)[k]]
        BY <2>5 DEF Configuration, Keys
  <2> QED BY <1>1, <2>3, <2>4, <2>6, <2>7 DEF Configuration
<1>4. CASE c.last # Absent
  <2>1. c.last \in Nat BY <1>2, <1>4 DEF Dates
  <2> DEFINE d == DaysBetween(c.last, day)
  <2>2. d > 0 /\ d \in Int /\ c.last < day BY <1>1, <1>4, <2>1, DaysCounted DEF Due
  <2>3. ShortDays \intersect c.last..(day - 1) = {} => d = day - c.last
        BY <1>1, <2>1, <2>2, DaysCounted
  <2>4. Counted(c) = [c EXCEPT !.last = day, !.manual = [c.manual EXCEPT !.added = @ + d]]
        BY <1>4 DEF Counted, Configuration, Keys
  <2> HIDE DEF d
  <2> DEFINE m == [c.manual EXCEPT !.added = @ + d]
  <2>5. m \in Offsets /\ m.added = c.manual.added + d /\ m.since = c.manual.since
        BY <1>2, <2>2 DEF Offsets
  <2>6. FairlyCounted(m, day)
    <3>1. m.since # Absent => m.since \in Nat /\ m.since <= c.last
          BY <1>2, <1>4, <2>5 DEF FairlyCounted, Offsets, Dates
    <3>2. ASSUME m.since # Absent, ShortDays \intersect m.since..(day - 1) = {}
          PROVE  m.added = day - m.since
      <4>1. ShortDays \intersect m.since..(c.last - 1) = {} BY <1>1, <2>1, <2>2, <3>1, <3>2
      <4>2. ShortDays \intersect c.last..(day - 1) = {} BY <1>1, <2>1, <2>2, <3>1, <3>2
      <4>3. c.manual.added = c.last - m.since
            BY <1>2, <1>4, <2>5, <3>2, <4>1 DEF FairlyCounted, CountsEachDayOnce
      <4> QED BY <1>1, <2>1, <2>3, <2>5, <3>1, <3>2, <4>2, <4>3
    <3> QED BY <1>1, <2>1, <2>2, <3>1, <3>2 DEF FairlyCounted, CountsEachDayOnce
  <2> HIDE DEF m
  <2>7. Counted(c) = [c EXCEPT !.last = day, !.manual = m] BY <2>4 DEF m
  <2>8. Counted(c).last = day /\ Counted(c).manual = m
        BY <2>7 DEF Configuration, Keys
  <2>9. Counted(c).ntpServer = c.ntpServer /\ Counted(c).autoSync = c.autoSync
        /\ Counted(c).enabled = c.enabled
        /\ Counted(c) = [k \in Keys |-> Counted(c)[k]]
        BY <2>7 DEF Configuration, Keys
  <2> QED BY <1>1, <2>5, <2>6, <2>8, <2>9 DEF Configuration
<1> QED BY <1>3, <1>4

LEMMA IncrementedFits ==
    ASSUME NEW c, Configuration(c), day \in 0..MaxDay
    PROVE  Configuration(Incremented(c))
BY CountedFits DEF Incremented

\* What the increments write to the store is as fair, and in step.
LEMMA StoredFits ==
    ASSUME NEW c, NEW s, Configuration(c), Stored(s), InStep(s, c), day \in 0..MaxDay
    PROVE  Stored(StoredWith(s, c)) /\ InStep(StoredWith(s, c), Incremented(c))
<1> USE TimeAssumption
<1>1. day \in Nat /\ day \in Dates /\ day # Absent BY DEF Dates
<1>2. CASE ~Due(c) BY <1>2 DEF StoredWith, Incremented
<1>3. CASE Due(c) /\ c.last = Absent
  <2>1. StoredWith(s, c) = [s EXCEPT !.last = day, !.manual = From(s.manual)]
        BY <1>3 DEF StoredWith, Stored, Keys
  <2>2. s.last = Absent BY <1>3 DEF InStep
  <2> DEFINE m == From(s.manual)
  <2>3. m \in Offsets \union {Absent} /\ (m # Absent => FairlyCounted(m, day))
    <3>1. CASE s.manual = Absent BY <3>1 DEF From
    <3>2. CASE s.manual # Absent
      <4>1. s.manual \in Offsets /\ s.manual.added = 0
            BY <2>2, <3>2 DEF Stored, FairlyCounted
      <4>2. m = [s.manual EXCEPT !.since = day] BY <3>2 DEF From
      <4>3. m \in Offsets /\ m.added = 0 /\ m.since = day BY <1>1, <4>1, <4>2 DEF Offsets
      <4> QED BY <1>1, <4>3 DEF FairlyCounted, CountsEachDayOnce
    <3> QED BY <3>1, <3>2
  <2>4. Counted(c).last = day BY <1>3, CountedFits
  <2> HIDE DEF m
  <2>5. StoredWith(s, c) = [s EXCEPT !.last = day, !.manual = m] BY <2>1 DEF m
  <2>6. StoredWith(s, c).last = day /\ StoredWith(s, c).manual = m
        BY <2>5 DEF Stored, Keys
  <2>7. /\ StoredWith(s, c).ntpServer = s.ntpServer /\ StoredWith(s, c).autoSync = s.autoSync
        /\ StoredWith(s, c).enabled = s.enabled
        /\ StoredWith(s, c) = [k \in Keys |-> StoredWith(s, c)[k]]
        BY <2>5 DEF Stored, Keys
  <2> QED BY <1>1, <1>3, <2>3, <2>4, <2>6, <2>7 DEF Stored, InStep, Incremented
<1>4. CASE Due(c) /\ c.last # Absent
  <2> DEFINE m == Counted(c).manual
  <2>1. StoredWith(s, c) = [s EXCEPT !.last = day, !.manual = m] BY <1>4 DEF StoredWith
  <2>2. m \in Offsets /\ FairlyCounted(m, day) /\ Counted(c).last = day
        BY <1>4, CountedFits
  <2> HIDE DEF m
  <2>3. StoredWith(s, c).last = day /\ StoredWith(s, c).manual = m
        BY <2>1 DEF Stored, Keys
  <2>4. /\ StoredWith(s, c).ntpServer = s.ntpServer /\ StoredWith(s, c).autoSync = s.autoSync
        /\ StoredWith(s, c).enabled = s.enabled
        /\ StoredWith(s, c) = [k \in Keys |-> StoredWith(s, c)[k]]
        BY <2>1 DEF Stored, Keys
  <2> QED BY <1>1, <1>4, <2>2, <2>3, <2>4 DEF Stored, InStep, Incremented
<1> QED BY <1>2, <1>3, <1>4

\* The default configuration, and an empty store.
LEMMA DefaultsFit == Configuration(Defaults) /\ Stored(NoStore)
<1> USE TimeAssumption
<1>1. /\ Defaults = [k \in Keys |-> Defaults[k]] /\ NoStore = [k \in Keys |-> NoStore[k]]
      BY DEF Defaults, NoStore, Keys
<1>2. /\ Defaults.ntpServer \in Servers /\ Defaults.autoSync = TRUE
      /\ Defaults.enabled = FALSE /\ Defaults.last = Absent
      /\ Defaults.manual = Offset(0, Absent)
      BY DEF Defaults
<1>3. /\ NoStore.ntpServer = Absent /\ NoStore.autoSync = Absent
      /\ NoStore.enabled = Absent /\ NoStore.last = Absent
      /\ NoStore.manual = Absent
      BY DEF NoStore, Keys
<1>4. Offset(0, Absent) \in Offsets /\ Offset(0, Absent).added = 0
      BY DEF Offset, Offsets, Dates
<1>5. FairlyCounted(Offset(0, Absent), Absent)
      BY <1>4 DEF FairlyCounted, CountsEachDayOnce
<1>6. Absent \in Dates BY DEF Dates
<1>7. Configuration(Defaults) BY <1>1, <1>2, <1>4, <1>5, <1>6 DEF Configuration
<1>8. Stored(NoStore) BY <1>1, <1>3, <1>6 DEF Stored
<1> QED BY <1>7, <1>8

\* A change of one key, with the value a user or a plugin may give it.
LEMMA ChangeFits ==
    ASSUME NEW k \in Keys \ {"last"}, NEW v \in TimeValues(k), Configuration(conf)
    PROVE  /\ Configuration([conf EXCEPT ![k] = v]) /\ [conf EXCEPT ![k] = v].last = conf.last
           /\ Stored(store) /\ InStep(store, conf) =>
                 Stored([store EXCEPT ![k] = v]) /\ [store EXCEPT ![k] = v].last = store.last
<1> USE TimeAssumption
<1> DEFINE c == [conf EXCEPT ![k] = v]
           s == [store EXCEPT ![k] = v]
<1>1. /\ c = [j \in Keys |-> c[j]] /\ c[k] = v
      /\ \A j \in Keys : j # k => c[j] = conf[j]
      BY DEF Configuration
<1>2. Stored(store) => /\ s = [j \in Keys |-> s[j]] /\ s[k] = v
                       /\ \A j \in Keys : j # k => s[j] = store[j]
      BY DEF Stored
<1> HIDE DEF c, s
<1>3. c.last = conf.last /\ (Stored(store) => s.last = store.last)
      BY <1>1, <1>2 DEF Keys
<1>4. CASE k = "ntpServer"
  <2>1. v \in Servers BY <1>4 DEF TimeValues
  <2>2. /\ c.ntpServer = v /\ c.autoSync = conf.autoSync /\ c.manual = conf.manual
        /\ c.enabled = conf.enabled
        BY <1>1, <1>4 DEF Keys
  <2>3. Stored(store) => /\ s.ntpServer = v /\ s.autoSync = store.autoSync
                         /\ s.manual = store.manual /\ s.enabled = store.enabled
        BY <1>2, <1>4 DEF Keys
  <2>4. Configuration(c) BY <1>1, <1>3, <2>1, <2>2 DEF Configuration
  <2>5. Stored(store) => Stored(s) BY <1>2, <1>3, <2>1, <2>3 DEF Stored
  <2> QED BY <1>3, <2>4, <2>5 DEF c, s
<1>5. CASE k = "autoSync"
  <2>1. v \in BOOLEAN BY <1>5 DEF TimeValues
  <2>2. /\ c.ntpServer = conf.ntpServer /\ c.autoSync = v /\ c.manual = conf.manual
        /\ c.enabled = conf.enabled
        BY <1>1, <1>5 DEF Keys
  <2>3. Stored(store) => /\ s.ntpServer = store.ntpServer /\ s.autoSync = v
                         /\ s.manual = store.manual /\ s.enabled = store.enabled
        BY <1>2, <1>5 DEF Keys
  <2>4. Configuration(c) BY <1>1, <1>3, <2>1, <2>2 DEF Configuration
  <2>5. Stored(store) => Stored(s) BY <1>2, <1>3, <2>1, <2>3 DEF Stored
  <2> QED BY <1>3, <2>4, <2>5 DEF c, s
<1>6. CASE k = "enabled"
  <2>1. v \in BOOLEAN BY <1>6 DEF TimeValues
  <2>2. /\ c.ntpServer = conf.ntpServer /\ c.autoSync = conf.autoSync
        /\ c.manual = conf.manual /\ c.enabled = v
        BY <1>1, <1>6 DEF Keys
  <2>3. Stored(store) => /\ s.ntpServer = store.ntpServer /\ s.autoSync = store.autoSync
                         /\ s.manual = store.manual /\ s.enabled = v
        BY <1>2, <1>6 DEF Keys
  <2>4. Configuration(c) BY <1>1, <1>3, <2>1, <2>2 DEF Configuration
  <2>5. Stored(store) => Stored(s) BY <1>2, <1>3, <2>1, <2>3 DEF Stored
  <2> QED BY <1>3, <2>4, <2>5 DEF c, s
<1>7. CASE k = "manual"
  <2>1. v = Offset(5, conf.last) BY <1>7 DEF TimeValues
  <2>2. conf.last \in Dates BY DEF Configuration
  <2>3. v \in Offsets /\ v.added = 0 /\ v.since = conf.last
        BY <2>1, <2>2 DEF Offset, Offsets
  <2>4. FairlyCounted(v, conf.last)
    <3>1. conf.last # Absent => conf.last \in Nat BY <2>2 DEF Dates
    <3> QED BY <2>3, <3>1 DEF FairlyCounted, CountsEachDayOnce
  <2>5. /\ c.ntpServer = conf.ntpServer /\ c.autoSync = conf.autoSync
        /\ c.manual = v /\ c.enabled = conf.enabled
        BY <1>1, <1>7 DEF Keys
  <2>6. Stored(store) => /\ s.ntpServer = store.ntpServer /\ s.autoSync = store.autoSync
                         /\ s.manual = v /\ s.enabled = store.enabled
        BY <1>2, <1>7 DEF Keys
  <2>7. Configuration(c) BY <1>1, <1>3, <2>3, <2>4, <2>5 DEF Configuration
  <2>8. InStep(store, conf) => FairlyCounted(v, store.last)
    <3>1. CASE store.last = Absent BY <2>3, <3>1 DEF FairlyCounted, CountsEachDayOnce
    <3>2. CASE store.last # Absent BY <2>4, <3>2 DEF InStep
    <3> QED BY <3>1, <3>2
  <2>9. Stored(store) /\ InStep(store, conf) => Stored(s)
        BY <1>2, <1>3, <2>3, <2>6, <2>8 DEF Stored
  <2> QED BY <1>3, <2>7, <2>9 DEF c, s
<1> QED BY <1>4, <1>5, <1>6, <1>7 DEF Keys

\* What is read at the start is a configuration, in step with the store.
LEMMA LoadedFits ==
    ASSUME Stored(store), legacy # Absent => Configuration(legacy)
    PROVE  Configuration(Loaded) /\ InStep(store, Loaded)
<1> USE TimeAssumption
<1> DEFINE some(k) == store[k] # Absent
<1>1. CASE \E k \in Keys : some(k)
  <2> DEFINE c == [k \in Keys |-> IF some(k) THEN store[k]
                                  ELSE IF k = "manual" THEN Offset(0, store.last) ELSE Defaults[k]]
  <2>1. Loaded = c BY <1>1 DEF Loaded
  <2>2. c.last = store.last BY DEF Keys, Defaults
  <2>3. store.last \in Dates BY DEF Stored
  <2>4. c.manual \in Offsets /\ FairlyCounted(c.manual, store.last)
    <3>1. CASE some("manual") BY <3>1 DEF Stored, Keys
    <3>2. CASE ~some("manual")
      <4>1. c.manual = Offset(0, store.last) BY <3>2 DEF Keys
      <4>2. c.manual \in Offsets /\ c.manual.added = 0 /\ c.manual.since = store.last
            BY <2>3, <4>1 DEF Offset, Offsets
      <4>3. store.last # Absent => store.last \in Nat BY <2>3 DEF Dates
      <4> QED BY <4>2, <4>3 DEF FairlyCounted, CountsEachDayOnce
    <3> QED BY <3>1, <3>2
  <2>5. c.ntpServer \in Servers BY DEF Stored, Keys, Defaults
  <2>6. c.autoSync \in BOOLEAN
    <3>1. c.autoSync = store.autoSync \/ c.autoSync = TRUE BY DEF Keys, Defaults
    <3> QED BY DEF Stored, Keys, Defaults
  <2>7. c.enabled \in BOOLEAN BY DEF Stored, Keys, Defaults
  <2>8. c = [k \in Keys |-> c[k]] OBVIOUS
  <2> HIDE DEF c
  <2> QED BY <2>1, <2>2, <2>3, <2>4, <2>5, <2>6, <2>7, <2>8 DEF Configuration, InStep
<1>2. CASE ~\E k \in Keys : some(k)
  <2>1. store.last = Absent BY <1>2 DEF Keys
  <2>2. Configuration(Defaults) BY DefaultsFit
  <2>3. Configuration(Loaded) BY <1>2, <2>2 DEF Loaded
  <2> QED BY <2>1, <2>3 DEF InStep
<1> QED BY <1>1, <1>2

\* The part of synchronisation: its types, and what the state of it that is shown says.
SyncInv ==
    /\ offset \in Servers \union {Absent}
    /\ status \in {"pending", "success", "error", "disabled"} /\ address \in Servers
    /\ syncs \in Seq([server : Servers, pending : BOOLEAN])
    /\ interval \in BOOLEAN /\ overlapped \in BOOLEAN
    /\ AskedIsShown
    /\ status = "disabled" => offset = Absent
    /\ status = "success" /\ ~overlapped => offset = address

\* A request, with which the state shown is pending.
LEMMA AskKeeps ==
    ASSUME SyncInv, NEW server \in Servers, Ask(server), UNCHANGED offset, interval' \in BOOLEAN
    PROVE  SyncInv'
<1> DEFINE request == [server |-> server, pending |-> TRUE]
<1>1. /\ syncs' = Append(syncs, request) /\ status' = "pending" /\ address' = server
      /\ overlapped' = (overlapped \/ Pending # {})
      BY DEF Ask
<1>2. request \in [server : Servers, pending : BOOLEAN] OBVIOUS
<1>3. syncs \in Seq([server : Servers, pending : BOOLEAN]) BY DEF SyncInv
<1>4. syncs' \in Seq([server : Servers, pending : BOOLEAN]) BY <1>1, <1>2, <1>3
<1>5. ASSUME ~overlapped', NEW s \in DOMAIN syncs', syncs'[s].pending
      PROVE  syncs'[s].server = address'
  <2>1. s \in 1..(Len(syncs) + 1) BY <1>1, <1>3, <1>5
  <2>2. CASE s = Len(syncs) + 1
    <3>1. syncs'[s] = request BY <1>1, <1>3, <2>2
    <3> QED BY <1>1, <3>1
  <2>3. CASE s # Len(syncs) + 1
    <3>1. s \in DOMAIN syncs /\ syncs'[s] = syncs[s] BY <1>1, <1>3, <2>1, <2>3
    <3>2. s \in Pending BY <1>5, <3>1 DEF Pending
    <3> QED BY <1>1, <1>5, <3>2
  <2> QED BY <2>2, <2>3
<1>6. AskedIsShown' BY <1>5 DEF AskedIsShown
<1>7. overlapped' \in BOOLEAN BY <1>1
<1> QED BY <1>1, <1>4, <1>6, <1>7 DEF SyncInv

LEMMA RestartKeeps ==
    ASSUME SyncInv, NEW c, c.autoSync \in BOOLEAN, c.ntpServer \in Servers, RestartSync(c)
    PROVE  SyncInv'
<1>1. CASE c.autoSync
  <2>1. interval' \in BOOLEAN BY DEF RestartSync
  <2>2. Ask(c.ntpServer) /\ UNCHANGED offset BY <1>1 DEF RestartSync
  <2> QED BY <2>1, <2>2, AskKeeps
<1>2. CASE ~c.autoSync
  <2>1. /\ interval' \in BOOLEAN /\ status' = "disabled" /\ offset' = Absent
        /\ UNCHANGED <<syncs, address, overlapped>>
        BY <1>2 DEF RestartSync
  <2> QED BY <2>1 DEF SyncInv, AskedIsShown
<1> QED BY <1>1, <1>2

LEMMA NoRestartKeeps ==
    ASSUME SyncInv, UNCHANGED <<interval, syncs, status, address, overlapped, offset>>
    PROVE  SyncInv'
BY DEF SyncInv, AskedIsShown

\* The part of synchronisation, step by step.
LEMMA SyncStep ==
    ASSUME SyncInv, TimeSettingsFit, day \in 0..MaxDay, [TimeNext]_timeVars
    PROVE  SyncInv'
<1> USE TimeAssumption
<1>1. Configuration(conf) /\ conf.ntpServer \in Servers
      BY DEF TimeSettingsFit, Configuration
<1>2. CASE initializeTimeSync
  <2>1. Configuration(Incremented(Loaded)) BY LoadedFits, IncrementedFits DEF TimeSettingsFit
  <2>2. RestartSync(Incremented(Loaded)) BY <1>2 DEF initializeTimeSync
  <2> QED BY <2>1, <2>2, RestartKeeps DEF Configuration
<1>3. CASE performTimeSync
      BY <1>1, <1>3, AskKeeps DEF performTimeSync, SyncInv
<1>4. CASE SyncTimer
      BY <1>1, <1>4, AskKeeps DEF SyncTimer, performTimeSync, SyncInv
<1>5. CASE IncrementTimer
      BY <1>5, NoRestartKeeps DEF IncrementTimer
<1>6. ASSUME NEW s \in DOMAIN syncs, NtpAnswers(s) \/ NtpFails(s)
      PROVE  SyncInv'
  <2>1. syncs \in Seq([server : Servers, pending : BOOLEAN]) BY DEF SyncInv
  <2> DEFINE Requests == [server : Servers, pending : BOOLEAN]
  <2>11. \A q \in Seq(Requests) : \A i \in DOMAIN q : q[i] \in Requests
    <3> HIDE DEF Requests
    <3> QED OBVIOUS
  <2>2. syncs[s] \in [server : Servers, pending : BOOLEAN] BY <2>1, <2>11
  <2>3. syncs' = [syncs EXCEPT ![s].pending = FALSE] /\ UNCHANGED <<address, overlapped, interval>>
        BY <1>6 DEF NtpAnswers, NtpFails
  <2>4. /\ syncs'[s].pending = FALSE /\ DOMAIN syncs' = DOMAIN syncs
        /\ \A t \in DOMAIN syncs : t # s => syncs'[t] = syncs[t]
        BY <2>1, <2>2, <2>3
  <2>5. [syncs[s] EXCEPT !.pending = FALSE] \in [server : Servers, pending : BOOLEAN]
        BY <2>2
  <2>6. syncs' = [syncs EXCEPT ![s] = [syncs[s] EXCEPT !.pending = FALSE]] BY <2>3
  <2>7. syncs' \in Seq([server : Servers, pending : BOOLEAN]) BY <2>1, <2>5, <2>6
  <2>8. AskedIsShown' BY <2>3, <2>4 DEF SyncInv, AskedIsShown
  <2>9. CASE NtpAnswers(s)
    <3>1. offset' = syncs[s].server /\ status' = "success" /\ syncs[s].pending
          BY <2>9 DEF NtpAnswers
    <3>2. ~overlapped => syncs[s].server = address BY <3>1 DEF SyncInv, AskedIsShown
    <3> QED BY <2>2, <2>3, <2>7, <2>8, <3>1, <3>2 DEF SyncInv
  <2>10. CASE NtpFails(s)
        BY <2>3, <2>7, <2>8, <2>10 DEF NtpFails, SyncInv
  <2> QED BY <1>6, <2>9, <2>10
<1>7. ASSUME NEW k \in Keys \ {"last"}, NEW v \in TimeValues(k),
             setTime(k, v) \/ applyTimeConfig(k, v) \/ saveTimeSyncConfig(k, v) \/ SaveThrows(k, v)
      PROVE  SyncInv'
  <2> DEFINE c == [conf EXCEPT ![k] = v]
  <2>1. Configuration(c) BY <1>1, ChangeFits
  <2>2. RestartSync(c) \/ NoRestart
        BY <1>7 DEF setTime, applyTimeConfig, saveTimeSyncConfig, SaveThrows, Apply
  <2> HIDE DEF c
  <2>3. c.autoSync \in BOOLEAN /\ c.ntpServer \in Servers BY <2>1 DEF Configuration
  <2>4. CASE RestartSync(c) BY <2>3, <2>4, RestartKeeps
  <2>5. CASE NoRestart BY <2>5, NoRestartKeeps DEF NoRestart
  <2> QED BY <2>2, <2>4, <2>5
<1>8. CASE Persist BY <1>8, NoRestartKeeps DEF Persist
<1>9. CASE AppExits
  <2>1. /\ offset' = Absent /\ status' = "pending" /\ address' = DefaultServer /\ syncs' = <<>>
        /\ interval' = FALSE /\ overlapped' = FALSE
        BY <1>9 DEF AppExits
  <2>2. AskedIsShown' BY <2>1 DEF AskedIsShown
  <2>3. interval' \in BOOLEAN /\ overlapped' \in BOOLEAN BY <2>1, Zenon
  <2>4. syncs' \in Seq([server : Servers, pending : BOOLEAN]) BY <2>1
  <2> QED BY <2>1, <2>2, <2>3, <2>4 DEF SyncInv
<1>10. CASE DayChanges BY <1>10, NoRestartKeeps DEF DayChanges
<1>11. CASE UNCHANGED timeVars BY <1>11, NoRestartKeeps DEF timeVars
<1> QED BY <1>2, <1>3, <1>4, <1>5, <1>6, <1>7, <1>8, <1>9, <1>10, <1>11 DEF TimeNext

\* The settings, step by step.
LEMMA TimeSettingsStep ==
    ASSUME TimeSettingsFit, day \in 0..MaxDay, [TimeNext]_timeVars
    PROVE  TimeSettingsFit'
<1>1. /\ Configuration(conf) /\ Stored(store) /\ Stored(disk)
      /\ legacy # Absent => Configuration(legacy)
      /\ timeOn => InStep(store, conf)
      BY DEF TimeSettingsFit
<1>2. ASSUME UNCHANGED <<conf, store, disk, legacy, timeOn>> PROVE TimeSettingsFit'
      BY <1>1, <1>2 DEF TimeSettingsFit
<1>3. CASE initializeTimeSync
  <2>1. Configuration(Loaded) /\ InStep(store, Loaded) BY <1>1, LoadedFits
  <2>2. Configuration(Incremented(Loaded)) /\ Stored(StoredWith(store, Loaded))
        /\ InStep(StoredWith(store, Loaded), Incremented(Loaded))
        BY <1>1, <2>1, IncrementedFits, StoredFits
  <2>3. /\ conf' = Incremented(Loaded) /\ store' = StoredWith(store, Loaded)
        /\ UNCHANGED <<disk, legacy>>
        BY <1>3 DEF initializeTimeSync
  <2> QED BY <1>1, <2>2, <2>3 DEF TimeSettingsFit
<1>4. CASE performTimeSync \/ SyncTimer BY <1>2, <1>4 DEF performTimeSync, SyncTimer
<1>5. CASE IncrementTimer
  <2>1. Counted(conf) = Incremented(conf) /\ InStep(store, conf)
        BY <1>1, <1>5 DEF IncrementTimer, Incremented
  <2>2. Configuration(Incremented(conf)) /\ Stored(StoredWith(store, conf))
        /\ InStep(StoredWith(store, conf), Incremented(conf))
        BY <1>1, <2>1, IncrementedFits, StoredFits
  <2>3. /\ conf' = Incremented(conf) /\ store' = StoredWith(store, conf)
        /\ UNCHANGED <<disk, legacy>>
        BY <1>5, <2>1 DEF IncrementTimer
  <2> QED BY <1>1, <2>2, <2>3 DEF TimeSettingsFit
<1>6. ASSUME NEW s \in DOMAIN syncs, NtpAnswers(s) \/ NtpFails(s)
      PROVE  TimeSettingsFit'
      BY <1>2, <1>6 DEF NtpAnswers, NtpFails
<1>7. ASSUME NEW k \in Keys \ {"last"}, NEW v \in TimeValues(k),
             setTime(k, v) \/ applyTimeConfig(k, v) \/ saveTimeSyncConfig(k, v) \/ SaveThrows(k, v)
      PROVE  TimeSettingsFit'
  <2> DEFINE c == [conf EXCEPT ![k] = v]
             s == [store EXCEPT ![k] = v]
  <2>1. InStep(store, conf)
        BY <1>1, <1>7 DEF setTime, applyTimeConfig, saveTimeSyncConfig, SaveThrows, Changed
  <2>2. /\ Configuration(c) /\ Stored(s) /\ c.last = conf.last /\ s.last = store.last
        BY <1>1, <2>1, ChangeFits
  <2>3. InStep(store, c) /\ InStep(s, c) BY <2>1, <2>2 DEF InStep
  <2>4. ASSUME NEW stored, Stored(stored), InStep(stored, c), Apply(k, v, stored),
               UNCHANGED <<disk, legacy>>
        PROVE  TimeSettingsFit'
    <3>1. \/ conf' = c /\ store' = stored
          \/ conf' = Incremented(c) /\ store' = StoredWith(stored, c)
          BY <2>4 DEF Apply
    <3>2. Configuration(conf') /\ Stored(store') /\ InStep(store', conf')
      <4>1. Configuration(Incremented(c)) /\ Stored(StoredWith(stored, c))
            /\ InStep(StoredWith(stored, c), Incremented(c))
            BY <2>2, <2>4, IncrementedFits, StoredFits
      <4> QED BY <2>2, <2>4, <3>1, <4>1
    <3> QED BY <1>1, <2>4, <3>2 DEF TimeSettingsFit
  <2>5. CASE setTime(k, v)
    <3>1. Apply(k, v, s) /\ UNCHANGED <<disk, legacy>> BY <2>5 DEF setTime
    <3> QED BY <2>2, <2>3, <2>4, <3>1
  <2>6. CASE applyTimeConfig(k, v)
    <3>1. Apply(k, v, store) /\ UNCHANGED <<disk, legacy>> BY <2>6 DEF applyTimeConfig
    <3> QED BY <1>1, <2>3, <2>4, <3>1
  <2>7. CASE saveTimeSyncConfig(k, v)
    <3>1. conf' = c /\ legacy' = c /\ UNCHANGED <<store, disk>>
          BY <2>7 DEF saveTimeSyncConfig
    <3> QED BY <1>1, <2>2, <2>3, <3>1 DEF TimeSettingsFit
  <2>8. CASE SaveThrows(k, v)
    <3>1. conf' = c /\ legacy' \in {legacy, Absent} /\ UNCHANGED <<store, disk>>
          BY <2>8 DEF SaveThrows
    <3> QED BY <1>1, <2>2, <2>3, <3>1 DEF TimeSettingsFit
  <2> QED BY <1>7, <2>5, <2>6, <2>7, <2>8
<1>8. CASE Persist BY <1>1, <1>8 DEF Persist, TimeSettingsFit
<1>9. CASE AppExits
  <2>1. conf' = Defaults /\ store' = disk /\ ~timeOn' /\ UNCHANGED <<disk, legacy>>
        BY <1>9 DEF AppExits
  <2> QED BY <1>1, <2>1, DefaultsFit DEF TimeSettingsFit
<1>10. CASE DayChanges BY <1>2, <1>10 DEF DayChanges
<1>11. CASE UNCHANGED timeVars BY <1>2, <1>11 DEF timeVars
<1> QED BY <1>3, <1>4, <1>5, <1>6, <1>7, <1>8, <1>9, <1>10, <1>11 DEF TimeNext

\* The part of what is in use and of what windows know.
ShownInv ==
    /\ day \in 0..MaxDay /\ timeOn \in BOOLEAN /\ manual \in Nat
    /\ toldOffset \in [offset : Servers \union {Absent}, manual : Nat]
    /\ timeChanges \in 0..MaxSettings /\ unsaved \in BOOLEAN
    /\ timeOn => manual = Seconds(conf.manual)
    /\ ~unsaved => toldOffset = [offset |-> offset, manual |-> manual]

\* An offset of a configuration has a number of seconds.
LEMMA SecondsFit == ASSUME NEW c, Configuration(c) PROVE Seconds(c.manual) \in Nat
BY DEF Configuration, Offsets, Seconds

\* What is in use and known, step by step.
LEMMA ShownStep ==
    ASSUME ShownInv, TimeSettingsFit, TimeSettingsFit', SyncInv', [TimeNext]_timeVars
    PROVE  ShownInv'
<1> USE TimeAssumption
<1>1. Seconds(conf'.manual) \in Nat /\ offset' \in Servers \union {Absent}
      BY SecondsFit DEF TimeSettingsFit, SyncInv
<1>2. ASSUME manual' = Seconds(conf'.manual), Tell(offset', manual'), timeOn' \in BOOLEAN,
             day' \in 0..MaxDay, timeChanges' \in 0..MaxSettings
      PROVE  ShownInv'
      BY <1>1, <1>2 DEF Tell, ShownInv
<1>3. ASSUME UNCHANGED <<timeOn, manual, toldOffset, timeChanges, unsaved, conf, offset>>,
             day' \in 0..MaxDay
      PROVE  ShownInv'
      BY <1>3 DEF ShownInv
<1>4. CASE initializeTimeSync
      BY <1>2, <1>4 DEF initializeTimeSync, ShownInv
<1>5. CASE performTimeSync \/ SyncTimer
  <2>1. UNCHANGED <<timeOn, manual, toldOffset, timeChanges, unsaved, conf, offset, day>>
        BY <1>5 DEF performTimeSync, SyncTimer
  <2> QED BY <1>3, <2>1 DEF ShownInv
<1>6. CASE IncrementTimer
  <2>1. manual' = Seconds(conf'.manual) /\ UNCHANGED <<day, timeOn, offset, timeChanges>> /\ timeOn
        BY <1>6 DEF IncrementTimer
  <2>2. CASE conf.last = Absent
    <3>1. UNCHANGED <<toldOffset, unsaved>> BY <1>6, <2>2 DEF IncrementTimer
    <3>2. conf' = [conf EXCEPT !.last = day, !.manual = [conf.manual EXCEPT !.since = day]]
          BY <1>6, <2>2 DEF IncrementTimer, Counted
    <3>3. conf'.manual = [conf.manual EXCEPT !.since = day]
          BY <3>2 DEF TimeSettingsFit, Configuration, Keys
    <3>4. conf.manual \in Offsets BY DEF TimeSettingsFit, Configuration
    <3>5. Seconds(conf'.manual) = Seconds(conf.manual) BY <3>3, <3>4 DEF Offsets, Seconds
    <3>6. manual' = manual BY <2>1, <3>5 DEF ShownInv
    <3> QED BY <2>1, <3>1, <3>6 DEF ShownInv
  <2>3. CASE conf.last # Absent
    <3>1. Tell(offset', manual') BY <1>6, <2>1, <2>3 DEF IncrementTimer
    <3> QED BY <1>2, <2>1, <3>1 DEF ShownInv
  <2> QED BY <2>2, <2>3
<1>7. ASSUME NEW s \in DOMAIN syncs, NtpAnswers(s)
      PROVE  ShownInv'
  <2>1. UNCHANGED <<day, timeOn, conf, manual, timeChanges>> /\ Tell(offset', manual')
        BY <1>7 DEF NtpAnswers
  <2> QED BY <1>1, <2>1 DEF ShownInv, Tell
<1>8. ASSUME NEW s \in DOMAIN syncs, NtpFails(s)
      PROVE  ShownInv'
  <2>1. UNCHANGED <<timeOn, manual, toldOffset, timeChanges, unsaved, conf, offset, day>>
        BY <1>8 DEF NtpFails
  <2> QED BY <1>3, <2>1 DEF ShownInv
<1>9. ASSUME NEW k \in Keys \ {"last"}, NEW v \in TimeValues(k),
             setTime(k, v) \/ applyTimeConfig(k, v) \/ saveTimeSyncConfig(k, v)
      PROVE  ShownInv'
  <2>1. manual' = Seconds(conf'.manual) /\ Tell(offset', manual') /\ UNCHANGED <<day, timeOn>>
        BY <1>9 DEF setTime, applyTimeConfig, saveTimeSyncConfig, Apply
  <2>2. timeChanges < MaxSettings /\ timeChanges' = timeChanges + 1
        BY <1>9 DEF setTime, applyTimeConfig, saveTimeSyncConfig, Changed
  <2>3. timeChanges' \in 0..MaxSettings BY <2>2 DEF ShownInv
  <2> QED BY <1>2, <2>1, <2>3 DEF ShownInv
<1>10. ASSUME NEW k \in Keys \ {"last"}, NEW v \in TimeValues(k), SaveThrows(k, v)
       PROVE  ShownInv'
  <2>1. manual' = Seconds(conf'.manual) /\ unsaved' = TRUE /\ UNCHANGED <<day, timeOn, toldOffset>>
        BY <1>10 DEF SaveThrows
  <2>2. timeChanges < MaxSettings /\ timeChanges' = timeChanges + 1
        BY <1>10 DEF SaveThrows, Changed
  <2>3. timeChanges' \in 0..MaxSettings BY <2>2 DEF ShownInv
  <2> QED BY <1>1, <2>1, <2>3 DEF ShownInv
<1>11. CASE Persist
  <2>1. UNCHANGED <<timeOn, manual, toldOffset, timeChanges, unsaved, conf, offset, day>>
        BY <1>11 DEF Persist
  <2> QED BY <1>3, <2>1 DEF ShownInv
<1>12. CASE AppExits
  <2>1. /\ timeOn' = FALSE /\ manual' = 0 /\ toldOffset' = [offset |-> Absent, manual |-> 0]
        /\ unsaved' = FALSE /\ offset' = Absent /\ UNCHANGED <<day, timeChanges>>
        BY <1>12 DEF AppExits, Tell
  <2> QED BY <2>1 DEF ShownInv
<1>13. CASE DayChanges
  <2>1. UNCHANGED <<timeOn, manual, toldOffset, timeChanges, unsaved, conf, offset>>
        /\ day' \in 0..MaxDay
        BY <1>13 DEF DayChanges
  <2> QED BY <1>3, <2>1
<1>14. CASE UNCHANGED timeVars
  <2>1. UNCHANGED <<timeOn, manual, toldOffset, timeChanges, unsaved, conf, offset, day>>
        BY <1>14 DEF timeVars
  <2> QED BY <1>3, <2>1 DEF ShownInv
<1> QED BY <1>4, <1>5, <1>6, <1>7, <1>8, <1>9, <1>10, <1>11, <1>12, <1>13, <1>14 DEF TimeNext

TimeInv == ShownInv /\ TimeSettingsFit /\ SyncInv

\* It holds at first, with the older file or without one.
LEMMA TimeInitially == TimeInit => TimeInv
<1> SUFFICES ASSUME TimeInit PROVE TimeInv
    OBVIOUS
<1> USE TimeAssumption
<1>1. Configuration(OldSettings)
  <2>1. OldSettings = [k \in Keys |-> OldSettings[k]] BY DEF OldSettings, Keys
  <2>2. /\ OldSettings.ntpServer = OldServer /\ OldSettings.autoSync = FALSE
        /\ OldSettings.manual = Offset(5, Absent) /\ OldSettings.enabled = TRUE
        /\ OldSettings.last = Absent
        BY DEF OldSettings
  <2>3. Offset(5, Absent) \in Offsets /\ Offset(5, Absent).added = 0
        BY DEF Offset, Offsets, Dates
  <2>4. FairlyCounted(Offset(5, Absent), Absent)
        BY <2>3 DEF FairlyCounted, CountsEachDayOnce
  <2>5. Absent \in Dates BY DEF Dates
  <2> QED BY <2>1, <2>2, <2>3, <2>4, <2>5 DEF Configuration
<1>2. TimeSettingsFit
  <2>1. conf = Defaults /\ store = NoStore /\ disk = NoStore /\ timeOn = FALSE
        /\ legacy \in {Absent, OldSettings}
        BY DEF TimeInit
  <2> QED BY <1>1, <2>1, DefaultsFit DEF TimeSettingsFit
<1>3. SyncInv
  <2>1. AskedIsShown BY DEF TimeInit, AskedIsShown
  <2>2. interval \in BOOLEAN /\ overlapped \in BOOLEAN BY Zenon DEF TimeInit
  <2>3. syncs \in Seq([server : Servers, pending : BOOLEAN]) BY DEF TimeInit
  <2> QED BY <2>1, <2>2, <2>3 DEF TimeInit, SyncInv
<1>4. ShownInv
  <2>1. timeOn \in BOOLEAN /\ unsaved \in BOOLEAN /\ ~timeOn BY Zenon DEF TimeInit
  <2>2. toldOffset \in [offset : Servers \union {Absent}, manual : Nat] BY DEF TimeInit
  <2> QED BY <2>1, <2>2 DEF TimeInit, ShownInv
<1> QED BY <1>2, <1>3, <1>4 DEF TimeInv

LEMMA TimeInvariant == TimeSpec => []TimeInv
<1>1. TimeInv /\ [TimeNext]_timeVars => TimeInv'
  <2> SUFFICES ASSUME TimeInv, [TimeNext]_timeVars PROVE TimeInv'
      OBVIOUS
  <2>1. day \in 0..MaxDay BY DEF TimeInv, ShownInv
  <2>2. TimeSettingsFit' BY <2>1, TimeSettingsStep DEF TimeInv
  <2>3. SyncInv' BY <2>1, SyncStep DEF TimeInv
  <2>4. ShownInv' BY <2>2, <2>3, ShownStep DEF TimeInv
  <2> QED BY <2>2, <2>3, <2>4 DEF TimeInv
<1> QED BY <1>1, TimeInitially, PTL DEF TimeSpec

\* Every value in memory, in the store, on the disk and in the older file is of its kind,
\* whatever is loaded from which of them.
THEOREM TimeTypesHold == TimeSpec => []TimeTypeOK
<1>1. TimeInv => TimeTypeOK
  <2> SUFFICES ASSUME TimeInv PROVE TimeTypeOK
      OBVIOUS
  <2>1. \A c \in {conf} \union ({legacy} \ {Absent}) : Configuration(c)
        BY DEF TimeInv, TimeSettingsFit
  <2>2. \A s \in {store, disk} : Stored(s) BY DEF TimeInv, TimeSettingsFit
  <2>3. \A c \in {conf} \union ({legacy} \ {Absent}) :
           /\ c.ntpServer \in Servers /\ c.autoSync \in BOOLEAN /\ c.manual \in Offsets
           /\ c.enabled \in BOOLEAN /\ c.last \in Dates
        BY <2>1, Zenon DEF Configuration
  <2>4. \A s \in {store, disk} :
           /\ s.ntpServer \in Servers \union {Absent} /\ s.autoSync \in BOOLEAN \union {Absent}
           /\ s.manual \in Offsets \union {Absent} /\ s.last \in Dates
        BY <2>2, Zenon DEF Stored
  <2> QED BY <2>3, <2>4, Zenon DEF TimeInv, ShownInv, SyncInv, TimeTypeOK
<1> QED BY <1>1, TimeInvariant, PTL

\* However often the app is restarted or crashes, whatever is set and whenever the store is
\* written, no day that passed is counted twice or left out, in memory, in the store or on
\* the disk; what windows are told is what is in use; and a synchronisation shown as done
\* is one with the server shown.
THEOREM TimeStaysKept == TimeSpec => []TimeIsKept
<1>1. TimeInv => TimeIsKept
  <2> SUFFICES ASSUME TimeInv PROVE TimeIsKept
      OBVIOUS
  <2>1. EachDayCountsOnce
    <3>1. CountsEachDayOnce(conf.manual, conf.last)
          BY DEF TimeInv, TimeSettingsFit, Configuration, FairlyCounted
    <3>2. \A s \in {store, disk} : s.manual # Absent => CountsEachDayOnce(s.manual, s.last)
          BY DEF TimeInv, TimeSettingsFit, Stored, FairlyCounted
    <3> QED BY <3>1, <3>2 DEF EachDayCountsOnce
  <2>2. TimeIsTruthful BY DEF TimeInv, ShownInv, SyncInv, TimeIsTruthful
  <2> QED BY <2>1, <2>2 DEF TimeIsKept
<1> QED BY <1>1, TimeInvariant, PTL

-----------------------------------------------------------------------------
(* The composed module.                                                       *)

\* A behaviour of FilesSpec steps one part and leaves the others as they are at first, so it is
\* a behaviour of each: what is proved of a part for any constants holds of it too.
LEMMA OneOfEachPart ==
    FilesSpec => ManagedSpec /\ SettingsSpec /\ PreferenceSpec /\ CredentialSpec /\ TimeSpec
<1>1. FilesInit =>
          ManagedInit /\ SettingsInit /\ PreferenceInit /\ CredentialInit /\ TimeInit
  BY DEF FilesInit
<1>2. [FilesNext]_partVars =>
          /\ [ManagedNext]_managedVars /\ [SettingsNext]_settingsVars
          /\ [PreferenceNext]_preferenceVars /\ [CredentialNext]_credentialVars
          /\ [TimeNext]_timeVars
  <2>1. CASE FilesNext BY <2>1 DEF FilesNext
  <2>2. CASE UNCHANGED partVars BY <2>2 DEF partVars
  <2> QED BY <2>1, <2>2
<1> QED
  BY <1>1, <1>2, PTL
     DEF FilesSpec, ManagedSpec, SettingsSpec, PreferenceSpec, CredentialSpec, TimeSpec

\* Theorem: whichever part runs, and whatever is saved, lost, refused and restarted, the
\* state of each keeps the shape of its code's.
THEOREM FilesTypesHold == FilesSpec => []FilesTypeOK
<1>1. ManagedTypeOK /\ SettingsTypeOK /\ PreferenceTypeOK /\ CredentialTypeOK /\ TimeTypeOK
          => FilesTypeOK
  BY DEF FilesTypeOK
<1> QED
  BY <1>1, OneOfEachPart, ManagedTypesHold, SettingsTypesHold, PreferenceTypesHold,
     CredentialTypesHold, TimeTypesHold, PTL
===============================================================================
