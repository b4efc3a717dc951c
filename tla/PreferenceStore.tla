--------------------------- MODULE PreferenceStore ---------------------------
(***************************************************************************)
(* The plugin preference store of the desktop app                          *)
(* (FilePluginPreferenceStore): every change waits until all of memory is  *)
(* on disk, one write at a time, through a temporary file and a rename.    *)
(* Contents are the number of changes they contain; revision and           *)
(* persistedRevision, which the code counts from each start, are counted   *)
(* from the first.                                                         *)
(***************************************************************************)
EXTENDS Naturals

CONSTANTS Callers,       \* calls of setEnabled, setConfig and remove
          TornFile,      \* a file that holds half a snapshot
          MaxRevision,   \* bound: changes
          MaxMishaps     \* bound: writes that fail, crashes

ASSUME PreferenceAssumption ==
    /\ TornFile \notin Nat
    /\ MaxRevision \in Nat /\ MaxMishaps \in Nat

VARIABLES
    revision,            \* the changes made, all of them in memory
    persistedRevision,   \* the changes known to be on disk
    writing,             \* the step of the write under way
    snapshot,            \* what it writes
    tmpFile, prefFile,   \* the temporary file and the file of the store
    calls,               \* per caller: "idle", "waiting", "saved" or "failed"
    asked,               \* per caller: the revision its change made
    told,                \* ghost: the last change a caller was told is saved
    mishaps

preferenceVars == <<revision, persistedRevision, writing, snapshot, tmpFile, prefFile, calls,
                    asked, told, mishaps>>

Waiting == {c \in Callers : calls[c] = "waiting"}
Settle(how) == calls' = [c \in Callers |-> IF calls[c] = "waiting" THEN how ELSE calls[c]]

-----------------------------------------------------------------------------
\* setEnabled to another value, setConfig or remove: the change is made, and
\* persist starts a write unless one is under way.
Set(c) ==
    /\ calls[c] # "waiting" /\ revision < MaxRevision
    /\ revision' = revision + 1
    /\ calls' = [calls EXCEPT ![c] = "waiting"]
    /\ asked' = [asked EXCEPT ![c] = revision + 1]
    /\ IF writing = "none" THEN writing' = "tmp" /\ snapshot' = revision + 1
       ELSE UNCHANGED <<writing, snapshot>>
    /\ UNCHANGED <<persistedRevision, tmpFile, prefFile, told, mishaps>>

\* setEnabled to the value there is: nothing is written and nothing awaited.
SetSame(c) ==
    /\ calls[c] # "waiting"
    /\ calls' = [calls EXCEPT ![c] = "idle"]
    /\ UNCHANGED <<revision, persistedRevision, writing, snapshot, tmpFile, prefFile, asked,
                   told, mishaps>>

\* The temporary file is opened, and written.
OpenTmp ==
    /\ writing = "tmp"
    /\ tmpFile' = TornFile /\ writing' = "write"
    /\ UNCHANGED <<revision, persistedRevision, snapshot, prefFile, calls, asked, told, mishaps>>

WriteTmpFile ==
    /\ writing = "write"
    /\ tmpFile' = snapshot /\ writing' = "rename"
    /\ UNCHANGED <<revision, persistedRevision, snapshot, prefFile, calls, asked, told, mishaps>>

RenameTmp ==
    /\ writing = "rename"
    /\ prefFile' = tmpFile /\ writing' = "written"
    /\ UNCHANGED <<revision, persistedRevision, snapshot, tmpFile, calls, asked, told, mishaps>>

BugWritten ==
    /\ writing = "written"
    /\ persistedRevision' = revision
    /\ writing' = "none" /\ UNCHANGED snapshot
    /\ Settle("saved") /\ told' = revision
    /\ UNCHANGED <<revision, tmpFile, prefFile, asked, mishaps>>

BugNotAgain ==
    /\ writing = "written"
    /\ persistedRevision' = snapshot
    /\ writing' = "none" /\ UNCHANGED snapshot
    /\ IF snapshot = revision THEN Settle("saved") /\ told' = revision
       ELSE UNCHANGED <<calls, told>>
    /\ UNCHANGED <<revision, tmpFile, prefFile, asked, mishaps>>

\* The write is over. The callers go on when it has saved everything; if not,
\* the first of them starts another write.
Written ==
    /\ writing = "written"
    /\ persistedRevision' = snapshot
    /\ IF snapshot = revision
       THEN /\ writing' = "none" /\ UNCHANGED snapshot
            /\ Settle("saved") /\ told' = revision
       ELSE /\ writing' = "tmp" /\ snapshot' = revision
            /\ UNCHANGED <<calls, told>>
    /\ UNCHANGED <<revision, tmpFile, prefFile, asked, mishaps>>

\* The directory, the write or the rename fails, and so does every caller. The
\* change stays in memory; only the next one tries again.
PersistFails ==
    /\ writing \in {"tmp", "write", "rename"} /\ mishaps < MaxMishaps
    /\ mishaps' = mishaps + 1
    /\ writing' = "none"
    /\ Settle("failed")
    /\ UNCHANGED <<revision, persistedRevision, snapshot, tmpFile, prefFile, asked, told>>

\* The process ends and starts again. Quitting awaits no write of this store,
\* so it ends in the same way.
Killed ==
    /\ mishaps < MaxMishaps
    /\ mishaps' = mishaps + 1
    /\ revision' = prefFile /\ persistedRevision' = prefFile
    /\ writing' = "none"
    /\ calls' = [c \in Callers |-> IF calls[c] = "saved" THEN "saved" ELSE "idle"]
    /\ UNCHANGED <<snapshot, tmpFile, prefFile, asked, told>>

-----------------------------------------------------------------------------
PreferenceInit ==
    /\ revision = 0 /\ persistedRevision = 0
    /\ writing = "none" /\ snapshot = 0
    /\ tmpFile = TornFile /\ prefFile = 0
    /\ calls = [c \in Callers |-> "idle"] /\ asked = [c \in Callers |-> 0]
    /\ told = 0 /\ mishaps = 0

PreferenceNext ==
    \/ \E c \in Callers : Set(c)
    \/ \E c \in Callers : SetSame(c)
    \/ OpenTmp
    \/ WriteTmpFile
    \/ RenameTmp
    \/ Written
    \/ PersistFails
    \/ Killed

\* File operations end.
PreferenceFairness ==
    /\ WF_preferenceVars(OpenTmp)
    /\ WF_preferenceVars(WriteTmpFile)
    /\ WF_preferenceVars(RenameTmp)
    /\ WF_preferenceVars(Written)

PreferenceSpec == PreferenceInit /\ [][PreferenceNext]_preferenceVars /\ PreferenceFairness

-----------------------------------------------------------------------------
\* The state has the shape of the store's fields.
PreferenceTypeOK ==
    /\ revision \in Nat /\ persistedRevision \in Nat /\ snapshot \in Nat
    /\ prefFile \in Nat /\ told \in Nat /\ mishaps \in Nat
    /\ tmpFile \in Nat \union {TornFile}
    /\ writing \in {"none", "tmp", "write", "rename", "written"}
    /\ calls \in [Callers -> {"idle", "waiting", "saved", "failed"}]
    /\ asked \in [Callers -> Nat]

\* A caller that was told its change is saved finds it on the disk, whatever
\* crashed, failed or was written since (persist, writeSnapshot).
SavedIsOnDisk == \A c \in Callers : calls[c] = "saved" => asked[c] <= prefFile

\* Nobody waits for a write that nobody will do.
NobodyWaitsInVain == Waiting # {} => writing # "none"

\* Every call is answered: it does not wait for ever, though later changes can
\* make it wait for theirs.
CallsAreAnswered == Waiting # {} ~> Waiting = {}

\* The store keeps what a durable store promises.
Durable == INSTANCE DurableStore WITH memory <- revision, disk <- prefFile
KeepsItsPromise == Durable!DurableSpec
=============================================================================
