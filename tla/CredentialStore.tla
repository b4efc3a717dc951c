--------------------------- MODULE CredentialStore ---------------------------
(***************************************************************************)
(* The device credential on the disk (ControlCredentialStore), with the    *)
(* calls of the control agent that use it: a file, a shadow copy and, on   *)
(* Windows only, a copy in the registry. The file is replaced by a rename, *)
(* the shadow is written in place. A watcher saves the credential again    *)
(* when somebody else touches the file; it tells its own writes by a flag  *)
(* only. A credential is the number of the enrolment it comes from.        *)
(* Not modelled: an enrolment or a clearing during start(), two restores   *)
(* at once, writes of start() that fail, a secure storage that is away.    *)
(***************************************************************************)
EXTENDS Naturals

CONSTANTS MaxEnrollments,   \* bound: enrolments
          MaxFaults,        \* bound: crashes, file operations that fail
          MaxTouches        \* bound: times another program deletes or breaks the file

ASSUME CredentialAssumption ==
    MaxEnrollments \in Nat /\ MaxFaults \in Nat /\ MaxTouches \in Nat

VARIABLES
    files,          \* the file, its shadow and the registry's copy, if there is a registry
    temporary,      \* the temporary file; a restore and an enrolment share its name
    isSelfWrite,
    registration,   \* the agent's, 0: none
    enrolled,       \* the last enrolment
    watcher,        \* whether it watches, has an event to hear, has set its timer
    fileCalls,      \* the calls of load, save and clear under way
    kept,           \* ghost: an enrolment was saved and not cleared since its save began
    excuses,        \* ghost: "disturbed" when calls have overlapped, a call was cut off by a
                    \* crash, a restore has failed or the watcher has missed a change; "copy"
                    \* when a copy was not written or the only one was lost; "cleared" when
                    \* a clearing has overlapped the enrolment
    faults, touches

credentialVars == <<files, temporary, isSelfWrite, registration, enrolled, watcher, fileCalls, kept,
                    excuses, faults, touches>>

Credentials == 1..MaxEnrollments
Broken == MaxEnrollments + 1      \* a file that cannot be parsed or decrypted
NoMirror == MaxEnrollments + 2    \* in the place of the registry's copy, where none can be
CredentialCalls == {"start", "enroll", "restore", "clear"}
NoCall == [pc |-> "idle", credential |-> 0]
CallsUnderWay == {j \in CredentialCalls : fileCalls[j].pc # "idle"}

\* What load() finds: the file, else the shadow, else the registry's copy.
load ==
    IF files.primary \in Credentials THEN files.primary
    ELSE IF files.shadow \in Credentials THEN files.shadow
    ELSE IF files.mirror \in Credentials THEN files.mirror ELSE 0

Goto(j, pc) == fileCalls' = [fileCalls EXCEPT ![j].pc = pc]
Fault == faults < MaxFaults /\ faults' = faults + 1
ExcusedBy(why) == excuses' = excuses \union {why}
Overlapping == IF CallsUnderWay = {} THEN {} ELSE {"disturbed"}
Cleared(j) == IF fileCalls[j].pc = "idle" THEN {} ELSE {"cleared"}

\* The registry's copy once it is written or removed: outside Windows nothing happens.
Mirrored(content) == IF files.mirror = NoMirror THEN NoMirror ELSE content

\* What is in this place can be loaded, and nothing else can: to lose it is to lose all.
OnlyCopy(place) == \A f \in DOMAIN files : files[f] \in Credentials <=> f = place

\* start() and enroll() take the credential into memory and watch its file; a
\* previous watcher goes, with the event it has not heard and its timer.
Adopt(credential, excused) ==
    /\ registration' = credential
    /\ watcher' = [on |-> TRUE, event |-> FALSE, timer |-> FALSE]
    /\ excuses' = excused \union (IF files.primary = credential THEN {} ELSE {"disturbed"})

-----------------------------------------------------------------------------
(* writePrimary, writeShadow and extraPersist, as steps of save() and load() *)

WriteTemporary(j) ==
    /\ fileCalls[j].pc = "temporary"
    /\ temporary' = fileCalls[j].credential /\ isSelfWrite' = TRUE
    /\ Goto(j, "rename")
    /\ UNCHANGED <<files, registration, enrolled, watcher, kept, excuses, faults, touches>>

\* The watcher hears of this rename before the flag is down, or after it.
RenameCredential(j) ==
    /\ fileCalls[j].pc = "rename" /\ temporary # 0
    /\ files' = [files EXCEPT !.primary = temporary]
    /\ temporary' = 0 /\ isSelfWrite' = FALSE
    /\ \E heard \in BOOLEAN :
          watcher' = [watcher EXCEPT !.event = watcher.on /\ (watcher.event \/ ~heard)]
    /\ Goto(j, "cleanup")
    /\ UNCHANGED <<registration, enrolled, kept, excuses, faults, touches>>

\* The write or the rename fails; also because another job has taken the
\* temporary file away. A restore that fails is not tried again.
WriteCredentialFails(j) ==
    /\ j # "start"
    /\ \/ fileCalls[j].pc = "rename" /\ temporary = 0 /\ UNCHANGED faults
       \/ fileCalls[j].pc \in {"temporary", "rename"} /\ Fault
    /\ isSelfWrite' = FALSE
    /\ Goto(j, "failing")
    /\ excuses' = IF j = "restore" THEN excuses \union {"disturbed"} ELSE excuses
    /\ UNCHANGED <<files, temporary, registration, enrolled, watcher, kept, touches>>

\* The temporary file is removed. A save that has failed throws here; load()
\* goes on to the shadow only if it has found the registry's copy.
RemoveTemporary(j) ==
    /\ fileCalls[j].pc \in {"cleanup", "failing"}
    /\ temporary' = 0
    /\ IF j = "start" /\ files.shadow = fileCalls[j].credential
       THEN Adopt(fileCalls[j].credential, excuses) /\ fileCalls' = [fileCalls EXCEPT ![j] = NoCall]
       ELSE /\ IF fileCalls[j].pc = "cleanup" THEN Goto(j, "shadow")
               ELSE fileCalls' = [fileCalls EXCEPT ![j] = NoCall]
            /\ UNCHANGED <<registration, watcher, excuses>>
    /\ UNCHANGED <<files, isSelfWrite, enrolled, kept, faults, touches>>

\* The shadow is emptied to be written. Where there is no registry it may be all
\* that is left of the credential, when the file has been touched meanwhile.
OpenShadow(j) ==
    /\ fileCalls[j].pc = "shadow"
    /\ excuses' = IF OnlyCopy("shadow") THEN excuses \union {"copy"} ELSE excuses
    /\ files' = [files EXCEPT !.shadow = Broken]
    /\ isSelfWrite' = TRUE
    /\ Goto(j, "copying")
    /\ UNCHANGED <<temporary, registration, enrolled, watcher, kept, faults, touches>>

\* A shadow that cannot be written is only a warning.
WriteShadow(j) ==
    /\ fileCalls[j].pc = "copying"
    /\ \/ files' = [files EXCEPT !.shadow = fileCalls[j].credential] /\ UNCHANGED <<excuses, faults>>
       \/ j # "start" /\ Fault /\ ExcusedBy("copy") /\ UNCHANGED files
    /\ isSelfWrite' = FALSE
    /\ Goto(j, "mirror")
    /\ UNCHANGED <<temporary, registration, enrolled, watcher, kept, touches>>

\* The registry's copy, whose failures are not even reported, ends a save.
EndSave(j) ==
    /\ fileCalls[j].pc = "mirror"
    /\ \/ files' = [files EXCEPT !.mirror = Mirrored(fileCalls[j].credential)] /\ UNCHANGED faults
       \/ j # "start" /\ files.mirror # NoMirror /\ Fault /\ UNCHANGED files
    /\ LET excused == IF files'.mirror = Mirrored(fileCalls[j].credential) THEN excuses
                      ELSE excuses \union {"copy"}
       IN  IF j = "restore"
           THEN excuses' = excused /\ UNCHANGED <<registration, watcher>>
           ELSE Adopt(fileCalls[j].credential, excused)
    /\ kept' = IF j = "enroll" THEN fileCalls["clear"].pc = "idle" /\ "cleared" \notin excuses
               ELSE kept
    /\ fileCalls' = [fileCalls EXCEPT ![j] = NoCall]
    /\ UNCHANGED <<temporary, isSelfWrite, enrolled, touches>>

-----------------------------------------------------------------------------
(* The agent                                                                 *)

\* start(): what is found in the file is adopted, what is found in a copy is
\* written back before.
StartAgent ==
    /\ fileCalls["start"].pc = "reading"
    /\ IF load # 0 /\ load = files.primary
       THEN /\ fileCalls' = [fileCalls EXCEPT !["start"] = NoCall]
            /\ Adopt(load, excuses)
       ELSE /\ fileCalls' = [fileCalls EXCEPT !["start"] = IF load = 0 THEN NoCall
                                      ELSE [pc |-> "temporary", credential |-> load]]
            /\ UNCHANGED <<registration, watcher, excuses>>
    /\ UNCHANGED <<files, temporary, isSelfWrite, enrolled, kept, faults, touches>>

\* The registry cannot be read, and counts as empty: nothing is found that could be.
MirrorUnread ==
    /\ fileCalls["start"].pc = "reading" /\ OnlyCopy("mirror")
    /\ fileCalls' = [fileCalls EXCEPT !["start"] = NoCall]
    /\ ExcusedBy("disturbed")
    /\ UNCHANGED <<files, temporary, isSelfWrite, registration, enrolled, watcher, kept, faults,
                   touches>>

\* enroll() has the answer of the server and saves it.
Enroll ==
    /\ enrolled < MaxEnrollments /\ fileCalls["start"].pc = "idle" /\ fileCalls["enroll"].pc = "idle"
    /\ enrolled' = enrolled + 1
    /\ fileCalls' = [fileCalls EXCEPT !["enroll"] = [pc |-> "temporary", credential |-> enrolled + 1]]
    /\ excuses' = (excuses \ {"cleared"}) \union Overlapping \union Cleared("clear")
    /\ UNCHANGED <<files, temporary, isSelfWrite, registration, watcher, kept, faults, touches>>

\* clearEnrollment() stops the watcher and calls clear(). A file that cannot be
\* removed ends both.
ClearEnrollment ==
    /\ registration # 0 /\ fileCalls["start"].pc = "idle" /\ fileCalls["clear"].pc = "idle"
    /\ watcher' = [on |-> FALSE, event |-> FALSE, timer |-> FALSE]
    /\ Goto("clear", "removeFile")
    /\ kept' = FALSE
    /\ excuses' = excuses \union Overlapping \union Cleared("enroll")
    /\ UNCHANGED <<files, temporary, isSelfWrite, registration, enrolled, faults, touches>>

BugRemoveFile ==
    /\ fileCalls["clear"].pc = "removeFile"
    /\ files' = [files EXCEPT !.primary = 0]
    /\ isSelfWrite' = FALSE /\ Goto("clear", "removeMirror")
    /\ UNCHANGED <<temporary, registration, enrolled, watcher, kept, excuses, faults, touches>>

RemoveFile ==
    /\ fileCalls["clear"].pc = "removeFile"
    /\ \/ /\ files' = [files EXCEPT !.primary = 0]
          /\ Goto("clear", "removeShadow") /\ UNCHANGED faults
       \/ Fault /\ Goto("clear", "idle") /\ UNCHANGED files
    /\ isSelfWrite' = FALSE
    /\ UNCHANGED <<temporary, registration, enrolled, watcher, kept, excuses, touches>>

RemoveShadow ==
    /\ fileCalls["clear"].pc = "removeShadow"
    /\ \/ files' = [files EXCEPT !.shadow = 0] /\ UNCHANGED <<excuses, faults>>
       \/ Fault /\ ExcusedBy("copy") /\ UNCHANGED files
    /\ Goto("clear", "removeMirror")
    /\ UNCHANGED <<temporary, isSelfWrite, registration, enrolled, watcher, kept, touches>>

\* The registry's copy, and then the memory.
RemoveMirror ==
    /\ fileCalls["clear"].pc = "removeMirror"
    /\ \/ files' = [files EXCEPT !.mirror = Mirrored(0)] /\ UNCHANGED <<excuses, faults>>
       \/ files.mirror # NoMirror /\ Fault /\ ExcusedBy("copy") /\ UNCHANGED files
    /\ registration' = 0
    /\ Goto("clear", "idle")
    /\ UNCHANGED <<temporary, isSelfWrite, enrolled, watcher, kept, touches>>

\* Another program deletes or breaks the file. It may be all that there is of the
\* credential: where there is no registry, while or after a shadow was not written.
Touch ==
    /\ touches < MaxTouches /\ touches' = touches + 1
    /\ \E content \in {0, Broken} : files' = [files EXCEPT !.primary = content]
    /\ watcher' = [watcher EXCEPT !.event = watcher.on]
    /\ excuses' = IF OnlyCopy("primary") THEN excuses \union {"copy"} ELSE excuses
    /\ UNCHANGED <<temporary, isSelfWrite, registration, enrolled, fileCalls, kept, faults>>

\* The watcher ignores an event while the flag is up, be it its own or not;
\* another sets the timer, anew if it is set.
HearFile ==
    /\ watcher.event
    /\ watcher' = [watcher EXCEPT !.event = FALSE, !.timer = @ \/ ~isSelfWrite]
    /\ excuses' = IF isSelfWrite /\ files.primary # registration
                  THEN excuses \union {"disturbed"} ELSE excuses
    /\ UNCHANGED <<files, temporary, isSelfWrite, registration, enrolled, fileCalls, kept, faults,
                   touches>>

\* The timer of the watcher: what is in memory is saved.
Restore ==
    /\ watcher.timer /\ fileCalls["restore"].pc = "idle"
    /\ watcher' = [watcher EXCEPT !.timer = FALSE]
    /\ IF registration = 0 THEN UNCHANGED <<fileCalls, excuses>>
       ELSE /\ fileCalls' = [fileCalls EXCEPT !["restore"] =
                           [pc |-> "temporary", credential |-> registration]]
            /\ excuses' = excuses \union Overlapping
    /\ UNCHANGED <<files, temporary, isSelfWrite, registration, enrolled, kept, faults, touches>>

\* The process ends and starts again; it may leave copies that differ.
Crash ==
    /\ Fault
    /\ fileCalls' = [j \in CredentialCalls |->
                       IF j = "start" THEN [NoCall EXCEPT !.pc = "reading"] ELSE NoCall]
    /\ temporary' = 0 /\ isSelfWrite' = FALSE /\ registration' = 0
    /\ watcher' = [on |-> FALSE, event |-> FALSE, timer |-> FALSE]
    /\ excuses' = IF CallsUnderWay = {} THEN excuses ELSE excuses \union {"disturbed"}
    /\ UNCHANGED <<files, enrolled, kept, touches>>

-----------------------------------------------------------------------------
CredentialInit ==
    /\ \E mirror \in {0, NoMirror} : files = [primary |-> 0, shadow |-> 0, mirror |-> mirror]
    /\ temporary = 0 /\ isSelfWrite = FALSE
    /\ registration = 0 /\ enrolled = 0
    /\ watcher = [on |-> FALSE, event |-> FALSE, timer |-> FALSE]
    /\ fileCalls = [j \in CredentialCalls |-> NoCall]
    /\ kept = FALSE /\ excuses = {} /\ faults = 0 /\ touches = 0

SaveCredentialStep(j) ==
    \/ WriteTemporary(j)
    \/ RenameCredential(j)
    \/ WriteCredentialFails(j)
    \/ RemoveTemporary(j)
    \/ OpenShadow(j)
    \/ WriteShadow(j)
    \/ EndSave(j)

ClearStep ==
    \/ RemoveFile
    \/ RemoveShadow
    \/ RemoveMirror

CredentialNext ==
    \/ \E j \in {"start", "enroll", "restore"} : SaveCredentialStep(j)
    \/ StartAgent
    \/ MirrorUnread
    \/ Enroll
    \/ ClearEnrollment
    \/ ClearStep
    \/ Touch
    \/ HearFile
    \/ Restore
    \/ Crash

\* File operations end, events are heard and timers fire.
CredentialFairness ==
    /\ \A j \in {"start", "enroll", "restore"} : WF_credentialVars(SaveCredentialStep(j))
    /\ WF_credentialVars(ClearStep)
    /\ WF_credentialVars(StartAgent \/ MirrorUnread) /\ WF_credentialVars(HearFile) /\ WF_credentialVars(Restore)

CredentialSpec == CredentialInit /\ [][CredentialNext]_credentialVars /\ CredentialFairness

-----------------------------------------------------------------------------
\* A job that writes has a credential to write.
CredentialTypeOK ==
    /\ files \in [primary : 0..Broken, shadow : 0..Broken, mirror : 0..NoMirror]
    /\ temporary \in 0..MaxEnrollments /\ registration \in 0..MaxEnrollments
    /\ enrolled \in 0..MaxEnrollments
    /\ isSelfWrite \in BOOLEAN /\ kept \in BOOLEAN
    /\ watcher \in [on : BOOLEAN, event : BOOLEAN, timer : BOOLEAN]
    /\ \A j \in CredentialCalls \ {"clear"} :
          fileCalls[j].pc \notin {"idle", "reading"} => fileCalls[j].credential \in Credentials
    /\ excuses \subseteq {"disturbed", "cleared", "copy"}
    /\ faults \in 0..MaxFaults /\ touches \in 0..MaxTouches

\* A credential that was saved, and not cleared, is found by the next start,
\* whatever crashes and deletions come between the steps of load(), save() and
\* of restores, unless a copy could not be written, or the only copy, which off
\* Windows the file is while the shadow is being written, is deleted; and while
\* no call is under way and none was disturbed, what is found is the enrolment
\* in memory: one that was replaced or cleared does not come back.
CredentialIsKept ==
    /\ kept /\ "copy" \notin excuses => load # 0
    /\ CallsUnderWay = {} /\ excuses = {} => load = registration

\* The file that another program has deleted or broken is restored while the
\* agent runs, unless the watcher has missed it or calls have overlapped.
FileIsRestored ==
    (watcher.on /\ files.primary # registration)
        ~> (~watcher.on \/ files.primary = registration \/ excuses # {})
=============================================================================
