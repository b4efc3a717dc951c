----------------------------- MODULE ExamEditor -----------------------------
(***************************************************************************)
(* The exam editor of the desktop app: useExamEditor with its manager of   *)
(* the configuration, its history and the window that closes. Saving,      *)
(* opening and importing wait for dialogs and for the disk, and nothing    *)
(* locks the editor meanwhile: the dialogs for files have no parent window *)
(* so that the user goes on editing, saves again or opens another file.    *)
(*                                                                         *)
(* A configuration is a number: 0 the default one, 1 one that an earlier   *)
(* session left, and every edit makes a new one. confirm() stops the page, *)
(* so that it is a choice of the user within one step. One edit at a time  *)
(* waits for the timer of the history, which is not told apart by keys.    *)
(***************************************************************************)
EXTENDS Naturals, Sequences

CONSTANTS Paths,       \* files the user may choose
          FirstPath,   \* the one that exists at first, and may be opened at startup
          Invalid,     \* the configurations that validateExamConfig refuses
          NoFile,      \* there is no such file; also no path
          TornExam,    \* what a write that failed may leave: nothing that parses
          MaxContent,  \* bound: the configurations
          MaxEditorOps \* bound: operations that wait for a dialog or the disk

ASSUME EditorAssumption ==
    /\ FirstPath \in Paths /\ Invalid \subseteq Nat \ {0, 1}
    /\ NoFile \notin Paths \union Nat /\ TornExam \notin Nat /\ NoFile # TornExam
    /\ MaxContent \in Nat \ {0} /\ MaxEditorOps \in Nat

VARIABLES
    doc,        \* configManager.config
    last,       \* the newest configuration
    session,    \* the copy in localStorage, or NoFile
    path,       \* currentFilePath
    modified,   \* isFileModified
    isNew,      \* isNewFile
    files,      \* what is on the disk
    entries,    \* historyStore.entries
    pointer,    \* historyStore.pointer, counted from 1
    debounced,  \* pushDebounced has a timer under way
    editorJobs,       \* the operations begun, in order
    closing,    \* closingInProgressGlobal: "idle", "asking", "saving"; "closed" in the end
    work,       \* ghost: edits of the user that no file has
    misled,     \* ghost: the last thing to clear isFileModified was late: it was
                \* about another configuration or another file
    unrecorded, \* ghost: the configuration changed and the history was not told
    consented   \* ghost: the user chose to drop the changes when the window closed

editorDoc == <<doc, session>>
editorFile == <<path, isNew>>
editorHistory == <<entries, pointer, debounced, unrecorded>>
editorVars == <<doc, last, session, path, modified, isNew, files, entries, pointer, debounced,
                editorJobs, closing, work, misled, unrecorded, consented>>

ExamContents == 0..MaxContent

\* then: what awaits a save: nothing, openProject or closeEditorWindow
EditorJob(kind, stage, p, c, then) ==
    [kind |-> kind, stage |-> stage, path |-> p, content |-> c, then |-> then]
OpenJob == EditorJob("open", "dialog", NoFile, 0, "nothing")
JobOver == EditorJob("none", "over", NoFile, 0, "nothing")

-----------------------------------------------------------------------------
(* The configuration, the mark that it is modified, and the history.       *)

\* The manager keeps a copy of every change in localStorage.
SetConfig(c) == doc' = c /\ session' = c

MarkModified == modified' = TRUE /\ misled' = FALSE

\* configListener: a new file is not marked
Listener == IF isNew THEN UNCHANGED <<modified, misled>> ELSE MarkModified

NewHistory(c) ==
    /\ entries' = <<c>> /\ pointer' = 1
    /\ debounced' = FALSE /\ unrecorded' = FALSE

\* What was undone is cut off.
Push(c) ==
    /\ entries' = Append(SubSeq(entries, 1, pointer), c)
    /\ pointer' = pointer + 1
    /\ unrecorded' = FALSE

\* flushAllDebounced
Flush == IF debounced THEN Push(doc) /\ debounced' = FALSE ELSE UNCHANGED editorHistory

EditorIsOpen == closing # "closed"

\* The question whether to close is modal.
UserActs == closing \in {"idle", "saving"}

Edited ==
    /\ UserActs /\ last < MaxContent
    /\ last' = last + 1 /\ SetConfig(last + 1)
    /\ MarkModified /\ work' = TRUE
    /\ UNCHANGED <<editorFile, files, editorJobs, closing, consented>>

\* updateExam and updateConfig
updateExam ==
    /\ Edited
    /\ entries' = SubSeq(entries, 1, pointer)
    /\ debounced' = TRUE
    /\ UNCHANGED <<pointer, unrecorded>>

\* The history hears nothing of it.
addExam ==
    /\ Edited
    /\ unrecorded' = TRUE
    /\ UNCHANGED <<entries, pointer, debounced>>

deleteExam == Edited /\ Push(last + 1) /\ UNCHANGED debounced

\* The timer of pushDebounced records the configuration of this moment.
HistoryTimer ==
    /\ EditorIsOpen /\ debounced /\ Flush
    /\ UNCHANGED <<editorDoc, last, editorFile, modified, files, editorJobs, closing, work, misled,
                   consented>>

\* undo, redo and goto: the timer of an edit stays under way
goto(i) ==
    /\ UserActs /\ i \in DOMAIN entries
    /\ SetConfig(entries[i]) /\ pointer' = i /\ Listener
    /\ work' = (work \/ (~isNew /\ entries[i] # doc)) /\ unrecorded' = FALSE
    /\ UNCHANGED <<last, editorFile, files, entries, debounced, editorJobs, closing, consented>>

-----------------------------------------------------------------------------
(* Operations that wait.                                                   *)

BeginJob(job) == Len(editorJobs) < MaxEditorOps /\ editorJobs' = Append(editorJobs, job)

\* saveProject up to its first await: the configuration is the one of now.
SaveJob(then) ==
    IF isNew THEN EditorJob("saveAs", "dialog", NoFile, doc, then)
             ELSE EditorJob("save", "writing", path, doc, then)

Begins(job) ==
    /\ UserActs /\ BeginJob(job)
    /\ UNCHANGED <<editorDoc, last, editorFile, modified, files, editorHistory, closing, work,
                   misled, consented>>

saveProject == doc \notin Invalid /\ Begins(SaveJob("nothing"))

saveProjectAs ==
    doc \notin Invalid /\ Begins(EditorJob("saveAs", "dialog", NoFile, doc, "nothing"))

importProject == Begins(EditorJob("import", "reading", NoFile, 0, "nothing"))

\* A save that was refused does not keep the file from being opened.
openProject ==
    \/ Begins(OpenJob)
    \/ modified /\ ~isNew /\ doc \notin Invalid /\ Begins(SaveJob("open"))

\* newProject does not await the save it begins, if the user wants one.
newProject ==
    /\ UserActs
    /\ \/ UNCHANGED editorJobs
       \/ modified /\ ~isNew /\ doc \notin Invalid /\ BeginJob(SaveJob("nothing"))
    /\ SetConfig(0) /\ path' = NoFile /\ isNew' = TRUE
    /\ modified' = FALSE /\ misled' = FALSE /\ work' = FALSE
    /\ NewHistory(0)
    /\ UNCHANGED <<last, files, closing, consented>>

\* The path of the file stays.
closeProject ==
    /\ UserActs
    /\ SetConfig(0) /\ Listener /\ work' = FALSE
    /\ NewHistory(0)
    /\ UNCHANGED <<last, editorFile, files, editorJobs, closing, consented>>

restoreLastSession ==
    /\ UserActs /\ session # NoFile
    /\ SetConfig(session) /\ Listener
    /\ unrecorded' = TRUE
    /\ UNCHANGED <<last, editorFile, files, entries, pointer, debounced, editorJobs, closing, work,
                   consented>>

-----------------------------------------------------------------------------
(* What they wait for.                                                     *)

Advance(o, job) ==
    /\ EditorIsOpen /\ editorJobs' = [editorJobs EXCEPT ![o] = job]
    /\ UNCHANGED <<editorDoc, last, editorFile, modified, files, editorHistory, closing, work,
                   misled, consented>>

\* The save dialog and the open dialog
Chosen(o, p) ==
    /\ editorJobs[o].stage = "dialog"
    /\ \/ editorJobs[o].kind = "saveAs" /\ Advance(o, [editorJobs[o] EXCEPT !.stage = "writing", !.path = p])
       \/ editorJobs[o].kind = "open" /\ files[p] # NoFile
          /\ Advance(o, [editorJobs[o] EXCEPT !.stage = "reading", !.path = p])

BugSavedAnyway(o, saved) ==
    /\ editorJobs' = [editorJobs EXCEPT ![o] = IF @.then = "open" THEN OpenJob ELSE JobOver]
    /\ closing' = IF editorJobs[o].then = "close" THEN "closed" ELSE closing

\* saveProject or saveProjectAs returns saved to what awaits it.
SaveReturns(o, saved) ==
    /\ editorJobs' = [editorJobs EXCEPT ![o] = IF @.then = "open" THEN OpenJob ELSE JobOver]
    /\ closing' = CASE editorJobs[o].then # "close"          -> closing
                    [] editorJobs[o].then = "close" /\ saved -> "closed"
                    [] OTHER                           -> "idle"

\* The user dismisses a dialog.
Dismissed(o) ==
    /\ EditorIsOpen /\ editorJobs[o].stage = "dialog"
    /\ SaveReturns(o, FALSE)
    /\ UNCHANGED <<editorDoc, last, editorFile, modified, files, editorHistory, work, misled,
                   consented>>

\* The write has succeeded: the mark is taken away, whatever has been edited
\* or opened since.
Saved(o) ==
    LET p == editorJobs[o].path c == editorJobs[o].content
    IN  /\ EditorIsOpen /\ editorJobs[o].stage = "writing"
        /\ files' = [files EXCEPT ![p] = c]
        /\ modified' = FALSE
        /\ IF editorJobs[o].kind = "saveAs"
           THEN path' = p /\ isNew' = FALSE /\ Push(doc) /\ UNCHANGED debounced
           ELSE UNCHANGED <<editorFile, editorHistory>>
        /\ misled' = (c # doc \/ path' # p)
        /\ work' = (work /\ c # doc)
        /\ SaveReturns(o, TRUE)
        /\ UNCHANGED <<editorDoc, last, consented>>

\* fs.writeFile truncates the file before it writes.
SaveFails(o) ==
    /\ EditorIsOpen /\ editorJobs[o].stage = "writing"
    /\ \/ UNCHANGED files
       \/ files' = [files EXCEPT ![editorJobs[o].path] = TornExam]
    /\ SaveReturns(o, FALSE)
    /\ UNCHANGED <<editorDoc, last, editorFile, modified, editorHistory, work, misled, consented>>

\* files.read, or the reader of an imported file
Read(o, p) ==
    /\ editorJobs[o].stage = "reading" /\ files[p] # NoFile
    /\ editorJobs[o].kind # "import" => p = editorJobs[o].path
    /\ Advance(o, [editorJobs[o] EXCEPT !.stage = "loading", !.content = files[p]])

\* No file is chosen, it cannot be read, or it does not parse.
ReadFails(o) ==
    /\ \/ editorJobs[o].stage = "reading"
       \/ editorJobs[o].stage = "loading" /\ editorJobs[o].content = TornExam
    /\ Advance(o, JobOver)

\* loadFromJson succeeds. An import keeps the path; a file opened at startup
\* leaves the history as it is.
LoadedFile(o) ==
    LET job == editorJobs[o]
    IN  /\ EditorIsOpen /\ job.stage = "loading" /\ job.content # TornExam
        /\ SetConfig(job.content) /\ work' = FALSE
        /\ IF job.kind = "import"
           THEN Listener /\ UNCHANGED editorFile
           ELSE /\ path' = job.path /\ isNew' = FALSE
                /\ modified' = FALSE /\ misled' = (files[job.path] # job.content)
        /\ IF job.kind = "startup"
           THEN unrecorded' = TRUE /\ UNCHANGED <<entries, pointer, debounced>>
           ELSE NewHistory(job.content)
        /\ editorJobs' = [editorJobs EXCEPT ![o] = JobOver]
        /\ UNCHANGED <<last, files, closing, consented>>

-----------------------------------------------------------------------------
(* closeEditorWindow, which the main process asks for when the window is   *)
(* to close. Once it sends closeCurrent the window closes.                 *)

closeEditorWindow ==
    /\ closing = "idle"
    /\ Flush
    /\ closing' = IF modified THEN "asking" ELSE "closed"
    /\ UNCHANGED <<editorDoc, last, editorFile, modified, files, editorJobs, work, misled, consented>>

\* Closing is cancelled, or the question cannot be shown.
CancelClose ==
    /\ closing = "asking" /\ closing' = "idle"
    /\ UNCHANGED <<editorDoc, last, editorFile, modified, files, editorHistory, editorJobs, work,
                   misled, consented>>

DiscardAndClose ==
    /\ closing = "asking" /\ closing' = "closed" /\ consented' = TRUE
    /\ UNCHANGED <<editorDoc, last, editorFile, modified, files, editorHistory, editorJobs, work,
                   misled>>

SaveAndClose ==
    /\ closing = "asking"
    /\ IF doc \in Invalid
       THEN closing' = "idle" /\ UNCHANGED editorJobs
       ELSE closing' = "saving" /\ BeginJob(SaveJob("close"))
    /\ UNCHANGED <<editorDoc, last, editorFile, modified, files, editorHistory, work, misled,
                   consented>>

-----------------------------------------------------------------------------
EditorInit ==
    /\ doc = 0 /\ last = 1 /\ session \in {NoFile, 1}
    /\ path = NoFile /\ modified = FALSE /\ isNew = TRUE
    /\ files = [p \in Paths |-> IF p = FirstPath THEN 1 ELSE NoFile]
    /\ entries = <<0>> /\ pointer = 1 /\ debounced = FALSE
    /\ editorJobs \in {<<>>, <<EditorJob("startup", "reading", FirstPath, 0, "nothing")>>}
    /\ closing = "idle"
    /\ work = FALSE /\ misled = FALSE /\ unrecorded = FALSE /\ consented = FALSE

EditorNext ==
    \/ updateExam \/ addExam \/ deleteExam \/ HistoryTimer
    \/ \E i \in DOMAIN entries : goto(i)
    \/ saveProject \/ saveProjectAs \/ importProject \/ openProject
    \/ newProject \/ closeProject \/ restoreLastSession
    \/ \E o \in DOMAIN editorJobs :
          \/ Dismissed(o) \/ Saved(o) \/ SaveFails(o) \/ ReadFails(o) \/ LoadedFile(o)
          \/ \E p \in Paths : Chosen(o, p) \/ Read(o, p)
    \/ closeEditorWindow \/ CancelClose \/ DiscardAndClose \/ SaveAndClose

\* The user answers dialogs, and the disk answers.
EditorFairness ==
    /\ WF_editorVars(CancelClose \/ DiscardAndClose \/ SaveAndClose)
    /\ \A o \in 1..MaxEditorOps :
          /\ WF_editorVars(o \in DOMAIN editorJobs /\ (Dismissed(o) \/ \E p \in Paths : Chosen(o, p)))
          /\ WF_editorVars(o \in DOMAIN editorJobs /\ (Saved(o) \/ SaveFails(o)))

EditorSpec == EditorInit /\ [][EditorNext]_editorVars /\ EditorFairness

-----------------------------------------------------------------------------
\* A file that is not new has a path, and the history points to an entry.
EditorTypeOK ==
    /\ doc \in 0..last /\ last \in ExamContents /\ session \in 0..last \union {NoFile}
    /\ path \in Paths \union {NoFile} /\ modified \in BOOLEAN
    /\ isNew \in BOOLEAN /\ (isNew <=> path = NoFile)
    /\ files \in [Paths -> 0..last \union {NoFile, TornExam}]
    /\ entries \in Seq(0..last) /\ pointer \in DOMAIN entries /\ debounced \in BOOLEAN
    /\ editorJobs \in Seq([kind : {"none", "save", "saveAs", "open", "startup", "import"},
                     stage : {"dialog", "writing", "reading", "loading", "over"},
                     path : Paths \union {NoFile}, content : 0..last \union {TornExam},
                     then : {"nothing", "open", "close"}])
    /\ closing \in {"idle", "asking", "saving", "closed"}
    /\ work \in BOOLEAN /\ misled \in BOOLEAN /\ unrecorded \in BOOLEAN /\ consented \in BOOLEAN

\* A file that is not marked as modified is what the editor shows, or what a
\* write that failed has left, unless a save or a read that was overtaken by an
\* edit or by another file took the mark away.
UnmodifiedIsSaved ==
    ~modified /\ ~isNew /\ ~misled => files[path] \in {doc, TornExam}

\* The window closes over edits that no file has only when the user has chosen
\* so, or when such an overtaken answer has taken the mark away.
ClosesWithoutLoss == closing = "closed" /\ work => consented \/ misled

\* Once the timer of the last edit has run, the entry that the history points to
\* is what the editor shows, so that undo steps back from there, unless the last
\* change was one of those the history is never told of.
HistoryIsInStep == ~debounced /\ ~unrecorded => entries[pointer] = doc

\* All three: the work of the user is on the disk, marked as not saved, or given up.
WorkIsKept == UnmodifiedIsSaved /\ ClosesWithoutLoss /\ HistoryIsInStep

\* However the operations overlap, and whatever fails, the question whether to
\* close is over in the end: either the window closes or it can be asked again.
CloseIsDecided == closing # "idle" ~> closing \in {"idle", "closed"}
=============================================================================
