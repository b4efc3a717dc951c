--------------------------- MODULE PlayerSession ---------------------------
(***************************************************************************)
(* The player sessions of the desktop app: PlayerSessionService (start,    *)
(* replace, close, dispose), the one player window that the window manager *)
(* keeps under the id 'player', the store of shared configurations that    *)
(* the player window and the casting service both write, and the loader of *)
(* the window's renderer, which takes whichever arrives first of the       *)
(* store's newest entry and the configuration the main process pushes.     *)
(*                                                                         *)
(* A step is one task of the main process or of a renderer: an IPC call,   *)
(* a window event, a timer, the end of an awaited read, a message.         *)
(* BrowserWindow.destroy() emits 'closed' before it returns, so the        *)
(* 'closing' state of a session with a window ends in the step it starts.  *)
(***************************************************************************)
EXTENDS Naturals, FiniteSets

CONSTANTS Sessions,     \* the sessions start() may create
          Share,        \* an entry the casting service has put in the store
          Nothing       \* no session, no entry, no configuration

ASSUME PlayerAssumption ==
    /\ Share \notin Sessions /\ Nothing \notin Sessions /\ Share # Nothing

VARIABLES
    sessions,   \* per session: its state, window, and what start() is doing
    active,     \* activeSessionId
    newest,     \* whose configuration listSharedConfigs()[0] is
    renderers   \* per session: what its window's renderer has loaded and shows,
                \* and the messages between it and the main process

playerVars == <<sessions, active, newest, renderers>>

PlayerStates == {"none", "preparing", "opening", "ready", "closed", "failed"}
Configs == Sessions \union {Share, Nothing}

\* phase: how far loadFromIPC is; push: the loadPlayback event of the main
\* process; answer, told: the reply to getPlayback; report: configStatus
NoRenderer == [phase |-> "none", push |-> "unsent", answer |-> "unasked",
               told |-> Nothing, report |-> "none", shows |-> Nothing]

\* What the service changes: a record that its helpers map to a new one.
Service == [sessions |-> sessions, active |-> active, renderers |-> renderers]

SetService(p) ==
    sessions' = p.sessions /\ active' = p.active /\ renderers' = p.renderers

IsOpen(p, s) == p.sessions[s].window = "open"
HasEnded(p, s) == p.sessions[s].state \in {"closed", "failed"}

SetState(p, s, state) == [p EXCEPT !.sessions[s].state = state]

Deactivate(p, s) == [p EXCEPT !.active = IF @ = s THEN Nothing ELSE @]

BugWindowGone(p, s) ==
    [p EXCEPT !.sessions[s].window = "gone",
              !.sessions[s].state = IF @ = "failed" THEN @ ELSE "closed",
              !.renderers[s] = NoRenderer]

BugOnClosed(p, s) ==
    Deactivate([p EXCEPT !.sessions[s].window = "gone",
                         !.sessions[s].state = IF @ = "failed" THEN @ ELSE "closed"], s)

\* onClosed, run when the window of s is destroyed or closed
WindowGone(p, s) ==
    Deactivate([p EXCEPT !.sessions[s].window = "gone",
                         !.sessions[s].state = IF @ = "failed" THEN @ ELSE "closed",
                         !.renderers[s] = NoRenderer], s)

\* close(id): a failed session is closed too, with its window if it has one
CloseSession(p, s) ==
    CASE p.sessions[s].state = "closed" -> p
      [] p.sessions[s].state # "closed" /\ IsOpen(p, s) ->
           WindowGone(SetState(p, s, "closing"), s)
      [] OTHER -> Deactivate(SetState(p, s, "closed"), s)

\* The catch of start(): the session fails, its window goes, the call rejects.
Reject(p, s) ==
    LET failed == SetState(p, s, "failed")
        gone   == IF IsOpen(p, s) THEN WindowGone(failed, s) ELSE failed
    IN  Deactivate([gone EXCEPT !.sessions[s].call = "rejected"], s)

\* The first part of start(), up to its first await. An active session that
\* lives refuses the new one, or is closed to make place for it.
Begin(p, s, replaceExisting, wait) ==
    LET q == [p EXCEPT !.sessions[s] = [state |-> "preparing", window |-> "none",
                                        call |-> "preparing", wait |-> wait]]
        lives == q.active # Nothing /\ ~HasEnded(q, q.active)
    IN  CASE lives /\ ~replaceExisting -> Reject(q, s)
          [] lives /\ replaceExisting  -> CloseSession(q, q.active)
          [] OTHER                     -> q

\* The window of s opens, as the active session's; start() waits or returns.
NewWindow(p, s) ==
    [p EXCEPT !.sessions[s].window = "open",
              !.sessions[s].call = IF p.sessions[s].wait THEN "waiting"
                                                         ELSE "resolved",
              !.renderers[s] = [NoRenderer EXCEPT !.phase = "booting"],
              !.active = s]

\* windowManager.open with forceRecreate: the player window that is open is
\* destroyed, and its session hears of it, before the new one is made.
OpenPlayer(p, s) ==
    LET holders == {t \in Sessions : IsOpen(p, t)}
    IN  NewWindow(IF holders = {} THEN p
                  ELSE WindowGone(p, CHOOSE t \in holders : TRUE), s)

-----------------------------------------------------------------------------
(* The calls of the service: IPC, plugins, the control service, casting.   *)

start(s, replaceExisting, wait) ==
    /\ sessions[s].state = "none"
    /\ SetService(Begin(Service, s, replaceExisting, wait))
    /\ UNCHANGED newest

\* replace(id): close the old session unless it has ended, then start anew
replace(old, s, wait) ==
    /\ sessions[old].state # "none" /\ sessions[s].state = "none"
    /\ LET closed == IF HasEnded(Service, old) THEN Service
                                               ELSE CloseSession(Service, old)
       IN  SetService(Begin(closed, s, TRUE, wait))
    /\ UNCHANGED newest

close(s) ==
    /\ sessions[s].state # "none"
    /\ SetService(CloseSession(Service, s))
    /\ UNCHANGED newest

\* prepare() throws: the source cannot be read, is too large or is invalid.
PrepareFails(s) ==
    /\ sessions[s].call = "preparing"
    /\ SetService(Reject(Service, s))
    /\ UNCHANGED newest

\* prepare() returns: start goes on, whatever happened to the session since.
\* createPlayerWindow replaces the shared entries before it opens the window.
Prepared(s) ==
    /\ sessions[s].call = "preparing"
    /\ SetService(OpenPlayer(SetState(Service, s, "opening"), s))
    /\ newest' = s

BugReadyTimeout(s) ==
    /\ sessions[s].call = "waiting" /\ IsOpen(Service, s)
    /\ SetService(Reject(Service, s))
    /\ UNCHANGED newest

\* withTimeout: the renderer has not reported within readyTimeoutMs.
ReadyTimeout(s) ==
    /\ sessions[s].call = "waiting"
    /\ SetService(Reject(Service, s))
    /\ UNCHANGED newest

\* The invigilator leaves the player: exitWindow closes the window.
UserExits(s) ==
    /\ IsOpen(Service, s)
    /\ SetService(WindowGone(Service, s))
    /\ UNCHANGED newest

\* onRendererStatus, with the promise start() may be waiting for
RendererStatus(p, s, ok) ==
    LET waiting == p.sessions[s].call = "waiting"
    IN  CASE ok -> [SetState(p, s, "ready") EXCEPT
                       !.sessions[s].call = IF waiting THEN "resolved" ELSE @]
          [] ~ok /\ waiting  -> Reject(p, s)
          [] ~ok /\ ~waiting -> SetState(p, s, "failed")

-----------------------------------------------------------------------------
(* The shared entries: the editor's casting share, or another tool, sets,  *)
(* replaces or clears them at any time.                                    *)

setShares(entry) ==
    /\ newest # entry
    /\ newest' = entry
    /\ UNCHANGED <<sessions, active, renderers>>

-----------------------------------------------------------------------------
(* The window of s: its renderer and the main process exchange messages.   *)

SetRenderer(s, renderer) == renderers' = [renderers EXCEPT ![s] = renderer]

\* rendererReady reaches the main process: it pushes the configuration, once.
rendererReady(s) ==
    /\ IsOpen(Service, s) /\ renderers[s].push = "unsent"
    /\ SetRenderer(s, [renderers[s] EXCEPT !.push = "sent"])
    /\ UNCHANGED <<sessions, active, newest>>

\* loadFromIPC: the renderer listens for the push and asks for the playback.
loadFromIPC(s) ==
    /\ IsOpen(Service, s) /\ renderers[s].phase = "booting"
    /\ SetRenderer(s, [renderers[s] EXCEPT !.phase = "asking", !.answer = "asked"])
    /\ UNCHANGED <<sessions, active, newest>>

\* The main process answers getPlayback with its newest shared entry.
getPlayback(s) ==
    /\ IsOpen(Service, s) /\ renderers[s].answer = "asked"
    /\ SetRenderer(s, [renderers[s] EXCEPT !.answer = "sent", !.told = newest])
    /\ UNCHANGED <<sessions, active, newest>>

\* handleConfig: the first configuration settles the request. It is shown
\* when the renderer can parse it, and the outcome is reported.
handleConfig(s, renderer, config) ==
    IF renderer.phase = "asking" /\ config # Nothing
    THEN \/ SetRenderer(s, [renderer EXCEPT !.phase = "settled", !.report = "ok",
                                            !.shows = config])
         \/ SetRenderer(s, [renderer EXCEPT !.phase = "settled", !.report = "bad"])
    ELSE SetRenderer(s, renderer)

\* The pushed configuration arrives; without a listener yet it is lost.
PushArrives(s) ==
    /\ IsOpen(Service, s) /\ renderers[s].push = "sent"
    /\ handleConfig(s, [renderers[s] EXCEPT !.push = "arrived"], s)
    /\ UNCHANGED <<sessions, active, newest>>

AnswerArrives(s) ==
    /\ IsOpen(Service, s) /\ renderers[s].answer = "sent"
    /\ handleConfig(s, [renderers[s] EXCEPT !.answer = "arrived"], renderers[s].told)
    /\ UNCHANGED <<sessions, active, newest>>

LoadTimeout(s) ==
    /\ IsOpen(Service, s) /\ renderers[s].phase = "asking"
    /\ SetRenderer(s, [renderers[s] EXCEPT !.phase = "settled", !.report = "bad"])
    /\ UNCHANGED <<sessions, active, newest>>

ReportArrives(s) ==
    /\ IsOpen(Service, s) /\ renderers[s].report # "none"
    /\ LET heard == [Service EXCEPT !.renderers[s].report = "none"]
       IN  SetService(RendererStatus(heard, s, renderers[s].report = "ok"))
    /\ UNCHANGED newest

-----------------------------------------------------------------------------
PlayerInit ==
    /\ sessions = [s \in Sessions |-> [state |-> "none", window |-> "none",
                                       call |-> "none", wait |-> FALSE]]
    /\ active = Nothing
    /\ newest = Nothing
    /\ renderers = [s \in Sessions |-> NoRenderer]

ServiceStep(s) ==
    \/ \E replaceExisting, wait \in BOOLEAN : start(s, replaceExisting, wait)
    \/ \E old \in Sessions, wait \in BOOLEAN : replace(old, s, wait)
    \/ close(s)
    \/ PrepareFails(s)
    \/ Prepared(s)
    \/ ReadyTimeout(s)
    \/ UserExits(s)

WindowStep(s) ==
    \/ rendererReady(s)
    \/ loadFromIPC(s)
    \/ getPlayback(s)
    \/ PushArrives(s)
    \/ AnswerArrives(s)
    \/ LoadTimeout(s)
    \/ ReportArrives(s)

PlayerNext ==
    \/ \E s \in Sessions : ServiceStep(s) \/ WindowStep(s)
    \/ \E entry \in {Share, Nothing} : setShares(entry)

\* Reads and requests end (secureFetch has a timeout), and timers fire.
PlayerFairness ==
    \A s \in Sessions : /\ WF_playerVars(Prepared(s) \/ PrepareFails(s))
                        /\ WF_playerVars(ReadyTimeout(s))

PlayerSpec == PlayerInit /\ [][PlayerNext]_playerVars /\ PlayerFairness

-----------------------------------------------------------------------------
\* Only the window that is open has a renderer.
PlayerTypeOK ==
    /\ sessions \in [Sessions -> [state : PlayerStates,
                                  window : {"none", "open", "gone"},
                                  call : {"none", "preparing", "waiting",
                                          "resolved", "rejected"},
                                  wait : BOOLEAN]]
    /\ active \in Sessions \union {Nothing}
    /\ newest \in Configs
    /\ renderers \in [Sessions -> [phase : {"none", "booting", "asking", "settled"},
                                   push : {"unsent", "sent", "arrived"},
                                   answer : {"unasked", "asked", "sent", "arrived"},
                                   told : Configs,
                                   report : {"none", "ok", "bad"},
                                   shows : Configs]]
    /\ \A s \in Sessions : (renderers[s].phase = "none") <=> ~IsOpen(Service, s)

\* The session the service believes active is exactly the one whose window is
\* open, whatever starts, replaces, exits and failures overlap: no window is
\* left that nobody can close, and no ended session blocks a later start.
ActiveHasTheWindow ==
    \A s \in Sessions : IsOpen(Service, s) <=> active = s

\* What a session says of itself is what is on the screen: it is opening or
\* ready while its window is open, and a window outlives its session only
\* when the renderer refused the configuration and nobody waited for it.
StateMatchesWindow ==
    \A s \in Sessions :
        /\ sessions[s].state \in {"opening", "ready"} => IsOpen(Service, s)
        /\ IsOpen(Service, s) => \/ sessions[s].state \in {"opening", "ready"}
                                 \/ sessions[s].state = "failed" /\ ~sessions[s].wait

\* A window shows its own configuration or an entry that somebody shared in
\* the meantime, never the exam of another session.
ShowsNoOtherSession ==
    \A s \in Sessions : renderers[s].shows \in {s, Share, Nothing}

\* Only its own start() that has not returned yet takes a session out of
\* 'closed': after that, a session that was closed remains closed.
ClosedUnlessStarting ==
    [][\A s \in Sessions :
          sessions[s].state = "closed" /\ sessions'[s].state # "closed"
             => sessions[s].call \in {"preparing", "waiting"}]_playerVars

\* Every start() returns or throws, also when its session is closed, replaced
\* or left by the user before the renderer has said that it is ready.
StartReturns ==
    LET starting == {s \in Sessions : sessions[s].call \in {"preparing", "waiting"}}
    IN  starting # {} ~> starting = {}

\* The service, its window and the renderer in it agree on the session there is,
\* whatever starts, replaces, exits and fails while another does.
SessionsMatchWindows == ActiveHasTheWindow /\ StateMatchesWindow /\ ShowsNoOtherSession

\* A session that is closed while it starts is not opened again, and whoever
\* started it is told.
StartsAndEnds == ClosedUnlessStarting /\ StartReturns
=============================================================================
