------------------------- MODULE DesktopPartsProofs -------------------------
(***************************************************************************)
(* Parts of the desktop app whose steps meet in its main process or in one *)
(* window.  The player sessions and their one window agree, for every      *)
(* number of sessions.  The local HTTP API has the one listener it should  *)
(* have while its operations do not overlap, and answers the routes that   *)
(* are registered however they do, for every number of operations and      *)
(* routes.  The exam editor keeps the work of the user, for every number   *)
(* of configurations, files and operations that wait.                      *)
(***************************************************************************)
EXTENDS PlayerSession, HttpApi, ExamEditor, FiniteSetTheorems, TLAPS

-----------------------------------------------------------------------------
(* The player sessions.  A helper of the service maps the record of what   *)
(* it changes to a new one: the invariant is one of such records.          *)

RendererRecords ==
    [phase : {"none", "booting", "asking", "settled"}, push : {"unsent", "sent", "arrived"},
     answer : {"unasked", "asked", "sent", "arrived"}, told : Configs,
     report : {"none", "ok", "bad"}, shows : Configs]

\* A session is 'closing' only within a step.
SessionRecords ==
    [state : PlayerStates \union {"closing"}, window : {"none", "open", "gone"},
     call : {"none", "preparing", "waiting", "resolved", "rejected"}, wait : BOOLEAN]

Services ==
    [sessions : [Sessions -> SessionRecords], active : Sessions \union {Nothing},
     renderers : [Sessions -> RendererRecords]]

\* The window of s is the active session's, and until its call has read the
\* source there is none.
WindowFits(p, s) ==
    /\ p.sessions[s].state = "none" <=> p.sessions[s].call = "none"
    /\ p.sessions[s].call \in {"none", "preparing"} => p.sessions[s].window = "none"
    /\ IsOpen(p, s) <=> p.active = s

\* The state of s is the window's; a call that waits no longer has its answer.
StateFits(p, s) ==
    /\ p.sessions[s].state # "closing"
    /\ p.sessions[s].state \in {"opening", "ready"} => IsOpen(p, s)
    /\ IsOpen(p, s) => \/ p.sessions[s].state \in {"opening", "ready"}
                       \/ p.sessions[s].state = "failed" /\ ~p.sessions[s].wait
    /\ IsOpen(p, s) /\ p.sessions[s].wait /\ p.sessions[s].call # "waiting" =>
          p.renderers[s].phase = "settled" /\ p.renderers[s].report = "none"

\* What the renderer of s has been told, shows, or may still be told by the
\* newest shared entry, is of no other session.
RendererFits(p, entry, s) ==
    /\ p.renderers[s].report # "none" => p.renderers[s].phase = "settled"
    /\ ~IsOpen(p, s) => p.renderers[s] = NoRenderer
    /\ IsOpen(p, s) => p.renderers[s].phase # "none" /\ entry \in {s, Share, Nothing}
    /\ {p.renderers[s].told, p.renderers[s].shows} \subseteq {s, Share, Nothing}

Fits(p, entry, s) == WindowFits(p, s) /\ StateFits(p, s) /\ RendererFits(p, entry, s)

Sound(p, entry) == p \in Services /\ \A s \in Sessions : Fits(p, entry, s)

PlayerInv == newest \in Configs /\ Sound(Service, newest)

-----------------------------------------------------------------------------
\* A renderer that does not run is one of the records.
LEMMA NoRendererIsOne == NoRenderer \in RendererRecords
BY DEF NoRenderer, RendererRecords, Configs

\* What a helper of the service returns is what the service becomes.
LEMMA Serviced ==
    ASSUME NEW p \in Services, SetService(p)
    PROVE  Service' = p
BY DEF Services, SetService, Service

\* SetState changes the state of one session.
LEMMA StateSet ==
    ASSUME NEW p \in Services, NEW s \in Sessions, NEW st \in PlayerStates \union {"closing"},
           NEW q, q = SetState(p, s, st)
    PROVE  /\ q \in Services /\ q.active = p.active /\ q.renderers = p.renderers
           /\ q.sessions[s] = [p.sessions[s] EXCEPT !.state = st]
           /\ \A t \in Sessions \ {s} : q.sessions[t] = p.sessions[t]
<1>1. /\ q.sessions = [p.sessions EXCEPT ![s] = [p.sessions[s] EXCEPT !.state = st]]
      /\ q = [p EXCEPT !.sessions = q.sessions]
    BY DEF SetState, Services
<1>2. [p.sessions[s] EXCEPT !.state = st] \in SessionRecords  BY DEF Services, SessionRecords
<1>3. q.sessions \in [Sessions -> SessionRecords]  BY <1>1, <1>2 DEF Services
<1>4. q \in Services /\ q.active = p.active /\ q.renderers = p.renderers
    BY <1>1, <1>3 DEF Services
<1>5. /\ q.sessions[s] = [p.sessions[s] EXCEPT !.state = st]
      /\ \A t \in Sessions \ {s} : q.sessions[t] = p.sessions[t]
    BY <1>1 DEF Services
<1> QED BY <1>4, <1>5

\* WindowGone takes the window and the renderer of one session, and its place.
LEMMA GoneFields ==
    ASSUME NEW p \in Services, NEW s \in Sessions, NEW q, q = WindowGone(p, s)
    PROVE  /\ q \in Services
           /\ q.active = IF p.active = s THEN Nothing ELSE p.active
           /\ q.renderers[s] = NoRenderer
           /\ q.sessions[s].window = "gone"
           /\ q.sessions[s].state = IF p.sessions[s].state = "failed" THEN "failed" ELSE "closed"
           /\ q.sessions[s].call = p.sessions[s].call
           /\ \A t \in Sessions \ {s} : /\ q.sessions[t] = p.sessions[t]
                                        /\ q.renderers[t] = p.renderers[t]
<1> DEFINE state   == IF p.sessions[s].state = "failed" THEN "failed" ELSE "closed"
           record == [p.sessions[s] EXCEPT !.window = "gone", !.state = state]
<1>1. /\ record \in SessionRecords /\ record.window = "gone" /\ record.state = state
      /\ record.call = p.sessions[s].call
    BY DEF Services, SessionRecords, PlayerStates
<1>2. q.sessions = [p.sessions EXCEPT ![s] = record]
    BY DEF WindowGone, Deactivate, Services, SessionRecords
<1>3. q.renderers = [p.renderers EXCEPT ![s] = NoRenderer]
    BY DEF WindowGone, Deactivate, Services
<1>4. q.active = IF p.active = s THEN Nothing ELSE p.active
    BY DEF WindowGone, Deactivate, Services
<1>5. q = [sessions |-> q.sessions, active |-> q.active, renderers |-> q.renderers]
    BY DEF WindowGone, Deactivate, Services
<1> HIDE DEF record
<1>6. q.sessions \in [Sessions -> SessionRecords]  BY <1>1, <1>2 DEF Services
<1>7. q.renderers \in [Sessions -> RendererRecords]  BY <1>3, NoRendererIsOne DEF Services
<1>8. q.active \in Sessions \union {Nothing}  BY <1>4 DEF Services
<1>9. q \in Services  BY <1>5, <1>6, <1>7, <1>8 DEF Services
<1>10. /\ q.renderers[s] = NoRenderer /\ q.sessions[s] = record
       /\ \A t \in Sessions \ {s} : /\ q.sessions[t] = p.sessions[t]
                                    /\ q.renderers[t] = p.renderers[t]
    BY <1>2, <1>3 DEF Services
<1> QED BY <1>1, <1>4, <1>9, <1>10

\* A session that nothing changed fits as before.
LEMMA SameFits ==
    ASSUME NEW p, NEW q, NEW entry, NEW s,
           q.sessions[s] = p.sessions[s], q.renderers[s] = p.renderers[s],
           (q.active = s) <=> (p.active = s), Fits(p, entry, s)
    PROVE  Fits(q, entry, s)
BY DEF Fits, WindowFits, StateFits, RendererFits, IsOpen

\* When its window goes, a session that had one has ended; others are as before.
LEMMA GoneFits ==
    ASSUME PlayerAssumption, NEW p \in Services, NEW s \in Sessions, NEW entry,
           p.sessions[s].call \notin {"none", "preparing"},
           NEW t \in Sessions, t = s \/ Fits(p, entry, t)
    PROVE  Fits(WindowGone(p, s), entry, t)
<1> DEFINE q == WindowGone(p, s)
<1>1. /\ q \in Services
      /\ q.active = IF p.active = s THEN Nothing ELSE p.active
      /\ q.renderers[s] = NoRenderer
      /\ q.sessions[s].window = "gone"
      /\ q.sessions[s].state = IF p.sessions[s].state = "failed" THEN "failed" ELSE "closed"
      /\ q.sessions[s].call = p.sessions[s].call
      /\ \A u \in Sessions \ {s} : /\ q.sessions[u] = p.sessions[u]
                                   /\ q.renderers[u] = p.renderers[u]
    BY GoneFields
<1> HIDE DEF q
<1>2. CASE t # s
    <2>1. (q.active = t) <=> (p.active = t)  BY <1>1, <1>2 DEF PlayerAssumption
    <2>2. Fits(q, entry, t)  BY <1>1, <1>2, <2>1, SameFits
    <2> QED BY <2>2 DEF q
<1>3. CASE t = s
    <2>1. Fits(q, entry, s)
        BY <1>1 DEF PlayerAssumption, Fits, WindowFits, StateFits, RendererFits, IsOpen, NoRenderer
    <2> QED BY <1>3, <2>1 DEF q
<1> QED BY <1>2, <1>3

\* When the window of a session goes, the service is sound.
LEMMA GoneSound ==
    ASSUME PlayerAssumption, NEW p \in Services, NEW s \in Sessions, NEW entry,
           p.sessions[s].call \notin {"none", "preparing"},
           \A t \in Sessions \ {s} : Fits(p, entry, t)
    PROVE  Sound(WindowGone(p, s), entry)
<1>1. WindowGone(p, s) \in Services  BY GoneFields
<1>2. \A t \in Sessions : Fits(WindowGone(p, s), entry, t)
    <2> TAKE t \in Sessions
    <2> t = s \/ Fits(p, entry, t)  OBVIOUS
    <2> QED BY GoneFits
<1> QED BY <1>1, <1>2 DEF Sound

\* close() leaves a session that has ended, without a window.
LEMMA CloseSound ==
    ASSUME PlayerAssumption, NEW p, NEW entry, NEW s \in Sessions, Sound(p, entry),
           p.sessions[s].state # "none"
    PROVE  Sound(CloseSession(p, s), entry)
<1> p \in Services /\ Fits(p, entry, s) /\ \A t \in Sessions : Fits(p, entry, t)  BY DEF Sound
<1>1. CASE p.sessions[s].state = "closed"  BY <1>1 DEF CloseSession
<1>2. CASE p.sessions[s].state # "closed" /\ IsOpen(p, s)
    <2> DEFINE q == SetState(p, s, "closing")
    <2>1. /\ q \in Services /\ q.active = p.active /\ q.renderers = p.renderers
          /\ q.sessions[s] = [p.sessions[s] EXCEPT !.state = "closing"]
          /\ \A t \in Sessions \ {s} : q.sessions[t] = p.sessions[t]
        <3> "closing" \in PlayerStates \union {"closing"}  OBVIOUS
        <3> QED BY StateSet
    <2> HIDE DEF q
    <2>2. \A t \in Sessions \ {s} : Fits(q, entry, t)  BY <2>1, SameFits
    <2>3. q.sessions[s].call \notin {"none", "preparing"}
        BY <1>2, <2>1 DEF Fits, WindowFits, IsOpen, Services, SessionRecords
    <2>4. Sound(WindowGone(q, s), entry)  BY <2>1, <2>2, <2>3, GoneSound
    <2> QED BY <1>2, <2>4 DEF CloseSession, q
<1>3. CASE p.sessions[s].state # "closed" /\ ~IsOpen(p, s)
    <2> DEFINE q == SetState(p, s, "closed")
    <2>1. /\ q \in Services /\ q.active = p.active /\ q.renderers = p.renderers
          /\ q.sessions[s] = [p.sessions[s] EXCEPT !.state = "closed"]
          /\ \A t \in Sessions \ {s} : q.sessions[t] = p.sessions[t]
        <3> "closed" \in PlayerStates \union {"closing"}  BY DEF PlayerStates
        <3> QED BY StateSet
    <2> HIDE DEF q
    <2>2. \A t \in Sessions \ {s} : Fits(q, entry, t)  BY <2>1, SameFits
    <2>3. p.active # s  BY <1>3 DEF Fits, WindowFits
    <2>4. CloseSession(p, s) = q
        BY <1>3, <2>1, <2>3 DEF CloseSession, Deactivate, Services, q
    <2>5. Fits(q, entry, s)
        BY <1>3, <2>1, <2>3
           DEF Fits, WindowFits, StateFits, RendererFits, IsOpen, Services, SessionRecords
    <2> QED BY <2>1, <2>2, <2>4, <2>5 DEF Sound
<1> QED BY <1>1, <1>2, <1>3

\* close() concerns one session.
LEMMA CloseOthers ==
    ASSUME NEW p \in Services, NEW s \in Sessions, NEW t \in Sessions \ {s}
    PROVE  CloseSession(p, s).sessions[t] = p.sessions[t]
<1> DEFINE c == SetState(p, s, "closing")
           d == SetState(p, s, "closed")
<1>1. /\ c \in Services /\ c.active = p.active /\ c.renderers = p.renderers
      /\ c.sessions[s] = [p.sessions[s] EXCEPT !.state = "closing"]
      /\ \A u \in Sessions \ {s} : c.sessions[u] = p.sessions[u]
    <2> "closing" \in PlayerStates \union {"closing"}  BY DEF PlayerStates
    <2> QED BY StateSet
<1>2. /\ d \in Services /\ d.active = p.active /\ d.renderers = p.renderers
      /\ d.sessions[s] = [p.sessions[s] EXCEPT !.state = "closed"]
      /\ \A u \in Sessions \ {s} : d.sessions[u] = p.sessions[u]
    <2> "closed" \in PlayerStates \union {"closing"}  BY DEF PlayerStates
    <2> QED BY StateSet
<1> HIDE DEF c, d
<1>3. WindowGone(c, s).sessions[t] = c.sessions[t]  BY <1>1, GoneFields
<1>4. Deactivate(d, s).sessions[t] = d.sessions[t]  BY <1>2 DEF Deactivate, Services
<1> QED BY <1>1, <1>2, <1>3, <1>4 DEF CloseSession, c, d

\* A start() that throws leaves a session that has failed, without a window.
LEMMA RejectSound ==
    ASSUME PlayerAssumption, NEW p \in Services, NEW s \in Sessions, NEW entry,
           \A t \in Sessions \ {s} : Fits(p, entry, t),
           IsOpen(p, s) <=> p.active = s,
           ~IsOpen(p, s) => p.renderers[s] = NoRenderer
    PROVE  Sound(Reject(p, s), entry)
<1> DEFINE f == SetState(p, s, "failed")
           g == IF IsOpen(p, s) THEN WindowGone(f, s) ELSE f
           c == [g EXCEPT !.sessions[s].call = "rejected"]
<1>1. /\ f \in Services /\ f.active = p.active /\ f.renderers = p.renderers
      /\ f.sessions[s] = [p.sessions[s] EXCEPT !.state = "failed"]
      /\ \A t \in Sessions \ {s} : f.sessions[t] = p.sessions[t]
    <2> "failed" \in PlayerStates \union {"closing"}  BY DEF PlayerStates
    <2> QED BY StateSet
<1>2. f.sessions[s].state = "failed" /\ f.sessions[s].window = p.sessions[s].window
    BY <1>1 DEF Services, SessionRecords
<1> HIDE DEF f
<1>4. /\ g \in Services /\ g.renderers[s] = NoRenderer
      /\ g.active = IF p.active = s THEN Nothing ELSE p.active
      /\ g.sessions[s].state = "failed" /\ g.sessions[s].window # "open"
      /\ \A t \in Sessions \ {s} : /\ g.sessions[t] = p.sessions[t]
                                   /\ g.renderers[t] = p.renderers[t]
    <2>1. CASE IsOpen(p, s)
        <3> DEFINE w == WindowGone(f, s)
        <3>1. /\ w \in Services
              /\ w.active = IF f.active = s THEN Nothing ELSE f.active
              /\ w.renderers[s] = NoRenderer
              /\ w.sessions[s].window = "gone"
              /\ w.sessions[s].state =
                    IF f.sessions[s].state = "failed" THEN "failed" ELSE "closed"
              /\ \A t \in Sessions \ {s} : /\ w.sessions[t] = f.sessions[t]
                                           /\ w.renderers[t] = f.renderers[t]
            <4> f \in Services  BY <1>1
            <4> QED BY GoneFields
        <3>2. g = w  BY <2>1
        <3> HIDE DEF w
        <3> QED BY <1>1, <1>2, <3>1, <3>2
    <2>2. CASE ~IsOpen(p, s)
        BY <1>1, <1>2, <2>2 DEF IsOpen
    <2> QED BY <2>1, <2>2
<1> HIDE DEF g
<1>5. /\ c \in Services /\ c.renderers = g.renderers /\ c.active = g.active
      /\ c.sessions[s] = [g.sessions[s] EXCEPT !.call = "rejected"]
      /\ \A t \in Sessions \ {s} : c.sessions[t] = g.sessions[t]
    <2>1. /\ c.sessions = [g.sessions EXCEPT ![s] = [g.sessions[s] EXCEPT !.call = "rejected"]]
          /\ c = [g EXCEPT !.sessions = c.sessions]
        BY <1>4 DEF Services
    <2>2. [g.sessions[s] EXCEPT !.call = "rejected"] \in SessionRecords
        BY <1>4 DEF Services, SessionRecords
    <2>3. c.sessions \in [Sessions -> SessionRecords]  BY <1>4, <2>1, <2>2 DEF Services
    <2> HIDE DEF c
    <2>4. c \in Services /\ c.renderers = g.renderers /\ c.active = g.active
        BY <1>4, <2>1, <2>3 DEF Services
    <2> QED BY <1>4, <2>1, <2>4 DEF Services
<1>6. /\ c.sessions[s].call = "rejected" /\ c.sessions[s].state = "failed"
      /\ c.sessions[s].window # "open"
    BY <1>4, <1>5 DEF Services, SessionRecords
<1>7. Reject(p, s) = c
    <2>1. Reject(p, s) = Deactivate(c, s)  BY DEF Reject, c, g, f
    <2>2. c.active # s  BY <1>4, <1>5 DEF PlayerAssumption
    <2> HIDE DEF c
    <2> QED BY <1>5, <2>1, <2>2 DEF Deactivate, Services
<1> HIDE DEF c
<1>8. \A t \in Sessions \ {s} : Fits(c, entry, t)
    <2> TAKE t \in Sessions \ {s}
    <2>1. (c.active = t) <=> (p.active = t)  BY <1>4, <1>5 DEF PlayerAssumption
    <2>2. c.sessions[t] = p.sessions[t] /\ c.renderers[t] = p.renderers[t]  BY <1>4, <1>5
    <2> QED BY <2>1, <2>2, SameFits
<1>9. Fits(c, entry, s)
    <2>1. c.active # s /\ c.renderers[s] = NoRenderer  BY <1>4, <1>5 DEF PlayerAssumption
    <2> QED BY <1>6, <2>1 DEF Fits, WindowFits, StateFits, RendererFits, IsOpen, NoRenderer
<1> QED BY <1>5, <1>7, <1>8, <1>9 DEF Sound

\* A new start() finds no active session, is refused, or closes the active one.
LEMMA BeginSound ==
    ASSUME PlayerAssumption, NEW p, NEW entry, NEW s \in Sessions, Sound(p, entry),
           p.sessions[s].state = "none", NEW r \in BOOLEAN, NEW w \in BOOLEAN
    PROVE  Sound(Begin(p, s, r, w), entry)
<1> DEFINE record == [state |-> "preparing", window |-> "none", call |-> "preparing", wait |-> w]
           q == [p EXCEPT !.sessions[s] = record]
           lives == q.active # Nothing /\ ~HasEnded(q, q.active)
<1>1. p \in Services /\ Fits(p, entry, s) /\ \A t \in Sessions : Fits(p, entry, t)  BY DEF Sound
<1>2. record \in SessionRecords /\ record.state = "preparing" /\ record.window = "none"
      /\ record.call = "preparing"
    BY DEF SessionRecords, PlayerStates
<1> HIDE DEF record
<1>3. /\ q \in Services /\ q.active = p.active /\ q.renderers = p.renderers
      /\ q.sessions[s] = record
      /\ \A t \in Sessions \ {s} : q.sessions[t] = p.sessions[t]
    <2>1. q.sessions = [p.sessions EXCEPT ![s] = record] /\ q = [p EXCEPT !.sessions = q.sessions]
        BY <1>1 DEF Services
    <2>2. q.sessions \in [Sessions -> SessionRecords]  BY <1>1, <1>2, <2>1 DEF Services
    <2> QED BY <1>1, <2>1, <2>2 DEF Services
<1>4. ~IsOpen(p, s) /\ p.active # s /\ p.renderers[s] = NoRenderer
    BY <1>1 DEF Fits, WindowFits, RendererFits, IsOpen
<1>5. Begin(p, s, r, w) = CASE lives /\ ~r -> Reject(q, s)
                            [] lives /\ r  -> CloseSession(q, q.active)
                            [] OTHER       -> q
    BY DEF Begin, q, record
<1> HIDE DEF q
<1>6. \A t \in Sessions \ {s} : Fits(q, entry, t)  BY <1>1, <1>3, SameFits
<1>7. Fits(q, entry, s)
    BY <1>2, <1>3, <1>4 DEF Fits, WindowFits, StateFits, RendererFits, IsOpen, NoRenderer
<1>8. Sound(q, entry)  BY <1>3, <1>6, <1>7 DEF Sound
<1>9. CASE lives /\ ~r
    <2>1. (IsOpen(q, s) <=> q.active = s) /\ (~IsOpen(q, s) => q.renderers[s] = NoRenderer)
        BY <1>2, <1>3, <1>4 DEF IsOpen
    <2>2. Sound(Reject(q, s), entry)  BY <1>3, <1>6, <2>1, RejectSound
    <2> QED BY <1>5, <1>9, <2>2
<1>10. CASE lives /\ r
    <2>1. q.active \in Sessions  BY <1>3, <1>10 DEF Services
    <2>2. q.sessions[q.active].state # "none"
        BY <1>8, <2>1 DEF Sound, Fits, WindowFits, IsOpen
    <2>3. Sound(CloseSession(q, q.active), entry)  BY <1>8, <2>1, <2>2, CloseSound
    <2> QED BY <1>5, <1>10, <2>3
<1>11. CASE ~lives
    BY <1>5, <1>8, <1>11
<1> QED BY <1>9, <1>10, <1>11

\* With no other window open, the new one is the active session's.
LEMMA NewWindowSound ==
    ASSUME PlayerAssumption, NEW p \in Services, NEW s \in Sessions, NEW entry,
           p.sessions[s].state = "opening",
           \A t \in Sessions \ {s} : Fits(p, entry, t) /\ ~IsOpen(p, t)
    PROVE  Sound(NewWindow(p, s), s)
<1> DEFINE q == NewWindow(p, s)
           call == IF p.sessions[s].wait THEN "waiting" ELSE "resolved"
           record == [p.sessions[s] EXCEPT !.window = "open", !.call = call]
           renderer == [NoRenderer EXCEPT !.phase = "booting"]
<1>1. /\ record \in SessionRecords /\ record.window = "open" /\ record.call = call
      /\ record.state = "opening" /\ record.wait = p.sessions[s].wait
    BY DEF Services, SessionRecords
<1>2. /\ renderer \in RendererRecords /\ renderer.phase = "booting" /\ renderer.report = "none"
      /\ renderer.told = Nothing /\ renderer.shows = Nothing
    BY DEF NoRenderer, RendererRecords, Configs
<1>3. /\ q.sessions = [p.sessions EXCEPT ![s] = record]
      /\ q.renderers = [p.renderers EXCEPT ![s] = renderer]
      /\ q.active = s
      /\ q = [sessions |-> q.sessions, active |-> q.active, renderers |-> q.renderers]
    <2>1. q.sessions = [p.sessions EXCEPT ![s] = record]
        BY DEF NewWindow, Services, SessionRecords
    <2>2. q.renderers = [p.renderers EXCEPT ![s] = renderer]
        BY DEF NewWindow, Services
    <2>3. q.active = s  BY DEF NewWindow, Services
    <2>4. q = [sessions |-> q.sessions, active |-> q.active, renderers |-> q.renderers]
        <3>1. p = [sessions |-> p.sessions, active |-> p.active, renderers |-> p.renderers]
            BY DEF Services
        <3> DEFINE a == [p EXCEPT !.sessions = q.sessions]
                   b == [a EXCEPT !.renderers = q.renderers]
        <3>2. a = [sessions |-> q.sessions, active |-> p.active, renderers |-> p.renderers]
            BY <3>1
        <3>3. b = [sessions |-> q.sessions, active |-> p.active, renderers |-> q.renderers]
            <4> HIDE DEF a
            <4> QED BY <3>2
        <3>4. q = [b EXCEPT !.active = s]
            BY <2>1, <2>2, <3>1 DEF NewWindow, Services
        <3> QED BY <2>3, <3>3, <3>4
    <2> QED BY <2>1, <2>2, <2>3, <2>4
<1> HIDE DEF q, record, renderer
<1>4. /\ q.sessions \in [Sessions -> SessionRecords] /\ q.sessions[s] = record
      /\ q.renderers \in [Sessions -> RendererRecords] /\ q.renderers[s] = renderer
      /\ \A t \in Sessions \ {s} : /\ q.sessions[t] = p.sessions[t]
                                   /\ q.renderers[t] = p.renderers[t]
    BY <1>1, <1>2, <1>3 DEF Services
<1>5. q \in Services  BY <1>3, <1>4 DEF Services
<1>6. Fits(q, s, s)
    BY <1>1, <1>2, <1>3, <1>4, PlayerAssumption
       DEF PlayerAssumption, Fits, WindowFits, StateFits, RendererFits, IsOpen, Services, SessionRecords
<1>7. \A t \in Sessions \ {s} : Fits(q, s, t)
    BY <1>3, <1>4 DEF Fits, WindowFits, StateFits, RendererFits, IsOpen
<1>8. Sound(q, s)  BY <1>5, <1>6, <1>7 DEF Sound
<1> QED BY <1>8 DEF q

\* start() opens the window in place of the one there is.
LEMMA OpenSound ==
    ASSUME PlayerAssumption, NEW p, NEW entry, NEW s \in Sessions, Sound(p, entry),
           p.sessions[s].call = "preparing"
    PROVE  Sound(OpenPlayer(SetState(p, s, "opening"), s), s)
<1> DEFINE o == SetState(p, s, "opening")
           holders == {t \in Sessions : IsOpen(o, t)}
<1>1. p \in Services /\ Fits(p, entry, s) /\ \A t \in Sessions : Fits(p, entry, t)  BY DEF Sound
<1>2. /\ o \in Services /\ o.active = p.active /\ o.renderers = p.renderers
      /\ o.sessions[s] = [p.sessions[s] EXCEPT !.state = "opening"]
      /\ \A t \in Sessions \ {s} : o.sessions[t] = p.sessions[t]
    <2> p \in Services /\ "opening" \in PlayerStates \union {"closing"}
        BY <1>1 DEF PlayerStates
    <2> QED BY StateSet
<1>3. /\ o.sessions[s].state = "opening" /\ o.sessions[s].call = "preparing"
      /\ o.sessions[s].window = p.sessions[s].window
    BY <1>1, <1>2 DEF Services, SessionRecords
<1>4. ~IsOpen(o, s)  BY <1>1, <1>3 DEF Fits, WindowFits, IsOpen
<1>5. OpenPlayer(o, s) = NewWindow(IF holders = {} THEN o
                                   ELSE WindowGone(o, CHOOSE t \in holders : TRUE), s)
    BY DEF OpenPlayer
<1> HIDE DEF o
<1>6. \A t \in Sessions \ {s} : Fits(o, entry, t)  BY <1>1, <1>2, SameFits
<1>7. CASE holders = {}
    <2>1. \A t \in Sessions \ {s} : ~IsOpen(o, t)  BY <1>7
    <2>2. Sound(NewWindow(o, s), s)  BY <1>2, <1>3, <1>6, <2>1, NewWindowSound
    <2> QED BY <1>5, <1>7, <2>2 DEF o
<1>8. CASE holders # {}
    <2> DEFINE h == CHOOSE t \in holders : TRUE
               q == WindowGone(o, h)
    <2>1. h \in Sessions /\ IsOpen(o, h) /\ h # s  BY <1>4, <1>8
    <2> HIDE DEF h, holders
    <2>2. Fits(o, entry, h)  BY <1>6, <2>1
    <2>3. o.sessions[h].call \notin {"none", "preparing"} /\ o.active = h
        BY <2>1, <2>2 DEF Fits, WindowFits, IsOpen
    <2>4. \A t \in Sessions \ {s} : Fits(q, entry, t)
        <3> TAKE t \in Sessions \ {s}
        <3> t = h \/ Fits(o, entry, t)  BY <1>6
        <3> QED BY <1>2, <2>1, <2>3, GoneFits
    <2>5. /\ q \in Services
          /\ q.active = IF o.active = h THEN Nothing ELSE o.active
          /\ q.renderers[h] = NoRenderer
          /\ q.sessions[h].window = "gone"
          /\ \A t \in Sessions \ {h} : /\ q.sessions[t] = o.sessions[t]
                                       /\ q.renderers[t] = o.renderers[t]
        <3> o \in Services /\ h \in Sessions  BY <1>2, <2>1
        <3> QED BY GoneFields
    <2> HIDE DEF q
    <2>6. q.active = Nothing  BY <2>3, <2>5
    <2>7. \A t \in Sessions \ {s} : ~IsOpen(q, t)
        BY <2>4, <2>6, PlayerAssumption DEF PlayerAssumption, Fits, WindowFits
    <2>8. q.sessions[s].state = "opening"  BY <1>3, <2>1, <2>5
    <2>9. Sound(NewWindow(q, s), s)  BY <2>4, <2>5, <2>7, <2>8, NewWindowSound
    <2>10. OpenPlayer(o, s) = NewWindow(q, s)  BY <1>5, <1>8 DEF q, h
    <2> QED BY <2>9, <2>10 DEF o
<1> QED BY <1>7, <1>8

\* What the renderer reports ends its session's start(), or fails the session.
LEMMA StatusSound ==
    ASSUME PlayerAssumption, NEW p, NEW entry, NEW s \in Sessions, Sound(p, entry),
           IsOpen(p, s), p.renderers[s].phase = "settled", p.renderers[s].report = "none",
           NEW ok \in BOOLEAN,
           p.sessions[s].call # "waiting" => ~p.sessions[s].wait
    PROVE  Sound(RendererStatus(p, s, ok), entry)
<1>1. p \in Services /\ Fits(p, entry, s) /\ \A t \in Sessions : Fits(p, entry, t)  BY DEF Sound
<1>2. p.sessions[s].call \notin {"none", "preparing"} /\ p.active = s
    BY <1>1 DEF Fits, WindowFits, IsOpen
<1>3. CASE ok
    <2> DEFINE r == SetState(p, s, "ready")
               call == IF p.sessions[s].call = "waiting" THEN "resolved" ELSE p.sessions[s].call
               q == [r EXCEPT !.sessions[s].call = call]
    <2>1. /\ r \in Services /\ r.active = p.active /\ r.renderers = p.renderers
          /\ r.sessions[s] = [p.sessions[s] EXCEPT !.state = "ready"]
          /\ \A t \in Sessions \ {s} : r.sessions[t] = p.sessions[t]
        <3> p \in Services /\ "ready" \in PlayerStates \union {"closing"}
            BY <1>1 DEF PlayerStates
        <3> QED BY StateSet
    <2>2. RendererStatus(p, s, ok) = q
        <3>1. r.sessions[s].call = p.sessions[s].call
            BY <1>1, <2>1 DEF Services, SessionRecords
        <3> QED BY <1>3, <3>1 DEF RendererStatus
    <2>3. call \in {"waiting", "resolved", "rejected"}
        BY <1>1, <1>2 DEF Services, SessionRecords
    <2> HIDE DEF r, call
    <2>4. /\ q.sessions = [r.sessions EXCEPT ![s] = [r.sessions[s] EXCEPT !.call = call]]
          /\ q = [r EXCEPT !.sessions = q.sessions]
        BY <2>1 DEF Services
    <2>5. [r.sessions[s] EXCEPT !.call = call] \in SessionRecords
        <3>1. r.sessions[s] \in SessionRecords  BY <2>1 DEF Services
        <3> QED BY <2>3, <3>1 DEF SessionRecords
    <2>6. q.sessions \in [Sessions -> SessionRecords]  BY <2>1, <2>4, <2>5 DEF Services
    <2> HIDE DEF q
    <2>7. /\ q \in Services /\ q.renderers = p.renderers /\ q.active = p.active
          /\ q.sessions[s] = [r.sessions[s] EXCEPT !.call = call]
          /\ \A t \in Sessions \ {s} : q.sessions[t] = p.sessions[t]
        BY <2>1, <2>4, <2>6 DEF Services
    <2>8. /\ q.sessions[s].state = "ready" /\ q.sessions[s].window = "open"
          /\ q.sessions[s].call = call
        BY <1>1, <2>1, <2>7 DEF Services, SessionRecords, IsOpen
    <2>9. \A t \in Sessions \ {s} : Fits(q, entry, t)  BY <1>1, <2>7, SameFits
    <2>10. Fits(q, entry, s)
        BY <1>1, <1>2, <2>3, <2>7, <2>8 DEF Fits, WindowFits, StateFits, RendererFits, IsOpen
    <2> QED BY <2>2, <2>7, <2>9, <2>10 DEF Sound
<1>4. CASE ~ok /\ p.sessions[s].call = "waiting"
    <2>1. Sound(Reject(p, s), entry)  BY <1>1, <1>2, RejectSound
    <2> QED BY <1>4, <2>1 DEF RendererStatus
<1>5. CASE ~ok /\ p.sessions[s].call # "waiting"
    <2> DEFINE q == SetState(p, s, "failed")
    <2>1. /\ q \in Services /\ q.active = p.active /\ q.renderers = p.renderers
          /\ q.sessions[s] = [p.sessions[s] EXCEPT !.state = "failed"]
          /\ \A t \in Sessions \ {s} : q.sessions[t] = p.sessions[t]
        <3> p \in Services /\ "failed" \in PlayerStates \union {"closing"}
            BY <1>1 DEF PlayerStates
        <3> QED BY StateSet
    <2>2. RendererStatus(p, s, ok) = q  BY <1>5 DEF RendererStatus
    <2> HIDE DEF q
    <2>3. /\ q.sessions[s].state = "failed" /\ q.sessions[s].window = "open"
          /\ q.sessions[s].call = p.sessions[s].call /\ q.sessions[s].wait = p.sessions[s].wait
        BY <1>1, <2>1 DEF Services, SessionRecords, IsOpen
    <2>4. \A t \in Sessions \ {s} : Fits(q, entry, t)  BY <1>1, <2>1, SameFits
    <2>5. Fits(q, entry, s)
        BY <1>1, <1>2, <1>5, <2>1, <2>3 DEF Fits, WindowFits, StateFits, RendererFits, IsOpen
    <2> QED BY <2>1, <2>2, <2>4, <2>5 DEF Sound
<1> QED BY <1>3, <1>4, <1>5

-----------------------------------------------------------------------------
(* Initially, and every step.                                               *)

\* Before the first call no session has a window.
LEMMA PlayerInitially == PlayerAssumption /\ PlayerInit => PlayerInv
<1> SUFFICES ASSUME PlayerAssumption, PlayerInit PROVE PlayerInv  OBVIOUS
<1>1. newest \in Configs  BY DEF PlayerInit, Configs
<1>2. Service \in Services
    BY NoRendererIsOne DEF PlayerInit, Service, Services, SessionRecords, PlayerStates
<1>3. \A s \in Sessions : Fits(Service, newest, s)
    BY DEF PlayerAssumption, PlayerInit, Service, Fits, WindowFits, StateFits, RendererFits,
           IsOpen, NoRenderer
<1> QED BY <1>1, <1>2, <1>3 DEF PlayerInv, Sound

\* A step of the service.
LEMMA ServiceKeeps ==
    ASSUME PlayerAssumption, PlayerInv, NEW s \in Sessions, ServiceStep(s)
    PROVE  PlayerInv'
<1>1. /\ Sound(Service, newest) /\ Service \in Services /\ newest \in Configs
      /\ \A t \in Sessions : Fits(Service, newest, t)
    BY DEF PlayerInv, Sound
<1>2. Service.sessions = sessions /\ Service.active = active /\ Service.renderers = renderers
    BY DEF Service
<1>3. ASSUME NEW p, SetService(p), Sound(p, newest') PROVE PlayerInv'
    <2>1. Service' = p  BY <1>3, Serviced DEF Sound
    <2>2. newest' \in Configs
        <3>1. CASE ServiceStep(s) /\ newest' = newest  BY <1>1, <3>1
        <3>2. CASE newest' = s  BY <3>2 DEF Configs
        <3> QED
            BY <3>1, <3>2
               DEF ServiceStep, start, replace, close, PrepareFails, Prepared, ReadyTimeout, UserExits
    <2> QED BY <1>3, <2>1, <2>2 DEF PlayerInv
<1>4. ASSUME NEW r \in BOOLEAN, NEW w \in BOOLEAN, start(s, r, w) PROVE PlayerInv'
    <2>1. Sound(Begin(Service, s, r, w), newest)  BY <1>1, <1>2, <1>4, BeginSound DEF start
    <2> QED BY <1>3, <1>4, <2>1 DEF start
<1>5. ASSUME NEW old \in Sessions, NEW w \in BOOLEAN, replace(old, s, w) PROVE PlayerInv'
    <2> DEFINE closed == IF HasEnded(Service, old) THEN Service ELSE CloseSession(Service, old)
    <2>1. Sound(closed, newest)  BY <1>1, <1>2, <1>5, CloseSound DEF replace
    <2>2. closed.sessions[s].state = "none"
        <3>1. old # s /\ sessions[s].state = "none"  BY <1>5 DEF replace
        <3> QED BY <1>1, <1>2, <3>1, CloseOthers
    <2> HIDE DEF closed
    <2>3. Sound(Begin(closed, s, TRUE, w), newest)  BY <2>1, <2>2, BeginSound
    <2>4. SetService(Begin(closed, s, TRUE, w)) /\ newest' = newest
        BY <1>5 DEF replace, closed
    <2> QED BY <1>3, <2>3, <2>4
<1>6. CASE close(s)
    <2>1. Sound(CloseSession(Service, s), newest)  BY <1>1, <1>2, <1>6, CloseSound DEF close
    <2> QED BY <1>3, <1>6, <2>1 DEF close
<1>7. /\ IsOpen(Service, s) <=> Service.active = s
      /\ ~IsOpen(Service, s) => Service.renderers[s] = NoRenderer
    BY <1>1 DEF Fits, WindowFits, RendererFits
<1>8. Sound(Reject(Service, s), newest)  BY <1>1, <1>7, RejectSound
<1>9. CASE PrepareFails(s)  BY <1>3, <1>8, <1>9 DEF PrepareFails
<1>10. CASE ReadyTimeout(s)  BY <1>3, <1>8, <1>10 DEF ReadyTimeout
<1>11. CASE Prepared(s)
    <2>1. Sound(OpenPlayer(SetState(Service, s, "opening"), s), s)
        BY <1>1, <1>2, <1>11, OpenSound DEF Prepared
    <2> QED BY <1>3, <1>11, <2>1 DEF Prepared
<1>12. CASE UserExits(s)
    <2>1. Service.sessions[s].call \notin {"none", "preparing"}
        BY <1>1, <1>12 DEF UserExits, Fits, WindowFits, IsOpen
    <2>2. Sound(WindowGone(Service, s), newest)  BY <1>1, <2>1, GoneSound
    <2> QED BY <1>3, <1>12, <2>2 DEF UserExits
<1> QED BY <1>4, <1>5, <1>6, <1>9, <1>10, <1>11, <1>12 DEF ServiceStep

\* A step of the window of s changes its renderer alone.
LEMMA RendererChanges ==
    ASSUME PlayerAssumption, PlayerInv, NEW s \in Sessions, NEW r \in RendererRecords,
           renderers' = [renderers EXCEPT ![s] = r], UNCHANGED <<sessions, active, newest>>,
           IsOpen(Service, s), r.phase # "none",
           r.report # "none" => r.phase = "settled",
           {r.told, r.shows} \subseteq {s, Share, Nothing},
           \/ r.phase = renderers[s].phase /\ r.report = renderers[s].report
           \/ renderers[s].phase \in {"booting", "asking"}
    PROVE  PlayerInv'
<1>1. /\ Service \in Services /\ newest \in Configs
      /\ \A t \in Sessions : Fits(Service, newest, t)
    BY DEF PlayerInv, Sound
<1>2. renderers \in [Sessions -> RendererRecords]  BY <1>1 DEF Services, Service
<1>3. Service' = [sessions |-> sessions, active |-> active, renderers |-> renderers']
    BY DEF Service
<1> DEFINE q == [sessions |-> sessions, active |-> active, renderers |-> renderers']
<1>4. /\ q.sessions = Service.sessions /\ q.active = Service.active
      /\ q.renderers = [renderers EXCEPT ![s] = r] /\ renderers = Service.renderers
    BY DEF Service
<1>5. q.renderers \in [Sessions -> RendererRecords]  BY <1>2, <1>4
<1>6. q \in Services  BY <1>1, <1>5 DEF Services, Service
<1> HIDE DEF q
<1>7. q.renderers[s] = r /\ \A t \in Sessions \ {s} : q.renderers[t] = Service.renderers[t]
    BY <1>2, <1>4
<1>8. \A t \in Sessions \ {s} : Fits(q, newest, t)  BY <1>1, <1>4, <1>7, SameFits
<1>9. Fits(q, newest, s)
    <2>1. WindowFits(q, s)  BY <1>1, <1>4 DEF Fits, WindowFits, IsOpen
    <2>2. StateFits(q, s)
        BY <1>1, <1>4, <1>7 DEF Fits, StateFits, IsOpen
    <2>3. RendererFits(q, newest, s)
        BY <1>1, <1>4, <1>7 DEF Fits, RendererFits, IsOpen
    <2> QED BY <2>1, <2>2, <2>3 DEF Fits
<1> QED BY <1>1, <1>3, <1>6, <1>8, <1>9 DEF PlayerInv, Sound, q

\* A step of the window of s.
LEMMA WindowKeeps ==
    ASSUME PlayerAssumption, PlayerInv, NEW s \in Sessions, WindowStep(s)
    PROVE  PlayerInv'
<1> DEFINE r == renderers[s]
<1>1. /\ Sound(Service, newest) /\ Service \in Services /\ newest \in Configs
      /\ Fits(Service, newest, s)
    BY DEF PlayerInv, Sound
<1>2. /\ Service.sessions = sessions /\ Service.active = active
      /\ Service.renderers = renderers
    BY DEF Service
<1>3. r \in RendererRecords  BY <1>1, <1>2 DEF Services
<1>4. /\ r.report # "none" => r.phase = "settled"
      /\ IsOpen(Service, s) => r.phase # "none" /\ newest \in {s, Share, Nothing}
      /\ {r.told, r.shows} \subseteq {s, Share, Nothing}
    BY <1>1, <1>2 DEF Fits, RendererFits
<1> HIDE DEF r
<1>5. CASE rendererReady(s)
    <2> DEFINE n == [r EXCEPT !.push = "sent"]
    <2>1. n \in RendererRecords /\ n.phase = r.phase /\ n.report = r.report
          /\ n.told = r.told /\ n.shows = r.shows
        BY <1>3 DEF RendererRecords
    <2>2. renderers' = [renderers EXCEPT ![s] = n]  BY <1>5 DEF rendererReady, SetRenderer, r
    <2> HIDE DEF n
    <2> QED BY <1>4, <1>5, <2>1, <2>2, RendererChanges DEF rendererReady, r
<1>6. CASE loadFromIPC(s)
    <2> DEFINE n == [r EXCEPT !.phase = "asking", !.answer = "asked"]
    <2>1. n \in RendererRecords /\ n.phase = "asking" /\ n.report = r.report
          /\ n.told = r.told /\ n.shows = r.shows
        BY <1>3 DEF RendererRecords
    <2>2. renderers' = [renderers EXCEPT ![s] = n] /\ r.phase = "booting"
        BY <1>6 DEF loadFromIPC, SetRenderer, r
    <2> HIDE DEF n
    <2> QED BY <1>4, <1>6, <2>1, <2>2, RendererChanges DEF loadFromIPC, r
<1>7. CASE getPlayback(s)
    <2> DEFINE n == [r EXCEPT !.answer = "sent", !.told = newest]
    <2>1. n \in RendererRecords /\ n.phase = r.phase /\ n.report = r.report
          /\ n.told = newest /\ n.shows = r.shows
        BY <1>1, <1>3 DEF RendererRecords
    <2>2. renderers' = [renderers EXCEPT ![s] = n]  BY <1>7 DEF getPlayback, SetRenderer, r
    <2> HIDE DEF n
    <2> QED BY <1>4, <1>7, <2>1, <2>2, RendererChanges DEF getPlayback, r
<1>8. ASSUME NEW n \in RendererRecords, NEW config \in {s, Share, Nothing},
             n.phase = r.phase, n.report = r.report, n.told = r.told, n.shows = r.shows,
             IsOpen(Service, s), UNCHANGED <<sessions, active, newest>>,
             handleConfig(s, n, config)
      PROVE  PlayerInv'
    <2> DEFINE good == [n EXCEPT !.phase = "settled", !.report = "ok", !.shows = config]
               bad  == [n EXCEPT !.phase = "settled", !.report = "bad"]
    <2>1. /\ good \in RendererRecords /\ good.phase = "settled" /\ good.told = r.told
          /\ good.shows = config
        <3> config \in Configs  BY DEF Configs
        <3> QED BY <1>8 DEF RendererRecords
    <2>2. /\ bad \in RendererRecords /\ bad.phase = "settled" /\ bad.told = r.told
          /\ bad.shows = r.shows
        BY <1>8 DEF RendererRecords
    <2>3. \/ renderers' = [renderers EXCEPT ![s] = n]
          \/ r.phase = "asking" /\ renderers' = [renderers EXCEPT ![s] = good]
          \/ r.phase = "asking" /\ renderers' = [renderers EXCEPT ![s] = bad]
        BY <1>8 DEF handleConfig, SetRenderer
    <2> HIDE DEF good, bad
    <2>4. CASE renderers' = [renderers EXCEPT ![s] = n]
        BY <1>4, <1>8, <2>4, RendererChanges DEF r
    <2>5. CASE r.phase = "asking" /\ renderers' = [renderers EXCEPT ![s] = good]
        BY <1>4, <1>8, <2>1, <2>5, RendererChanges DEF r
    <2>6. CASE r.phase = "asking" /\ renderers' = [renderers EXCEPT ![s] = bad]
        BY <1>4, <1>8, <2>2, <2>6, RendererChanges DEF r
    <2> QED BY <2>3, <2>4, <2>5, <2>6
<1>9. CASE PushArrives(s)
    <2> DEFINE n == [r EXCEPT !.push = "arrived"]
    <2>1. n \in RendererRecords /\ n.phase = r.phase /\ n.report = r.report
          /\ n.told = r.told /\ n.shows = r.shows
        BY <1>3 DEF RendererRecords
    <2>2. handleConfig(s, n, s)  BY <1>9 DEF PushArrives, r
    <2> HIDE DEF n
    <2> QED BY <1>8, <1>9, <2>1, <2>2 DEF PushArrives
<1>10. CASE AnswerArrives(s)
    <2> DEFINE n == [r EXCEPT !.answer = "arrived"]
    <2>1. n \in RendererRecords /\ n.phase = r.phase /\ n.report = r.report
          /\ n.told = r.told /\ n.shows = r.shows
        BY <1>3 DEF RendererRecords
    <2>2. handleConfig(s, n, r.told)  BY <1>10 DEF AnswerArrives, r
    <2>3. r.told \in {s, Share, Nothing}  BY <1>4
    <2> HIDE DEF n
    <2> QED BY <1>8, <1>10, <2>1, <2>2, <2>3 DEF AnswerArrives
<1>11. CASE LoadTimeout(s)
    <2> DEFINE n == [r EXCEPT !.phase = "settled", !.report = "bad"]
    <2>1. n \in RendererRecords /\ n.phase = "settled"
          /\ n.told = r.told /\ n.shows = r.shows
        BY <1>3 DEF RendererRecords
    <2>2. renderers' = [renderers EXCEPT ![s] = n] /\ r.phase = "asking"
        BY <1>11 DEF LoadTimeout, SetRenderer, r
    <2> HIDE DEF n
    <2> QED BY <1>4, <1>11, <2>1, <2>2, RendererChanges DEF LoadTimeout, r
<1>12. CASE ReportArrives(s)
    <2> DEFINE n     == [r EXCEPT !.report = "none"]
               heard == [Service EXCEPT !.renderers[s].report = "none"]
               ok    == r.report = "ok"
    <2>1. n \in RendererRecords /\ n.phase = r.phase /\ n.report = "none"
          /\ n.told = r.told /\ n.shows = r.shows
        BY <1>3 DEF RendererRecords
    <2>2. IsOpen(Service, s) /\ r.report # "none" /\ r.phase = "settled"
        BY <1>4, <1>12 DEF ReportArrives, r
    <2>3. SetService(RendererStatus(heard, s, ok)) /\ newest' = newest
        BY <1>12 DEF ReportArrives, r
    <2>4. heard = [sessions |-> sessions, active |-> active,
                   renderers |-> [renderers EXCEPT ![s] = n]]
        BY <1>1, <1>2 DEF Service, Services, r
    <2> HIDE DEF n, heard
    <2>5. /\ heard.sessions = Service.sessions /\ heard.active = Service.active
          /\ heard.renderers[s] = n
          /\ \A t \in Sessions \ {s} : heard.renderers[t] = Service.renderers[t]
        BY <1>1, <1>2, <2>4 DEF Services
    <2>6. heard \in Services
        <3>1. [renderers EXCEPT ![s] = n] \in [Sessions -> RendererRecords]
            BY <1>1, <1>2, <2>1 DEF Services
        <3> QED BY <1>1, <1>2, <2>4, <3>1 DEF Services
    <2>7. \A t \in Sessions \ {s} : Fits(heard, newest, t)
        BY <1>1, <2>5, SameFits DEF Sound
    <2>8. Fits(heard, newest, s)
        <3>1. WindowFits(heard, s)  BY <1>1, <2>5 DEF Fits, WindowFits, IsOpen
        <3>2. StateFits(heard, s)
            BY <1>1, <2>1, <2>2, <2>5 DEF Fits, StateFits, IsOpen
        <3>3. RendererFits(heard, newest, s)
            BY <1>1, <1>4, <2>1, <2>2, <2>5 DEF Fits, RendererFits, IsOpen
        <3> QED BY <3>1, <3>2, <3>3 DEF Fits
    <2>9. heard.sessions[s].call # "waiting" => ~heard.sessions[s].wait
        BY <1>1, <1>2, <2>2, <2>5 DEF Fits, StateFits, r
    <2>10. Sound(heard, newest)  BY <2>6, <2>7, <2>8 DEF Sound
    <2>11. IsOpen(heard, s)  BY <2>2, <2>5 DEF IsOpen
    <2>12. Sound(RendererStatus(heard, s, ok), newest)
        <3> HIDE DEF ok
        <3>1. heard.renderers[s].phase = "settled" /\ heard.renderers[s].report = "none"
            BY <2>1, <2>2, <2>5
        <3>2. ok \in BOOLEAN  BY DEF ok
        <3> QED BY <2>9, <2>10, <2>11, <3>1, <3>2, StatusSound
    <2>13. Service' = RendererStatus(heard, s, ok)
        <3>1. RendererStatus(heard, s, ok) \in Services  BY <2>12 DEF Sound
        <3> QED BY <2>3, <3>1, Serviced
    <2> QED BY <1>1, <2>3, <2>12, <2>13 DEF PlayerInv
<1> QED BY <1>5, <1>6, <1>7, <1>9, <1>10, <1>11, <1>12 DEF WindowStep

\* What somebody else shares is nobody's session.
LEMMA SharesKeep ==
    ASSUME PlayerInv, NEW entry \in {Share, Nothing}, setShares(entry)
    PROVE  PlayerInv'
<1>1. Service' = Service /\ newest' = entry  BY DEF setShares, Service
<1>2. \A s \in Sessions : Fits(Service, entry, s)
    BY DEF PlayerInv, Sound, Fits, RendererFits
<1> QED BY <1>1, <1>2 DEF PlayerInv, Sound, Configs

\* The invariant, and with it the type invariant and SessionsMatchWindows.
LEMMA PlayerInductive == PlayerAssumption /\ PlayerInv /\ [PlayerNext]_playerVars => PlayerInv'
<1> SUFFICES ASSUME PlayerAssumption, PlayerInv, [PlayerNext]_playerVars PROVE PlayerInv'
    OBVIOUS
<1>1. CASE \E s \in Sessions : ServiceStep(s) \/ WindowStep(s)
    BY <1>1, ServiceKeeps, WindowKeeps
<1>2. CASE \E entry \in {Share, Nothing} : setShares(entry)  BY <1>2, SharesKeep
<1>3. CASE UNCHANGED playerVars
    <2> Service' = Service /\ newest' = newest  BY <1>3 DEF playerVars, Service
    <2> QED BY DEF PlayerInv
<1> QED BY <1>1, <1>2, <1>3 DEF PlayerNext

LEMMA PlayerImplied == PlayerAssumption /\ PlayerInv => PlayerTypeOK /\ SessionsMatchWindows
<1> SUFFICES ASSUME PlayerAssumption, PlayerInv PROVE PlayerTypeOK /\ SessionsMatchWindows
    OBVIOUS
<1>1. /\ Service \in Services /\ newest \in Configs
      /\ \A s \in Sessions : Fits(Service, newest, s)
    BY DEF PlayerInv, Sound
<1>2. Service.sessions = sessions /\ Service.active = active /\ Service.renderers = renderers
    BY DEF Service
<1>3. /\ sessions \in [Sessions -> SessionRecords] /\ active \in Sessions \union {Nothing}
      /\ renderers \in [Sessions -> RendererRecords]
    BY <1>1, <1>2 DEF Services
<1>4. sessions \in [Sessions -> [state : PlayerStates, window : {"none", "open", "gone"},
                                 call : {"none", "preparing", "waiting", "resolved", "rejected"},
                                 wait : BOOLEAN]]
    <2>1. \A s \in Sessions : sessions[s].state \in PlayerStates
        BY <1>1, <1>2, <1>3 DEF Fits, StateFits, SessionRecords
    <2> QED BY <1>3, <2>1 DEF SessionRecords
<1>5. \A s \in Sessions : (renderers[s].phase = "none") <=> ~IsOpen(Service, s)
    BY <1>1, <1>2 DEF Fits, RendererFits, NoRenderer
<1>6. PlayerTypeOK  BY <1>1, <1>3, <1>4, <1>5 DEF PlayerTypeOK, RendererRecords
<1>7. ActiveHasTheWindow  BY <1>1, <1>2 DEF ActiveHasTheWindow, Fits, WindowFits
<1>8. StateMatchesWindow  BY <1>1, <1>2 DEF StateMatchesWindow, Fits, StateFits
<1>9. ShowsNoOtherSession
    BY <1>1, <1>2 DEF ShowsNoOtherSession, Fits, RendererFits
<1> QED BY <1>6, <1>7, <1>8, <1>9 DEF SessionsMatchWindows

\* The service, its window and its renderer agree on the session there is.
THEOREM SessionsAgree == PlayerSpec => []SessionsMatchWindows
<1>1. PlayerSpec => []PlayerInv
    BY PlayerAssumption, PlayerInitially, PlayerInductive, PTL DEF PlayerSpec
<1> QED BY <1>1, PlayerAssumption, PlayerImplied, PTL

\* What the service, a window and its renderer remember of a session is of its kind, and a
\* renderer is in a phase exactly while its window is open.
THEOREM SessionTypesHold == PlayerSpec => []PlayerTypeOK
<1>1. PlayerSpec => []PlayerInv
    BY PlayerAssumption, PlayerInitially, PlayerInductive, PTL DEF PlayerSpec
<1> QED BY <1>1, PlayerAssumption, PlayerImplied, PTL

-----------------------------------------------------------------------------
(* The local HTTP API.                                                     *)

Stages == {"closingWs", "closing", "porting", "ended", "failed"}

OpRecords(stages, n) ==
    [pc : stages, keep : SUBSET BOOLEAN, via : 0..n, starting : BOOLEAN, at : 0..n]

ServerRecords == [routes : SUBSET HttpRoutes, listening : BOOLEAN, client : BOOLEAN]

\* What the type invariant says of each element.
HttpShape ==
    /\ enabled \in BOOLEAN /\ overlapped \in BOOLEAN
    /\ routes \subseteq HttpRoutes
    /\ Len(servers) \in Nat /\ Len(ops) \in Nat
    /\ DOMAIN servers = 1..Len(servers) /\ DOMAIN ops = 1..Len(ops)
    /\ server \in 0..Len(servers) /\ wsServer \in 0..Len(servers)
    /\ \A n \in 1..Len(servers) : servers[n] \in ServerRecords
    /\ \A o \in 1..Len(ops) : ops[o] \in OpRecords(Stages, Len(servers))

\* The server answers the routes there are, or some operation is about to end it.
RoutesFollow ==
    server # 0 => \/ servers[server].routes = routes
                  \/ \E o \in DOMAIN ops : ops[o].pc \in {"closingWs", "closing"}

\* The last operation waits for the one server there is, looks for a port when
\* there is none, or has ended with a server exactly when there should be one.
LastFits(op) ==
    /\ op.pc = "closingWs" => /\ server # 0 /\ wsServer = server /\ op.at = server
                                /\ ~op.starting
    /\ op.pc = "closing" => /\ server # 0 /\ wsServer = 0 /\ op.at = server
                              /\ ~op.starting /\ Listening = {}
    /\ op.pc = "porting" => server = 0 /\ wsServer = 0 /\ enabled
    /\ op.pc \in {"ended", "failed"} =>
          /\ wsServer = server
          /\ (server # 0) <=> (enabled /\ op.pc # "failed")
          /\ server # 0 => server \in Listening
    /\ op.pc \in {"closingWs", "closing"} => op.keep \in {{}, {enabled}}

Alone ==
    /\ Pending \subseteq {Len(ops)}
    /\ Listening \subseteq {server}
    /\ Len(ops) = 0 => server = 0 /\ wsServer = 0
    /\ Len(ops) # 0 => LastFits(ops[Len(ops)])

HttpInv == HttpTypeOK /\ RoutesFollow /\ (~overlapped => Alone)

-----------------------------------------------------------------------------
\* Sequences, by their elements.
LEMMA SeqByElements ==
    ASSUME NEW S, NEW s, NEW n \in Nat, DOMAIN s = 1..n, s = [i \in 1..n |-> s[i]],
           \A i \in 1..n : s[i] \in S
    PROVE  s \in Seq(S) /\ Len(s) = n
<1>1. s \in [1..n -> S]  OBVIOUS
<1> QED BY <1>1

LEMMA ElementsOfSeq ==
    ASSUME NEW S, NEW s \in Seq(S)
    PROVE  Len(s) \in Nat /\ DOMAIN s = 1..Len(s) /\ \A i \in 1..Len(s) : s[i] \in S
OBVIOUS

LEMMA HttpTypeShape == HttpTypeOK => HttpShape
<1> SUFFICES ASSUME HttpTypeOK PROVE HttpShape  OBVIOUS
<1>1. servers \in Seq(ServerRecords)  BY DEF HttpTypeOK, ServerRecords
<1>2. ops \in Seq(OpRecords(Stages, Len(servers)))
    BY DEF HttpTypeOK, OpRecords, Stages
<1> QED BY <1>1, <1>2, ElementsOfSeq DEF HttpTypeOK, HttpShape

\* What stop() leaves of an operation is one that waits, or has ended.
StopsAs(op, ws, srv, on, n, o) ==
    /\ o \in OpRecords(Stages, n)
    /\ o.keep = op.keep
    /\ ws # 0 => o.pc = "closingWs" /\ o.at = ws /\ o.starting = op.starting
    /\ ws = 0 /\ srv # 0 => o.pc = "closing" /\ o.at = srv /\ o.starting = op.starting
    /\ ws = 0 /\ srv = 0 => o.pc = IF op.starting \/ on THEN "porting" ELSE "ended"

\* Stop leaves an operation at the first thing there is to wait for.
LEMMA StopType ==
    ASSUME NEW n \in Nat, NEW op \in OpRecords(Stages \union {"begun"}, n),
           NEW ws \in 0..n, NEW srv \in 0..n, NEW on \in BOOLEAN
    PROVE  StopsAs(op, ws, srv, on, n, Stop(op, ws, srv, on))
<1> USE DEF StopsAs
<1>1. CASE ws # 0
    <2>1. Stop(op, ws, srv, on) = [op EXCEPT !.pc = "closingWs", !.at = ws]  BY <1>1 DEF Stop
    <2> QED BY <1>1, <2>1 DEF OpRecords, Stages
<1>2. CASE ws = 0 /\ srv # 0
    <2>1. Stop(op, ws, srv, on) = [op EXCEPT !.pc = "closing", !.at = srv]  BY <1>2 DEF Stop
    <2> QED BY <1>2, <2>1 DEF OpRecords, Stages
<1>3. CASE ws = 0 /\ srv = 0 /\ op.starting
    <2>1. Stop(op, ws, srv, on) = [op EXCEPT !.pc = "porting"]  BY <1>3 DEF Stop
    <2> QED BY <1>3, <2>1 DEF OpRecords, Stages
<1>4. CASE ws = 0 /\ srv = 0 /\ ~op.starting
    <2> DEFINE pc == IF on THEN "porting" ELSE "ended"
    <2>1. Stop(op, ws, srv, on) = [op EXCEPT !.starting = TRUE, !.pc = pc]  BY <1>4 DEF Stop
    <2>2. pc \in Stages  BY DEF Stages
    <2> HIDE DEF pc
    <2>3. /\ Stop(op, ws, srv, on) \in OpRecords(Stages, n)
          /\ Stop(op, ws, srv, on).keep = op.keep
          /\ Stop(op, ws, srv, on).pc = pc
        BY <1>4, <2>1, <2>2 DEF OpRecords
    <2> QED BY <1>4, <2>3 DEF pc
<1> QED BY <1>1, <1>2, <1>3, <1>4

\* The end of a server leaves every other one as it is.
LEMMA ServerClosed ==
    ASSUME HttpShape, NEW n \in 1..Len(servers), NEW after, after = CloseServer(n)
    PROVE  /\ after \in Seq(ServerRecords) /\ Len(after) = Len(servers)
           /\ \A m \in 1..Len(servers) : after[m].routes = servers[m].routes
           /\ {m \in DOMAIN after : after[m].listening} = Listening \ {n}
<1>1. /\ DOMAIN after = 1..Len(servers)
      /\ after = [servers EXCEPT ![n] = [servers[n] EXCEPT !.listening = FALSE]]
    BY DEF CloseServer, HttpShape
<1>2. [servers[n] EXCEPT !.listening = FALSE] \in ServerRecords
    BY DEF HttpShape, ServerRecords
<1>3. \A m \in 1..Len(servers) : after[m] \in ServerRecords
    BY <1>1, <1>2 DEF HttpShape
<1>4. after = [m \in 1..Len(servers) |-> after[m]]  BY <1>1 DEF HttpShape
<1>5. after \in Seq(ServerRecords) /\ Len(after) = Len(servers)
    BY <1>1, <1>3, <1>4, SeqByElements DEF HttpShape
<1>6. after[n].listening = FALSE /\ after[n].routes = servers[n].routes
    BY <1>1 DEF HttpShape, ServerRecords
<1>7. \A m \in 1..Len(servers) : m # n => after[m] = servers[m]  BY <1>1 DEF HttpShape
<1> QED BY <1>1, <1>5, <1>6, <1>7 DEF Listening, HttpShape

\* The type invariant from its elements.
LEMMA HttpTypeFrom ==
    ASSUME enabled \in BOOLEAN, routes \subseteq HttpRoutes, overlapped \in BOOLEAN,
           server \in 0..Len(servers), wsServer \in 0..Len(servers),
           servers \in Seq(ServerRecords), ops \in Seq(OpRecords(Stages, Len(servers)))
    PROVE  HttpTypeOK
BY DEF HttpTypeOK, ServerRecords, OpRecords, Stages

-----------------------------------------------------------------------------
(* What the actions do, element by element.                                *)

\* An operation begins: it is the last one, and stop() has begun with it.
LEMMA BeginShape ==
    ASSUME HttpTypeOK, NEW op \in OpRecords(Stages \union {"begun"}, Len(servers)),
           NEW on \in BOOLEAN, routes' \subseteq HttpRoutes, BeginOp(op, on),
           NEW o, o = Stop(op, wsServer, server, on)
    PROVE  /\ HttpTypeOK'
           /\ Len(ops') = Len(ops) + 1 /\ ops'[Len(ops) + 1] = o
           /\ DOMAIN ops' = 1..(Len(ops) + 1)
           /\ \A i \in 1..Len(ops) : ops'[i] = ops[i]
           /\ server' = server /\ wsServer' = wsServer /\ enabled' = on
           /\ overlapped' = (overlapped \/ Pending # {})
           /\ \A m \in 1..Len(servers) : servers'[m].routes = servers[m].routes
           /\ Listening' = IF o.pc = "closing" THEN Listening \ {server} ELSE Listening
<1>1. HttpShape  BY HttpTypeShape
<1>2. servers \in Seq(ServerRecords) /\ ops \in Seq(OpRecords(Stages, Len(servers)))
    BY DEF HttpTypeOK, ServerRecords, OpRecords, Stages
<1>3. /\ o \in OpRecords(Stages, Len(servers))
      /\ o.pc = "closing" => server # 0
    <2>1. /\ Len(servers) \in Nat /\ wsServer \in 0..Len(servers) /\ server \in 0..Len(servers)
        BY <1>1 DEF HttpShape
    <2>2. StopsAs(op, wsServer, server, on, Len(servers), o)  BY <2>1, StopType
    <2> QED BY <2>1, <2>2 DEF StopsAs
<1>4. /\ ops' = Append(ops, o) /\ enabled' = on
      /\ overlapped' = (overlapped \/ Pending # {})
      /\ servers' = IF o.pc = "closing" THEN CloseServer(server) ELSE servers
      /\ UNCHANGED <<server, wsServer>>
    BY DEF BeginOp
<1>5. /\ ops' \in Seq(OpRecords(Stages, Len(servers))) /\ Len(ops') = Len(ops) + 1
      /\ ops'[Len(ops) + 1] = o /\ DOMAIN ops' = 1..(Len(ops) + 1)
      /\ \A i \in 1..Len(ops) : ops'[i] = ops[i]
    BY <1>2, <1>3, <1>4
<1>6. /\ servers' \in Seq(ServerRecords) /\ Len(servers') = Len(servers)
      /\ \A m \in 1..Len(servers) : servers'[m].routes = servers[m].routes
      /\ {m \in DOMAIN servers' : servers'[m].listening} =
            IF o.pc = "closing" THEN Listening \ {server} ELSE Listening
    <2>1. CASE o.pc = "closing"
        <3>1. server \in 1..Len(servers)  BY <1>1, <1>3, <2>1 DEF HttpShape
        <3> QED BY <1>1, <1>4, <2>1, <3>1, ServerClosed
    <2>2. CASE o.pc # "closing"  BY <1>2, <1>4, <2>2 DEF Listening
    <2> QED BY <2>1, <2>2
<1>7. Listening' = IF o.pc = "closing" THEN Listening \ {server} ELSE Listening
    BY <1>6 DEF Listening
<1>8. overlapped' \in BOOLEAN  BY <1>1, <1>4 DEF HttpShape
<1>9. ops' \in Seq(OpRecords(Stages, Len(servers')))  BY <1>5, <1>6
<1>10. HttpTypeOK'
    BY <1>1, <1>4, <1>6, <1>8, <1>9
       DEF HttpTypeOK, HttpShape, ServerRecords, OpRecords, Stages
<1> QED BY <1>4, <1>5, <1>6, <1>7, <1>10

\* stop() is over for the operations os: each goes on to look for a port or ends.
LEMMA StoppedShape ==
    ASSUME HttpShape, NEW os \in SUBSET (DOMAIN ops), NEW ws \in 0..Len(servers),
           os # {}, Stopped(os, ws)
    PROVE  /\ server' = 0 /\ enabled' \in BOOLEAN
           /\ ops' \in Seq(OpRecords(Stages, Len(servers))) /\ Len(ops') = Len(ops)
           /\ \A o \in DOMAIN ops \ os : ops'[o] = ops[o]
           /\ \A o \in os :
                 os = {o} /\ ~ops[o].starting /\ ws = 0 /\ ops[o].keep \in {{}, {enabled}} =>
                    /\ enabled' = enabled
                    /\ ops'[o].pc = IF enabled THEN "porting" ELSE "ended"
<1> DEFINE before(o)    == {p \in os : p <= o /\ ops[p].keep # {} /\ ~ops[p].starting}
           enabledAt(o) == IF before(o) = {} THEN enabled ELSE ops[Max(before(o))].keep = {TRUE}
           next(o)      == CASE ops[o].starting                  -> Stop(ops[o], 0, 0, TRUE)
                             [] ~ops[o].starting /\ enabledAt(o) ->
                                   Stop([ops[o] EXCEPT !.starting = TRUE], ws, 0, TRUE)
                             [] OTHER                            -> [ops[o] EXCEPT !.pc = "ended"]
<1>1. /\ server' = 0 /\ enabled' = enabledAt(Max(os))
      /\ ops' = [o \in DOMAIN ops |-> IF o \in os THEN next(o) ELSE ops[o]]
    BY DEF Stopped
<1>2. \A o \in Nat : enabledAt(o) \in BOOLEAN  BY DEF HttpShape
<1>3. enabled' \in BOOLEAN  BY <1>1 DEF HttpShape
<1> HIDE DEF enabledAt
<1>4. ASSUME NEW o \in os
      PROVE  /\ next(o) \in OpRecords(Stages, Len(servers))
             /\ ~ops[o].starting /\ enabledAt(o) /\ ws = 0 => next(o).pc = "porting"
             /\ ~ops[o].starting /\ ~enabledAt(o) => next(o).pc = "ended"
    <2>1. ops[o] \in OpRecords(Stages, Len(servers))  BY DEF HttpShape
    <2>2. ops[o] \in OpRecords(Stages \union {"begun"}, Len(servers)) /\ Len(servers) \in Nat
        BY <2>1 DEF OpRecords, HttpShape
    <2>3. CASE ops[o].starting
        <3>1. Stop(ops[o], 0, 0, TRUE) \in OpRecords(Stages, Len(servers))
            <4> 0 \in 0..Len(servers) /\ TRUE \in BOOLEAN  BY <2>2
            <4>1. StopsAs(ops[o], 0, 0, TRUE, Len(servers), Stop(ops[o], 0, 0, TRUE))
                BY <2>2, StopType
            <4> QED BY <4>1 DEF StopsAs
        <3> QED BY <2>3, <3>1
    <2>4. CASE ~ops[o].starting /\ enabledAt(o)
        <3> DEFINE op == [ops[o] EXCEPT !.starting = TRUE]
        <3>1. op \in OpRecords(Stages \union {"begun"}, Len(servers)) /\ op.starting
            BY <2>2 DEF OpRecords
        <3>2. next(o) = Stop(op, ws, 0, TRUE)  BY <2>4
        <3> HIDE DEF op, next
        <3>3. /\ Stop(op, ws, 0, TRUE) \in OpRecords(Stages, Len(servers))
              /\ ws = 0 => Stop(op, ws, 0, TRUE).pc = "porting"
            <4> 0 \in 0..Len(servers) /\ TRUE \in BOOLEAN  BY <2>2
            <4>1. StopsAs(op, ws, 0, TRUE, Len(servers), Stop(op, ws, 0, TRUE))
                BY <2>2, <3>1, StopType
            <4> QED BY <3>1, <4>1 DEF StopsAs
        <3> QED BY <2>4, <3>2, <3>3
    <2>5. CASE ~ops[o].starting /\ ~enabledAt(o)
        <3>1. next(o) = [ops[o] EXCEPT !.pc = "ended"]  BY <2>5
        <3> HIDE DEF next
        <3> QED BY <2>1, <2>5, <3>1 DEF OpRecords, Stages
    <2> QED BY <2>3, <2>4, <2>5
<1> HIDE DEF next
<1>5. /\ ops' \in Seq(OpRecords(Stages, Len(servers))) /\ Len(ops') = Len(ops)
      /\ \A o \in os : ops'[o] = next(o)
      /\ \A o \in DOMAIN ops \ os : ops'[o] = ops[o]
    <2>1. /\ DOMAIN ops' = DOMAIN ops /\ ops' = [o \in DOMAIN ops |-> ops'[o]]
          /\ \A o \in os : ops'[o] = next(o)
          /\ \A o \in DOMAIN ops \ os : ops'[o] = ops[o]
        BY <1>1
    <2>2. \A o \in os : ops'[o] \in OpRecords(Stages, Len(servers))  BY <1>4, <2>1
    <2>3. ops' \in Seq(OpRecords(Stages, Len(servers))) /\ Len(ops') = Len(ops)
        <3>1. /\ DOMAIN ops' = 1..Len(ops) /\ Len(ops) \in Nat
              /\ ops' = [o \in 1..Len(ops) |-> ops'[o]]
            BY <2>1 DEF HttpShape
        <3>2. \A o \in 1..Len(ops) : ops'[o] \in OpRecords(Stages, Len(servers))
            BY <2>1, <2>2 DEF HttpShape
        <3> QED BY <3>1, <3>2, SeqByElements
    <2> QED BY <2>1, <2>3
<1>6. ASSUME NEW o \in os, os = {o}, ~ops[o].starting, ws = 0, ops[o].keep \in {{}, {enabled}}
      PROVE  enabled' = enabled /\ ops'[o].pc = IF enabled THEN "porting" ELSE "ended"
    <2>1. o \in Nat /\ enabled \in BOOLEAN  BY DEF HttpShape
    <2>2. Max({o}) = o  BY <2>1 DEF Max
    <2>3. before(o) = IF ops[o].keep # {} THEN {o} ELSE {}  BY <1>6, <2>1
    <2>4. enabledAt(o) = enabled
        <3>1. CASE ops[o].keep = {}  BY <2>3, <3>1 DEF enabledAt
        <3>2. CASE ops[o].keep # {}
            <4>1. enabledAt(o) = (ops[o].keep = {TRUE})  BY <2>2, <2>3, <3>2 DEF enabledAt
            <4>2. ops[o].keep = {enabled}  BY <1>6, <3>2
            <4> QED BY <2>1, <4>1, <4>2
        <3> QED BY <3>1, <3>2
    <2>5. enabled' = enabled  BY <1>1, <1>6, <2>2, <2>4
    <2> QED BY <1>4, <1>5, <1>6, <2>1, <2>4, <2>5
<1> QED BY <1>1, <1>3, <1>5, <1>6

-----------------------------------------------------------------------------
(* Initially, and every step.                                               *)

LEMMA HttpInitially == HttpInit => HttpInv
<1> SUFFICES ASSUME HttpInit PROVE HttpInv  OBVIOUS
<1>1. HttpTypeOK
    <2>1. enabled \in BOOLEAN /\ routes \subseteq HttpRoutes /\ overlapped \in BOOLEAN
        BY DEF HttpInit
    <2>2. servers \in Seq(ServerRecords) /\ ops \in Seq(OpRecords(Stages, Len(servers)))
        BY DEF HttpInit
    <2>3. Len(servers) = 0 /\ server = 0 /\ wsServer = 0  BY DEF HttpInit
    <2> QED BY <2>1, <2>2, <2>3, HttpTypeFrom
<1>2. RoutesFollow  BY DEF HttpInit, RoutesFollow
<1>3. Alone  BY DEF HttpInit, Alone, Pending, Listening
<1> QED BY <1>1, <1>2, <1>3 DEF HttpInv

\* Operations that wait, under Alone, are the last one.
LEMMA TheLastOne ==
    ASSUME HttpShape, Alone, NEW o \in DOMAIN ops, ops[o].pc \notin {"ended", "failed"}
    PROVE  o = Len(ops) /\ Len(ops) # 0 /\ LastFits(ops[o])
BY DEF HttpShape, Alone, Pending

\* An operation begins, on the configuration there is or with a new one.
LEMMA BeginKeeps ==
    ASSUME HttpInv, NEW op, NEW on \in BOOLEAN,
           op \in OpRecords({"begun"}, Len(servers)), op.keep \in {{}, {on}},
           ~overlapped /\ op.starting => server = 0 /\ wsServer = 0 /\ on,
           routes' \subseteq HttpRoutes, BeginOp(op, on),
           routes' = routes \/ server # 0
    PROVE  HttpInv'
<1> DEFINE o == Stop(op, wsServer, server, on)
<1>1. HttpTypeOK /\ HttpShape /\ RoutesFollow  BY HttpTypeShape DEF HttpInv
<1>2. op \in OpRecords(Stages \union {"begun"}, Len(servers))  BY DEF OpRecords
<1>3. /\ HttpTypeOK'
      /\ Len(ops') = Len(ops) + 1 /\ ops'[Len(ops) + 1] = o
      /\ DOMAIN ops' = 1..(Len(ops) + 1)
      /\ \A i \in 1..Len(ops) : ops'[i] = ops[i]
      /\ server' = server /\ wsServer' = wsServer /\ enabled' = on
      /\ overlapped' = (overlapped \/ Pending # {})
      /\ \A m \in 1..Len(servers) : servers'[m].routes = servers[m].routes
      /\ Listening' = IF o.pc = "closing" THEN Listening \ {server} ELSE Listening
    BY <1>1, <1>2, BeginShape
<1>4. /\ Len(servers) \in Nat /\ wsServer \in 0..Len(servers) /\ server \in 0..Len(servers)
    BY <1>1 DEF HttpShape
<1>5. StopsAs(op, wsServer, server, on, Len(servers), o)  BY <1>2, <1>4, StopType
<1> HIDE DEF o
<1>6. RoutesFollow'
    <2>1. CASE server # 0
        <3>1. o.pc \in {"closingWs", "closing"}  BY <1>5, <2>1 DEF StopsAs
        <3>2. Len(ops) + 1 \in DOMAIN ops'  BY <1>1, <1>3 DEF HttpShape
        <3> QED BY <1>3, <3>1, <3>2 DEF RoutesFollow
    <2>2. CASE server = 0  BY <1>3, <2>2 DEF RoutesFollow
    <2> QED BY <2>1, <2>2
<1>7. ASSUME ~overlapped' PROVE Alone'
    <2>1. ~overlapped /\ Pending = {} /\ Alone  BY <1>1, <1>3, <1>7 DEF HttpShape, HttpInv
    <2>2. Pending' \subseteq {Len(ops')}
        BY <1>1, <1>3, <2>1 DEF Pending, HttpShape
    <2>3. wsServer = server
        <3>1. CASE Len(ops) = 0  BY <2>1, <3>1 DEF Alone
        <3>2. CASE Len(ops) # 0
            <4>1. ops[Len(ops)].pc \in {"ended", "failed"}
                BY <1>1, <2>1, <3>2 DEF Pending, HttpShape
            <4> QED BY <2>1, <3>2, <4>1 DEF Alone, LastFits
        <3> QED BY <3>1, <3>2
    <2>4. Listening' \subseteq {server}  BY <1>3, <2>1 DEF Alone
    <2>5. ops'[Len(ops')] = o  BY <1>3
    <2>6. LastFits(ops[Len(ops)])'
        <3>1. CASE server # 0
            <4>1. o.pc = "closingWs" /\ o.at = server /\ o.starting = op.starting
                  /\ o.keep = op.keep
                BY <1>5, <2>3, <3>1 DEF StopsAs
            <4>2. ~op.starting /\ o.keep \in {{}, {on}}  BY <2>1, <3>1, <4>1
            <4> QED BY <1>3, <2>3, <2>5, <3>1, <4>1, <4>2 DEF LastFits
        <3>2. CASE server = 0
            <4>1. o.pc = IF op.starting \/ on THEN "porting" ELSE "ended"
                BY <1>5, <2>3, <3>2 DEF StopsAs
            <4>2. CASE on
                <5>1. o.pc = "porting"  BY <4>1, <4>2
                <5> QED BY <1>3, <2>3, <2>5, <3>2, <4>2, <5>1 DEF LastFits
            <4>3. CASE ~on
                <5>1. o.pc = "ended"  BY <2>1, <4>1, <4>3
                <5> QED BY <1>3, <2>3, <2>5, <3>2, <4>3, <5>1 DEF LastFits
            <4> QED BY <4>2, <4>3
        <3> QED BY <3>1, <3>2
    <2>7. Len(ops') # 0  BY <1>1, <1>3 DEF HttpShape
    <2> QED BY <1>3, <2>2, <2>4, <2>6, <2>7 DEF Alone
<1> QED BY <1>3, <1>6, <1>7 DEF HttpInv

\* stop() goes on once a WebSocket server has no client left.
LEMMA WsClosedKeeps ==
    ASSUME HttpInv, NEW n \in DOMAIN servers, WsClosed(n)
    PROVE  HttpInv'
<1> DEFINE os == WaitingFor("closingWs", n)
<1>1. HttpTypeOK /\ HttpShape /\ RoutesFollow  BY HttpTypeShape DEF HttpInv
<1>2. /\ os # {} /\ wsServer' = 0 /\ UNCHANGED <<routes, overlapped>>
      /\ IF server = 0
         THEN Stopped(os, 0) /\ UNCHANGED servers
         ELSE /\ servers' = CloseServer(server)
              /\ ops' = [o \in DOMAIN ops |-> IF o \in os THEN Stop(ops[o], 0, server, TRUE)
                                                          ELSE ops[o]]
              /\ UNCHANGED <<enabled, server>>
    BY DEF WsClosed
<1>3. os \in SUBSET (DOMAIN ops) /\ \A o \in os : ops[o].pc = "closingWs"
    BY DEF WaitingFor
<1>4. /\ servers \in Seq(ServerRecords) /\ ops \in Seq(OpRecords(Stages, Len(servers)))
      /\ Len(servers) \in Nat /\ 0 \in 0..Len(servers)
    BY <1>1 DEF HttpTypeOK, HttpShape, ServerRecords, OpRecords, Stages
<1> HIDE DEF os
<1>5. CASE server = 0
    <2>1. /\ server' = 0 /\ enabled' \in BOOLEAN
          /\ ops' \in Seq(OpRecords(Stages, Len(servers))) /\ Len(ops') = Len(ops)
        BY <1>1, <1>2, <1>3, <1>4, <1>5, StoppedShape
    <2>2. servers' = servers  BY <1>2, <1>5
    <2>3. HttpTypeOK'
        BY <1>1, <1>2, <1>4, <2>1, <2>2
           DEF HttpTypeOK, HttpShape, ServerRecords, OpRecords, Stages
    <2>4. RoutesFollow'  BY <2>1 DEF RoutesFollow
    <2>5. overlapped
        <3> SUFFICES ASSUME ~overlapped PROVE FALSE  BY <1>1 DEF HttpShape
        <3>1. PICK o \in os : TRUE  BY <1>2
        <3>2. o \in DOMAIN ops /\ ops[o].pc = "closingWs"  BY <1>3, <3>1
        <3>3. LastFits(ops[o])  BY <1>1, <3>2, TheLastOne DEF HttpInv
        <3> QED BY <1>5, <3>2, <3>3 DEF LastFits
    <2> QED BY <1>2, <2>3, <2>4, <2>5 DEF HttpInv
<1>6. CASE server # 0
    <2>0. server \in 1..Len(servers)  BY <1>1, <1>6 DEF HttpShape
    <2>1. /\ servers' \in Seq(ServerRecords) /\ Len(servers') = Len(servers)
          /\ \A m \in 1..Len(servers) : servers'[m].routes = servers[m].routes
          /\ {m \in DOMAIN servers' : servers'[m].listening} = Listening \ {server}
        BY <1>1, <1>2, <1>6, <2>0, ServerClosed
    <2>2. ASSUME NEW o \in os
          PROVE  /\ ops'[o] \in OpRecords(Stages, Len(servers))
                 /\ ops'[o].pc = "closing" /\ ops'[o].at = server
                 /\ ops'[o].starting = ops[o].starting /\ ops'[o].keep = ops[o].keep
        <3>1. ops[o] \in OpRecords(Stages \union {"begun"}, Len(servers))
            BY <1>1, <1>3 DEF HttpShape, OpRecords
        <3>2. server \in 0..Len(servers) /\ TRUE \in BOOLEAN  BY <2>0
        <3>3. StopsAs(ops[o], 0, server, TRUE, Len(servers), Stop(ops[o], 0, server, TRUE))
            BY <1>4, <3>1, <3>2, StopType
        <3>4. ops'[o] = Stop(ops[o], 0, server, TRUE)  BY <1>2, <1>3, <1>6
        <3> QED BY <1>6, <3>3, <3>4 DEF StopsAs
    <2>3. /\ DOMAIN ops' = 1..Len(ops) /\ Len(ops) \in Nat
          /\ ops' = [o \in 1..Len(ops) |-> ops'[o]]
          /\ \A o \in 1..Len(ops) : o \notin os => ops'[o] = ops[o]
        BY <1>1, <1>2, <1>6 DEF HttpShape
    <2>4. ops' \in Seq(OpRecords(Stages, Len(servers))) /\ Len(ops') = Len(ops)
        <3>1. \A o \in 1..Len(ops) : ops'[o] \in OpRecords(Stages, Len(servers))
            BY <1>1, <2>2, <2>3 DEF HttpShape
        <3> QED BY <2>3, <3>1, SeqByElements
    <2>5. HttpTypeOK'
        <3>1. server' = server /\ enabled' = enabled  BY <1>2, <1>6
        <3>2. ops' \in Seq(OpRecords(Stages, Len(servers')))  BY <2>1, <2>4
        <3> QED BY <1>1, <1>2, <1>4, <2>1, <3>1, <3>2
                DEF HttpTypeOK, HttpShape, ServerRecords, OpRecords, Stages
    <2>6. RoutesFollow'
        <3>1. PICK o \in os : TRUE  BY <1>2
        <3>2. o \in DOMAIN ops' /\ ops'[o].pc = "closing"  BY <1>1, <1>3, <2>2, <2>3, <3>1 DEF HttpShape
        <3> QED BY <3>2 DEF RoutesFollow
    <2>7. ASSUME ~overlapped' PROVE Alone'
        <3>1. Alone /\ ~overlapped  BY <1>2, <2>7 DEF HttpInv
        <3>2. PICK o \in os : TRUE  BY <1>2
        <3>3. o \in DOMAIN ops /\ ops[o].pc = "closingWs"  BY <1>3, <3>2
        <3>4. o = Len(ops) /\ Len(ops) # 0 /\ LastFits(ops[o])  BY <1>1, <3>1, <3>3, TheLastOne
        <3>5. /\ server' = server /\ wsServer' = 0 /\ enabled' = enabled
              /\ Listening' = {}
            <4>1. Listening' = Listening \ {server}  BY <2>1 DEF Listening
            <4> QED BY <1>2, <1>6, <3>1, <4>1 DEF Alone
        <3>6. Pending' \subseteq {Len(ops')}
            <4> SUFFICES ASSUME NEW i \in 1..Len(ops), i # Len(ops)
                         PROVE  i \notin Pending'
                BY <2>3, <2>4 DEF Pending
            <4>1. i \notin Pending  BY <3>1 DEF Alone
            <4>2. ops[i].pc \in {"ended", "failed"}  BY <1>1, <4>1 DEF Pending, HttpShape
            <4>3. i \notin os  BY <1>3, <4>2
            <4> QED BY <2>3, <4>2, <4>3 DEF Pending
        <3>7. /\ ops'[Len(ops')].pc = "closing" /\ ops'[Len(ops')].at = server
              /\ ~ops'[Len(ops')].starting /\ ops'[Len(ops')].keep \in {{}, {enabled}}
            BY <2>2, <2>4, <3>2, <3>3, <3>4 DEF LastFits
        <3>8. LastFits(ops[Len(ops)])'  BY <1>6, <3>5, <3>7 DEF LastFits
        <3> QED BY <2>4, <3>4, <3>5, <3>6, <3>8 DEF Alone
    <2> QED BY <2>5, <2>6, <2>7 DEF HttpInv
<1> QED BY <1>5, <1>6

\* stop() goes on once a server has ended.
LEMMA ClosedKeeps ==
    ASSUME HttpInv, NEW n \in DOMAIN servers, Closed(n)
    PROVE  HttpInv'
<1> DEFINE os == WaitingFor("closing", n)
<1>1. HttpTypeOK /\ HttpShape /\ RoutesFollow  BY HttpTypeShape DEF HttpInv
<1>2. os # {} /\ Stopped(os, wsServer) /\ UNCHANGED <<routes, wsServer, servers, overlapped>>
    BY DEF Closed
<1>3. os \in SUBSET (DOMAIN ops) /\ \A o \in os : ops[o].pc = "closing"
    BY DEF WaitingFor
<1>4. wsServer \in 0..Len(servers)  BY <1>1 DEF HttpShape
<1> HIDE DEF os
<1>5. /\ server' = 0 /\ enabled' \in BOOLEAN
      /\ ops' \in Seq(OpRecords(Stages, Len(servers))) /\ Len(ops') = Len(ops)
      /\ \A o \in DOMAIN ops \ os : ops'[o] = ops[o]
      /\ \A o \in os :
            os = {o} /\ ~ops[o].starting /\ wsServer = 0 /\ ops[o].keep \in {{}, {enabled}} =>
               /\ enabled' = enabled
               /\ ops'[o].pc = IF enabled THEN "porting" ELSE "ended"
    BY <1>1, <1>2, <1>3, <1>4, StoppedShape
<1>6. HttpTypeOK'
    BY <1>1, <1>2, <1>5 DEF HttpTypeOK, HttpShape, ServerRecords, OpRecords, Stages
<1>7. RoutesFollow'  BY <1>5 DEF RoutesFollow
<1>8. ASSUME ~overlapped' PROVE Alone'
    <2>1. Alone /\ ~overlapped  BY <1>2, <1>8 DEF HttpInv
    <2>2. PICK o \in os : TRUE  BY <1>2
    <2>3. o \in DOMAIN ops /\ ops[o].pc = "closing"  BY <1>3, <2>2
    <2>4. o = Len(ops) /\ Len(ops) # 0 /\ LastFits(ops[o])  BY <1>1, <2>1, <2>3, TheLastOne
    <2>5. os = {o}
        <3> SUFFICES ASSUME NEW i \in os PROVE i = o  BY <2>2
        <3>1. i \in DOMAIN ops /\ ops[i].pc = "closing"  BY <1>3
        <3> QED BY <1>1, <2>1, <2>4, <3>1, TheLastOne
    <2>6. ~ops[o].starting /\ wsServer = 0 /\ ops[o].keep \in {{}, {enabled}} /\ Listening = {}
        BY <2>3, <2>4 DEF LastFits
    <2>7. enabled' = enabled /\ ops'[o].pc = IF enabled THEN "porting" ELSE "ended"
        BY <1>5, <2>2, <2>5, <2>6
    <2>8. Pending' \subseteq {Len(ops')}
        <3> SUFFICES ASSUME NEW i \in 1..Len(ops), i # Len(ops)
                     PROVE  i \notin Pending'
            <4>1. DOMAIN ops' = 1..Len(ops)  BY <1>5, ElementsOfSeq
            <4> QED BY <1>5, <4>1 DEF Pending
        <3>1. i \notin Pending /\ i \notin os  BY <2>1, <2>4, <2>5 DEF Alone
        <3> QED BY <1>1, <1>5, <3>1 DEF Pending, HttpShape
    <2>9. Listening' = {} /\ wsServer' = 0 /\ server' = 0
        BY <1>2, <1>5, <2>6 DEF Listening
    <2>10. LastFits(ops[Len(ops)])'
        <3>1. enabled \in BOOLEAN  BY <1>1 DEF HttpShape
        <3> QED BY <1>5, <2>4, <2>7, <2>9, <3>1 DEF LastFits
    <2> QED BY <1>5, <2>4, <2>8, <2>9, <2>10 DEF Alone
<1> QED BY <1>6, <1>7, <1>8 DEF HttpInv

\* One operation changes, and no server.
LEMMA OneChanged ==
    ASSUME HttpShape, ops \in Seq(OpRecords(Stages, Len(servers))),
           NEW o \in DOMAIN ops, NEW op \in OpRecords(Stages, Len(servers)),
           NEW after, after = [ops EXCEPT ![o] = op]
    PROVE  /\ after \in Seq(OpRecords(Stages, Len(servers))) /\ Len(after) = Len(ops)
           /\ DOMAIN after = 1..Len(ops) /\ after[o] = op
           /\ \A i \in 1..Len(ops) : i # o => after[i] = ops[i]
<1>1. /\ DOMAIN after = 1..Len(ops) /\ after = [i \in 1..Len(ops) |-> after[i]]
      /\ after[o] = op /\ \A i \in 1..Len(ops) : i # o => after[i] = ops[i]
    BY DEF HttpShape
<1>2. \A i \in 1..Len(ops) : after[i] \in OpRecords(Stages, Len(servers))
    BY <1>1 DEF HttpShape
<1> QED BY <1>1, <1>2, SeqByElements DEF HttpShape

\* A new server listens, with the routes of this moment.
LEMMA ListenKeeps ==
    ASSUME HttpInv, NEW o \in DOMAIN ops, Listen(o)
    PROVE  HttpInv'
<1> DEFINE new == [routes |-> routes, listening |-> TRUE, client |-> FALSE]
           op == [ops[o] EXCEPT !.pc = "ended"]
           n == Len(servers) + 1
<1>1. HttpTypeOK /\ HttpShape  BY HttpTypeShape DEF HttpInv
<1>2. /\ ops[o].pc = "porting" /\ servers' = Append(servers, new)
      /\ server' = n /\ wsServer' = n /\ ops' = [ops EXCEPT ![o] = op]
      /\ UNCHANGED <<enabled, routes, overlapped>>
    BY DEF Listen, ListenWith
<1>3. /\ servers \in Seq(ServerRecords) /\ ops \in Seq(OpRecords(Stages, Len(servers)))
      /\ Len(servers) \in Nat
    BY <1>1 DEF HttpTypeOK, HttpShape, ServerRecords, OpRecords, Stages
<1>4. new \in ServerRecords /\ new.routes = routes /\ new.listening
    BY <1>1 DEF HttpShape, ServerRecords
<1>5. ops[o] \in OpRecords(Stages, Len(servers))  BY <1>1 DEF HttpShape
<1>6. op \in OpRecords(Stages, Len(servers)) /\ op.pc = "ended"
    BY <1>5 DEF OpRecords, Stages
<1> HIDE DEF new, op
<1>7. /\ servers' \in Seq(ServerRecords) /\ Len(servers') = n /\ servers'[n] = new
      /\ DOMAIN servers' = 1..n
      /\ \A m \in 1..Len(servers) : servers'[m] = servers[m]
    BY <1>2, <1>3, <1>4
<1>8. /\ ops' \in Seq(OpRecords(Stages, Len(servers))) /\ Len(ops') = Len(ops)
      /\ DOMAIN ops' = 1..Len(ops) /\ ops'[o] = op
      /\ \A i \in 1..Len(ops) : i # o => ops'[i] = ops[i]
    BY <1>1, <1>2, <1>3, <1>6, OneChanged
<1>9. ops' \in Seq(OpRecords(Stages, n))
    <2>1. OpRecords(Stages, Len(servers)) \subseteq OpRecords(Stages, n)
        <3>1. 0..Len(servers) \subseteq 0..n  BY <1>3
        <3> QED BY <3>1 DEF OpRecords
    <2> QED BY <1>8, <2>1
<1>10. server' \in 0..n /\ wsServer' \in 0..n  BY <1>2, <1>3
<1> HIDE DEF n
<1>11. HttpTypeOK'
    <2>1. ops' \in Seq(OpRecords(Stages, Len(servers'))) /\ server' \in 0..Len(servers')
          /\ wsServer' \in 0..Len(servers')
        BY <1>7, <1>9, <1>10
    <2> QED BY <1>1, <1>2, <1>7, <2>1
            DEF HttpTypeOK, HttpShape, ServerRecords, OpRecords, Stages
<1>12. RoutesFollow'  BY <1>2, <1>4, <1>7 DEF RoutesFollow
<1>13. ASSUME ~overlapped' PROVE Alone'
    <2>1. Alone /\ ~overlapped  BY <1>2, <1>13 DEF HttpInv
    <2>2. o = Len(ops) /\ Len(ops) # 0 /\ LastFits(ops[o])  BY <1>1, <1>2, <2>1, TheLastOne
    <2>3. server = 0 /\ wsServer = 0 /\ enabled  BY <1>2, <2>2 DEF LastFits
    <2>4. Listening = {}  BY <1>1, <2>1, <2>3 DEF Alone, Listening, HttpShape
    <2>5. Listening' = {n}
        <3>1. \A m \in 1..Len(servers) : ~servers[m].listening
            BY <1>1, <2>4 DEF Listening, HttpShape
        <3>2. 1..n = 1..Len(servers) \union {n}  BY <1>3 DEF n
        <3>3. servers'[n].listening  BY <1>4, <1>7
        <3>4. \A m \in 1..Len(servers) : ~servers'[m].listening  BY <1>7, <3>1
        <3>5. Listening' = {m \in 1..n : servers'[m].listening}  BY <1>7 DEF Listening
        <3> QED BY <3>2, <3>3, <3>4, <3>5
    <2>6. Pending' \subseteq {Len(ops')}
        <3> SUFFICES ASSUME NEW i \in 1..Len(ops), i # Len(ops)
                     PROVE  i \notin Pending'
            BY <1>8 DEF Pending
        <3>1. i \notin Pending  BY <2>1 DEF Alone
        <3> QED BY <1>1, <1>8, <2>2, <3>1 DEF Pending, HttpShape
    <2>7. n # 0  BY <1>3 DEF n
    <2>8. LastFits(ops[Len(ops)])'
        <3>1. ops'[Len(ops')].pc = "ended"  BY <1>6, <1>8, <2>2
        <3> QED BY <1>2, <2>3, <2>5, <2>7, <3>1 DEF LastFits
    <2> QED BY <1>2, <1>8, <2>2, <2>5, <2>6, <2>8 DEF Alone
<1> QED BY <1>11, <1>12, <1>13 DEF HttpInv

\* An operation fails, or the request it runs for ends: where it waits, and
\* whether it is over, the others do not see.
LEMMA OneOpKeeps ==
    ASSUME HttpInv, NEW o \in DOMAIN ops, NEW op \in OpRecords(Stages, Len(servers)),
           \/ ops[o].pc = "porting" /\ op.pc = "failed"
           \/ /\ op.pc = ops[o].pc /\ op.at = ops[o].at
              /\ op.starting = ops[o].starting /\ op.keep = ops[o].keep,
           ops' = [ops EXCEPT ![o] = op],
           UNCHANGED <<enabled, routes, server, wsServer, servers, overlapped>>
    PROVE  HttpInv'
<1>1. HttpTypeOK /\ HttpShape  BY HttpTypeShape DEF HttpInv
<1>2. ops \in Seq(OpRecords(Stages, Len(servers)))
    BY <1>1 DEF HttpTypeOK, OpRecords, Stages
<1>3. /\ ops' \in Seq(OpRecords(Stages, Len(servers))) /\ Len(ops') = Len(ops)
      /\ DOMAIN ops' = 1..Len(ops) /\ ops'[o] = op
      /\ \A i \in 1..Len(ops) : i # o => ops'[i] = ops[i]
    BY <1>1, <1>2, OneChanged
<1>4. HttpTypeOK'
    BY <1>1, <1>3 DEF HttpTypeOK, HttpShape, ServerRecords, OpRecords, Stages
<1>5. RoutesFollow'
    BY <1>1, <1>3 DEF HttpInv, RoutesFollow, HttpShape
<1>6. ASSUME ~overlapped' PROVE Alone'
    <2>1. Alone  BY <1>6 DEF HttpInv
    <2>2. Listening' = Listening  BY DEF Listening
    <2>3. Pending' \subseteq {Len(ops')}
        <3> SUFFICES ASSUME NEW i \in 1..Len(ops), i # Len(ops)
                     PROVE  i \notin Pending'
            BY <1>3 DEF Pending
        <3>1. i \notin Pending  BY <2>1 DEF Alone
        <3>2. ops[i].pc \in {"ended", "failed"}  BY <1>1, <3>1 DEF Pending, HttpShape
        <3> QED BY <1>3, <3>2 DEF Pending
    <2>4. Len(ops) # 0 /\ LastFits(ops[Len(ops)])  BY <1>1, <2>1 DEF Alone, HttpShape
    <2>5. LastFits(ops[Len(ops)])'
        <3>1. CASE o # Len(ops)
            <4>1. ops'[Len(ops')] = ops[Len(ops)]  BY <1>1, <1>3, <2>4, <3>1 DEF HttpShape
            <4> QED BY <2>2, <2>4, <4>1 DEF LastFits
        <3>2. CASE o = Len(ops) /\ ops[o].pc = "porting" /\ op.pc = "failed"
            <4>1. ops'[Len(ops')].pc = "failed"  BY <1>3, <3>2
            <4> QED BY <2>2, <2>4, <3>2, <4>1 DEF LastFits
        <3>3. CASE o = Len(ops) /\ op.pc = ops[o].pc /\ op.at = ops[o].at
                   /\ op.starting = ops[o].starting /\ op.keep = ops[o].keep
            <4>1. ops'[Len(ops')] = op  BY <1>3, <3>3
            <4> QED BY <2>2, <2>4, <3>3, <4>1 DEF LastFits
        <3> QED BY <3>1, <3>2, <3>3
    <2> QED BY <1>3, <2>1, <2>2, <2>3, <2>4, <2>5 DEF Alone
<1> QED BY <1>4, <1>5, <1>6 DEF HttpInv

\* A WebSocket client comes or goes.
LEMMA ClientKeeps ==
    ASSUME HttpInv, NEW n \in DOMAIN servers, NEW connected \in BOOLEAN, SetClient(n, connected)
    PROVE  HttpInv'
<1>1. HttpTypeOK /\ HttpShape  BY HttpTypeShape DEF HttpInv
<1> DEFINE new == [servers[n] EXCEPT !.client = connected]
<1>2. /\ servers' = [servers EXCEPT ![n] = new]
      /\ UNCHANGED <<enabled, routes, server, wsServer, ops, overlapped>>
    BY DEF SetClient
<1>3. new \in ServerRecords /\ new.routes = servers[n].routes
      /\ new.listening = servers[n].listening
    BY <1>1 DEF HttpShape, ServerRecords
<1> HIDE DEF new
<1>4. /\ DOMAIN servers' = 1..Len(servers) /\ servers' = [m \in 1..Len(servers) |-> servers'[m]]
      /\ \A m \in 1..Len(servers) : /\ servers'[m] \in ServerRecords
                                    /\ servers'[m].routes = servers[m].routes
                                    /\ servers'[m].listening = servers[m].listening
    BY <1>1, <1>2, <1>3 DEF HttpShape
<1>5. servers' \in Seq(ServerRecords) /\ Len(servers') = Len(servers)
    BY <1>1, <1>4, SeqByElements DEF HttpShape
<1>6. HttpTypeOK'
    BY <1>1, <1>2, <1>5 DEF HttpTypeOK, HttpShape, ServerRecords, OpRecords, Stages
<1>7. Listening' = Listening  BY <1>1, <1>4 DEF Listening, HttpShape
<1>8. RoutesFollow'
    BY <1>1, <1>2, <1>4 DEF HttpInv, RoutesFollow, HttpShape
<1>9. Pending' = Pending  BY <1>2 DEF Pending
<1>10. ASSUME ~overlapped' PROVE Alone'
    <2>1. Alone  BY <1>2, <1>10 DEF HttpInv
    <2> QED BY <1>2, <1>7, <1>9, <2>1 DEF Alone, LastFits
<1> QED BY <1>6, <1>8, <1>10 DEF HttpInv

\* Every step of the API and of its clients.
LEMMA HttpInductive == HttpInv /\ [HttpNext]_httpVars => HttpInv'
<1> SUFFICES ASSUME HttpInv, [HttpNext]_httpVars PROVE HttpInv'  OBVIOUS
<1>1. HttpTypeOK /\ HttpShape  BY HttpTypeShape DEF HttpInv
<1>2. ASSUME NEW keep \in SUBSET BOOLEAN, NEW via \in 0..Len(servers), NEW starting \in BOOLEAN
      PROVE  /\ Op(keep, via, starting) \in OpRecords({"begun"}, Len(servers))
             /\ Op(keep, via, starting).keep = keep
             /\ Op(keep, via, starting).starting = starting
    <2>1. 0 \in 0..Len(servers)  BY <1>1 DEF HttpShape
    <2> QED BY <2>1 DEF Op, OpRecords
<1>3. {} \in SUBSET BOOLEAN /\ {enabled} \in SUBSET BOOLEAN /\ 0 \in 0..Len(servers)
      /\ enabled \in BOOLEAN /\ Listening \subseteq 0..Len(servers)
    BY <1>1 DEF HttpShape, Listening
<1>4. CASE startApi
    <2>1. ~overlapped => server = 0 /\ wsServer = 0
        <3>1. Len(ops) = 0  BY <1>4 DEF startApi
        <3> QED BY <3>1 DEF HttpInv, Alone
    <2> QED BY <1>1, <1>2, <1>3, <1>4, <2>1, BeginKeeps DEF startApi, HttpShape
<1>5. ASSUME NEW via \in {0} \union Listening, restart(via) PROVE HttpInv'
    BY <1>1, <1>2, <1>3, <1>5, BeginKeeps DEF restart, HttpShape
<1>6. ASSUME NEW via \in {0} \union Listening, NEW on \in BOOLEAN, setApiConfig(on, via)
      PROVE  HttpInv'
    BY <1>1, <1>2, <1>3, <1>6, BeginKeeps DEF setApiConfig, HttpShape
<1>7. ASSUME NEW changed \in SUBSET HttpRoutes, ChangeRoutes(changed) PROVE HttpInv'
    <2>1. CASE server = 0
        <3>1. /\ routes' = changed
              /\ UNCHANGED <<enabled, server, wsServer, servers, ops, overlapped>>
            BY <1>7, <2>1 DEF ChangeRoutes
        <3>2. HttpTypeOK'
            BY <1>1, <3>1 DEF HttpTypeOK
        <3>3. RoutesFollow'  BY <2>1, <3>1 DEF RoutesFollow
        <3>4. Alone' <=> Alone  BY <3>1 DEF Alone, LastFits, Pending, Listening
        <3> QED BY <3>1, <3>2, <3>3, <3>4 DEF HttpInv
    <2>2. CASE server # 0
        <3>1. routes' = changed /\ BeginOp(Op({enabled}, 0, FALSE), enabled)
            BY <1>7, <2>2 DEF ChangeRoutes
        <3> QED BY <1>2, <1>3, <2>2, <3>1, BeginKeeps
    <2> QED BY <2>1, <2>2
<1>8. ASSUME NEW r \in HttpRoutes, registerRoute(r) \/ disposeRoute(r) PROVE HttpInv'
    <2>1. routes \union {r} \in SUBSET HttpRoutes /\ routes \ {r} \in SUBSET HttpRoutes
        BY <1>1 DEF HttpShape
    <2> QED BY <1>7, <1>8, <2>1 DEF registerRoute, disposeRoute
<1>9. ASSUME NEW n \in DOMAIN servers, WsClosed(n) \/ Closed(n) \/ WsConnects(n) \/ WsLeaves(n)
      PROVE  HttpInv'
    BY <1>9, WsClosedKeeps, ClosedKeeps, ClientKeeps DEF WsConnects, WsLeaves
<1>10. ASSUME NEW o \in DOMAIN ops, ListenFails(o) \/ RequestAborted(o) PROVE HttpInv'
    <2>1. ops[o] \in OpRecords(Stages, Len(servers))  BY <1>1 DEF HttpShape
    <2>2. CASE ListenFails(o)
        <3> DEFINE op == [ops[o] EXCEPT !.pc = "failed"]
        <3>1. op \in OpRecords(Stages, Len(servers)) /\ op.pc = "failed"
            BY <2>1 DEF OpRecords, Stages
        <3>2. ops' = [ops EXCEPT ![o] = op] /\ ops[o].pc = "porting"  BY <2>2 DEF ListenFails
        <3> HIDE DEF op
        <3> QED BY <2>2, <3>1, <3>2, OneOpKeeps DEF ListenFails
    <2>3. CASE RequestAborted(o)
        <3> DEFINE op == [ops[o] EXCEPT !.via = 0]
        <3>1. /\ op \in OpRecords(Stages, Len(servers))
              /\ op.pc = ops[o].pc /\ op.at = ops[o].at
              /\ op.starting = ops[o].starting /\ op.keep = ops[o].keep
            BY <1>3, <2>1 DEF OpRecords
        <3>2. ops' = [ops EXCEPT ![o] = op]  BY <2>3 DEF RequestAborted
        <3> HIDE DEF op
        <3> QED BY <2>3, <3>1, <3>2, OneOpKeeps DEF RequestAborted
    <2> QED BY <1>10, <2>2, <2>3
<1>11. CASE UNCHANGED httpVars
    <2>1. /\ HttpTypeOK' <=> HttpTypeOK
          /\ RoutesFollow' <=> RoutesFollow
        BY <1>11 DEF httpVars, HttpTypeOK, RoutesFollow
    <2>2. Alone' <=> Alone  BY <1>11 DEF httpVars, Alone, LastFits, Pending, Listening
    <2> QED BY <1>11, <2>1, <2>2 DEF HttpInv, httpVars
<1> QED BY <1>4, <1>5, <1>6, <1>8, <1>9, <1>10, <1>11, ListenKeeps DEF HttpNext

LEMMA HttpImplied == HttpInv => ServesAsAsked
<1> SUFFICES ASSUME HttpInv PROVE OneListener /\ ServesItsRoutes  BY DEF ServesAsAsked
<1>1. HttpShape /\ RoutesFollow  BY HttpTypeShape DEF HttpInv
<1>2. ServesItsRoutes
    BY <1>1 DEF ServesItsRoutes, RoutesFollow, Pending
<1>3. ASSUME ~overlapped
      PROVE  /\ Listening \subseteq {server}
             /\ ops # <<>> /\ Pending = {} =>
                   ((Listening # {}) <=> (enabled /\ ops[Len(ops)].pc # "failed"))
    <2>1. Alone  BY <1>3 DEF HttpInv
    <2>2. ASSUME ops # <<>>, Pending = {}
          PROVE  (Listening # {}) <=> (enabled /\ ops[Len(ops)].pc # "failed")
        <3>1. Len(ops) # 0
            <4>1. ops \in Seq(OpRecords(Stages, Len(servers)))
                BY DEF HttpInv, HttpTypeOK, OpRecords, Stages
            <4> QED BY <2>2, <4>1
        <3>2. LastFits(ops[Len(ops)]) /\ ops[Len(ops)].pc \in {"ended", "failed"}
            BY <1>1, <2>1, <2>2, <3>1 DEF Alone, Pending, HttpShape
        <3>3. (server # 0) <=> (Listening # {})
            BY <1>1, <2>1, <3>2 DEF Alone, LastFits, Listening, HttpShape
        <3> QED BY <3>2, <3>3 DEF LastFits
    <2> QED BY <2>1, <2>2 DEF Alone
<1> QED BY <1>2, <1>3 DEF OneListener

\* The API has the one listener it should have while operations do not overlap,
\* and answers with the routes that are registered however they do.
THEOREM ApiServesAsAsked == HttpSpec => []ServesAsAsked
<1>1. HttpSpec => []HttpInv  BY HttpInitially, HttpInductive, PTL DEF HttpSpec
<1> QED BY <1>1, HttpImplied, PTL

\* Every operation waits for servers that there are, and routes are of those there may be.
THEOREM HttpTypesHold == HttpSpec => []HttpTypeOK
<1>1. HttpSpec => []HttpInv  BY HttpInitially, HttpInductive, PTL DEF HttpSpec
<1>2. HttpInv => HttpTypeOK  BY DEF HttpInv
<1> QED BY <1>1, <1>2, PTL

-----------------------------------------------------------------------------
(* The exam editor.                                                        *)

JobRecords(n) ==
    [kind : {"none", "save", "saveAs", "open", "startup", "import"},
     stage : {"dialog", "writing", "reading", "loading", "over"},
     path : Paths \union {NoFile}, content : 0..n \union {TornExam},
     then : {"nothing", "open", "close"}]

\* What is written has a path and is a configuration; what is opened has a path.
JobFits(job) ==
    /\ job.stage = "writing" => job.path \in Paths
    /\ job.stage = "writing" \/ job.kind = "saveAs" => job.content # TornExam
    /\ job.stage \in {"reading", "loading"} =>
          job.kind # "saveAs" /\ (job.kind # "import" => job.path \in Paths)

JobsFit ==
    editorJobs \in Seq(JobRecords(last)) /\ \A o \in DOMAIN editorJobs : JobFits(editorJobs[o])

EditorHas ==
    /\ doc \in 0..last /\ last \in ExamContents /\ session \in 0..last \union {NoFile}
    /\ path \in Paths \union {NoFile} /\ modified \in BOOLEAN
    /\ isNew \in BOOLEAN /\ (isNew <=> path = NoFile)
    /\ files \in [Paths -> 0..last \union {NoFile, TornExam}]
    /\ closing \in {"idle", "asking", "saving", "closed"}
    /\ work \in BOOLEAN /\ misled \in BOOLEAN /\ consented \in BOOLEAN

HistoryHolds ==
    /\ entries \in Seq(0..last) /\ pointer \in DOMAIN entries
    /\ debounced \in BOOLEAN /\ unrecorded \in BOOLEAN
    /\ HistoryIsInStep

\* Edits that no file has are marked, unless a late answer took the mark away.
WorkIsMarked == work /\ ~misled => modified

MarksHold == UnmodifiedIsSaved /\ ClosesWithoutLoss /\ WorkIsMarked

EditorInv == EditorHas /\ JobsFit /\ HistoryHolds /\ MarksHold

-----------------------------------------------------------------------------
(* The jobs and the history.                                               *)

LEMMA MoreJobs ==
    ASSUME NEW n \in Nat, NEW m \in Nat, n <= m
    PROVE  JobRecords(n) \subseteq JobRecords(m) /\ 0..n \subseteq 0..m
<1>1. 0..n \subseteq 0..m  OBVIOUS
<1> QED BY <1>1 DEF JobRecords

\* A job more.
LEMMA JobBegins ==
    ASSUME JobsFit, NEW job \in JobRecords(last), JobFits(job), last' = last,
           editorJobs' = Append(editorJobs, job)
    PROVE  JobsFit'
<1>1. editorJobs \in Seq(JobRecords(last))  BY DEF JobsFit
<1>2. /\ editorJobs' \in Seq(JobRecords(last)) /\ Len(editorJobs) \in Nat
      /\ DOMAIN editorJobs' = 1..(Len(editorJobs) + 1) /\ DOMAIN editorJobs = 1..Len(editorJobs)
      /\ editorJobs'[Len(editorJobs) + 1] = job
      /\ \A o \in 1..Len(editorJobs) : editorJobs'[o] = editorJobs[o]
    BY <1>1
<1>3. \A o \in DOMAIN editorJobs' : JobFits(editorJobs'[o])
    <2> TAKE o \in DOMAIN editorJobs'
    <2>1. CASE o = Len(editorJobs) + 1  BY <1>2, <2>1
    <2>2. CASE o \in DOMAIN editorJobs  BY <1>2, <2>2 DEF JobsFit
    <2> QED BY <1>2, <2>1, <2>2
<1> QED BY <1>2, <1>3 DEF JobsFit, JobFits

\* A job goes on.
LEMMA JobGoesOn ==
    ASSUME JobsFit, NEW o \in DOMAIN editorJobs, NEW job \in JobRecords(last), JobFits(job),
           last' = last, editorJobs' = [editorJobs EXCEPT ![o] = job]
    PROVE  JobsFit'
<1>1. editorJobs \in Seq(JobRecords(last))  BY DEF JobsFit
<1>2. editorJobs' \in Seq(JobRecords(last)) /\ DOMAIN editorJobs' = DOMAIN editorJobs
    BY <1>1
<1>3. \A i \in DOMAIN editorJobs : editorJobs'[i] = IF i = o THEN job ELSE editorJobs[i]
    BY <1>1
<1>4. \A i \in DOMAIN editorJobs' : JobFits(editorJobs'[i])  BY <1>2, <1>3 DEF JobsFit
<1> QED BY <1>2, <1>4 DEF JobsFit, JobFits

\* The jobs that wait are as before.
LEMMA JobsWait ==
    ASSUME JobsFit, last \in Nat, last' \in Nat, last <= last', UNCHANGED editorJobs
    PROVE  JobsFit'
<1>1. JobRecords(last) \subseteq JobRecords(last')  BY MoreJobs
<1>2. editorJobs \in Seq(JobRecords(last'))  BY <1>1 DEF JobsFit
<1> QED BY <1>2 DEF JobsFit, JobFits, JobRecords

\* The jobs there are, and those that can begin.
LEMMA JobTypes ==
    ASSUME EditorAssumption, EditorHas, NEW then \in {"nothing", "open", "close"}
    PROVE  /\ OpenJob \in JobRecords(last) /\ JobFits(OpenJob)
           /\ JobOver \in JobRecords(last) /\ JobFits(JobOver)
           /\ SaveJob(then) \in JobRecords(last) /\ JobFits(SaveJob(then))
           /\ EditorJob("saveAs", "dialog", NoFile, doc, then) \in JobRecords(last)
           /\ JobFits(EditorJob("saveAs", "dialog", NoFile, doc, then))
           /\ EditorJob("import", "reading", NoFile, 0, "nothing") \in JobRecords(last)
           /\ JobFits(EditorJob("import", "reading", NoFile, 0, "nothing"))
<1>1. 0 \in 0..last /\ doc \in 0..last /\ doc # TornExam /\ 0 # TornExam
    BY DEF EditorHas, ExamContents, EditorAssumption
<1>2. /\ OpenJob \in JobRecords(last) /\ JobFits(OpenJob)
      /\ JobOver \in JobRecords(last) /\ JobFits(JobOver)
    BY <1>1 DEF OpenJob, JobOver, EditorJob, JobRecords, JobFits
<1>3. /\ EditorJob("saveAs", "dialog", NoFile, doc, then) \in JobRecords(last)
      /\ JobFits(EditorJob("saveAs", "dialog", NoFile, doc, then))
    BY <1>1 DEF EditorJob, JobRecords, JobFits
<1>4. /\ EditorJob("import", "reading", NoFile, 0, "nothing") \in JobRecords(last)
      /\ JobFits(EditorJob("import", "reading", NoFile, 0, "nothing"))
    BY <1>1 DEF EditorJob, JobRecords, JobFits
<1>5. CASE isNew
    BY <1>2, <1>3, <1>4, <1>5 DEF SaveJob
<1>6. CASE ~isNew
    <2>1. path \in Paths  BY <1>6 DEF EditorHas
    <2>2. /\ EditorJob("save", "writing", path, doc, then) \in JobRecords(last)
          /\ JobFits(EditorJob("save", "writing", path, doc, then))
        BY <1>1, <2>1 DEF EditorJob, JobRecords, JobFits
    <2> QED BY <1>2, <1>3, <1>4, <1>6, <2>2 DEF SaveJob
<1> QED BY <1>5, <1>6 DEF EditorHas

\* A recorded configuration is the entry that the history points to.
LEMMA PushRecords ==
    ASSUME NEW S, NEW R, S \subseteq R, entries \in Seq(S), pointer \in DOMAIN entries,
           NEW c \in R, Push(c)
    PROVE  /\ entries' \in Seq(R) /\ pointer' \in DOMAIN entries' /\ entries'[pointer'] = c
           /\ unrecorded' = FALSE
<1> DEFINE kept == SubSeq(entries, 1, pointer)
<1>1. entries \in Seq(R) /\ pointer \in 1..Len(entries) /\ Len(entries) \in Nat  OBVIOUS
<1>2. kept \in Seq(R) /\ Len(kept) = pointer  BY <1>1
<1>3. entries' = Append(kept, c) /\ pointer' = pointer + 1 /\ unrecorded' = FALSE  BY DEF Push
<1> HIDE DEF kept
<1>4. /\ entries' \in Seq(R) /\ DOMAIN entries' = 1..(pointer + 1)
      /\ entries'[pointer + 1] = c
    BY <1>2, <1>3
<1>5. pointer + 1 \in 1..(pointer + 1)  BY <1>1
<1> QED BY <1>3, <1>4, <1>5

\* A history of one entry.
LEMMA NewHistoryRecords ==
    ASSUME NEW c \in 0..last, last' = last, doc' = c, NewHistory(c)
    PROVE  HistoryHolds'
<1>1. entries' = <<c>> /\ pointer' = 1 /\ debounced' = FALSE /\ unrecorded' = FALSE
    BY DEF NewHistory
<1>2. entries' \in Seq(0..last) /\ DOMAIN entries' = 1..1 /\ entries'[1] = c  BY <1>1
<1>3. entries' \in Seq(0..last')  BY <1>2
<1>4. /\ pointer' \in DOMAIN entries' /\ entries'[pointer'] = doc'
      /\ debounced' \in BOOLEAN /\ unrecorded' \in BOOLEAN
    <2> 1 \in 1..1  OBVIOUS
    <2> QED BY <1>1, <1>2
<1> QED BY <1>3, <1>4 DEF HistoryHolds, HistoryIsInStep

\* What is pending is recorded.
LEMMA FlushRecords ==
    ASSUME EditorHas, HistoryHolds, UNCHANGED <<doc, last>>, Flush
    PROVE  HistoryHolds'
<1>1. CASE debounced
    <2>1. Push(doc) /\ debounced' = FALSE  BY <1>1 DEF Flush
    <2>2. /\ entries' \in Seq(0..last) /\ pointer' \in DOMAIN entries' /\ entries'[pointer'] = doc
          /\ unrecorded' = FALSE
        BY <2>1, PushRecords DEF HistoryHolds, EditorHas
    <2> QED BY <2>1, <2>2 DEF HistoryHolds, HistoryIsInStep
<1>2. CASE ~debounced
    BY <1>2 DEF Flush, editorHistory, HistoryHolds, HistoryIsInStep
<1> QED BY <1>1, <1>2 DEF HistoryHolds

\* Nothing happens to the history or to the configuration.
LEMMA HistoryStays ==
    ASSUME HistoryHolds, UNCHANGED <<doc, last, editorHistory>>
    PROVE  HistoryHolds'
BY DEF editorHistory, HistoryHolds, HistoryIsInStep

-----------------------------------------------------------------------------
(* Initially, and every step.                                               *)

LEMMA EditorInitially == EditorAssumption /\ EditorInit => EditorInv
<1> SUFFICES ASSUME EditorAssumption, EditorInit PROVE EditorInv  OBVIOUS
<1>1. EditorHas
    <2>1. last = 1 /\ last \in ExamContents /\ doc \in 0..last /\ 1 \in 0..last
        BY DEF EditorAssumption, EditorInit, ExamContents
    <2>2. files \in [Paths -> 0..last \union {NoFile, TornExam}]
        BY <2>1 DEF EditorInit
    <2>3. session \in 0..last \union {NoFile}  BY <2>1 DEF EditorInit
    <2> QED BY <2>1, <2>2, <2>3 DEF EditorInit, EditorHas
<1>2. JobsFit
    <2> DEFINE job == EditorJob("startup", "reading", FirstPath, 0, "nothing")
    <2>1. job \in JobRecords(last) /\ JobFits(job)
        BY DEF EditorAssumption, EditorInit, EditorJob, JobRecords, JobFits
    <2> HIDE DEF job
    <2>2. CASE editorJobs = <<>>  BY <2>2 DEF JobsFit
    <2>3. CASE editorJobs = <<job>>
        BY <2>1, <2>3 DEF JobsFit
    <2> QED BY <2>2, <2>3 DEF EditorInit, job
<1>3. HistoryHolds
    <2>1. entries = <<0>> /\ pointer = 1 /\ doc = 0 /\ last = 1
          /\ debounced = FALSE /\ unrecorded = FALSE
        BY DEF EditorInit
    <2>2. 0 \in 0..last  BY <2>1
    <2>3. entries \in Seq(0..last)  BY <2>1, <2>2
    <2>4. pointer \in DOMAIN entries /\ entries[pointer] = doc  BY <2>1
    <2> QED BY <2>1, <2>3, <2>4 DEF HistoryHolds, HistoryIsInStep
<1>4. MarksHold
    BY DEF EditorInit, MarksHold, UnmodifiedIsSaved, ClosesWithoutLoss, WorkIsMarked
<1> QED BY <1>1, <1>2, <1>3, <1>4 DEF EditorInv

\* What an edit does apart from the history.
LEMMA EditKeeps ==
    ASSUME EditorAssumption, EditorInv, Edited
    PROVE  /\ EditorHas' /\ JobsFit' /\ MarksHold'
           /\ 0..last \subseteq 0..last' /\ last + 1 \in 0..last' /\ doc' = last + 1
<1>1. EditorHas /\ JobsFit  BY DEF EditorInv
<1>2. /\ last < MaxContent /\ last' = last + 1 /\ doc' = last + 1 /\ session' = last + 1
      /\ modified' = TRUE /\ misled' = FALSE /\ work' = TRUE /\ closing \in {"idle", "saving"}
      /\ UNCHANGED <<path, isNew, files, editorJobs, closing, consented>>
    BY DEF Edited, UserActs, SetConfig, MarkModified, editorFile
<1>3. last \in Nat /\ last' \in Nat /\ last <= last' /\ last' \in ExamContents
    BY <1>1, <1>2 DEF EditorHas, ExamContents, EditorAssumption
<1>4. 0..last \subseteq 0..last' /\ last + 1 \in 0..last'  BY <1>2, <1>3
<1>5. files' \in [Paths -> 0..last' \union {NoFile, TornExam}]
    BY <1>1, <1>2, <1>4 DEF EditorHas
<1>6. EditorHas'  BY <1>1, <1>2, <1>3, <1>4, <1>5 DEF EditorHas
<1>7. JobsFit'  BY <1>1, <1>2, <1>3, JobsWait
<1>8. MarksHold'
    BY <1>2 DEF MarksHold, UnmodifiedIsSaved, ClosesWithoutLoss, WorkIsMarked
<1> QED BY <1>2, <1>4, <1>6, <1>7, <1>8

LEMMA EditsKeep ==
    ASSUME EditorAssumption, EditorInv, updateExam \/ addExam \/ deleteExam
    PROVE  EditorInv'
<1>1. Edited  BY DEF updateExam, addExam, deleteExam
<1>2. /\ EditorHas' /\ JobsFit' /\ MarksHold'
      /\ 0..last \subseteq 0..last' /\ last + 1 \in 0..last' /\ doc' = last + 1
    BY <1>1, EditKeeps
<1>3. /\ entries \in Seq(0..last) /\ pointer \in DOMAIN entries
      /\ debounced \in BOOLEAN /\ unrecorded \in BOOLEAN
    BY DEF EditorInv, HistoryHolds
<1>4. entries \in Seq(0..last') /\ pointer \in 1..Len(entries) /\ Len(entries) \in Nat
    <2>1. entries \in Seq(0..last')
        <3> DEFINE S == 0..last
                   R == 0..last'
        <3>1. S \subseteq R /\ entries \in Seq(S)  BY <1>2, <1>3
        <3> HIDE DEF S, R
        <3>2. entries \in Seq(R)  BY <3>1
        <3> QED BY <3>2 DEF R
    <2>2. pointer \in 1..Len(entries) /\ Len(entries) \in Nat  BY <1>3
    <2> QED BY <2>1, <2>2
<1>5. HistoryHolds'
    <2>1. CASE updateExam
        <3>1. entries' = SubSeq(entries, 1, pointer) /\ debounced' = TRUE
              /\ UNCHANGED <<pointer, unrecorded>>
            BY <2>1 DEF updateExam
        <3>2. entries' \in Seq(0..last') /\ DOMAIN entries' = 1..pointer
            <4> DEFINE R == 0..last'
            <4>1. entries \in Seq(R)  BY <1>4
            <4> HIDE DEF R
            <4>2. entries' \in Seq(R) /\ DOMAIN entries' = 1..pointer  BY <1>4, <3>1, <4>1
            <4> QED BY <4>2 DEF R
        <3>3. pointer' \in DOMAIN entries'  BY <1>4, <3>1, <3>2
        <3> QED BY <1>3, <3>1, <3>2, <3>3 DEF HistoryHolds, HistoryIsInStep
    <2>2. CASE addExam
        BY <1>3, <1>4, <2>2 DEF addExam, HistoryHolds, HistoryIsInStep
    <2>3. CASE deleteExam
        <3>1. Push(last + 1) /\ debounced' = debounced  BY <2>3 DEF deleteExam
        <3>2. /\ entries' \in Seq(0..last') /\ pointer' \in DOMAIN entries'
              /\ entries'[pointer'] = last + 1 /\ unrecorded' = FALSE
            BY <1>2, <1>3, <3>1, PushRecords
        <3> QED BY <1>2, <1>3, <3>1, <3>2 DEF HistoryHolds, HistoryIsInStep
    <2> QED BY <2>1, <2>2, <2>3
<1> QED BY <1>2, <1>5 DEF EditorInv

\* The history's timer and its steps back and forth.
LEMMA HistorySteps ==
    ASSUME EditorAssumption, EditorInv, HistoryTimer \/ \E i \in DOMAIN entries : goto(i)
    PROVE  EditorInv'
<1>1. EditorHas /\ JobsFit /\ HistoryHolds /\ MarksHold  BY DEF EditorInv
<1>2. CASE HistoryTimer
    <2>1. /\ Flush
          /\ UNCHANGED <<doc, session, last, path, isNew, modified, files, editorJobs, closing,
                         work, misled, consented>>
        BY <1>2 DEF HistoryTimer, editorDoc, editorFile
    <2>2. EditorHas' /\ JobsFit' /\ MarksHold'
        BY <1>1, <2>1 DEF EditorHas, JobsFit, JobFits, JobRecords, MarksHold, UnmodifiedIsSaved,
                          ClosesWithoutLoss, WorkIsMarked
    <2>3. HistoryHolds'  BY <1>1, <2>1, FlushRecords
    <2> QED BY <2>2, <2>3 DEF EditorInv
<1>3. ASSUME NEW i \in DOMAIN entries, goto(i) PROVE EditorInv'
    <2>1. /\ closing \in {"idle", "saving"} /\ doc' = entries[i] /\ session' = entries[i]
          /\ pointer' = i /\ unrecorded' = FALSE
          /\ IF isNew THEN UNCHANGED <<modified, misled>> ELSE modified' = TRUE /\ misled' = FALSE
          /\ work' = (work \/ (~isNew /\ entries[i] # doc))
          /\ UNCHANGED <<last, path, isNew, files, entries, debounced, editorJobs, closing, consented>>
        BY <1>3 DEF goto, UserActs, SetConfig, Listener, MarkModified, editorFile
    <2>2. entries[i] \in 0..last
        <3> DEFINE S == 0..last
        <3>1. entries \in Seq(S)  BY <1>1 DEF HistoryHolds
        <3> HIDE DEF S
        <3>2. entries[i] \in S  BY <3>1
        <3> QED BY <3>2 DEF S
    <2>3. work' \in BOOLEAN /\ modified' \in BOOLEAN /\ misled' \in BOOLEAN
        BY <1>1, <2>1 DEF EditorHas
    <2>4. EditorHas'  BY <1>1, <2>1, <2>2, <2>3 DEF EditorHas
    <2>5. JobsFit'  BY <1>1, <2>1 DEF JobsFit, JobFits, JobRecords
    <2>6. HistoryHolds'  BY <1>1, <2>1 DEF HistoryHolds, HistoryIsInStep
    <2>7. MarksHold'
        BY <1>1, <2>1, <2>3
           DEF EditorHas, MarksHold, UnmodifiedIsSaved, ClosesWithoutLoss, WorkIsMarked
    <2> QED BY <2>4, <2>5, <2>6, <2>7 DEF EditorInv
<1> QED BY <1>2, <1>3

\* Nothing but the jobs changes.
LEMMA OnlyJobs ==
    ASSUME EditorInv, JobsFit',
           UNCHANGED <<editorDoc, last, editorFile, modified, files, editorHistory, closing, work,
                       misled, consented>>
    PROVE  EditorInv'
<1>1. UNCHANGED <<doc, session, last, path, isNew, modified, files, closing, work, misled, consented>>
    BY DEF editorDoc, editorFile
<1>2. EditorHas' /\ MarksHold'
    BY <1>1 DEF EditorInv, EditorHas, MarksHold, UnmodifiedIsSaved, ClosesWithoutLoss, WorkIsMarked
<1>3. HistoryHolds'  BY <1>1, HistoryStays DEF EditorInv
<1> QED BY <1>2, <1>3 DEF EditorInv

LEMMA BeginsKeeps ==
    ASSUME EditorInv, NEW job \in JobRecords(last), JobFits(job), Begins(job)
    PROVE  EditorInv'
<1>1. editorJobs' = Append(editorJobs, job) /\ last' = last  BY DEF Begins, BeginJob
<1>2. JobsFit'  BY <1>1, JobBegins DEF EditorInv
<1> QED BY <1>2, OnlyJobs DEF Begins

LEMMA AdvanceKeeps ==
    ASSUME EditorInv, NEW o \in DOMAIN editorJobs, NEW job \in JobRecords(last), JobFits(job),
           Advance(o, job)
    PROVE  EditorInv'
<1>1. editorJobs' = [editorJobs EXCEPT ![o] = job] /\ last' = last  BY DEF Advance
<1>2. JobsFit'  BY <1>1, JobGoesOn DEF EditorInv
<1> QED BY <1>2, OnlyJobs DEF Advance

\* The operations that only begin.
LEMMA CallsKeep ==
    ASSUME EditorAssumption, EditorInv,
           saveProject \/ saveProjectAs \/ importProject \/ openProject
    PROVE  EditorInv'
<1>1. \A then \in {"nothing", "open", "close"} :
        /\ OpenJob \in JobRecords(last) /\ JobFits(OpenJob)
        /\ SaveJob(then) \in JobRecords(last) /\ JobFits(SaveJob(then))
        /\ EditorJob("saveAs", "dialog", NoFile, doc, then) \in JobRecords(last)
        /\ JobFits(EditorJob("saveAs", "dialog", NoFile, doc, then))
        /\ EditorJob("import", "reading", NoFile, 0, "nothing") \in JobRecords(last)
        /\ JobFits(EditorJob("import", "reading", NoFile, 0, "nothing"))
    BY JobTypes DEF EditorInv
<1> QED BY <1>1, BeginsKeeps DEF saveProject, saveProjectAs, importProject, openProject

\* A new project, the default one, or that of the last session.
LEMMA ProjectsKeep ==
    ASSUME EditorAssumption, EditorInv, newProject \/ closeProject \/ restoreLastSession
    PROVE  EditorInv'
<1>1. EditorHas /\ JobsFit /\ HistoryHolds /\ MarksHold  BY DEF EditorInv
<1>2. 0 \in 0..last  BY <1>1 DEF EditorHas, ExamContents, EditorAssumption
<1>3. CASE newProject
    <2>1. /\ editorJobs' = editorJobs \/ BeginJob(SaveJob("nothing"))
          /\ closing \in {"idle", "saving"} /\ doc' = 0 /\ session' = 0
          /\ path' = NoFile /\ isNew' = TRUE
          /\ modified' = FALSE /\ misled' = FALSE /\ work' = FALSE
          /\ NewHistory(0)
          /\ UNCHANGED <<last, files, closing, consented>>
        BY <1>3 DEF newProject, UserActs, SetConfig
    <2>2. EditorHas'  BY <1>1, <1>2, <2>1 DEF EditorHas
    <2>3. JobsFit'
        <3>1. CASE editorJobs' = editorJobs
            BY <1>1, <2>1, <3>1 DEF JobsFit, JobFits, JobRecords
        <3>2. CASE BeginJob(SaveJob("nothing"))
            BY <1>1, <2>1, <3>2, JobTypes, JobBegins DEF BeginJob
        <3> QED BY <2>1, <3>1, <3>2
    <2>4. HistoryHolds'  BY <1>2, <2>1, NewHistoryRecords
    <2>5. MarksHold'
        BY <2>1 DEF MarksHold, UnmodifiedIsSaved, ClosesWithoutLoss, WorkIsMarked
    <2> QED BY <2>2, <2>3, <2>4, <2>5 DEF EditorInv
<1>4. CASE closeProject
    <2>1. /\ closing \in {"idle", "saving"} /\ doc' = 0 /\ session' = 0
          /\ IF isNew THEN UNCHANGED <<modified, misled>> ELSE modified' = TRUE /\ misled' = FALSE
          /\ work' = FALSE /\ NewHistory(0)
          /\ UNCHANGED <<last, path, isNew, files, editorJobs, closing, consented>>
        BY <1>4 DEF closeProject, UserActs, SetConfig, Listener, MarkModified, editorFile
    <2>2. modified' \in BOOLEAN /\ misled' \in BOOLEAN  BY <1>1, <2>1 DEF EditorHas
    <2>3. EditorHas'  BY <1>1, <1>2, <2>1, <2>2 DEF EditorHas
    <2>4. JobsFit'  BY <1>1, <2>1 DEF JobsFit, JobFits, JobRecords
    <2>5. HistoryHolds'  BY <1>2, <2>1, NewHistoryRecords
    <2>6. MarksHold'
        BY <1>1, <2>1
           DEF EditorHas, MarksHold, UnmodifiedIsSaved, ClosesWithoutLoss, WorkIsMarked
    <2> QED BY <2>3, <2>4, <2>5, <2>6 DEF EditorInv
<1>5. CASE restoreLastSession
    <2>1. /\ closing \in {"idle", "saving"} /\ session # NoFile
          /\ doc' = session /\ session' = session /\ unrecorded' = TRUE
          /\ IF isNew THEN UNCHANGED <<modified, misled>> ELSE modified' = TRUE /\ misled' = FALSE
          /\ UNCHANGED <<last, path, isNew, files, entries, pointer, debounced, editorJobs, closing,
                         work, consented>>
        BY <1>5 DEF restoreLastSession, UserActs, SetConfig, Listener, MarkModified, editorFile
    <2>2. modified' \in BOOLEAN /\ misled' \in BOOLEAN  BY <1>1, <2>1 DEF EditorHas
    <2>3. EditorHas'  BY <1>1, <2>1, <2>2 DEF EditorHas
    <2>4. JobsFit'  BY <1>1, <2>1 DEF JobsFit, JobFits, JobRecords
    <2>5. HistoryHolds'  BY <1>1, <2>1 DEF HistoryHolds, HistoryIsInStep
    <2>6. MarksHold'
        BY <1>1, <2>1
           DEF EditorHas, MarksHold, UnmodifiedIsSaved, ClosesWithoutLoss, WorkIsMarked
    <2> QED BY <2>3, <2>4, <2>5, <2>6 DEF EditorInv
<1> QED BY <1>3, <1>4, <1>5

\* A file is chosen, read, or cannot be.
LEMMA ReadsKeep ==
    ASSUME EditorAssumption, EditorInv, NEW o \in DOMAIN editorJobs,
           ReadFails(o) \/ \E p \in Paths : Chosen(o, p) \/ Read(o, p)
    PROVE  EditorInv'
<1> DEFINE job == editorJobs[o]
<1>1. EditorHas /\ JobsFit /\ job \in JobRecords(last) /\ JobFits(job)  BY DEF EditorInv, JobsFit
<1> HIDE DEF job
<1>2. CASE ReadFails(o)
    BY <1>1, <1>2, JobTypes, AdvanceKeeps DEF ReadFails
<1>3. ASSUME NEW p \in Paths, Chosen(o, p) PROVE EditorInv'
    <2> DEFINE writes == [job EXCEPT !.stage = "writing", !.path = p]
               reads  == [job EXCEPT !.stage = "reading", !.path = p]
    <2>1. \/ job.kind = "saveAs" /\ Advance(o, writes)
          \/ job.kind = "open" /\ Advance(o, reads)
        BY <1>3 DEF Chosen, job
    <2>2. writes \in JobRecords(last) /\ reads \in JobRecords(last)
        BY <1>1 DEF JobRecords
    <2>3. job.kind = "saveAs" => JobFits(writes)  BY <1>1 DEF JobRecords, JobFits
    <2>4. job.kind = "open" => JobFits(reads)  BY <1>1 DEF JobRecords, JobFits
    <2> HIDE DEF writes, reads
    <2> QED BY <2>1, <2>2, <2>3, <2>4, AdvanceKeeps
<1>4. ASSUME NEW p \in Paths, Read(o, p) PROVE EditorInv'
    <2> DEFINE loads == [job EXCEPT !.stage = "loading", !.content = files[p]]
    <2>1. job.stage = "reading" /\ files[p] # NoFile /\ Advance(o, loads)
        BY <1>4 DEF Read, job
    <2>2. files[p] \in 0..last \union {TornExam}  BY <1>1, <2>1 DEF EditorHas
    <2>3. loads \in JobRecords(last)  BY <1>1, <2>2 DEF JobRecords
    <2>4. job.kind # "saveAs"
        BY <1>1, <2>1 DEF JobFits
    <2>5. JobFits(loads)  BY <1>1, <2>1, <2>4 DEF JobRecords, JobFits
    <2> HIDE DEF loads
    <2> QED BY <2>1, <2>3, <2>5, AdvanceKeeps
<1> QED BY <1>2, <1>3, <1>4

\* A save, or its dialog, is over: what awaited it goes on.
LEMMA ReturnsKeep ==
    ASSUME EditorAssumption, EditorInv, NEW o \in DOMAIN editorJobs, NEW saved \in BOOLEAN,
           last' = last, SaveReturns(o, saved)
    PROVE  /\ JobsFit'
           /\ closing' \in {"idle", "asking", "saving", "closed"}
           /\ closing # "closed" /\ closing' = "closed" => saved
<1>1. EditorHas /\ JobsFit  BY DEF EditorInv
<1> DEFINE job == IF editorJobs[o].then = "open" THEN OpenJob ELSE JobOver
<1>2. editorJobs' = [editorJobs EXCEPT ![o] = job]  BY <1>1 DEF SaveReturns, JobsFit
<1>3. job \in JobRecords(last) /\ JobFits(job)  BY <1>1, JobTypes
<1> HIDE DEF job
<1>4. JobsFit'  BY <1>1, <1>2, <1>3, JobGoesOn
<1> QED BY <1>1, <1>4 DEF SaveReturns, EditorHas

\* The dialog is dismissed, or the write fails.
LEMMA FailuresKeep ==
    ASSUME EditorAssumption, EditorInv, NEW o \in DOMAIN editorJobs,
           Dismissed(o) \/ SaveFails(o)
    PROVE  EditorInv'
<1>1. EditorHas /\ JobsFit /\ HistoryHolds /\ MarksHold  BY DEF EditorInv
<1>2. /\ closing # "closed" /\ SaveReturns(o, FALSE)
      /\ UNCHANGED <<doc, session, last, path, isNew, modified, editorHistory, work, misled, consented>>
    BY DEF Dismissed, SaveFails, EditorIsOpen, editorDoc, editorFile
<1>3. files' = files \/ files' = [files EXCEPT ![editorJobs[o].path] = TornExam]
    BY DEF Dismissed, SaveFails
<1>4. /\ JobsFit' /\ closing' \in {"idle", "asking", "saving", "closed"} /\ closing' # "closed"
    BY <1>2, ReturnsKeep
<1>5. files' \in [Paths -> 0..last \union {NoFile, TornExam}]  BY <1>1, <1>3 DEF EditorHas
<1>6. EditorHas'  BY <1>1, <1>2, <1>4, <1>5 DEF EditorHas
<1>7. HistoryHolds'  BY <1>1, <1>2, HistoryStays
<1>8. MarksHold'
    <2>1. ~isNew => path \in Paths /\ (files'[path] = files[path] \/ files'[path] = TornExam)
        BY <1>1, <1>3 DEF EditorHas
    <2> QED BY <1>1, <1>2, <1>4, <2>1
            DEF MarksHold, UnmodifiedIsSaved, ClosesWithoutLoss, WorkIsMarked
<1> QED BY <1>4, <1>6, <1>7, <1>8 DEF EditorInv

\* The write has succeeded.
LEMMA SavedKeeps ==
    ASSUME EditorAssumption, EditorInv, NEW o \in DOMAIN editorJobs, Saved(o)
    PROVE  EditorInv'
<1> DEFINE p == editorJobs[o].path
           c == editorJobs[o].content
<1>1. EditorHas /\ JobsFit /\ HistoryHolds /\ MarksHold  BY DEF EditorInv
<1>2. /\ closing # "closed" /\ editorJobs[o].stage = "writing"
      /\ files' = [files EXCEPT ![p] = c] /\ modified' = FALSE
      /\ IF editorJobs[o].kind = "saveAs"
         THEN path' = p /\ isNew' = FALSE /\ Push(doc) /\ UNCHANGED debounced
         ELSE UNCHANGED <<path, isNew, editorHistory>>
      /\ misled' = (c # doc \/ path' # p) /\ work' = (work /\ c # doc)
      /\ SaveReturns(o, TRUE) /\ UNCHANGED <<doc, session, last, consented>>
    BY DEF Saved, EditorIsOpen, editorDoc, editorFile
<1>3. /\ JobsFit' /\ closing' \in {"idle", "asking", "saving", "closed"}
    BY <1>2, ReturnsKeep
<1>4. p \in Paths /\ c \in 0..last
    <2>1. editorJobs[o] \in JobRecords(last) /\ JobFits(editorJobs[o])  BY <1>1 DEF JobsFit
    <2> QED BY <1>2, <2>1 DEF JobFits, JobRecords
<1> HIDE DEF p, c
<1>5. files' \in [Paths -> 0..last \union {NoFile, TornExam}] /\ files'[p] = c
    BY <1>1, <1>2, <1>4 DEF EditorHas
<1>6. misled' \in BOOLEAN /\ work' \in BOOLEAN  BY <1>1, <1>2 DEF EditorHas
<1>7. path' \in Paths \union {NoFile} /\ isNew' \in BOOLEAN /\ (isNew' <=> path' = NoFile)
    BY <1>1, <1>2, <1>4 DEF EditorHas, EditorAssumption
<1>8. EditorHas'  BY <1>1, <1>2, <1>3, <1>5, <1>6, <1>7 DEF EditorHas
<1>9. HistoryHolds'
    <2>1. CASE editorJobs[o].kind = "saveAs"
        <3>1. /\ entries' \in Seq(0..last) /\ pointer' \in DOMAIN entries'
              /\ entries'[pointer'] = doc /\ unrecorded' = FALSE
            BY <1>1, <1>2, <2>1, PushRecords DEF HistoryHolds, EditorHas
        <3> QED BY <1>1, <1>2, <2>1, <3>1 DEF HistoryHolds, HistoryIsInStep
    <2>2. CASE editorJobs[o].kind # "saveAs"  BY <1>1, <1>2, <2>2, HistoryStays
    <2> QED BY <2>1, <2>2
<1>10. MarksHold'
    <2>1. ~misled' => path' = p /\ c = doc  BY <1>2
    <2>2. work' => misled'  BY <1>2, <1>6
    <2> QED BY <1>2, <1>5, <1>6, <2>1, <2>2
            DEF MarksHold, UnmodifiedIsSaved, ClosesWithoutLoss, WorkIsMarked
<1> QED BY <1>3, <1>8, <1>9, <1>10 DEF EditorInv

\* A file that has been read is shown.
LEMMA LoadKeeps ==
    ASSUME EditorAssumption, EditorInv, NEW o \in DOMAIN editorJobs, LoadedFile(o)
    PROVE  EditorInv'
<1> DEFINE job == editorJobs[o]
<1>1. EditorHas /\ JobsFit /\ HistoryHolds /\ MarksHold  BY DEF EditorInv
<1>2. /\ closing # "closed" /\ job.stage = "loading" /\ job.content # TornExam
      /\ doc' = job.content /\ session' = job.content /\ work' = FALSE
      /\ IF job.kind = "import"
         THEN /\ IF isNew THEN UNCHANGED <<modified, misled>>
                          ELSE modified' = TRUE /\ misled' = FALSE
              /\ UNCHANGED <<path, isNew>>
         ELSE /\ path' = job.path /\ isNew' = FALSE
              /\ modified' = FALSE /\ misled' = (files[job.path] # job.content)
      /\ IF job.kind = "startup"
         THEN unrecorded' = TRUE /\ UNCHANGED <<entries, pointer, debounced>>
         ELSE NewHistory(job.content)
      /\ editorJobs' = [editorJobs EXCEPT ![o] = JobOver]
      /\ UNCHANGED <<last, files, closing, consented>>
    BY DEF LoadedFile, EditorIsOpen, SetConfig, Listener, MarkModified, editorFile
<1>3. job.content \in 0..last /\ (job.kind # "import" => job.path \in Paths)
    <2>1. job \in JobRecords(last) /\ JobFits(job)  BY <1>1 DEF JobsFit
    <2> QED BY <1>2, <2>1 DEF JobFits, JobRecords
<1> HIDE DEF job
<1>4. JobsFit'  BY <1>1, <1>2, JobTypes, JobGoesOn
<1>5. path' \in Paths \union {NoFile} /\ isNew' \in BOOLEAN /\ (isNew' <=> path' = NoFile)
    BY <1>1, <1>2, <1>3 DEF EditorHas, EditorAssumption
<1>6. modified' \in BOOLEAN /\ misled' \in BOOLEAN  BY <1>1, <1>2 DEF EditorHas
<1>7. EditorHas'  BY <1>1, <1>2, <1>3, <1>5, <1>6 DEF EditorHas
<1>8. HistoryHolds'
    <2>1. CASE job.kind = "startup"
        BY <1>1, <1>2, <2>1 DEF HistoryHolds, HistoryIsInStep
    <2>2. CASE job.kind # "startup"  BY <1>2, <1>3, <2>2, NewHistoryRecords
    <2> QED BY <2>1, <2>2
<1>9. MarksHold'
    <2>1. UnmodifiedIsSaved'
        <3>1. CASE job.kind = "import"
            BY <1>1, <1>2, <1>6, <3>1 DEF UnmodifiedIsSaved, EditorHas
        <3>2. CASE job.kind # "import"
            BY <1>2, <3>2 DEF UnmodifiedIsSaved
        <3> QED BY <3>1, <3>2
    <2> QED BY <1>2, <2>1 DEF MarksHold, ClosesWithoutLoss, WorkIsMarked
<1> QED BY <1>4, <1>7, <1>8, <1>9 DEF EditorInv

\* The window is to close.
LEMMA ClosingKeeps ==
    ASSUME EditorAssumption, EditorInv,
           closeEditorWindow \/ CancelClose \/ DiscardAndClose \/ SaveAndClose
    PROVE  EditorInv'
<1>1. EditorHas /\ JobsFit /\ HistoryHolds /\ MarksHold  BY DEF EditorInv
<1>2. UNCHANGED <<doc, session, last, path, isNew, modified, files, work, misled>>
    BY DEF closeEditorWindow, CancelClose, DiscardAndClose, SaveAndClose, editorDoc, editorFile
<1>3. closing \in {"idle", "asking"}
    BY DEF closeEditorWindow, CancelClose, DiscardAndClose, SaveAndClose
<1>4. JobsFit'
    <2>1. CASE SaveAndClose
        <3>1. editorJobs' = editorJobs \/ BeginJob(SaveJob("close"))  BY <2>1 DEF SaveAndClose
        <3>2. CASE editorJobs' = editorJobs
            BY <1>1, <1>2, <3>2 DEF JobsFit, JobFits, JobRecords
        <3>3. CASE BeginJob(SaveJob("close"))
            BY <1>1, <1>2, <3>3, JobTypes, JobBegins DEF BeginJob
        <3> QED BY <3>1, <3>2, <3>3
    <2>2. CASE ~SaveAndClose
        <3>1. editorJobs' = editorJobs
            BY <2>2 DEF closeEditorWindow, CancelClose, DiscardAndClose
        <3> QED BY <1>1, <1>2, <3>1 DEF JobsFit, JobFits, JobRecords
    <2> QED BY <2>1, <2>2
<1>5. HistoryHolds'
    <2>1. CASE closeEditorWindow
        BY <1>1, <1>2, <2>1, FlushRecords DEF closeEditorWindow
    <2>2. CASE CancelClose \/ DiscardAndClose \/ SaveAndClose
        BY <1>1, <1>2, <2>2, HistoryStays DEF CancelClose, DiscardAndClose, SaveAndClose
    <2> QED BY <2>1, <2>2
<1>6. /\ closing' \in {"idle", "asking", "saving", "closed"} /\ consented' \in BOOLEAN
      /\ closing' = "closed" => ~modified \/ consented'
    BY <1>1 DEF closeEditorWindow, CancelClose, DiscardAndClose, SaveAndClose, EditorHas
<1>7. EditorHas'  BY <1>1, <1>2, <1>6 DEF EditorHas
<1>8. MarksHold'
    BY <1>1, <1>2, <1>3, <1>6 DEF EditorHas, MarksHold, UnmodifiedIsSaved, ClosesWithoutLoss, WorkIsMarked
<1> QED BY <1>4, <1>5, <1>7, <1>8 DEF EditorInv

\* Every step of the editor.
LEMMA EditorInductive == EditorAssumption /\ EditorInv /\ [EditorNext]_editorVars => EditorInv'
<1> SUFFICES ASSUME EditorAssumption, EditorInv, [EditorNext]_editorVars PROVE EditorInv'
    OBVIOUS
<1>1. CASE UNCHANGED editorVars
    <2>1. UNCHANGED <<doc, last, session, path, modified, isNew, files, entries, pointer, debounced,
                      editorJobs, closing, work, misled, unrecorded, consented>>
        BY <1>1 DEF editorVars
    <2>2. EditorHas' /\ JobsFit'  BY <2>1 DEF EditorInv, EditorHas, JobsFit, JobFits, JobRecords
    <2>3. HistoryHolds'  BY <2>1, HistoryStays DEF EditorInv, editorHistory
    <2>4. MarksHold'
        BY <2>1 DEF EditorInv, MarksHold, UnmodifiedIsSaved, ClosesWithoutLoss, WorkIsMarked
    <2> QED BY <2>2, <2>3, <2>4 DEF EditorInv
<1>2. CASE EditorNext
    BY <1>2, EditsKeep, HistorySteps, CallsKeep, ProjectsKeep, ReadsKeep, FailuresKeep, SavedKeeps,
       LoadKeeps, ClosingKeeps
       DEF EditorNext
<1> QED BY <1>1, <1>2

\* The work of the user is on the disk, marked as not saved, or given up.
THEOREM WorkIsAlwaysKept == EditorSpec => []WorkIsKept
<1>1. EditorSpec => []EditorInv
    BY EditorAssumption, EditorInitially, EditorInductive, PTL DEF EditorSpec
<1>2. EditorInv => WorkIsKept
    BY DEF EditorInv, HistoryHolds, MarksHold, WorkIsKept
<1> QED BY <1>1, <1>2, PTL

\* A file is new exactly while it has no path, the history points to one of its entries,
\* and no call has contents that were not yet made.
THEOREM EditorTypesHold == EditorSpec => []EditorTypeOK
<1>1. EditorSpec => []EditorInv
    BY EditorAssumption, EditorInitially, EditorInductive, PTL DEF EditorSpec
<1>2. EditorInv => EditorTypeOK
    BY DEF EditorInv, EditorHas, JobsFit, JobRecords, HistoryHolds, EditorTypeOK
<1> QED BY <1>1, <1>2, PTL
=============================================================================
