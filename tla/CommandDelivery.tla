--------------------------- MODULE CommandDelivery ---------------------------
(***************************************************************************)
(* The life of the control commands of ONE device, from the administrator  *)
(* that issues them to the row of control_command_target that closes them. *)
(*                                                                         *)
(* Server side: control-commands.service.ts and its repository, and the    *)
(* part of device.gateway.ts that drives them (hello, redelivery, results).*)
(* Every await is a step boundary.  The gateway handles the messages of    *)
(* one socket one at a time (`processing` chains promises), the sockets of *)
(* one device and the administrators' requests interleave freely.          *)
(*                                                                         *)
(* Device side: controlAgentService.ts.  Its maps live in memory only.     *)
(*                                                                         *)
(* The rows of another device are disjoint from this device's rows and no  *)
(* handler of this device touches them, so one device is the unit here.    *)
(* Authentication and revocation are the business of DeviceLink; the exam  *)
(* status that follows from the rows is the business of ExamLifecycle.     *)
(***************************************************************************)
EXTENDS Naturals, Sequences, FiniteSets

CONSTANTS
  Commands,    \* the commands that may be issued, numbered by issuedAt and id
  Unvalidated, \* those issued with validateTargetCapabilities = false
  ClockSkew,   \* whether the device's clock may be ahead of the server's
  SkillSets,   \* what versions of the desktop app can execute
  MaxConn,     \* bound: connections the device opens
  Expiring,    \* bound: the commands whose expiresAt comes within the run
  MaxMishaps   \* bound: database errors, and restarts of the server or of the agent

ASSUME DeliveryAssumption ==
  /\ Commands \subseteq Nat
  /\ Unvalidated \subseteq Commands
  /\ ClockSkew \in BOOLEAN
  /\ SkillSets \subseteq SUBSET Commands
  /\ SkillSets # {}
  /\ MaxConn \in Nat \ {0}
  /\ Expiring \subseteq Commands
  /\ MaxMishaps \in Nat

Conns == 1..MaxConn

Undecided == {"pending", "delivered", "acknowledged"}
TERMINAL_TARGET_STATUSES == {"succeeded", "failed", "expired"}
TargetStatus == {"none"} \cup Undecided \cup TERMINAL_TARGET_STATUSES
ResultStatus == {"acknowledged", "succeeded", "failed"}

Result == [type : {"result"}, rid : Nat, cmd : Commands, status : ResultStatus]
Hello == [type : {"hello"}, caps : SUBSET Commands]
ClientMessage == Result \cup Hello

Reply == [type : {"accepted", "error"}, rid : Nat, cmd : Commands]
ServerMessage ==
  Reply \cup [type : {"helloAccepted"}] \cup [type : {"command"}, cmd : Commands]
        \cup [type : {"close"}, reason : {"connectionReplaced", "internalError"}]

NoResult == [type |-> "none"]

Stage == {"idle", "pendingForDevice", "loop", "markDelivered",
          "txInTime", "txLate", "replyAccepted", "replyError"}

VARIABLES
  \* --- database
  target,     \* target[c]: status of the row (c, device), "none" before issue
  lapsed,     \* commands whose expiresAt has passed on the server's clock
  caps,       \* devices.lastCapabilities, {} when never reported
  \* --- memory of the server process
  dispatch,   \* commands committed by issue() whose deliver() has not run yet
  marking,    \* commands sent by issue() whose markDelivered is under way
  registered, \* connection in DeviceConnectionsService, 0 when none
  readable,   \* connections whose server socket has readyState OPEN
  attached,   \* connections whose disconnect event has not fired
  stage,      \* stage[k]: where the handler of connection k's first message is
  todo,       \* todo[k]: what is left of deliverPending's list, and whether the
              \* device row read before it supports the command
  \* --- the wire
  toServer,   \* toServer[k]: received by the server, first one being handled
  toDevice,   \* messages under way to the device on its current connection
  \* --- memory of the desktop agent
  conn,       \* number of the latest connection the agent opened
  link,       \* "down", "opening", "resending", "online" or "replaced"
  cursor,     \* last request id resent by resendPendingResults
  pending,    \* pendingResults
  completed,  \* completedResults
  inFlight,   \* inFlightCommands
  nextRid,    \* next request id
  skills,     \* commands this version of the agent has a handler for
  mishaps,    \* database errors and restarts so far, for the bounds
  \* --- history, read by no action
  ran,        \* commands whose handler returned without an error
  finished,   \* commands the running agent has produced a final result for
  faulted,    \* commands whose result met a failing database
  rerun       \* commands whose handler was started again by the same agent

serverVars == <<dispatch, marking, registered, readable, attached, stage, todo>>
agentVars == <<pending, completed, inFlight, nextRid, skills>>
history == <<ran, finished, faulted, rerun>>
vars == <<target, lapsed, caps, dispatch, marking, registered, readable, attached, stage,
          todo, toServer, toDevice, conn, link, cursor, pending, completed, inFlight,
          nextRid, skills, mishaps, ran, finished, faulted, rerun>>

-----------------------------------------------------------------------------

\* The bound on what goes wrong.
Mishap ==
  /\ mishaps < MaxMishaps
  /\ mishaps' = mishaps + 1

LinkUp == link \in {"opening", "resending", "online"}

IsFinal(r) == r.status \in {"succeeded", "failed"}

Settled(c) == target[c] \in TERMINAL_TARGET_STATUSES

\* What a message handed to connection k's server socket does to toDevice: it
\* travels if the device is still at the other end, and is lost otherwise.
Post(k, msg) ==
  IF conn = k /\ LinkUp THEN Append(toDevice, msg) ELSE toDevice

\* Every variable keeps its type: above all, a row only ever holds one of the
\* statuses the consoles and the other handlers know.
RowTypeOK ==
  /\ target \in [Commands -> TargetStatus]
  /\ lapsed \subseteq Commands
  /\ caps \subseteq Commands

ServerTypeOK ==
  /\ dispatch \subseteq Commands
  /\ marking \subseteq Commands
  /\ registered \in 0..MaxConn
  /\ readable \subseteq Conns
  /\ attached \subseteq Conns
  /\ stage \in [Conns -> Stage]
  /\ todo \in [Conns -> SUBSET [cmd : Commands, supported : BOOLEAN]]

WireTypeOK ==
  /\ toServer \in [Conns -> Seq(ClientMessage)]
  /\ toDevice \in Seq(ServerMessage)

AgentTypeOK ==
  /\ conn \in 0..MaxConn
  /\ link \in {"down", "opening", "resending", "online", "replaced"}
  /\ cursor \in Nat
  /\ pending \subseteq Result
  /\ completed \in [Commands -> Result \cup {NoResult}]
  /\ inFlight \subseteq Commands
  /\ nextRid \in Nat
  /\ skills \subseteq Commands

HistoryTypeOK ==
  /\ mishaps \in 0..MaxMishaps
  /\ ran \subseteq Commands
  /\ finished \subseteq Commands
  /\ faulted \subseteq Commands
  /\ rerun \subseteq Commands

\* The conjunction of the above.
TypeOK == RowTypeOK /\ ServerTypeOK /\ WireTypeOK /\ AgentTypeOK /\ HistoryTypeOK

Init ==
  /\ target = [c \in Commands |-> "none"]
  /\ lapsed = {} /\ caps = {}
  /\ dispatch = {} /\ marking = {}
  /\ registered = 0 /\ readable = {} /\ attached = {}
  /\ stage = [k \in Conns |-> "idle"]
  /\ todo = [k \in Conns |-> {}]
  /\ toServer = [k \in Conns |-> <<>>]
  /\ toDevice = <<>>
  /\ conn = 0 /\ link = "down" /\ cursor = 0
  /\ pending = {}
  /\ completed = [c \in Commands |-> NoResult]
  /\ inFlight = {}
  /\ nextRid = 1
  /\ skills \in SkillSets
  /\ mishaps = 0
  /\ ran = {} /\ finished = {} /\ faulted = {} /\ rerun = {}

-----------------------------------------------------------------------------
(* The administrators' requests.                                            *)

\* issue(): refuse a command a target cannot execute unless the caller waives
\* the check, then commit the command with its pending target row.  Delivery
\* starts after the transaction promise resolves.
Issue(c) ==
  /\ target[c] = "none"
  /\ c \notin lapsed
  /\ c \in caps \cup Unvalidated
  /\ target' = [target EXCEPT ![c] = "pending"]
  /\ dispatch' = dispatch \cup {c}
  /\ UNCHANGED <<lapsed, caps, marking, registered, readable, attached, stage, todo,
                 toServer, toDevice, conn, link, cursor, mishaps>>
  /\ UNCHANGED agentVars /\ UNCHANGED history

\* deliver() as issue() calls it, up to its await: sendCommand is synchronous
\* and reports success whenever the server believes the socket is open.
Dispatch(c) ==
  /\ c \in dispatch
  /\ dispatch' = dispatch \ {c}
  /\ IF registered \in readable
     THEN /\ toDevice' = Post(registered, [type |-> "command", cmd |-> c])
          /\ marking' = marking \cup {c}
     ELSE UNCHANGED <<toDevice, marking>>
  /\ UNCHANGED <<target, lapsed, caps, registered, readable, attached, stage, todo,
                 toServer, conn, link, cursor, mishaps>>
  /\ UNCHANGED agentVars /\ UNCHANGED history

\* The UPDATE of markDelivered touches a row only while it is pending.
BugMarksAnyRow(c) == [target EXCEPT ![c] = "delivered"]
MarkedDelivered(c) ==
  IF target[c] = "pending" THEN [target EXCEPT ![c] = "delivered"] ELSE target

MarkDelivered(c) ==
  /\ c \in marking
  /\ marking' = marking \ {c}
  /\ target' = MarkedDelivered(c)
  /\ UNCHANGED <<lapsed, caps, dispatch, registered, readable, attached, stage, todo,
                 toServer, toDevice, conn, link, cursor, mishaps>>
  /\ UNCHANGED agentVars /\ UNCHANGED history

\* The server's clock passes the command's expiresAt.
Lapse(c) ==
  /\ c \in Expiring \ lapsed
  /\ lapsed' = lapsed \cup {c}
  /\ UNCHANGED <<target, caps, toServer, toDevice, conn, link, cursor, mishaps>>
  /\ UNCHANGED serverVars /\ UNCHANGED agentVars /\ UNCHANGED history

\* expireTargets, run by every list() and get().
Expire ==
  /\ \E c \in lapsed : target[c] \in Undecided
  /\ target' = [c \in Commands |->
                  IF c \in lapsed /\ target[c] \in Undecided THEN "expired" ELSE target[c]]
  /\ UNCHANGED <<lapsed, caps, toServer, toDevice, conn, link, cursor, mishaps>>
  /\ UNCHANGED serverVars /\ UNCHANGED agentVars /\ UNCHANGED history

-----------------------------------------------------------------------------
(* The gateway: one handler at a time per connection.                       *)

Handling(k, type) == toServer[k] # <<>> /\ Head(toServer[k]).type = type

\* The handler of the first message of k is done.
Finish(k) ==
  /\ stage' = [stage EXCEPT ![k] = "idle"]
  /\ todo' = [todo EXCEPT ![k] = {}]
  /\ toServer' = [toServer EXCEPT ![k] = Tail(toServer[k])]

\* handleHello from recordConnectionState to send(helloAccepted): the new
\* connection takes the device's slot whether or not its socket is still open,
\* and the socket it replaces is closed.
HandleHello(k) ==
  /\ stage[k] = "idle"
  /\ Handling(k, "hello")
  /\ caps' = Head(toServer[k]).caps
  /\ registered' = k
  /\ readable' = readable \ ({registered} \ {k})
  /\ toDevice' = IF registered \in readable \ {k} /\ conn = registered
                 THEN Post(registered, [type |-> "close", reason |-> "connectionReplaced"])
                 ELSE IF k \in readable THEN Post(k, [type |-> "helloAccepted"]) ELSE toDevice
  /\ stage' = [stage EXCEPT ![k] = "pendingForDevice"]
  /\ UNCHANGED <<target, lapsed, dispatch, marking, attached, todo, toServer, conn, link,
                 cursor, mishaps>>
  /\ UNCHANGED agentVars /\ UNCHANGED history

\* pendingForDevice also returns what was sent and never answered.
BugEveryCommand == {c \in Commands \ lapsed : ~Settled(c)}
BugOnlyPendingRows == {c \in Commands \ lapsed : target[c] = "pending"}
PendingForDevice == {c \in Commands \ lapsed : target[c] \in Undecided}

\* deliverPending: the device row and the list are read once, before the loop.
ReadPending(k) ==
  /\ stage[k] = "pendingForDevice"
  /\ todo' = [todo EXCEPT ![k] =
                {[cmd |-> c, supported |-> TRUE] : c \in PendingForDevice \cap caps}
           \cup {[cmd |-> c, supported |-> FALSE] : c \in PendingForDevice \ caps}]
  /\ stage' = [stage EXCEPT ![k] = "loop"]
  /\ UNCHANGED <<target, lapsed, caps, dispatch, marking, registered, readable, attached,
                 toServer, toDevice, conn, link, cursor, mishaps>>
  /\ UNCHANGED agentVars /\ UNCHANGED history

\* The loop takes the commands in the order of issuedAt and id.
IsNext(k, e) == e \in todo[k] /\ \A f \in todo[k] : e.cmd <= f.cmd

\* markCapabilityRejected touches a row only while it is not terminal.
BugRejectsAnyRow(c) == [target EXCEPT ![c] = "failed"]
BugUnknownStatus(c) == [target EXCEPT ![c] = "rejected"]
MarkedRejected(c) ==
  IF target[c] \in Undecided THEN [target EXCEPT ![c] = "failed"] ELSE target

\* A command the device does not support is failed instead of sent.
RejectPending(k) ==
  /\ stage[k] = "loop"
  /\ \E e \in todo[k] :
       /\ IsNext(k, e)
       /\ ~e.supported
       /\ target' = MarkedRejected(e.cmd)
       /\ todo' = [todo EXCEPT ![k] = @ \ {e}]
  /\ UNCHANGED <<lapsed, caps, dispatch, marking, registered, readable, attached, stage,
                 toServer, toDevice, conn, link, cursor, mishaps>>
  /\ UNCHANGED agentVars /\ UNCHANGED history

\* deliver() up to its await.  It sends to whichever connection is registered
\* for the device by then, not to the one whose hello started the loop.
SendPending(k) ==
  /\ stage[k] = "loop"
  /\ \E e \in todo[k] :
       /\ IsNext(k, e)
       /\ e.supported
       /\ IF registered \in readable
          THEN /\ toDevice' = Post(registered, [type |-> "command", cmd |-> e.cmd])
               /\ stage' = [stage EXCEPT ![k] = "markDelivered"]
               /\ UNCHANGED todo
          ELSE /\ todo' = [todo EXCEPT ![k] = @ \ {e}]
               /\ UNCHANGED <<toDevice, stage>>
  /\ UNCHANGED <<target, lapsed, caps, dispatch, marking, registered, readable, attached,
                 toServer, conn, link, cursor, mishaps>>
  /\ UNCHANGED agentVars /\ UNCHANGED history

MarkPending(k) ==
  /\ stage[k] = "markDelivered"
  /\ \E e \in todo[k] :
       /\ IsNext(k, e)
       /\ target' = MarkedDelivered(e.cmd)
       /\ todo' = [todo EXCEPT ![k] = @ \ {e}]
  /\ stage' = [stage EXCEPT ![k] = "loop"]
  /\ UNCHANGED <<lapsed, caps, dispatch, marking, registered, readable, attached,
                 toServer, toDevice, conn, link, cursor, mishaps>>
  /\ UNCHANGED agentVars /\ UNCHANGED history

EndPending(k) ==
  /\ stage[k] = "loop"
  /\ todo[k] = {}
  /\ Finish(k)
  /\ UNCHANGED <<target, lapsed, caps, dispatch, marking, registered, readable, attached,
                 toDevice, conn, link, cursor, mishaps>>
  /\ UNCHANGED agentVars /\ UNCHANGED history

\* A database error once the device is authenticated is fatal to the connection.
HelloFails(k) ==
  /\ Mishap
  /\ \/ stage[k] \in {"pendingForDevice", "loop", "markDelivered"}
     \/ stage[k] = "idle" /\ Handling(k, "hello")
  /\ Finish(k)
  /\ readable' = readable \ {k}
  /\ toDevice' = IF k \in readable
                 THEN Post(k, [type |-> "close", reason |-> "internalError"]) ELSE toDevice
  /\ UNCHANGED <<target, lapsed, caps, dispatch, marking, registered, attached, conn,
                 link, cursor>>
  /\ UNCHANGED agentVars /\ UNCHANGED history

\* recordResult before its transaction: the command is read and receivedAt taken.
RecordStart(k) ==
  /\ stage[k] = "idle"
  /\ Handling(k, "result")
  /\ stage' = [stage EXCEPT ![k] =
                 IF Head(toServer[k]).cmd \in lapsed THEN "txLate" ELSE "txInTime"]
  /\ UNCHANGED <<target, lapsed, caps, dispatch, marking, registered, readable, attached,
                 todo, toServer, toDevice, conn, link, cursor, mishaps>>
  /\ UNCHANGED agentVars /\ UNCHANGED history

\* The transaction on the locked row.  A terminal row is kept: the same result
\* again is accepted, another one is refused.  A result received after the
\* expiry expires the row, and the expiry is committed although the result is
\* then refused.
RecordTx(k) ==
  LET r == Head(toServer[k])
      accepted == \/ Settled(r.cmd) /\ target[r.cmd] = r.status
                  \/ ~Settled(r.cmd) /\ stage[k] = "txInTime"
  IN
  /\ stage[k] \in {"txInTime", "txLate"}
  /\ target' = IF Settled(r.cmd) THEN target
               ELSE [target EXCEPT ![r.cmd] = IF stage[k] = "txLate" THEN "expired" ELSE r.status]
  /\ stage' = [stage EXCEPT ![k] = IF accepted THEN "replyAccepted" ELSE "replyError"]
  /\ UNCHANGED <<lapsed, caps, dispatch, marking, registered, readable, attached, todo,
                 toServer, toDevice, conn, link, cursor, mishaps>>
  /\ UNCHANGED agentVars /\ UNCHANGED history

\* A database error in the transaction, or in what follows it: the handler
\* answers with a protocol error that carries the request id of the result.
RecordFails(k) ==
  /\ Mishap
  /\ stage[k] \in {"txInTime", "txLate", "replyAccepted"}
  /\ stage' = [stage EXCEPT ![k] = "replyError"]
  /\ faulted' = faulted \cup {Head(toServer[k]).cmd}
  /\ UNCHANGED <<target, lapsed, caps, dispatch, marking, registered, readable, attached,
                 todo, toServer, toDevice, conn, link, cursor, ran, finished, rerun>>
  /\ UNCHANGED agentVars

RecordReply(k) ==
  LET r == Head(toServer[k])
      answer == IF stage[k] = "replyAccepted" THEN "accepted" ELSE "error"
  IN
  /\ stage[k] \in {"replyAccepted", "replyError"}
  /\ Finish(k)
  /\ toDevice' = IF k \in readable
                 THEN Post(k, [type |-> answer, rid |-> r.rid, cmd |-> r.cmd]) ELSE toDevice
  /\ UNCHANGED <<target, lapsed, caps, dispatch, marking, registered, readable, attached,
                 conn, link, cursor, mishaps>>
  /\ UNCHANGED agentVars /\ UNCHANGED history

\* handleDisconnect: the server learns that the device's end is gone.  A hello
\* still waiting is handled all the same, and so are the results.
Disconnect(k) ==
  /\ k \in attached
  /\ ~(conn = k /\ LinkUp)
  /\ attached' = attached \ {k}
  /\ readable' = readable \ {k}
  /\ registered' = IF registered = k THEN 0 ELSE registered
  /\ UNCHANGED <<target, lapsed, caps, dispatch, marking, stage, todo, toServer, toDevice,
                 conn, link, cursor, mishaps>>
  /\ UNCHANGED agentVars /\ UNCHANGED history

\* The server process stops and starts again: its memory and the wire are lost.
ServerRestart ==
  /\ Mishap
  /\ attached # {}
  /\ dispatch' = {} /\ marking' = {}
  /\ registered' = 0 /\ readable' = {} /\ attached' = {}
  /\ stage' = [k \in Conns |-> "idle"]
  /\ todo' = [k \in Conns |-> {}]
  /\ toServer' = [k \in Conns |-> <<>>]
  /\ toDevice' = <<>>
  /\ link' = IF LinkUp THEN "down" ELSE link
  /\ cursor' = 0
  /\ UNCHANGED <<target, lapsed, caps, conn>>
  /\ UNCHANGED agentVars /\ UNCHANGED history

-----------------------------------------------------------------------------
(* The desktop agent.                                                       *)

\* sendCommandResult: remember the result until it is answered, send it if the
\* socket is open.
SendResult(r) ==
  /\ pending' = pending \cup {r}
  /\ toServer' = IF LinkUp THEN [toServer EXCEPT ![conn] = Append(@, r)] ELSE toServer

NewResult(c, status) == [type |-> "result", rid |-> nextRid, cmd |-> c, status |-> status]

\* sendCommandFailure and the final case of sendCommandStatus.
SendFinal(c, status) ==
  /\ nextRid' = nextRid + 1
  /\ completed' = [completed EXCEPT ![c] = NewResult(c, status)]
  /\ finished' = finished \cup {c}
  /\ SendResult(NewResult(c, status))

SendAcknowledged(c) ==
  /\ nextRid' = nextRid + 1
  /\ SendResult(NewResult(c, "acknowledged"))
  /\ UNCHANGED <<completed, finished>>

\* connect() and handleOpen: the hello goes out as soon as the socket is open.
Connect ==
  /\ link = "down"
  /\ conn < MaxConn
  /\ conn' = conn + 1
  /\ link' = "opening"
  /\ readable' = readable \cup {conn + 1}
  /\ attached' = attached \cup {conn + 1}
  /\ toServer' = [toServer EXCEPT ![conn + 1] = <<[type |-> "hello", caps |-> skills]>>]
  /\ UNCHANGED <<target, lapsed, caps, dispatch, marking, registered, stage, todo,
                 toDevice, cursor, mishaps>>
  /\ UNCHANGED agentVars /\ UNCHANGED history

\* The connection breaks: what the server had not received yet is lost.
WireBreaks ==
  /\ LinkUp
  /\ toDevice' = <<>>
  /\ cursor' = 0
  /\ \E n \in 0..Len(toServer[conn]) :
       /\ stage[conn] # "idle" => n > 0
       /\ toServer' = [toServer EXCEPT ![conn] = SubSeq(@, 1, n)]

Drop ==
  /\ WireBreaks
  /\ link' = "down"
  /\ UNCHANGED <<target, lapsed, caps, conn, mishaps>>
  /\ UNCHANGED serverVars /\ UNCHANGED agentVars /\ UNCHANGED history

\* The desktop app exits or crashes and is started again, perhaps in another
\* version: every map of the agent is empty.
AgentRestart ==
  /\ Mishap
  /\ IF LinkUp THEN WireBreaks ELSE UNCHANGED <<toDevice, toServer, cursor>>
  /\ link' = "down"
  /\ pending' = {} /\ inFlight' = {}
  /\ completed' = [c \in Commands |-> NoResult]
  /\ skills' \in SkillSets
  /\ finished' = {} /\ rerun' = {}
  /\ UNCHANGED <<target, lapsed, caps, conn, nextRid, ran, faulted>>
  /\ UNCHANGED serverVars

Incoming(type) == LinkUp /\ toDevice # <<>> /\ Head(toDevice).type = type

\* helloAccepted: resendPendingResults starts.
ReceiveHelloAccepted ==
  /\ Incoming("helloAccepted")
  /\ toDevice' = Tail(toDevice)
  /\ link' = "resending"
  /\ UNCHANGED <<target, lapsed, caps, toServer, conn, cursor, mishaps>>
  /\ UNCHANGED serverVars /\ UNCHANGED agentVars /\ UNCHANGED history

\* resendPendingResults sends the map in insertion order, which is the order of
\* the request ids.  The loop is synchronous: while it runs (link "resending")
\* the agent does nothing else.
Resend ==
  /\ link = "resending"
  /\ \/ \E r \in pending :
          /\ r.rid > cursor
          /\ \A s \in pending : s.rid > cursor => r.rid <= s.rid
          /\ toServer' = [toServer EXCEPT ![conn] = Append(@, r)]
          /\ cursor' = r.rid
          /\ UNCHANGED link
     \/ /\ \A r \in pending : r.rid <= cursor
        /\ link' = "online"
        /\ cursor' = 0
        /\ UNCHANGED toServer
  /\ UNCHANGED <<target, lapsed, caps, toDevice, conn, mishaps>>
  /\ UNCHANGED serverVars /\ UNCHANGED agentVars /\ UNCHANGED history

\* executeCommand.  The device judges expiresAt by its own clock: it may still
\* run a command that has lapsed on the server and, with ClockSkew, refuse one
\* that has not.
ReceiveCommand ==
  LET c == Head(toDevice).cmd IN
  /\ link = "online"
  /\ Incoming("command")
  /\ toDevice' = Tail(toDevice)
  /\ \/ /\ completed[c] # NoResult
        /\ SendResult(completed[c])
        /\ UNCHANGED <<completed, inFlight, nextRid, finished, rerun>>
     \/ /\ completed[c] = NoResult
        /\ c \in inFlight
        /\ SendAcknowledged(c)
        /\ UNCHANGED <<inFlight, rerun>>
     \/ /\ completed[c] = NoResult   \* expired, or no handler for it
        /\ c \notin inFlight
        /\ ClockSkew \/ c \in lapsed \/ c \notin skills
        /\ SendFinal(c, "failed")
        /\ UNCHANGED <<inFlight, rerun>>
     \/ /\ completed[c] = NoResult
        /\ c \notin inFlight
        /\ c \in skills
        /\ inFlight' = inFlight \cup {c}
        /\ SendAcknowledged(c)
        /\ rerun' = IF c \in finished THEN rerun \cup {c} ELSE rerun
  /\ UNCHANGED <<target, lapsed, caps, conn, link, cursor, skills, mishaps, ran, faulted>>
  /\ UNCHANGED serverVars

\* The handler settles, whatever became of the connection meanwhile.
FinishCommand(c) ==
  /\ c \in inFlight
  /\ link # "resending"
  /\ inFlight' = inFlight \ {c}
  /\ \/ SendFinal(c, "succeeded") /\ ran' = ran \cup {c}
     \/ SendFinal(c, "failed") /\ UNCHANGED ran
  /\ UNCHANGED <<target, lapsed, caps, toDevice, conn, link, cursor, skills, mishaps,
                 faulted, rerun>>
  /\ UNCHANGED serverVars

\* pendingResults without the result the answer m is about.
BugForgetsByCommand(m) == {r \in pending : r.cmd # m.cmd}
Forget(m) == {r \in pending : r.rid # m.rid}

\* acceptCommandResult: an answer to a request id that is no longer known
\* clears the completed result as well.
ReceiveAccepted ==
  LET m == Head(toDevice) IN
  /\ link = "online"
  /\ Incoming("accepted")
  /\ toDevice' = Tail(toDevice)
  /\ pending' = Forget(m)
  /\ completed' = IF \E r \in pending : r.rid = m.rid /\ ~IsFinal(r)
                  THEN completed ELSE [completed EXCEPT ![m.cmd] = NoResult]
  /\ UNCHANGED <<target, lapsed, caps, toServer, conn, link, cursor, inFlight, nextRid,
                 skills, mishaps>>
  /\ UNCHANGED serverVars /\ UNCHANGED history

\* handleProtocolError for an error that carries a request id.
ReceiveError ==
  LET m == Head(toDevice) IN
  /\ link = "online"
  /\ Incoming("error")
  /\ toDevice' = Tail(toDevice)
  /\ pending' = Forget(m)
  /\ completed' = IF \E r \in pending : r.rid = m.rid /\ IsFinal(r)
                  THEN [completed EXCEPT ![m.cmd] = NoResult] ELSE completed
  /\ UNCHANGED <<target, lapsed, caps, toServer, conn, link, cursor, inFlight, nextRid,
                 skills, mishaps>>
  /\ UNCHANGED serverVars /\ UNCHANGED history

\* handleClose: a replaced connection is not opened again.
ReceiveClose ==
  /\ link # "resending"
  /\ Incoming("close")
  /\ toDevice' = <<>>
  /\ link' = IF Head(toDevice).reason = "connectionReplaced" THEN "replaced" ELSE "down"
  /\ UNCHANGED <<target, lapsed, caps, toServer, conn, cursor, mishaps>>
  /\ UNCHANGED serverVars /\ UNCHANGED agentVars /\ UNCHANGED history

-----------------------------------------------------------------------------

Gateway(k) ==
  \/ HandleHello(k) \/ ReadPending(k) \/ RejectPending(k) \/ SendPending(k)
  \/ MarkPending(k) \/ EndPending(k) \/ RecordStart(k) \/ RecordTx(k) \/ RecordReply(k)

Agent ==
  \/ ReceiveHelloAccepted \/ Resend \/ ReceiveCommand \/ ReceiveAccepted \/ ReceiveError
  \/ ReceiveClose

Next ==
  \/ \E c \in Commands : Issue(c) \/ Dispatch(c) \/ MarkDelivered(c) \/ Lapse(c)
                        \/ FinishCommand(c)
  \/ Expire
  \/ \E k \in Conns : Gateway(k) \/ HelloFails(k) \/ RecordFails(k) \/ Disconnect(k)
  \/ ServerRestart \/ Connect \/ Drop \/ AgentRestart \/ Agent

Spec == Init /\ [][Next]_vars

\* What the platform keeps doing: the database answers, the sockets deliver, and
\* the handlers of the desktop app settle.  Nothing makes a user connect, and
\* nothing makes anyone read the command list (Expire).
Fairness ==
  /\ \A c \in Commands : WF_vars(Dispatch(c)) /\ WF_vars(FinishCommand(c))
  /\ \A k \in Conns : WF_vars(Gateway(k))
  /\ WF_vars(Agent)

FairSpec == Spec /\ Fairness

-----------------------------------------------------------------------------
(* Properties.                                                              *)

\* The handler under way on a connection works on the message at the head of its
\* queue, and nothing moves on a connection that was never opened.
HelloStages == {"pendingForDevice", "loop", "markDelivered"}
ResultStages == {"txInTime", "txLate", "replyAccepted", "replyError"}

HandlerOK ==
  /\ \A k \in Conns :
       /\ stage[k] \in HelloStages => Handling(k, "hello")
       /\ stage[k] \in ResultStages => Handling(k, "result")
       /\ k > conn => stage[k] = "idle" /\ toServer[k] = <<>>
  /\ LinkUp => conn \in Conns

\* Nothing is said about a command that was not issued, and a success is only
\* reported after the device's handler returned, wherever the report has got to:
\* a map of the agent, the wire, a list read by deliverPending or the row itself.
Issued == {c \in Commands : target[c] # "none"}

Honest(r) ==
  /\ r.cmd \in Issued
  /\ r.status = "succeeded" => r.cmd \in ran

RowsHonest == \A c \in Commands : target[c] = "succeeded" => c \in ran

ServerHonest ==
  /\ dispatch \subseteq Issued
  /\ \A k \in Conns : \A e \in todo[k] : e.cmd \in Issued

AgentHonest ==
  /\ inFlight \cup ran \subseteq Issued
  /\ \A r \in pending : Honest(r)
  /\ \A c \in Commands : completed[c] # NoResult => Honest(completed[c])

WireHonest ==
  /\ \A k \in Conns : \A i \in 1..Len(toServer[k]) :
       toServer[k][i].type = "result" => Honest(toServer[k][i])
  /\ \A i \in 1..Len(toDevice) :
       toDevice[i].type = "command" => toDevice[i].cmd \in Issued

ReportsHonest == RowsHonest /\ ServerHonest /\ AgentHonest /\ WireHonest

\* The rows keep the promise of CommandOutcome: a command is closed once and for
\* good, whichever of a result, a capability rejection, an expiry sweep and a
\* late redelivery comes first, and it is reported as succeeded only after the
\* device's handler ran to a successful end.
Outcome == INSTANCE CommandOutcome WITH
  phase <- [c \in Commands |-> IF target[c] \in Undecided THEN "open" ELSE target[c]]

ImplementsOutcome == Outcome!OutcomeSpec

\* A row only moves forward: a markDelivered that was under way when the device
\* answered does not take an acknowledged command back to delivered.
Rank(s) == CASE s = "none" -> 0 [] s = "pending" -> 1 [] s = "delivered" -> 2
             [] s = "acknowledged" -> 3 [] OTHER -> 4

ProgressNeverRegresses ==
  [][\A c \in Commands : Rank(target[c]) <= Rank(target'[c])]_vars

\* The agent drops a final result from pendingResults only when the server has
\* closed the command, or when a database error made the server answer the
\* result with an error (the one way in which a result is lost).
ForgottenOnlyWhenSettled ==
  \A c \in finished :
    \/ \E r \in pending : r.cmd = c /\ IsFinal(r)
    \/ Settled(c)
    \/ c \in faulted

\* While a device is connected to stay, no command is left in the air: it was
\* answered, or it lapses, or its result met a database error.  This needs the
\* redelivery at hello to cover what was sent on an earlier connection and lost,
\* and commands issued while the hello is handled to be sent by one of the two.
EventuallySettled ==
  <>[](link = "online") =>
    \A c \in Commands :
      (target[c] \in Undecided) ~> (Settled(c) \/ c \in lapsed \/ c \in faulted)

\* The handler of a command is called once by one run of the agent, however
\* often the command is delivered.
RunsOncePerAgentRun == rerun = {}
=============================================================================
