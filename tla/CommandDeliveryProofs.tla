------------------------ MODULE CommandDeliveryProofs ------------------------
(***************************************************************************)
(* What CommandDelivery guarantees for every set of commands, every number *)
(* of connections and every number of mishaps.                             *)
(*                                                                         *)
(* First, type correctness.  TypeOK alone is not inductive: recordResult   *)
(* writes the status it finds in the message being handled, so the steps   *)
(* must also know that there is one (HandlerOK).                           *)
(*                                                                         *)
(* Then, the rows only move forward, and they implement CommandOutcome.    *)
(* The strengthening that makes both inductive is ReportsHonest: wherever  *)
(* a success is reported, the handler has run, and wherever a command is   *)
(* named, it was issued.                                                   *)
(*                                                                         *)
(* The agent forgets no result early (the last part).  A request id stands *)
(* for one result, whichever map or queue it is in, so that an answer that *)
(* is still under way can only be about a command that is closed by now.   *)
(***************************************************************************)
EXTENDS CommandDelivery, TLAPS

WellFormed == TypeOK /\ HandlerOK

-----------------------------------------------------------------------------
(* What the message sets contain, so that no later step opens them.         *)

\* Everything a handler of the server sends is a server message.
LEMMA Sent ==
  /\ \A c \in Commands : [type |-> "command", cmd |-> c] \in ServerMessage
  /\ \A r \in Result : \A a \in {"accepted", "error"} :
       [type |-> a, rid |-> r.rid, cmd |-> r.cmd] \in ServerMessage
  /\ [type |-> "helloAccepted"] \in ServerMessage
  /\ \A why \in {"connectionReplaced", "internalError"} :
       [type |-> "close", reason |-> why] \in ServerMessage
  BY DEF ServerMessage, Reply, Result

\* What the handlers of the device read of a server message is there.
LEMMA Read ==
  \A m \in ServerMessage :
    /\ m.type = "command" => m.cmd \in Commands
    /\ m.type \in {"accepted", "error"} => m.cmd \in Commands /\ m.rid \in Nat
  BY DEF ServerMessage, Reply

\* What the handlers of the server read of a client message is there.
LEMMA Received ==
  /\ Result \subseteq ClientMessage
  /\ \A m \in ClientMessage : m.type = "result" => m \in Result
  /\ \A m \in ClientMessage : m.type = "hello" => m.caps \subseteq Commands
  /\ \A r \in Result : r.rid \in Nat /\ r.cmd \in Commands /\ r.status \in ResultStatus
  /\ \A c \in SUBSET Commands : [type |-> "hello", caps |-> c] \in ClientMessage
  BY DEF ClientMessage, Result, Hello

\* NoResult cannot be taken for a result.
LEMMA NewResultType ==
  ASSUME TypeOK, NEW c \in Commands, NEW s \in ResultStatus
  PROVE  NewResult(c, s) \in Result
  BY DEF NewResult, Result, TypeOK, AgentTypeOK

\* The status a result carries is a status a row may have.
LEMMA RowStatus == ResultStatus \subseteq TargetStatus
  BY DEF ResultStatus, TargetStatus, Undecided, TERMINAL_TARGET_STATUSES

\* Messages travel or are lost; either way the wire keeps its type.
LEMMA PostType ==
  ASSUME TypeOK, NEW k, NEW m \in ServerMessage
  PROVE  Post(k, m) \in Seq(ServerMessage)
  BY DEF Post, TypeOK, WireTypeOK

\* The message a handler works on.
LEMMA HeadType ==
  ASSUME TypeOK, NEW k \in Conns, NEW t, Handling(k, t)
  PROVE  /\ Head(toServer[k]) \in ClientMessage
         /\ Tail(toServer[k]) \in Seq(ClientMessage)
         /\ Head(toServer[k]).type = t
  BY DEF Handling, TypeOK, WireTypeOK

\* The message the agent works on.
LEMMA IncomingType ==
  ASSUME TypeOK, NEW t, Incoming(t)
  PROVE  /\ Head(toDevice) \in ServerMessage
         /\ Tail(toDevice) \in Seq(ServerMessage)
         /\ Head(toDevice).type = t
  BY DEF Incoming, TypeOK, WireTypeOK

-----------------------------------------------------------------------------

LEMMA InitWellFormed == Init => WellFormed
<1> SUFFICES ASSUME Init PROVE WellFormed
  OBVIOUS
<1> USE DeliveryAssumption
<1>1. RowTypeOK /\ ServerTypeOK /\ WireTypeOK /\ HistoryTypeOK
  BY DEF Init, RowTypeOK, ServerTypeOK, WireTypeOK, HistoryTypeOK, Conns, Stage, TargetStatus
<1>2. AgentTypeOK
  BY DEF Init, AgentTypeOK
<1>3. HandlerOK
  BY DEF Init, HandlerOK, HelloStages, ResultStages, LinkUp, Conns
<1> QED BY <1>1, <1>2, <1>3 DEF WellFormed, TypeOK

\* The requests of the administrators and the passing of time.
LEMMA RequestStep ==
  ASSUME WellFormed, NEW c \in Commands,
         Issue(c) \/ Dispatch(c) \/ MarkDelivered(c) \/ Lapse(c) \/ Expire
  PROVE  WellFormed'
<1> USE DeliveryAssumption DEF WellFormed, serverVars, agentVars, history
<1>1. TypeOK /\ HandlerOK
  OBVIOUS
<1>2. HandlerOK'
  BY <1>1 DEF HandlerOK, Handling, LinkUp, Issue, Dispatch, MarkDelivered, Lapse, Expire
<1>3. RowTypeOK'
  BY <1>1 DEF TypeOK, RowTypeOK, Issue, Dispatch, MarkDelivered, MarkedDelivered, Lapse,
              Expire, TargetStatus, Undecided, TERMINAL_TARGET_STATUSES
<1>4. ServerTypeOK'
  BY <1>1 DEF TypeOK, ServerTypeOK, Issue, Dispatch, MarkDelivered, Lapse, Expire
<1>5. WireTypeOK'
  BY <1>1, Sent, PostType
  DEF TypeOK, WireTypeOK, Issue, Dispatch, MarkDelivered, Lapse, Expire
<1>6. AgentTypeOK' /\ HistoryTypeOK'
  BY <1>1 DEF TypeOK, AgentTypeOK, HistoryTypeOK, Issue, Dispatch, MarkDelivered, Lapse, Expire
<1> QED BY <1>2, <1>3, <1>4, <1>5, <1>6 DEF TypeOK

\* handleHello and deliverPending.
LEMMA HelloStep ==
  ASSUME WellFormed, NEW k \in Conns,
         \/ HandleHello(k) \/ ReadPending(k) \/ RejectPending(k) \/ SendPending(k)
         \/ MarkPending(k) \/ EndPending(k) \/ HelloFails(k)
  PROVE  WellFormed'
<1> USE DeliveryAssumption DEF WellFormed, serverVars, agentVars, history
<1>1. TypeOK /\ HandlerOK
  OBVIOUS
<1>2. CASE HandleHello(k)
  <2>1. /\ Head(toServer[k]) \in ClientMessage
        /\ Head(toServer[k]).caps \subseteq Commands
    BY <1>1, <1>2, HeadType, Received DEF HandleHello
  <2>2. HandlerOK'
    BY <1>1, <1>2 DEF TypeOK, ServerTypeOK, HandlerOK, HandleHello, Handling, LinkUp, HelloStages,
                      ResultStages
  <2>3. RowTypeOK' /\ ServerTypeOK'
    BY <1>1, <1>2, <2>1 DEF TypeOK, RowTypeOK, ServerTypeOK, HandleHello, Stage, Conns
  <2>4. toDevice' \in Seq(ServerMessage)
    BY <1>1, <1>2, Sent, PostType DEF TypeOK, WireTypeOK, HandleHello
  <2>5. WireTypeOK' /\ AgentTypeOK' /\ HistoryTypeOK'
    BY <1>1, <1>2, <2>4 DEF TypeOK, WireTypeOK, AgentTypeOK, HistoryTypeOK, HandleHello
  <2> QED BY <2>2, <2>3, <2>5 DEF TypeOK
<1>3. CASE ReadPending(k)
  <2>1. HandlerOK'
    BY <1>1, <1>3 DEF TypeOK, ServerTypeOK, HandlerOK, ReadPending, Handling, LinkUp, HelloStages,
                      ResultStages
  <2> DEFINE list == {[cmd |-> c, supported |-> TRUE] : c \in PendingForDevice \cap caps}
                     \cup {[cmd |-> c, supported |-> FALSE] : c \in PendingForDevice \ caps}
  <2>2. todo' \in [Conns -> SUBSET [cmd : Commands, supported : BOOLEAN]]
    <3>1. list \subseteq [cmd : Commands, supported : BOOLEAN]
      <4> SUFFICES ASSUME NEW e \in list
                   PROVE  e \in [cmd : Commands, supported : BOOLEAN]
        OBVIOUS
      <4>1. PICK c \in Commands, b \in BOOLEAN : e = [cmd |-> c, supported |-> b]
        BY DEF PendingForDevice
      <4> QED BY <4>1
    <3>2. todo' = [todo EXCEPT ![k] = list]
      BY <1>3 DEF ReadPending
    <3> HIDE DEF list
    <3> QED BY <1>1, <3>1, <3>2 DEF TypeOK, ServerTypeOK
  <2>3. ServerTypeOK'
    BY <1>1, <1>3, <2>2 DEF TypeOK, ServerTypeOK, ReadPending, Stage
  <2> QED BY <1>1, <1>3, <2>1, <2>3
          DEF TypeOK, RowTypeOK, WireTypeOK, AgentTypeOK, HistoryTypeOK, ReadPending
<1>4. CASE RejectPending(k)
  <2>1. HandlerOK'
    BY <1>1, <1>4 DEF HandlerOK, RejectPending, Handling, LinkUp
  <2>2. RowTypeOK' /\ ServerTypeOK'
    BY <1>1, <1>4 DEF TypeOK, RowTypeOK, ServerTypeOK, RejectPending, MarkedRejected,
                      TargetStatus, TERMINAL_TARGET_STATUSES
  <2> QED BY <1>1, <1>4, <2>1, <2>2
          DEF TypeOK, WireTypeOK, AgentTypeOK, HistoryTypeOK, RejectPending
<1>5. CASE SendPending(k)
  <2>1. HandlerOK'
    BY <1>1, <1>5 DEF TypeOK, ServerTypeOK, HandlerOK, SendPending, Handling, LinkUp, HelloStages,
                      ResultStages
  <2>2. ServerTypeOK'
    BY <1>1, <1>5 DEF TypeOK, ServerTypeOK, SendPending, Stage
  <2>3. WireTypeOK'
    <3>1. \A e \in todo[k] : e.cmd \in Commands
      BY <1>1 DEF TypeOK, ServerTypeOK
    <3>2. \A e \in todo[k] :
            Post(registered, [type |-> "command", cmd |-> e.cmd]) \in Seq(ServerMessage)
      BY <1>1, <3>1, Sent, PostType
    <3> QED BY <1>1, <1>5, <3>2 DEF TypeOK, WireTypeOK, SendPending
  <2> QED BY <1>1, <1>5, <2>1, <2>2, <2>3
          DEF TypeOK, RowTypeOK, AgentTypeOK, HistoryTypeOK, SendPending
<1>6. CASE MarkPending(k)
  <2>1. HandlerOK'
    BY <1>1, <1>6 DEF TypeOK, ServerTypeOK, HandlerOK, MarkPending, Handling, LinkUp, HelloStages,
                      ResultStages
  <2>2. RowTypeOK' /\ ServerTypeOK'
    BY <1>1, <1>6 DEF TypeOK, RowTypeOK, ServerTypeOK, MarkPending, MarkedDelivered,
                      TargetStatus, Undecided, Stage
  <2> QED BY <1>1, <1>6, <2>1, <2>2
          DEF TypeOK, WireTypeOK, AgentTypeOK, HistoryTypeOK, MarkPending
<1>7. CASE EndPending(k)
  <2>1. Tail(toServer[k]) \in Seq(ClientMessage)
    BY <1>1, <1>7, HeadType DEF HandlerOK, EndPending, HelloStages
  <2>2. HandlerOK'
    BY <1>1, <1>7 DEF TypeOK, ServerTypeOK, WireTypeOK, HandlerOK, EndPending, Finish, Handling,
                      LinkUp, HelloStages, ResultStages
  <2>3. ServerTypeOK' /\ WireTypeOK'
    BY <1>1, <1>7, <2>1 DEF TypeOK, ServerTypeOK, WireTypeOK, EndPending, Finish, Stage
  <2> QED BY <1>1, <1>7, <2>2, <2>3
          DEF TypeOK, RowTypeOK, AgentTypeOK, HistoryTypeOK, EndPending
<1>8. CASE HelloFails(k)
  <2>1. Tail(toServer[k]) \in Seq(ClientMessage)
    BY <1>1, <1>8, HeadType DEF HandlerOK, HelloFails, HelloStages
  <2>2. HandlerOK'
    BY <1>1, <1>8 DEF TypeOK, ServerTypeOK, WireTypeOK, HandlerOK, HelloFails, Finish, Handling,
                      LinkUp, HelloStages, ResultStages
  <2>3. ServerTypeOK'
    BY <1>1, <1>8 DEF TypeOK, ServerTypeOK, HelloFails, Finish, Stage
  <2>4. WireTypeOK'
    BY <1>1, <1>8, <2>1, Sent, PostType DEF TypeOK, WireTypeOK, HelloFails, Finish
  <2>5. HistoryTypeOK'
    BY <1>1, <1>8 DEF TypeOK, HistoryTypeOK, HelloFails, Mishap
  <2> QED BY <1>1, <1>8, <2>2, <2>3, <2>4, <2>5
          DEF TypeOK, RowTypeOK, AgentTypeOK, HelloFails
<1> QED BY <1>2, <1>3, <1>4, <1>5, <1>6, <1>7, <1>8

\* handleCommandResult and recordResult, the end of a connection, a restart.
LEMMA ResultStep ==
  ASSUME WellFormed, NEW k \in Conns,
         \/ RecordStart(k) \/ RecordTx(k) \/ RecordFails(k) \/ RecordReply(k)
         \/ Disconnect(k) \/ ServerRestart
  PROVE  WellFormed'
<1> USE DeliveryAssumption DEF WellFormed, serverVars, agentVars, history
<1>1. TypeOK /\ HandlerOK
  OBVIOUS
<1>2. CASE RecordStart(k)
  <2>1. HandlerOK'
    BY <1>1, <1>2 DEF TypeOK, ServerTypeOK, HandlerOK, RecordStart, Handling, LinkUp, HelloStages,
                      ResultStages
  <2>2. ServerTypeOK'
    BY <1>1, <1>2 DEF TypeOK, ServerTypeOK, RecordStart, Stage
  <2> QED BY <1>1, <1>2, <2>1, <2>2
          DEF TypeOK, RowTypeOK, WireTypeOK, AgentTypeOK, HistoryTypeOK, RecordStart
<1>3. CASE RecordTx(k)
  <2>1. Head(toServer[k]) \in Result
    BY <1>1, <1>3, HeadType, Received DEF HandlerOK, RecordTx, ResultStages
  <2>2. HandlerOK'
    BY <1>1, <1>3 DEF TypeOK, ServerTypeOK, HandlerOK, RecordTx, Handling, LinkUp, HelloStages,
                      ResultStages
  <2>3. RowTypeOK'
    BY <1>1, <1>3, <2>1, Received, RowStatus
    DEF TypeOK, RowTypeOK, RecordTx, TargetStatus, TERMINAL_TARGET_STATUSES
  <2>4. ServerTypeOK'
    BY <1>1, <1>3 DEF TypeOK, ServerTypeOK, RecordTx, Stage
  <2> QED BY <1>1, <1>3, <2>2, <2>3, <2>4
          DEF TypeOK, WireTypeOK, AgentTypeOK, HistoryTypeOK, RecordTx
<1>4. CASE RecordFails(k)
  <2>1. Head(toServer[k]).cmd \in Commands
    BY <1>1, <1>4, HeadType, Received DEF HandlerOK, RecordFails, ResultStages
  <2>2. HandlerOK'
    BY <1>1, <1>4 DEF TypeOK, ServerTypeOK, HandlerOK, RecordFails, Handling, LinkUp, HelloStages,
                      ResultStages
  <2>3. ServerTypeOK'
    BY <1>1, <1>4 DEF TypeOK, ServerTypeOK, RecordFails, Stage
  <2>4. mishaps' \in 0..MaxMishaps
    BY <1>1, <1>4 DEF TypeOK, HistoryTypeOK, RecordFails, Mishap
  <2>5. HistoryTypeOK'
    BY <1>1, <1>4, <2>1, <2>4 DEF TypeOK, HistoryTypeOK, RecordFails
  <2> QED BY <1>1, <1>4, <2>2, <2>3, <2>5
          DEF TypeOK, RowTypeOK, WireTypeOK, AgentTypeOK, RecordFails
<1>5. CASE RecordReply(k)
  <2>1. /\ Head(toServer[k]) \in Result
        /\ Tail(toServer[k]) \in Seq(ClientMessage)
    BY <1>1, <1>5, HeadType, Received DEF HandlerOK, RecordReply, ResultStages
  <2>2. HandlerOK'
    BY <1>1, <1>5 DEF TypeOK, ServerTypeOK, WireTypeOK, HandlerOK, RecordReply, Finish, Handling,
                      LinkUp, HelloStages, ResultStages
  <2>3. ServerTypeOK'
    BY <1>1, <1>5 DEF TypeOK, ServerTypeOK, RecordReply, Finish, Stage
  <2>4. WireTypeOK'
    BY <1>1, <1>5, <2>1, Sent, PostType DEF TypeOK, WireTypeOK, RecordReply, Finish
  <2> QED BY <1>1, <1>5, <2>2, <2>3, <2>4
          DEF TypeOK, RowTypeOK, AgentTypeOK, HistoryTypeOK, RecordReply
<1>6. CASE Disconnect(k)
  <2>1. HandlerOK'
    BY <1>1, <1>6 DEF HandlerOK, Disconnect, Handling, LinkUp
  <2> QED BY <1>1, <1>6, <2>1 DEF TypeOK, RowTypeOK, ServerTypeOK, WireTypeOK, AgentTypeOK,
                                  HistoryTypeOK, Disconnect
<1>7. CASE ServerRestart
  <2>1. HandlerOK'
    BY <1>1, <1>7 DEF HandlerOK, ServerRestart, LinkUp, HelloStages, ResultStages
  <2>2. ServerTypeOK' /\ WireTypeOK'
    BY <1>1, <1>7 DEF TypeOK, ServerTypeOK, WireTypeOK, ServerRestart, Stage
  <2>3. RowTypeOK' /\ AgentTypeOK' /\ HistoryTypeOK'
    BY <1>1, <1>7 DEF TypeOK, RowTypeOK, AgentTypeOK, HistoryTypeOK, ServerRestart, Mishap
  <2> QED BY <2>1, <2>2, <2>3 DEF TypeOK
<1> QED BY <1>2, <1>3, <1>4, <1>5, <1>6, <1>7

-----------------------------------------------------------------------------
(* The desktop agent.                                                       *)

\* A connection that breaks keeps a prefix of what was sent on it.
LEMMA WireBreaksStep ==
  ASSUME WellFormed, WireBreaks, UNCHANGED conn
  PROVE  /\ WireTypeOK'
         /\ cursor' \in Nat
         /\ \A k \in Conns : stage[k] # "idle" =>
              \A t : Handling(k, t) => Handling(k, t)'
         /\ \A k \in Conns : k > conn => toServer'[k] = <<>>
<1> USE DeliveryAssumption DEF WellFormed
<1>1. conn \in Conns /\ toServer[conn] \in Seq(ClientMessage)
  BY DEF WireBreaks, HandlerOK, TypeOK, WireTypeOK
<1>2. PICK n \in 0..Len(toServer[conn]) :
        /\ stage[conn] # "idle" => n > 0
        /\ toServer' = [toServer EXCEPT ![conn] = SubSeq(@, 1, n)]
  BY DEF WireBreaks
<1>3. SubSeq(toServer[conn], 1, n) \in Seq(ClientMessage)
  BY <1>1, <1>2
<1>4. WireTypeOK'
  <2>1. toServer' \in [Conns -> Seq(ClientMessage)]
    BY <1>2, <1>3 DEF TypeOK, WireTypeOK
  <2>2. toDevice' \in Seq(ServerMessage)
    BY DEF WireBreaks
  <2> QED BY <2>1, <2>2 DEF WireTypeOK
<1>5. n > 0 => /\ SubSeq(toServer[conn], 1, n) # <<>>
              /\ Head(SubSeq(toServer[conn], 1, n)) = Head(toServer[conn])
  BY <1>1, <1>2
<1>6. ASSUME NEW k \in Conns, stage[k] # "idle", NEW t, Handling(k, t)
      PROVE  Handling(k, t)'
  <2>1. CASE k = conn
    BY <1>1, <1>2, <1>5, <1>6, <2>1 DEF Handling, TypeOK, WireTypeOK
  <2>2. CASE k # conn
    BY <1>1, <1>2, <1>6, <2>2 DEF Handling, TypeOK, WireTypeOK
  <2> QED BY <2>1, <2>2
<1>7. \A k \in Conns : k > conn => toServer'[k] = <<>>
  BY <1>1, <1>2 DEF HandlerOK, TypeOK, WireTypeOK, Conns
<1> QED BY <1>4, <1>6, <1>7 DEF WireBreaks

\* A result that is queued behind the others disturbs no handler.
LEMMA AppendStep ==
  ASSUME WellFormed, NEW r \in Result, LinkUp,
         toServer' = [toServer EXCEPT ![conn] = Append(@, r)]
  PROVE  /\ toServer' \in [Conns -> Seq(ClientMessage)]
         /\ \A k \in Conns : \A t : Handling(k, t) => Handling(k, t)'
         /\ \A k \in Conns : k > conn => toServer'[k] = <<>>
<1> USE DeliveryAssumption DEF WellFormed
<1>1. conn \in Conns /\ toServer[conn] \in Seq(ClientMessage) /\ r \in ClientMessage
  BY Received DEF HandlerOK, TypeOK, WireTypeOK
<1>2. /\ Append(toServer[conn], r) \in Seq(ClientMessage)
      /\ toServer[conn] # <<>> => Head(Append(toServer[conn], r)) = Head(toServer[conn])
      /\ Append(toServer[conn], r) # <<>>
  BY <1>1
<1>3. \A k \in Conns : \A t : Handling(k, t) => Handling(k, t)'
  BY <1>1, <1>2 DEF Handling, TypeOK, WireTypeOK
<1>4. \A k \in Conns : k > conn => toServer'[k] = <<>>
  BY <1>1 DEF HandlerOK, TypeOK, WireTypeOK, Conns
<1> QED BY <1>1, <1>2, <1>3, <1>4 DEF TypeOK, WireTypeOK

\* sendCommandResult.
LEMMA SendResultStep ==
  ASSUME WellFormed, NEW r \in Result, SendResult(r)
  PROVE  /\ pending' \subseteq Result
         /\ toServer' \in [Conns -> Seq(ClientMessage)]
         /\ \A k \in Conns : \A t : Handling(k, t) => Handling(k, t)'
         /\ \A k \in Conns : k > conn => toServer'[k] = <<>>
<1>1. pending' \subseteq Result
  BY DEF WellFormed, TypeOK, AgentTypeOK, SendResult
<1>2. CASE LinkUp
  <2>1. toServer' = [toServer EXCEPT ![conn] = Append(@, r)]
    BY <1>2 DEF SendResult
  <2> QED BY <1>1, <1>2, <2>1, AppendStep
<1>3. CASE ~LinkUp
  BY <1>1, <1>3 DEF SendResult, WellFormed, TypeOK, WireTypeOK, HandlerOK, Handling
<1> QED BY <1>2, <1>3

\* connect, a break of the connection, a restart of the desktop app.
LEMMA LinkStep ==
  ASSUME WellFormed, Connect \/ Drop \/ AgentRestart
  PROVE  WellFormed'
<1> USE DeliveryAssumption DEF WellFormed, serverVars, agentVars, history
<1>1. TypeOK /\ HandlerOK
  OBVIOUS
<1>2. CASE Connect
  <2>1. conn + 1 \in Conns
    BY <1>1, <1>2 DEF Connect, TypeOK, AgentTypeOK, Conns
  <2>2. <<[type |-> "hello", caps |-> skills]>> \in Seq(ClientMessage)
    <3>1. [type |-> "hello", caps |-> skills] \in ClientMessage
      BY <1>1, Received DEF TypeOK, AgentTypeOK
    <3> QED BY <3>1
  <2>3. WireTypeOK'
    BY <1>1, <1>2, <2>1, <2>2 DEF TypeOK, WireTypeOK, Connect
  <2>4. ServerTypeOK'
    BY <1>1, <1>2, <2>1 DEF TypeOK, ServerTypeOK, Connect
  <2>5. AgentTypeOK'
    BY <1>1, <1>2, <2>1 DEF TypeOK, AgentTypeOK, Connect, Conns
  <2>6. HandlerOK'
    BY <1>1, <1>2, <2>1, <2>2
    DEF HandlerOK, Handling, LinkUp, Connect, HelloStages, ResultStages, Conns,
        TypeOK, WireTypeOK, AgentTypeOK
  <2> QED BY <1>1, <1>2, <2>3, <2>4, <2>5, <2>6 DEF TypeOK, RowTypeOK, HistoryTypeOK, Connect
<1>3. CASE Drop
  <2>1. /\ WireTypeOK'
        /\ cursor' \in Nat
        /\ \A k \in Conns : stage[k] # "idle" => \A t : Handling(k, t) => Handling(k, t)'
        /\ \A k \in Conns : k > conn => toServer'[k] = <<>>
    BY <1>3, WireBreaksStep DEF Drop
  <2>2. HandlerOK'
    BY <1>1, <1>3, <2>1 DEF HandlerOK, Drop, LinkUp, HelloStages, ResultStages
  <2> QED BY <1>1, <1>3, <2>1, <2>2
          DEF TypeOK, RowTypeOK, ServerTypeOK, AgentTypeOK, HistoryTypeOK, Drop
<1>4. CASE AgentRestart
  <2>1. /\ WireTypeOK'
        /\ cursor' \in Nat
        /\ \A k \in Conns : stage[k] # "idle" => \A t : Handling(k, t) => Handling(k, t)'
        /\ \A k \in Conns : k > conn => toServer'[k] = <<>>
    <3>1. CASE LinkUp
      BY <1>4, <3>1, WireBreaksStep DEF AgentRestart
    <3>2. CASE ~LinkUp
      BY <1>1, <1>4, <3>2 DEF AgentRestart, TypeOK, WireTypeOK, AgentTypeOK, HandlerOK, Handling
    <3> QED BY <3>1, <3>2
  <2>2. HandlerOK'
    BY <1>1, <1>4, <2>1 DEF HandlerOK, AgentRestart, LinkUp, HelloStages, ResultStages
  <2>3. AgentTypeOK' /\ HistoryTypeOK'
    BY <1>1, <1>4, <2>1 DEF TypeOK, AgentTypeOK, HistoryTypeOK, AgentRestart, Mishap
  <2> QED BY <1>1, <1>4, <2>1, <2>2, <2>3 DEF TypeOK, RowTypeOK, ServerTypeOK, AgentRestart
<1> QED BY <1>2, <1>3, <1>4

\* executeCommand: what a command does to the agent's maps and the queue.
LEMMA ReceiveCommandStep ==
  ASSUME WellFormed, ReceiveCommand
  PROVE  WellFormed'
<1> USE DeliveryAssumption DEF WellFormed, serverVars
<1> DEFINE c == Head(toDevice).cmd
<1>1. TypeOK /\ HandlerOK
  OBVIOUS
<1>2. c \in Commands /\ Tail(toDevice) \in Seq(ServerMessage)
  BY <1>1, IncomingType, Read DEF ReceiveCommand
<1>3. \A s \in ResultStatus : NewResult(c, s) \in Result
  BY <1>1, <1>2, NewResultType
<1>4. \E r \in Result : SendResult(r)
  BY <1>1, <1>2, <1>3 DEF ReceiveCommand, SendFinal, SendAcknowledged, ResultStatus, TypeOK,
                          AgentTypeOK
<1>5. /\ pending' \subseteq Result
      /\ toServer' \in [Conns -> Seq(ClientMessage)]
      /\ \A k \in Conns : \A t : Handling(k, t) => Handling(k, t)'
      /\ \A k \in Conns : k > conn => toServer'[k] = <<>>
  BY <1>4, SendResultStep
<1>6. /\ completed' \in [Commands -> Result \cup {NoResult}]
      /\ inFlight' \subseteq Commands
      /\ nextRid' \in Nat
      /\ finished' \subseteq Commands
      /\ rerun' \subseteq Commands
  <2>1. /\ inFlight' = inFlight \/ inFlight' = inFlight \cup {c}
        /\ rerun' = rerun \/ rerun' = rerun \cup {c}
    BY DEF ReceiveCommand
  <2>2. /\ nextRid' = nextRid \/ nextRid' = nextRid + 1
        /\ finished' = finished \/ finished' = finished \cup {c}
    BY DEF ReceiveCommand, SendFinal, SendAcknowledged
  <2>3. \/ completed' = completed
        \/ completed' = [completed EXCEPT ![c] = NewResult(c, "failed")]
    BY DEF ReceiveCommand, SendFinal, SendAcknowledged
  <2>4. NewResult(c, "failed") \in Result
    BY <1>3 DEF ResultStatus
  <2> HIDE DEF c
  <2>5. completed' \in [Commands -> Result \cup {NoResult}]
    BY <1>1, <1>2, <2>3, <2>4 DEF TypeOK, AgentTypeOK
  <2>6. inFlight' \subseteq Commands
    BY <1>1, <1>2, <2>1 DEF TypeOK, AgentTypeOK
  <2>7. nextRid' \in Nat
    <3>1. nextRid \in Nat
      BY <1>1 DEF TypeOK, AgentTypeOK
    <3> QED BY <2>2, <3>1
  <2>8. finished' \subseteq Commands /\ rerun' \subseteq Commands
    BY <1>1, <1>2, <2>1, <2>2 DEF TypeOK, HistoryTypeOK
  <2> QED BY <2>5, <2>6, <2>7, <2>8
<1>7. HandlerOK'
  BY <1>1, <1>5 DEF HandlerOK, ReceiveCommand, LinkUp
<1> QED BY <1>1, <1>2, <1>5, <1>6, <1>7
        DEF ReceiveCommand, TypeOK, RowTypeOK, ServerTypeOK, WireTypeOK, AgentTypeOK, HistoryTypeOK

\* The handler of a command settles.
LEMMA FinishCommandStep ==
  ASSUME WellFormed, NEW c \in Commands, FinishCommand(c)
  PROVE  WellFormed'
<1> USE DeliveryAssumption DEF WellFormed, serverVars
<1>1. TypeOK /\ HandlerOK
  OBVIOUS
<1>2. PICK s \in {"succeeded", "failed"} : SendFinal(c, s)
  BY DEF FinishCommand
<1>3. NewResult(c, s) \in Result
  BY <1>1, NewResultType DEF ResultStatus
<1>4. /\ pending' \subseteq Result
      /\ toServer' \in [Conns -> Seq(ClientMessage)]
      /\ \A k \in Conns : \A t : Handling(k, t) => Handling(k, t)'
      /\ \A k \in Conns : k > conn => toServer'[k] = <<>>
  BY <1>2, <1>3, SendResultStep DEF SendFinal
<1>5. /\ completed' \in [Commands -> Result \cup {NoResult}]
      /\ nextRid' \in Nat
      /\ finished' \subseteq Commands
  BY <1>1, <1>2, <1>3 DEF SendFinal, TypeOK, AgentTypeOK, HistoryTypeOK
<1>6. HandlerOK'
  BY <1>1, <1>4 DEF HandlerOK, FinishCommand, LinkUp
<1> QED BY <1>1, <1>4, <1>5, <1>6
        DEF FinishCommand, TypeOK, RowTypeOK, ServerTypeOK, WireTypeOK, AgentTypeOK, HistoryTypeOK

\* helloAccepted, the resend loop, the answers and a close.
LEMMA AnswerStep ==
  ASSUME WellFormed,
         ReceiveHelloAccepted \/ Resend \/ ReceiveAccepted \/ ReceiveError \/ ReceiveClose
  PROVE  WellFormed'
<1> USE DeliveryAssumption DEF WellFormed, serverVars, agentVars, history
<1>1. TypeOK /\ HandlerOK
  OBVIOUS
<1>2. CASE ReceiveHelloAccepted
  <2>1. Tail(toDevice) \in Seq(ServerMessage)
    BY <1>1, <1>2, IncomingType DEF ReceiveHelloAccepted
  <2>2. HandlerOK'
    BY <1>1, <1>2 DEF HandlerOK, Handling, ReceiveHelloAccepted, Incoming, LinkUp
  <2> QED BY <1>1, <1>2, <2>1, <2>2
          DEF ReceiveHelloAccepted, TypeOK, RowTypeOK, ServerTypeOK, WireTypeOK, AgentTypeOK,
              HistoryTypeOK
<1>3. CASE Resend
  <2>1. CASE \E r \in pending :
               /\ toServer' = [toServer EXCEPT ![conn] = Append(@, r)]
               /\ cursor' = r.rid
               /\ UNCHANGED link
    <3>1. PICK r \in Result : /\ toServer' = [toServer EXCEPT ![conn] = Append(@, r)]
                              /\ cursor' = r.rid
                              /\ UNCHANGED link
      BY <1>1, <2>1 DEF TypeOK, AgentTypeOK
    <3>2. /\ toServer' \in [Conns -> Seq(ClientMessage)]
          /\ \A k \in Conns : \A t : Handling(k, t) => Handling(k, t)'
          /\ \A k \in Conns : k > conn => toServer'[k] = <<>>
      BY <1>3, <3>1, AppendStep DEF Resend, LinkUp
    <3>3. cursor' \in Nat
      BY <3>1, Received
    <3>4. HandlerOK'
      BY <1>1, <1>3, <3>1, <3>2 DEF HandlerOK, Resend, LinkUp
    <3> QED BY <1>1, <1>3, <3>1, <3>2, <3>3, <3>4
            DEF Resend, TypeOK, RowTypeOK, ServerTypeOK, WireTypeOK, AgentTypeOK, HistoryTypeOK
  <2>2. CASE link' = "online" /\ cursor' = 0 /\ UNCHANGED toServer
    <3>1. HandlerOK'
      BY <1>1, <1>3, <2>2 DEF HandlerOK, Handling, Resend, LinkUp
    <3> QED BY <1>1, <1>3, <2>2, <3>1
            DEF Resend, TypeOK, RowTypeOK, ServerTypeOK, WireTypeOK, AgentTypeOK, HistoryTypeOK
  <2> QED BY <1>3, <2>1, <2>2 DEF Resend
<1>4. CASE ReceiveAccepted \/ ReceiveError
  <2>1. Tail(toDevice) \in Seq(ServerMessage) /\ Head(toDevice).cmd \in Commands
    BY <1>1, <1>4, IncomingType, Read DEF ReceiveAccepted, ReceiveError
  <2>2. HandlerOK'
    BY <1>1, <1>4 DEF HandlerOK, Handling, ReceiveAccepted, ReceiveError, LinkUp
  <2>3. AgentTypeOK'
    BY <1>1, <1>4, <2>1 DEF TypeOK, AgentTypeOK, ReceiveAccepted, ReceiveError, Forget
  <2> QED BY <1>1, <1>4, <2>1, <2>2, <2>3
          DEF ReceiveAccepted, ReceiveError, TypeOK, RowTypeOK, ServerTypeOK, WireTypeOK,
              HistoryTypeOK
<1>5. CASE ReceiveClose
  <2>1. HandlerOK'
    BY <1>1, <1>5 DEF HandlerOK, Handling, ReceiveClose, LinkUp
  <2>2. toDevice' \in Seq(ServerMessage)
    BY <1>5 DEF ReceiveClose
  <2> QED BY <1>1, <1>5, <2>1, <2>2
          DEF ReceiveClose, TypeOK, RowTypeOK, ServerTypeOK, WireTypeOK, AgentTypeOK, HistoryTypeOK
<1> QED BY <1>2, <1>3, <1>4, <1>5

-----------------------------------------------------------------------------

LEMMA WellFormedStep == WellFormed /\ [Next]_vars => WellFormed'
<1> SUFFICES ASSUME WellFormed, [Next]_vars PROVE WellFormed'
  OBVIOUS
<1>1. CASE Next
  <2>1. ASSUME NEW c \in Commands,
               \/ Issue(c) \/ Dispatch(c) \/ MarkDelivered(c) \/ Lapse(c)
               \/ FinishCommand(c)
        PROVE  WellFormed'
    BY <2>1, RequestStep, FinishCommandStep
  <2>2. CASE Expire
    <3>1. PICK c \in Commands : TRUE
      BY <2>2 DEF Expire, WellFormed, TypeOK, RowTypeOK
    <3> QED BY <2>2, <3>1, RequestStep
  <2>3. ASSUME NEW k \in Conns,
               Gateway(k) \/ HelloFails(k) \/ RecordFails(k) \/ Disconnect(k)
        PROVE  WellFormed'
    BY <2>3, HelloStep, ResultStep DEF Gateway
  <2>4. CASE ServerRestart
    <3>1. 1 \in Conns
      BY DeliveryAssumption DEF Conns
    <3> QED BY <2>4, <3>1, ResultStep
  <2>5. CASE Connect \/ Drop \/ AgentRestart
    BY <2>5, LinkStep
  <2>6. CASE Agent
    BY <2>6, ReceiveCommandStep, AnswerStep DEF Agent
  <2> QED BY <1>1, <2>1, <2>2, <2>3, <2>4, <2>5, <2>6 DEF Next
<1>2. CASE UNCHANGED vars
  BY <1>2 DEF WellFormed, TypeOK, RowTypeOK, ServerTypeOK, WireTypeOK, AgentTypeOK,
              HistoryTypeOK, HandlerOK, Handling, LinkUp, vars
<1> QED BY <1>1, <1>2

\* Every state has the types declared, and the handler under way on a
\* connection has its message: no step of device.gateway.ts or of
\* controlAgentService.ts reads what is not there.
THEOREM TypesHold == Spec => [](TypeOK /\ HandlerOK)
<1>1. Init => WellFormed
  BY InitWellFormed
<1>2. WellFormed /\ [Next]_vars => WellFormed'
  BY WellFormedStep
<1>3. WellFormed => TypeOK /\ HandlerOK
  BY DEF WellFormed
<1> QED BY <1>1, <1>2, <1>3, PTL DEF Spec

-----------------------------------------------------------------------------
(* The reports and the rows.                                                *)

DeliveryInv == WellFormed /\ ReportsHonest

-----------------------------------------------------------------------------
(* What one step may do to the rows.                                        *)

\* A row of a step that closes, advances or creates it.
RowStep ==
  \/ UNCHANGED target
  \/ \E c \in Commands : /\ target[c] = "none"
                         /\ target' = [target EXCEPT ![c] = "pending"]
  \/ \E c \in Commands : /\ target[c] = "pending"
                         /\ target' = [target EXCEPT ![c] = "delivered"]
  \/ \E c \in Commands : /\ target[c] \in Undecided
                         /\ target' = [target EXCEPT ![c] = "failed"]
  \/ \E C \in SUBSET Commands :
       /\ \A c \in C : target[c] \in Undecided
       /\ target' = [c \in Commands |-> IF c \in C THEN "expired" ELSE target[c]]
  \/ \E r \in Result :
       /\ Honest(r)
       /\ target[r.cmd] \in Undecided
       /\ target' = [target EXCEPT ![r.cmd] = r.status]

\* The transaction of recordResult.
LEMMA RecordTxRow ==
  ASSUME DeliveryInv, NEW k \in Conns, RecordTx(k)
  PROVE  RowStep
<1> DEFINE r == Head(toServer[k])
<1>1. TypeOK /\ Handling(k, "result")
  BY DEF DeliveryInv, WellFormed, HandlerOK, RecordTx, ResultStages
<1>2. r \in Result /\ r.cmd \in Commands /\ target[r.cmd] \in TargetStatus
  BY <1>1, HeadType, Received DEF TypeOK, RowTypeOK
<1>3. Honest(r)
  <2>1. 1 \in 1..Len(toServer[k]) /\ toServer[k][1] = r /\ r.type = "result"
    BY <1>1 DEF Handling, TypeOK, WireTypeOK
  <2> QED BY <2>1 DEF DeliveryInv, ReportsHonest, WireHonest
<1>4. CASE Settled(r.cmd)
  BY <1>4 DEF RecordTx, RowStep
<1>5. CASE ~Settled(r.cmd)
  <2>1. target[r.cmd] \in Undecided
    BY <1>2, <1>3, <1>5 DEF Settled, Honest, Issued, TargetStatus
  <2>2. CASE stage[k] = "txLate"
    <3>1. target' = [target EXCEPT ![r.cmd] = "expired"]
      BY <1>5, <2>2 DEF RecordTx
    <3>2. target' = [c \in Commands |-> IF c \in {r.cmd} THEN "expired" ELSE target[c]]
      BY <1>1, <1>2, <3>1 DEF TypeOK, RowTypeOK
    <3>3. {r.cmd} \in SUBSET Commands /\ \A c \in {r.cmd} : target[c] \in Undecided
      BY <1>2, <2>1
    <3> QED BY <3>2, <3>3 DEF RowStep
  <2>3. CASE stage[k] # "txLate"
    <3>1. target' = [target EXCEPT ![r.cmd] = r.status]
      BY <1>5, <2>3 DEF RecordTx
    <3> HIDE DEF r
    <3> QED BY <1>2, <1>3, <2>1, <3>1 DEF RowStep
  <2> QED BY <2>2, <2>3
<1> QED BY <1>4, <1>5

LEMMA RowSteps == DeliveryInv /\ [Next]_vars => RowStep
<1> SUFFICES ASSUME DeliveryInv, [Next]_vars PROVE RowStep
  OBVIOUS
<1>1. ASSUME NEW c \in Commands,
             Issue(c) \/ Dispatch(c) \/ MarkDelivered(c) \/ Lapse(c) \/ FinishCommand(c)
      PROVE  RowStep
  BY <1>1 DEF RowStep, Issue, Dispatch, MarkDelivered, MarkedDelivered, Lapse, FinishCommand
<1>2. CASE Expire
  <2> DEFINE C == {c \in lapsed : target[c] \in Undecided}
  <2>1. C \in SUBSET Commands /\ \A c \in C : target[c] \in Undecided
    BY DEF DeliveryInv, WellFormed, TypeOK, RowTypeOK
  <2>2. target' = [c \in Commands |-> IF c \in C THEN "expired" ELSE target[c]]
    BY <1>2 DEF Expire
  <2> HIDE DEF C
  <2> QED BY <2>1, <2>2 DEF RowStep
<1>3. ASSUME NEW k \in Conns,
             \/ HandleHello(k) \/ ReadPending(k) \/ RejectPending(k) \/ SendPending(k)
             \/ MarkPending(k) \/ EndPending(k) \/ HelloFails(k)
      PROVE  RowStep
  <2>1. \A e \in todo[k] : e.cmd \in Commands
    BY DEF DeliveryInv, WellFormed, TypeOK, ServerTypeOK
  <2> QED BY <1>3, <2>1 DEF RowStep, HandleHello, ReadPending, RejectPending, MarkedRejected,
             SendPending, MarkPending, MarkedDelivered, EndPending, HelloFails
<1>4. ASSUME NEW k \in Conns,
             RecordStart(k) \/ RecordFails(k) \/ RecordReply(k) \/ Disconnect(k)
      PROVE  RowStep
  BY <1>4 DEF RowStep, RecordStart, RecordFails, RecordReply, Disconnect
<1>5. CASE ServerRestart \/ Connect \/ Drop \/ AgentRestart \/ Agent
  BY <1>5 DEF RowStep, ServerRestart, Connect, Drop, AgentRestart, Agent, ReceiveHelloAccepted,
              Resend, ReceiveCommand, ReceiveAccepted, ReceiveError, ReceiveClose
<1>6. CASE UNCHANGED vars
  BY <1>6 DEF RowStep, vars
<1> QED BY <1>1, <1>2, <1>3, <1>4, <1>5, <1>6, RecordTxRow DEF Next, Gateway

\* What was issued stays issued, and what is reported as succeeded has run.
LEMMA RowsStayHonest ==
  ASSUME DeliveryInv, RowStep, ran \subseteq ran'
  PROVE  Issued \subseteq Issued' /\ RowsHonest'
<1>1. \A c \in Commands : target[c] # "none" => target'[c] # "none"
  BY DEF RowStep, DeliveryInv, WellFormed, TypeOK, RowTypeOK, Result, ResultStatus
<1>2. \A c \in Commands : target'[c] = "succeeded" => c \in ran'
  BY DEF RowStep, DeliveryInv, WellFormed, TypeOK, RowTypeOK, ReportsHonest, RowsHonest, Honest,
         Result
<1> QED BY <1>1, <1>2 DEF Issued, RowsHonest

-----------------------------------------------------------------------------
(* What one step may do to the reports: those already there, or honest ones. *)

\* Honest, judged in the next state.
HonestNext(r) ==
  /\ r.cmd \in Issued'
  /\ r.status = "succeeded" => r.cmd \in ran'

\* An honest report that the agent keeps until it is answered
KeptNext(r) == r \in pending' /\ HonestNext(r)

\* A queue to the server from which messages were taken, or that grew by a hello
\* or a report that is kept.
ServerQueueStep ==
  \A k \in Conns : \A i \in 1..Len(toServer'[k]) :
    \/ \E j \in 1..Len(toServer[k]) : toServer'[k][i] = toServer[k][j]
    \/ toServer'[k][i].type # "result"
    \/ KeptNext(toServer'[k][i])

DeviceQueueStep ==
  \A i \in 1..Len(toDevice') :
    \/ \E j \in 1..Len(toDevice) : toDevice'[i] = toDevice[j]
    \/ toDevice'[i].type # "command"
    \/ toDevice'[i].cmd \in Issued

ServerStep ==
  /\ dispatch' \subseteq Issued'
  /\ \A k \in Conns : \A e \in todo'[k] : e \in todo[k] \/ e.cmd \in Issued

AgentStep ==
  /\ inFlight' \subseteq inFlight \cup Issued
  /\ ran' \subseteq ran \cup Issued
  /\ \A r \in pending' : r \in pending \/ HonestNext(r)
  /\ \A c \in Commands : completed'[c] # NoResult =>
       completed'[c] = completed[c] \/ KeptNext(completed'[c])

ReportStep ==
  ran \subseteq ran' /\ ServerStep /\ AgentStep /\ ServerQueueStep /\ DeviceQueueStep

LEMMA ReportsStayHonest ==
  ASSUME DeliveryInv, RowStep, ReportStep
  PROVE  ReportsHonest'
<1>1. Issued \subseteq Issued' /\ RowsHonest' /\ ran \subseteq ran'
  BY RowsStayHonest DEF ReportStep
<1>2. ServerHonest'
  BY <1>1 DEF DeliveryInv, ReportsHonest, ServerHonest, ReportStep, ServerStep
<1>3. AgentHonest'
  <2>1. inFlight' \cup ran' \subseteq Issued'
    BY <1>1 DEF DeliveryInv, ReportsHonest, AgentHonest, ReportStep, AgentStep
  <2>2. ASSUME NEW r \in pending' PROVE HonestNext(r)
    <3>1. CASE r \in pending
      BY <1>1, <3>1 DEF DeliveryInv, ReportsHonest, AgentHonest, Honest, HonestNext
    <3> QED BY <2>2, <3>1 DEF ReportStep, AgentStep
  <2>3. ASSUME NEW c \in Commands, completed'[c] # NoResult 
        PROVE  HonestNext(completed'[c])
    <3>1. CASE completed'[c] = completed[c]
      BY <1>1, <2>3, <3>1 DEF DeliveryInv, ReportsHonest, AgentHonest, Honest, HonestNext
    <3> QED BY <2>3, <3>1 DEF ReportStep, AgentStep, KeptNext
  <2> QED BY <2>1, <2>2, <2>3 DEF AgentHonest, Honest, HonestNext
<1>4. WireHonest'
  <2>1. ASSUME NEW k \in Conns, NEW i \in 1..Len(toServer'[k]), toServer'[k][i].type = "result"
        PROVE  HonestNext(toServer'[k][i])
    <3>1. CASE \E j \in 1..Len(toServer[k]) : toServer'[k][i] = toServer[k][j]
      BY <1>1, <2>1, <3>1 DEF DeliveryInv, ReportsHonest, WireHonest, Honest, HonestNext
    <3> QED BY <2>1, <3>1 DEF ReportStep, ServerQueueStep, KeptNext
  <2>2. ASSUME NEW i \in 1..Len(toDevice'), toDevice'[i].type = "command"
        PROVE  toDevice'[i].cmd \in Issued'
    BY <1>1, <2>2 DEF DeliveryInv, ReportsHonest, WireHonest, ReportStep, DeviceQueueStep
  <2> QED BY <2>1, <2>2 DEF WireHonest, Honest, HonestNext
<1> QED BY <1>1, <1>2, <1>3, <1>4 DEF ReportsHonest

-----------------------------------------------------------------------------
(* The queues, one way of changing them at a time.                          *)

LEMMA QuietQueues ==
  ASSUME WellFormed
  PROVE  /\ UNCHANGED toServer => ServerQueueStep
         /\ UNCHANGED toDevice => DeviceQueueStep
  BY DEF ServerQueueStep, DeviceQueueStep

LEMMA PostStep ==
  ASSUME WellFormed, NEW k, NEW m \in ServerMessage, m.type = "command" => m.cmd \in Issued,
         toDevice' = Post(k, m)
  PROVE  DeviceQueueStep
<1>1. toDevice \in Seq(ServerMessage)
  BY DEF WellFormed, TypeOK, WireTypeOK
<1>2. CASE toDevice' = toDevice
  BY <1>2, QuietQueues
<1>3. CASE toDevice' = Append(toDevice, m)
  BY <1>1, <1>3 DEF DeviceQueueStep
<1> QED BY <1>2, <1>3 DEF Post

LEMMA DeviceTailStep ==
  ASSUME WellFormed, toDevice # <<>>, toDevice' = Tail(toDevice)
  PROVE  DeviceQueueStep
<1>1. toDevice \in Seq(ServerMessage)
  BY DEF WellFormed, TypeOK, WireTypeOK
<1>2. ASSUME NEW i \in 1..Len(toDevice')
      PROVE  i + 1 \in 1..Len(toDevice) /\ toDevice'[i] = toDevice[i + 1]
  BY <1>1, <1>2
<1> QED BY <1>2 DEF DeviceQueueStep

LEMMA ServerTailStep ==
  ASSUME WellFormed, NEW k \in Conns, toServer[k] # <<>>,
         toServer' = [toServer EXCEPT ![k] = Tail(toServer[k])]
  PROVE  ServerQueueStep
<1>1. /\ toServer \in [Conns -> Seq(ClientMessage)]
      /\ toServer[k] \in Seq(ClientMessage)
  BY DEF WellFormed, TypeOK, WireTypeOK
<1>2. ASSUME NEW n \in Conns, NEW i \in 1..Len(toServer'[n])
      PROVE  \E j \in 1..Len(toServer[n]) : toServer'[n][i] = toServer[n][j]
  <2>1. CASE n = k
    <3>1. toServer'[n] = Tail(toServer[n])
      BY <1>1, <2>1
    <3>2. i + 1 \in 1..Len(toServer[n]) /\ toServer'[n][i] = toServer[n][i + 1]
      BY <1>1, <1>2, <2>1, <3>1
    <3> QED BY <3>2
  <2>2. CASE n # k
    BY <1>1, <1>2, <2>2
  <2> QED BY <2>1, <2>2
<1> QED BY <1>2 DEF ServerQueueStep

LEMMA PrefixStep ==
  ASSUME WellFormed, WireBreaks
  PROVE  ServerQueueStep /\ DeviceQueueStep
<1>1. /\ toServer \in [Conns -> Seq(ClientMessage)]
      /\ conn \in Conns
      /\ toServer[conn] \in Seq(ClientMessage)
  BY DEF WellFormed, TypeOK, WireTypeOK, HandlerOK, WireBreaks
<1>2. PICK n \in 0..Len(toServer[conn]) :
        toServer' = [toServer EXCEPT ![conn] = SubSeq(@, 1, n)]
  BY DEF WireBreaks
<1>3. ASSUME NEW k \in Conns, NEW i \in 1..Len(toServer'[k])
      PROVE  \E j \in 1..Len(toServer[k]) : toServer'[k][i] = toServer[k][j]
  <2>1. CASE k = conn
    <3>1. toServer'[k] = SubSeq(toServer[k], 1, n)
      BY <1>1, <1>2, <2>1
    <3>2. i \in 1..Len(toServer[k]) /\ toServer'[k][i] = toServer[k][i]
      BY <1>1, <1>2, <1>3, <2>1, <3>1
    <3> QED BY <3>2
  <2>2. CASE k # conn
    BY <1>1, <1>2, <1>3, <2>2
  <2> QED BY <2>1, <2>2
<1>4. toDevice' = <<>>
  BY DEF WireBreaks
<1> QED BY <1>3, <1>4 DEF ServerQueueStep, DeviceQueueStep

LEMMA AppendReportStep ==
  ASSUME WellFormed, NEW r \in Result, KeptNext(r), LinkUp,
         toServer' = [toServer EXCEPT ![conn] = Append(@, r)]
  PROVE  ServerQueueStep
<1>1. /\ toServer \in [Conns -> Seq(ClientMessage)]
      /\ conn \in Conns
      /\ toServer[conn] \in Seq(ClientMessage)
      /\ r \in ClientMessage
  BY Received DEF WellFormed, TypeOK, WireTypeOK, HandlerOK
<1>2. ASSUME NEW k \in Conns, NEW i \in 1..Len(toServer'[k])
      PROVE  \/ \E j \in 1..Len(toServer[k]) : toServer'[k][i] = toServer[k][j]
             \/ toServer'[k][i] = r
  <2>1. CASE k = conn
    <3>1. toServer'[k] = Append(toServer[k], r)
      BY <1>1, <2>1
    <3>2. \/ i \in 1..Len(toServer[k]) /\ toServer'[k][i] = toServer[k][i]
          \/ toServer'[k][i] = r
      BY <1>1, <1>2, <2>1, <3>1
    <3> QED BY <3>2
  <2>2. CASE k # conn
    BY <1>1, <1>2, <2>2
  <2> QED BY <2>1, <2>2
<1> QED BY <1>2 DEF ServerQueueStep

-----------------------------------------------------------------------------
(* The reports, one action at a time.                                       *)

LEMMA RequestReports ==
  ASSUME DeliveryInv, NEW c \in Commands,
         Issue(c) \/ Dispatch(c) \/ MarkDelivered(c) \/ Lapse(c) \/ Expire
  PROVE  ReportStep
<1> USE DEF serverVars, agentVars, history
<1>1. WellFormed /\ RowStep /\ ReportsHonest
  BY RowSteps DEF DeliveryInv, Next
<1>2. ran' = ran /\ Issued \subseteq Issued'
  BY <1>1, RowsStayHonest DEF Issue, Dispatch, MarkDelivered, Lapse, Expire
<1>3. ServerStep
  <2>1. dispatch' \subseteq Issued'
    <3>1. CASE Issue(c)
      <4>1. c \in Issued'
        BY <3>1, <1>1 DEF Issue, Issued, WellFormed, TypeOK, RowTypeOK
      <4> QED BY <1>1, <1>2, <3>1, <4>1 DEF Issue, ReportsHonest, ServerHonest
    <3>2. CASE ~Issue(c)
      BY <1>1, <1>2, <3>2
      DEF Dispatch, MarkDelivered, Lapse, Expire, ReportsHonest, ServerHonest
    <3> QED BY <3>1, <3>2
  <2> QED BY <2>1 DEF ServerStep, Issue, Dispatch, MarkDelivered, Lapse, Expire
<1>4. AgentStep /\ ServerQueueStep
  BY <1>1, <1>2, QuietQueues DEF AgentStep, Issue, Dispatch, MarkDelivered, Lapse, Expire
<1>5. DeviceQueueStep
  <2>1. CASE UNCHANGED toDevice
    BY <1>1, <2>1, QuietQueues
  <2>2. CASE c \in dispatch /\ toDevice' = Post(registered, [type |-> "command", cmd |-> c])
    BY <1>1, <2>2, Sent, PostStep DEF ReportsHonest, ServerHonest
  <2> QED BY <2>1, <2>2 DEF Issue, Dispatch, MarkDelivered, Lapse, Expire
<1> QED BY <1>2, <1>3, <1>4, <1>5 DEF ReportStep

LEMMA HelloReports ==
  ASSUME DeliveryInv, NEW k \in Conns,
         \/ HandleHello(k) \/ ReadPending(k) \/ RejectPending(k) \/ SendPending(k)
         \/ MarkPending(k) \/ EndPending(k) \/ HelloFails(k)
  PROVE  ReportStep
<1> USE DEF serverVars, agentVars, history
<1>1. WellFormed /\ RowStep /\ ReportsHonest
  BY RowSteps DEF DeliveryInv, Next, Gateway
<1>2. ran' = ran /\ Issued \subseteq Issued'
  BY <1>1, RowsStayHonest
  DEF HandleHello, ReadPending, RejectPending, SendPending, MarkPending, EndPending, HelloFails
<1>3. AgentStep
  BY DEF AgentStep, HandleHello, ReadPending, RejectPending, SendPending, MarkPending, EndPending,
         HelloFails
<1>4. ServerStep
  <2>1. dispatch' \subseteq Issued'
    BY <1>1, <1>2 DEF ReportsHonest, ServerHonest, HandleHello, ReadPending, RejectPending,
                      SendPending, MarkPending, EndPending, HelloFails
  <2>2. ASSUME NEW n \in Conns, NEW e \in todo'[n] PROVE e \in todo[n] \/ e.cmd \in Issued
    <3>1. todo \in [Conns -> SUBSET [cmd : Commands, supported : BOOLEAN]]
      BY <1>1 DEF WellFormed, TypeOK, ServerTypeOK
    <3>2. CASE ReadPending(k)
      <4>1. \A c \in PendingForDevice : c \in Issued
        BY DEF PendingForDevice, Issued, Undecided
      <4>2. n # k => todo'[n] = todo[n]
        BY <3>1, <3>2 DEF ReadPending
      <4>3. n = k => \E c \in PendingForDevice : e.cmd = c
        BY <2>2, <3>1, <3>2 DEF ReadPending
      <4> QED BY <2>2, <4>1, <4>2, <4>3
    <3>3. CASE ~ReadPending(k)
      BY <2>2, <3>1, <3>3 DEF HandleHello, RejectPending, SendPending, MarkPending, EndPending,
                              HelloFails, Finish
    <3> QED BY <3>2, <3>3
  <2> QED BY <2>1, <2>2 DEF ServerStep
<1>5. ServerQueueStep
  <2>1. CASE EndPending(k) \/ HelloFails(k)
    <3>1. toServer[k] # <<>>
      BY <1>1, <2>1 DEF WellFormed, HandlerOK, Handling, HelloStages, EndPending, HelloFails
    <3> QED BY <1>1, <2>1, <3>1, ServerTailStep DEF EndPending, HelloFails, Finish
  <2> QED BY <1>1, <2>1, QuietQueues
          DEF HandleHello, ReadPending, RejectPending, SendPending, MarkPending
<1>6. DeviceQueueStep
  <2>1. CASE UNCHANGED toDevice
    BY <1>1, <2>1, QuietQueues
  <2>2. CASE \E n, m : /\ m \in ServerMessage
                       /\ m.type = "command" => m.cmd \in Issued
                       /\ toDevice' = Post(n, m)
    BY <1>1, <2>2, PostStep
  <2>3. CASE HandleHello(k)
    <3>1. \A why \in {"connectionReplaced", "internalError"} :
            [type |-> "close", reason |-> why].type # "command"
      OBVIOUS
    <3>2. [type |-> "helloAccepted"].type # "command"
      OBVIOUS
    <3> QED BY <2>1, <2>2, <2>3, <3>1, <3>2, Sent DEF HandleHello
  <2>4. CASE HelloFails(k)
    <3>1. [type |-> "close", reason |-> "internalError"].type # "command"
      OBVIOUS
    <3> QED BY <2>1, <2>2, <2>4, <3>1, Sent DEF HelloFails
  <2>5. CASE SendPending(k)
    <3>1. \A e \in todo[k] : e.cmd \in Commands /\ e.cmd \in Issued
      BY <1>1 DEF WellFormed, TypeOK, ServerTypeOK, ReportsHonest, ServerHonest
    <3>2. \A e \in todo[k] : LET m == [type |-> "command", cmd |-> e.cmd]
                            IN  m \in ServerMessage /\ m.cmd \in Issued
      BY <3>1, Sent
    <3> QED BY <2>1, <2>2, <2>5, <3>2 DEF SendPending
  <2> QED BY <2>1, <2>3, <2>4, <2>5 DEF ReadPending, RejectPending, MarkPending, EndPending
<1> QED BY <1>2, <1>3, <1>4, <1>5, <1>6 DEF ReportStep

LEMMA ResultReports ==
  ASSUME DeliveryInv, NEW k \in Conns,
         \/ RecordStart(k) \/ RecordTx(k) \/ RecordFails(k) \/ RecordReply(k)
         \/ Disconnect(k) \/ ServerRestart
  PROVE  ReportStep
<1> USE DEF serverVars, agentVars, history
<1>1. WellFormed /\ RowStep /\ ReportsHonest
  BY RowSteps DEF DeliveryInv, Next, Gateway
<1>2. ran' = ran /\ Issued \subseteq Issued'
  BY <1>1, RowsStayHonest
  DEF RecordStart, RecordTx, RecordFails, RecordReply, Disconnect, ServerRestart
<1>3. AgentStep
  BY DEF AgentStep, RecordStart, RecordTx, RecordFails, RecordReply, Disconnect, ServerRestart
<1>4. ServerStep
  <2>1. dispatch' \subseteq Issued'
    BY <1>1, <1>2 DEF ReportsHonest, ServerHonest, RecordStart, RecordTx, RecordFails,
                      RecordReply, Disconnect, ServerRestart
  <2>2. ASSUME NEW n \in Conns, NEW e \in todo'[n] PROVE e \in todo[n]
    BY <1>1, <2>2 DEF WellFormed, TypeOK, ServerTypeOK, RecordStart, RecordTx, RecordFails,
                      RecordReply, Finish, Disconnect, ServerRestart
  <2> QED BY <2>1, <2>2 DEF ServerStep
<1>5. ServerQueueStep
  <2>1. CASE RecordReply(k)
    <3>1. toServer[k] # <<>>
      BY <1>1, <2>1 DEF WellFormed, HandlerOK, Handling, ResultStages, RecordReply
    <3> QED BY <1>1, <2>1, <3>1, ServerTailStep DEF RecordReply, Finish
  <2>2. CASE ServerRestart
    BY <2>2 DEF ServerRestart, ServerQueueStep
  <2> QED BY <1>1, <2>1, <2>2, QuietQueues DEF RecordStart, RecordTx, RecordFails, Disconnect
<1>6. DeviceQueueStep
  <2>1. CASE RecordReply(k)
    <3> DEFINE r == Head(toServer[k])
               a == IF stage[k] = "replyAccepted" THEN "accepted" ELSE "error"
               m == [type |-> a, rid |-> r.rid, cmd |-> r.cmd]
    <3>1. r \in Result
      BY <1>1, <2>1, HeadType, Received DEF WellFormed, HandlerOK, RecordReply, ResultStages
    <3>2. m \in ServerMessage /\ m.type # "command"
      BY <3>1, Sent
    <3>3. toDevice' = Post(k, m) \/ toDevice' = toDevice
      BY <2>1 DEF RecordReply
    <3> HIDE DEF m
    <3> QED BY <1>1, <3>2, <3>3, PostStep, QuietQueues
  <2>2. CASE ServerRestart
    BY <2>2 DEF ServerRestart, DeviceQueueStep
  <2> QED BY <1>1, <2>1, <2>2, QuietQueues DEF RecordStart, RecordTx, RecordFails, Disconnect
<1> QED BY <1>2, <1>3, <1>4, <1>5, <1>6 DEF ReportStep

LEMMA LinkReports ==
  ASSUME DeliveryInv, Connect \/ Drop \/ AgentRestart
  PROVE  ReportStep
<1> USE DEF serverVars, agentVars, history
<1>1. WellFormed /\ RowStep /\ ReportsHonest
  BY RowSteps DEF DeliveryInv, Next
<1>2. ran' = ran /\ Issued \subseteq Issued'
  BY <1>1, RowsStayHonest DEF Connect, Drop, AgentRestart
<1>3. ServerStep
  BY <1>1, <1>2 DEF ServerStep, ReportsHonest, ServerHonest, Connect, Drop, AgentRestart
<1>4. AgentStep
  <2>1. ASSUME AgentRestart, NEW c \in Commands PROVE completed'[c] = NoResult
    BY <2>1 DEF AgentRestart
  <2> QED BY <2>1 DEF AgentStep, Connect, Drop, AgentRestart
<1>5. ServerQueueStep /\ DeviceQueueStep
  <2>1. CASE Connect
    <3> DEFINE hello == <<[type |-> "hello", caps |-> skills]>>
    <3>1. Len(hello) = 1 /\ hello[1].type # "result"
      OBVIOUS
    <3>2. ASSUME NEW n \in Conns PROVE toServer'[n] = toServer[n] \/ toServer'[n] = hello
      BY <1>1, <2>1 DEF Connect, WellFormed, TypeOK, WireTypeOK
    <3>3. toDevice' = toDevice
      BY <2>1 DEF Connect
    <3> HIDE DEF hello
    <3> QED BY <1>1, <3>1, <3>2, <3>3, QuietQueues DEF ServerQueueStep
  <2>2. CASE Drop \/ AgentRestart
    BY <1>1, <2>2, PrefixStep, QuietQueues DEF Drop, AgentRestart
  <2> QED BY <2>1, <2>2
<1> QED BY <1>2, <1>3, <1>4, <1>5 DEF ReportStep

\* sendCommandResult of an honest report.
LEMMA SendResultReports ==
  ASSUME DeliveryInv, NEW r \in Result, SendResult(r), HonestNext(r)
  PROVE  ServerQueueStep /\ \A s \in pending' : s \in pending \/ HonestNext(s)
<1>1. CASE LinkUp
  BY <1>1, AppendReportStep DEF SendResult, DeliveryInv, KeptNext
<1>2. CASE ~LinkUp
  BY <1>2, QuietQueues DEF SendResult, DeliveryInv
<1> QED BY <1>1, <1>2 DEF SendResult

LEMMA ReceiveCommandReports ==
  ASSUME DeliveryInv, ReceiveCommand
  PROVE  ReportStep
<1> USE DEF serverVars
<1> DEFINE c == Head(toDevice).cmd
<1>1. WellFormed /\ TypeOK /\ ReportsHonest
  BY DEF DeliveryInv, WellFormed
<1>2. c \in Commands /\ c \in Issued
  <2>1. toDevice \in Seq(ServerMessage) /\ toDevice # <<>>
    BY <1>1 DEF ReceiveCommand, Incoming, TypeOK, WireTypeOK
  <2>2. 1 \in 1..Len(toDevice) /\ toDevice[1] = Head(toDevice)
    BY <2>1
  <2> QED BY <1>1, <2>2, IncomingType, Read
          DEF ReceiveCommand, Incoming, ReportsHonest, WireHonest
<1>3. /\ Issued' = Issued
      /\ ran' = ran
  BY DEF ReceiveCommand, Issued
<1>4. \A s \in {"acknowledged", "failed"} :
        NewResult(c, s) \in Result /\ HonestNext(NewResult(c, s))
  BY <1>1, <1>2, <1>3, NewResultType DEF ResultStatus, NewResult, HonestNext
<1>5. \E r \in Result : SendResult(r) /\ HonestNext(r)
  <2>1. completed[c] # NoResult => completed[c] \in Result /\ HonestNext(completed[c])
    BY <1>1, <1>2, <1>3
    DEF TypeOK, AgentTypeOK, ReportsHonest, AgentHonest, Honest, HonestNext
  <2> HIDE DEF c
  <2> QED BY <1>4, <2>1 DEF c, ReceiveCommand, SendFinal, SendAcknowledged
<1>6. ServerQueueStep /\ \A s \in pending' : s \in pending \/ HonestNext(s)
  BY <1>5, SendResultReports
<1>7. DeviceQueueStep
  BY <1>1, DeviceTailStep DEF ReceiveCommand, Incoming
<1>8. ServerStep
  BY <1>1, <1>3 DEF ServerStep, ReportsHonest, ServerHonest, ReceiveCommand
<1>9. AgentStep
  <2>1. inFlight' \subseteq inFlight \cup Issued
    BY <1>2 DEF ReceiveCommand
  <2>2. \/ completed' = completed
        \/ /\ completed' = [completed EXCEPT ![c] = NewResult(c, "failed")]
           /\ NewResult(c, "failed") \in pending'
    BY DEF ReceiveCommand, SendFinal, SendAcknowledged, SendResult
  <2>3. HonestNext(NewResult(c, "failed"))
    BY <1>4
  <2> HIDE DEF c
  <2>4. \A d \in Commands : completed'[d] = completed[d] \/ KeptNext(completed'[d])
    BY <1>1, <2>2, <2>3 DEF TypeOK, AgentTypeOK, KeptNext
  <2> QED BY <1>3, <1>6, <2>1, <2>4 DEF AgentStep
<1> QED BY <1>3, <1>6, <1>7, <1>8, <1>9 DEF ReportStep

LEMMA FinishCommandReports ==
  ASSUME DeliveryInv, NEW c \in Commands, FinishCommand(c)
  PROVE  ReportStep
<1> USE DEF serverVars
<1>1. WellFormed /\ TypeOK /\ ReportsHonest
  BY DEF DeliveryInv, WellFormed
<1>2. c \in Issued /\ Issued' = Issued
  BY <1>1 DEF FinishCommand, ReportsHonest, AgentHonest, Issued
<1>3. ran \subseteq ran' /\ ran' \subseteq ran \cup Issued
  BY <1>2 DEF FinishCommand
<1>4. PICK s \in {"succeeded", "failed"} :
        /\ SendFinal(c, s)
        /\ s = "succeeded" => c \in ran'
  BY DEF FinishCommand
<1>5. NewResult(c, s) \in Result /\ HonestNext(NewResult(c, s))
  BY <1>1, <1>2, <1>4, NewResultType DEF ResultStatus, NewResult, HonestNext
<1>6. ServerQueueStep /\ \A r \in pending' : r \in pending \/ HonestNext(r)
  BY <1>4, <1>5, SendResultReports DEF SendFinal
<1>7. ServerStep /\ DeviceQueueStep
  BY <1>1, <1>2, QuietQueues DEF ServerStep, ReportsHonest, ServerHonest, FinishCommand
<1>8. AgentStep
  <2>1. \A d \in Commands : completed'[d] = completed[d] \/ KeptNext(completed'[d])
    BY <1>1, <1>4, <1>5 DEF SendFinal, SendResult, TypeOK, AgentTypeOK, KeptNext
  <2>2. inFlight' \subseteq inFlight
    BY DEF FinishCommand
  <2> QED BY <1>3, <1>6, <2>1, <2>2 DEF AgentStep
<1> QED BY <1>3, <1>6, <1>7, <1>8 DEF ReportStep

LEMMA AnswerReports ==
  ASSUME DeliveryInv,
         ReceiveHelloAccepted \/ Resend \/ ReceiveAccepted \/ ReceiveError \/ ReceiveClose
  PROVE  ReportStep
<1> USE DEF serverVars, agentVars, history
<1>1. WellFormed /\ TypeOK /\ ReportsHonest
  BY DEF DeliveryInv, WellFormed
<1>2. ran' = ran /\ Issued' = Issued
  BY DEF ReceiveHelloAccepted, Resend, ReceiveAccepted, ReceiveError, ReceiveClose, Issued
<1>3. ServerStep
  BY <1>1, <1>2 DEF ServerStep, ReportsHonest, ServerHonest, ReceiveHelloAccepted, Resend,
                    ReceiveAccepted, ReceiveError, ReceiveClose
<1>4. AgentStep
  <2>1. pending' \subseteq pending /\ inFlight' = inFlight
    BY DEF ReceiveHelloAccepted, Resend, ReceiveAccepted, ReceiveError, ReceiveClose, Forget
  <2>2. ASSUME NEW d \in Commands PROVE completed'[d] = completed[d] \/ completed'[d] = NoResult
    BY <1>1 DEF TypeOK, AgentTypeOK, ReceiveHelloAccepted, Resend, ReceiveAccepted, ReceiveError,
                ReceiveClose
  <2> QED BY <1>2, <2>1, <2>2 DEF AgentStep
<1>5. ServerQueueStep
  <2>1. CASE UNCHANGED toServer
    BY <1>1, <2>1, QuietQueues
  <2>2. CASE \E r \in pending : /\ toServer' = [toServer EXCEPT ![conn] = Append(@, r)]
                             /\ LinkUp /\ pending' = pending
    <3>1. PICK r \in pending : toServer' = [toServer EXCEPT ![conn] = Append(@, r)]
      BY <2>2
    <3>2. r \in Result /\ KeptNext(r)
      BY <1>1, <1>2, <2>2
      DEF TypeOK, AgentTypeOK, ReportsHonest, AgentHonest, Honest, HonestNext, KeptNext
    <3> QED BY <1>1, <2>2, <3>1, <3>2, AppendReportStep
  <2> QED BY <2>1, <2>2 DEF ReceiveHelloAccepted, Resend, ReceiveAccepted, ReceiveError,
                            ReceiveClose, LinkUp
<1>6. DeviceQueueStep
  <2>1. CASE toDevice' = <<>>
    BY <2>1 DEF DeviceQueueStep
  <2> QED BY <1>1, <2>1, DeviceTailStep, QuietQueues
          DEF ReceiveHelloAccepted, Resend, ReceiveAccepted, ReceiveError, ReceiveClose, Incoming
<1> QED BY <1>2, <1>3, <1>4, <1>5, <1>6 DEF ReportStep

-----------------------------------------------------------------------------

LEMMA InitInv == Init => DeliveryInv
<1> SUFFICES ASSUME Init PROVE DeliveryInv
  OBVIOUS
<1>1. RowsHonest /\ ServerHonest /\ AgentHonest /\ WireHonest
  BY DEF Init, RowsHonest, ServerHonest, AgentHonest, WireHonest
<1> QED BY <1>1, InitWellFormed DEF DeliveryInv, ReportsHonest

\* Every step does no more than that to the reports.
LEMMA ReportSteps == DeliveryInv /\ [Next]_vars => ReportStep
<1> SUFFICES ASSUME DeliveryInv, [Next]_vars PROVE ReportStep
  OBVIOUS
<1>1. ASSUME NEW c \in Commands,
             Issue(c) \/ Dispatch(c) \/ MarkDelivered(c) \/ Lapse(c) \/ FinishCommand(c)
      PROVE  ReportStep
  BY <1>1, RequestReports, FinishCommandReports
<1>2. CASE Expire
  <2>1. PICK c \in Commands : TRUE
    BY <1>2 DEF Expire, DeliveryInv, WellFormed, TypeOK, RowTypeOK
  <2> QED BY <1>2, <2>1, RequestReports
<1>3. ASSUME NEW k \in Conns, Gateway(k) \/ HelloFails(k) \/ RecordFails(k) \/ Disconnect(k)
      PROVE  ReportStep
  BY <1>3, HelloReports, ResultReports DEF Gateway
<1>4. CASE ServerRestart
  <2>1. 1 \in Conns
    BY DeliveryAssumption DEF Conns
  <2> QED BY <1>4, <2>1, ResultReports
<1>5. CASE Connect \/ Drop \/ AgentRestart
  BY <1>5, LinkReports
<1>6. CASE Agent
  BY <1>6, ReceiveCommandReports, AnswerReports DEF Agent
<1>7. CASE UNCHANGED vars
  <2>1. ServerQueueStep /\ DeviceQueueStep
    BY <1>7, QuietQueues DEF vars, DeliveryInv
  <2>2. Issued' = Issued
    BY <1>7 DEF vars, Issued
  <2> QED BY <1>7, <2>1, <2>2
          DEF ReportStep, ServerStep, AgentStep, vars, DeliveryInv, ReportsHonest, ServerHonest
<1> QED BY <1>1, <1>2, <1>3, <1>4, <1>5, <1>6, <1>7 DEF Next

\* So what holds of the reports goes on.
LEMMA InvStep == DeliveryInv /\ [Next]_vars => DeliveryInv'
BY WellFormedStep, RowSteps, ReportSteps, ReportsStayHonest DEF DeliveryInv

\* Whatever is lost, repeated or delayed, a success is reported, in a map of the
\* agent, on the wire or in a row of control_command_target, only for a command
\* whose handler has returned without an error.
THEOREM OnlyHonestReports == Spec => []ReportsHonest
<1>1. Init => DeliveryInv
  BY InitInv
<1>2. DeliveryInv /\ [Next]_vars => DeliveryInv'
  BY InvStep
<1>3. DeliveryInv => ReportsHonest
  BY DEF DeliveryInv
<1> QED BY <1>1, <1>2, <1>3, PTL DEF Spec

\* How far along the statuses are.
LEMMA Ranks ==
  /\ Rank("none") = 0 /\ Rank("pending") = 1 /\ Rank("delivered") = 2
  /\ Rank("acknowledged") = 3
  /\ \A s \in TERMINAL_TARGET_STATUSES : Rank(s) = 4
  /\ \A s \in Undecided : Rank(s) \in 1..3
  /\ \A s \in TargetStatus : Rank(s) \in 0..4
  BY DEF Rank, TERMINAL_TARGET_STATUSES, Undecided, TargetStatus

\* No step takes a row back: not a markDelivered that ends after the device has
\* answered, not a second delivery, not an expiry sweep.
THEOREM RowsOnlyAdvance == Spec => ProgressNeverRegresses
<1>1. DeliveryInv /\ [Next]_vars
      => [\A c \in Commands : Rank(target[c]) <= Rank(target'[c])]_vars
  <2> SUFFICES ASSUME DeliveryInv, [Next]_vars, NEW c \in Commands
               PROVE  Rank(target[c]) <= Rank(target'[c])
    BY DEF vars
  <2>1. RowStep
    BY RowSteps
  <2>2. target \in [Commands -> TargetStatus]
    BY DEF DeliveryInv, WellFormed, TypeOK, RowTypeOK
  <2>3. CASE target'[c] = target[c]
    BY <2>2, <2>3, Ranks
  <2>4. CASE target[c] = "none"
    <3>1. target'[c] \in TargetStatus
      BY WellFormedStep DEF DeliveryInv, WellFormed, TypeOK, RowTypeOK
    <3> QED BY <2>4, <3>1, Ranks
  <2>5. CASE target[c] = "pending" /\ target'[c] = "delivered"
    BY <2>5, Ranks
  <2>6. CASE target[c] \in Undecided /\ target'[c] \in TERMINAL_TARGET_STATUSES
    BY <2>6, Ranks
  <2>7. CASE target[c] \in Undecided /\ target'[c] = "acknowledged"
    BY <2>7, Ranks
  <2>8. \/ target'[c] = target[c]
        \/ target[c] = "none"
        \/ target[c] = "pending" /\ target'[c] = "delivered"
        \/ target[c] \in Undecided /\ target'[c] \in TERMINAL_TARGET_STATUSES
        \/ target[c] \in Undecided /\ target'[c] = "acknowledged"
    BY <2>1, <2>2, Received DEF RowStep, ResultStatus, TERMINAL_TARGET_STATUSES
  <2> QED BY <2>3, <2>4, <2>5, <2>6, <2>7, <2>8
<1>2. DeliveryInv /\ [Next]_vars => DeliveryInv'
  BY InvStep
<1>3. Init => DeliveryInv
  BY InitInv
<1> QED BY <1>1, <1>2, <1>3, PTL DEF Spec, ProgressNeverRegresses

-----------------------------------------------------------------------------
(* The rows implement CommandOutcome.                                       *)

\* Handlers end one at a time, and no row changes when one does.
LEMMA RanStep ==
  ASSUME DeliveryInv, [Next]_vars
  PROVE  \/ UNCHANGED ran
         \/ UNCHANGED target /\ \E c \in inFlight : ran' = ran \cup {c}
<1> USE DEF serverVars, agentVars, history
<1>1. ASSUME NEW c \in Commands,
             Issue(c) \/ Dispatch(c) \/ MarkDelivered(c) \/ Lapse(c) \/ Expire
      PROVE  UNCHANGED ran
  BY <1>1 DEF Issue, Dispatch, MarkDelivered, Lapse, Expire
<1>2. ASSUME NEW c \in Commands, FinishCommand(c)
      PROVE  \/ UNCHANGED ran
             \/ UNCHANGED target /\ \E d \in inFlight : ran' = ran \cup {d}
  BY <1>2 DEF FinishCommand
<1>3. ASSUME NEW k \in Conns,
             Gateway(k) \/ HelloFails(k) \/ RecordFails(k) \/ Disconnect(k)
      PROVE  UNCHANGED ran
  BY <1>3 DEF Gateway, HandleHello, ReadPending, RejectPending, SendPending, MarkPending,
     EndPending, RecordStart, RecordTx, RecordReply, HelloFails, RecordFails, Disconnect
<1>4. CASE Expire \/ ServerRestart \/ Connect \/ Drop \/ AgentRestart \/ Agent
  BY <1>4 DEF Expire, ServerRestart, Connect, Drop, AgentRestart, Agent, ReceiveHelloAccepted,
     Resend, ReceiveCommand, ReceiveAccepted, ReceiveError, ReceiveClose
<1>5. CASE UNCHANGED vars
  BY <1>5 DEF vars
<1> QED BY <1>1, <1>2, <1>3, <1>4, <1>5 DEF Next

LEMMA OutcomeStep ==
  DeliveryInv /\ [Next]_vars => [Outcome!OutcomeNext]_(Outcome!outcomeVars)
<1> SUFFICES ASSUME DeliveryInv, [Next]_vars
             PROVE  Outcome!OutcomeNext \/ UNCHANGED Outcome!outcomeVars
  OBVIOUS
<1>1. /\ target \in [Commands -> TargetStatus]
      /\ target' \in [Commands -> TargetStatus]
  BY WellFormedStep DEF DeliveryInv, WellFormed, TypeOK, RowTypeOK
<1>2. CASE UNCHANGED target /\ UNCHANGED ran
  BY <1>2 DEF Outcome!outcomeVars
<1>3. CASE UNCHANGED target /\ \E c \in inFlight : ran' = ran \cup {c}
  <2>1. PICK c \in inFlight : ran' = ran \cup {c}
    BY <1>3
  <2>2. c \in Commands /\ target[c] # "none"
    BY DEF DeliveryInv, ReportsHonest, AgentHonest, Issued
  <2>3. Outcome!Run(c)
    BY <1>3, <2>1, <2>2 DEF Outcome!Run
  <2> QED BY <2>2, <2>3 DEF Outcome!OutcomeNext
<1>4. ASSUME UNCHANGED ran, NEW c \in Commands, target[c] = "none",
             target' = [target EXCEPT ![c] = "pending"]
      PROVE  Outcome!OutcomeNext
  <2>1. Outcome!Open(c)
    BY <1>1, <1>4 DEF Outcome!Open, Undecided
  <2> QED BY <2>1 DEF Outcome!OutcomeNext
<1>5. ASSUME UNCHANGED ran, NEW c \in Commands, target[c] \in Undecided,
             NEW s \in Undecided, target' = [target EXCEPT ![c] = s]
      PROVE  UNCHANGED Outcome!outcomeVars
  BY <1>1, <1>5 DEF Outcome!outcomeVars, Undecided
<1>6. ASSUME UNCHANGED ran, NEW c \in Commands, target[c] \in Undecided,
             target' = [target EXCEPT ![c] = "failed"]
      PROVE  Outcome!OutcomeNext
  <2>1. Outcome!Fail(c)
    BY <1>1, <1>6 DEF Outcome!Fail, Undecided
  <2> QED BY <2>1 DEF Outcome!OutcomeNext
<1>7. ASSUME UNCHANGED ran, NEW c \in Commands, target[c] \in Undecided, c \in ran,
             target' = [target EXCEPT ![c] = "succeeded"]
      PROVE  Outcome!OutcomeNext
  <2>1. Outcome!Succeed(c)
    BY <1>1, <1>7 DEF Outcome!Succeed, Undecided
  <2> QED BY <2>1 DEF Outcome!OutcomeNext
<1>8. ASSUME UNCHANGED ran, NEW C \in SUBSET Commands, \A c \in C : target[c] \in Undecided,
             target' = [c \in Commands |-> IF c \in C THEN "expired" ELSE target[c]]
      PROVE  Outcome!OutcomeNext
  <2>1. Outcome!ExpireSome(C)
    BY <1>1, <1>8 DEF Outcome!ExpireSome, Undecided
  <2> QED BY <2>1 DEF Outcome!OutcomeNext
<1>9. ASSUME UNCHANGED ran, RowStep
      PROVE  Outcome!OutcomeNext \/ UNCHANGED Outcome!outcomeVars
  <2>1. CASE UNCHANGED target
    BY <1>2, <1>9, <2>1
  <2>2. CASE \E c \in Commands : /\ target[c] = "pending"
                                 /\ target' = [target EXCEPT ![c] = "delivered"]
    BY <1>5, <1>9, <2>2 DEF Undecided
  <2>3. CASE \E r \in Result : /\ Honest(r)
                               /\ target[r.cmd] \in Undecided
                               /\ target' = [target EXCEPT ![r.cmd] = r.status]
    <3>1. PICK r \in Result : /\ Honest(r)
                              /\ target[r.cmd] \in Undecided
                              /\ target' = [target EXCEPT ![r.cmd] = r.status]
      BY <2>3
    <3>2. /\ r.cmd \in Commands
          /\ r.status \in {"acknowledged", "succeeded", "failed"}
          /\ r.status = "succeeded" => r.cmd \in ran
      BY <3>1, Received DEF Honest, ResultStatus
    <3>3. CASE r.status = "acknowledged"
      <4>1. "acknowledged" \in Undecided
        BY DEF Undecided
      <4> QED BY <1>5, <1>9, <3>1, <3>2, <3>3, <4>1
    <3> QED BY <1>6, <1>7, <1>9, <3>1, <3>2, <3>3
  <2> QED BY <1>4, <1>6, <1>8, <1>9, <2>1, <2>2, <2>3 DEF RowStep
<1> QED BY <1>2, <1>3, <1>9, RowSteps, RanStep

\* The rows of a device keep the promise of CommandOutcome: a command is closed
\* once and for good, and it is reported as succeeded only after its handler ran
\* to a successful end.
THEOREM DeliveryImplementsOutcome == Spec => ImplementsOutcome
<1>1. Init => Outcome!OutcomeInit
  BY DEF Init, Outcome!OutcomeInit, Undecided
<1>2. DeliveryInv /\ [Next]_vars => [Outcome!OutcomeNext]_(Outcome!outcomeVars)
  BY OutcomeStep
<1>3. Init => DeliveryInv
  BY InitInv
<1>4. DeliveryInv /\ [Next]_vars => DeliveryInv'
  BY InvStep
<1> QED BY <1>1, <1>2, <1>3, <1>4, PTL DEF Spec, ImplementsOutcome, Outcome!OutcomeSpec

-----------------------------------------------------------------------------
(* What the agent forgets.                                                  *)

\* A result that the agent may still have answered: one it keeps, or one on its
\* way to the server
Known(r) ==
  \/ r \in pending
  \/ \E c \in Commands : completed[c] = r
  \/ \E k \in Conns : \E i \in 1..Len(toServer[k]) : toServer[k][i] = r

Concluded(c) == Settled(c) \/ c \in faulted

ReplyStages == {"replyAccepted", "replyError"}
IsReply(m) == m.type \in {"accepted", "error"}

\* A request id stands for one result, and is never given out again.
RequestIdsOK ==
  \A r \in Result : Known(r) =>
    r.rid < nextRid /\ \A s \in Result : Known(s) /\ s.rid = r.rid => s = r

\* Whoever answers a final result has concluded its command.
HandlersConclude ==
  \A k \in Conns : stage[k] \in ReplyStages /\ IsFinal(Head(toServer[k])) =>
    Concluded(Head(toServer[k]).cmd)

\* So has the answer under way: for what it answers, and it answers nothing else.
AnswersConclude ==
  \A i \in 1..Len(toDevice) : IsReply(toDevice[i]) =>
    /\ toDevice[i].rid < nextRid
    /\ \A r \in Result : Known(r) /\ r.rid = toDevice[i].rid /\ IsFinal(r) => Concluded(r.cmd)

MemoryInv ==
  RequestIdsOK /\ HandlersConclude /\ AnswersConclude /\ ForgottenOnlyWhenSettled

-----------------------------------------------------------------------------
(* What one step may do to what the agent remembers: the same request ids or *)
(* the next one, answers of a handler that is done, and what is forgotten    *)
(* was answered.                                                             *)

PendingStep ==
  \/ nextRid' = nextRid /\ \A r \in pending' : Known(r)
  \/ \E n \in Result : /\ n.rid = nextRid /\ nextRid' = nextRid + 1
                       /\ \A r \in pending' : r \in pending \/ r = n

ReplyStep ==
  \A i \in 1..Len(toDevice') : IsReply(toDevice'[i]) =>
    \/ \E j \in 1..Len(toDevice) : toDevice'[i] = toDevice[j]
    \/ \E k \in Conns : stage[k] \in ReplyStages /\ toDevice'[i].rid = Head(toServer[k]).rid

StageStep ==
  \A k \in Conns : stage'[k] \in ReplyStages =>
    /\ Head(toServer'[k]) = Head(toServer[k])
    /\ \/ stage[k] \in ReplyStages
       \/ IsFinal(Head(toServer[k])) => (Concluded(Head(toServer[k]).cmd))'

ForgetStep ==
  \A c \in finished' :
    \/ \E r \in pending' : r.cmd = c /\ IsFinal(r)
    \/ /\ c \in finished
       /\ \A r \in pending \ pending' :
            \E i \in 1..Len(toDevice) : IsReply(toDevice[i]) /\ toDevice[i].rid = r.rid

MemoryStep == faulted \subseteq faulted' /\ PendingStep /\ ReplyStep /\ StageStep /\ ForgetStep

\* A command that is settled stays so.
LEMMA ConcludedStays ==
  ASSUME DeliveryInv, RowStep, faulted \subseteq faulted', NEW c \in Commands, Concluded(c)
  PROVE  Concluded(c)'
<1>1. Settled(c) => Settled(c)'
  BY DEF Settled, RowStep, DeliveryInv, WellFormed, TypeOK, RowTypeOK, Undecided,
         TERMINAL_TARGET_STATUSES
<1> QED BY <1>1 DEF Concluded

\* The handler that answers works on a result, which is known.
LEMMA AnsweredResult ==
  ASSUME WellFormed, NEW k \in Conns, stage[k] \in ReplyStages
  PROVE  Head(toServer[k]) \in Result /\ Known(Head(toServer[k]))
<1>1. Handling(k, "result")
  BY DEF WellFormed, HandlerOK, ResultStages, ReplyStages
<1>2. Head(toServer[k]) \in Result
  BY <1>1, HeadType, Received DEF WellFormed
<1>3. 1 \in 1..Len(toServer[k]) /\ toServer[k][1] = Head(toServer[k])
  BY <1>1 DEF Handling, WellFormed, TypeOK, WireTypeOK
<1> QED BY <1>2, <1>3 DEF Known

\* The results that are known are the old ones, or one with the next request id.
LEMMA KnownResults ==
  ASSUME DeliveryInv, ReportStep, PendingStep
  PROVE  \/ nextRid' = nextRid /\ \A r \in Result : Known(r)' => Known(r)
         \/ \E n \in Result : /\ n.rid = nextRid /\ nextRid' = nextRid + 1
                              /\ \A r \in Result : Known(r)' => Known(r) \/ r = n
<1>1. ASSUME NEW r \in Result, Known(r)' PROVE Known(r) \/ r \in pending'
  <2>1. r.type = "result" /\ r # NoResult
    BY DEF Result, NoResult
  <2>2. CASE r \in pending'
    BY <2>2
  <2>3. CASE \E c \in Commands : completed'[c] = r
    BY <2>1, <2>3 DEF ReportStep, AgentStep, KeptNext, Known
  <2>4. CASE \E k \in Conns : \E i \in 1..Len(toServer'[k]) : toServer'[k][i] = r
    BY <2>1, <2>4 DEF ReportStep, ServerQueueStep, KeptNext, Known
  <2> QED BY <1>1, <2>2, <2>3, <2>4 DEF Known
<1>2. \A r \in pending : Known(r)
  BY DEF Known
<1>3. CASE nextRid' = nextRid /\ \A r \in pending' : Known(r)
  BY <1>1, <1>3
<1>4. CASE \E n \in Result : /\ n.rid = nextRid /\ nextRid' = nextRid + 1
                            /\ \A r \in pending' : r \in pending \/ r = n
  BY <1>1, <1>2, <1>4
<1> QED BY <1>3, <1>4 DEF PendingStep

\* What a step may do keeps what is said of the memory.
LEMMA MemoryStays ==
  ASSUME DeliveryInv, WellFormed', MemoryInv, RowStep, ReportStep, MemoryStep
  PROVE  MemoryInv'
<1>1. /\ nextRid \in Nat /\ finished \subseteq Commands /\ pending \subseteq Result
      /\ \A r \in Result : r.rid \in Nat /\ r.cmd \in Commands
  BY DEF DeliveryInv, WellFormed, TypeOK, AgentTypeOK, HistoryTypeOK, Result
<1>2. \A c \in Commands : Concluded(c) => Concluded(c)'
  BY ConcludedStays DEF MemoryStep
<1>3. \/ nextRid' = nextRid /\ \A r \in Result : Known(r)' => Known(r)
      \/ \E n \in Result : /\ n.rid = nextRid /\ nextRid' = nextRid + 1
                           /\ \A r \in Result : Known(r)' => Known(r) \/ r = n
  BY KnownResults DEF MemoryStep
<1>4. nextRid' \in Nat /\ nextRid <= nextRid'
  BY <1>1, <1>3
<1>5. \A r \in Result : Known(r)' /\ r.rid < nextRid => Known(r)
  BY <1>1, <1>3
<1>6. RequestIdsOK'
  <2>1. CASE nextRid' = nextRid /\ \A r \in Result : Known(r)' => Known(r)
    BY <2>1 DEF MemoryInv, RequestIdsOK
  <2>2. CASE \E n \in Result : /\ n.rid = nextRid /\ nextRid' = nextRid + 1
                              /\ \A r \in Result : Known(r)' => Known(r) \/ r = n
    <3>1. PICK n \in Result : /\ n.rid = nextRid /\ nextRid' = nextRid + 1
                              /\ \A r \in Result : Known(r)' => Known(r) \/ r = n
      BY <2>2
    <3>2. ASSUME NEW r \in Result, Known(r)' PROVE r.rid < nextRid \/ r = n
      BY <3>1, <3>2 DEF MemoryInv, RequestIdsOK
    <3>3. ASSUME NEW r \in Result, Known(r)' PROVE r.rid < nextRid'
      BY <1>1, <3>1, <3>2, <3>3
    <3>4. ASSUME NEW r \in Result, Known(r)', NEW s \in Result, Known(s)', s.rid = r.rid
          PROVE  s = r
      <4>1. (r.rid < nextRid /\ Known(r)) \/ r = n
        BY <1>5, <3>2, <3>4
      <4>2. (s.rid < nextRid /\ Known(s)) \/ s = n
        BY <1>5, <3>2, <3>4
      <4> QED BY <1>1, <3>1, <3>4, <4>1, <4>2 DEF MemoryInv, RequestIdsOK
    <3> QED BY <3>3, <3>4 DEF RequestIdsOK
  <2> QED BY <1>3, <2>1, <2>2
<1>7. HandlersConclude'
  <2>1. ASSUME NEW k \in Conns, stage'[k] \in ReplyStages, IsFinal(Head(toServer'[k]))
        PROVE  (Concluded(Head(toServer[k]).cmd))'
    <3>1. Head(toServer'[k]) = Head(toServer[k])
      BY <2>1 DEF MemoryStep, StageStep
    <3>2. CASE stage[k] \in ReplyStages
      <4>1. Head(toServer[k]) \in Result
        BY <3>2, AnsweredResult DEF DeliveryInv
      <4>2. Concluded(Head(toServer[k]).cmd)
        BY <2>1, <3>1, <3>2 DEF MemoryInv, HandlersConclude
      <4>3. Head(toServer[k]).cmd \in Commands
        BY <1>1, <4>1
      <4> QED BY <1>2, <3>1, <4>2, <4>3
    <3>3. CASE stage[k] \notin ReplyStages
      BY <2>1, <3>1, <3>3 DEF MemoryStep, StageStep
    <3> QED BY <3>2, <3>3
  <2> QED BY <2>1 DEF HandlersConclude
<1>8. AnswersConclude'
  <2>1. ASSUME NEW i \in 1..Len(toDevice'), IsReply(toDevice'[i])
        PROVE  /\ toDevice'[i].rid < nextRid
               /\ \A r \in Result : Known(r) /\ r.rid = toDevice'[i].rid /\ IsFinal(r) => Concluded(r.cmd)
    <3>1. CASE \E j \in 1..Len(toDevice) : toDevice'[i] = toDevice[j]
      BY <2>1, <3>1 DEF MemoryInv, AnswersConclude
    <3>2. CASE \E k \in Conns : stage[k] \in ReplyStages /\ toDevice'[i].rid = Head(toServer[k]).rid
      <4>1. PICK k \in Conns : stage[k] \in ReplyStages /\ toDevice'[i].rid = Head(toServer[k]).rid
        BY <3>2
      <4>2. Head(toServer[k]) \in Result /\ Known(Head(toServer[k]))
        BY <4>1, AnsweredResult DEF DeliveryInv
      <4>3. Head(toServer[k]).rid < nextRid /\ \A r \in Result :
              Known(r) /\ r.rid = Head(toServer[k]).rid => r = Head(toServer[k])
        BY <4>2 DEF MemoryInv, RequestIdsOK
      <4> QED BY <4>1, <4>3 DEF MemoryInv, HandlersConclude
    <3> QED BY <2>1, <3>1, <3>2 DEF MemoryStep, ReplyStep
  <2>2. ASSUME NEW i \in 1..Len(toDevice'), IsReply(toDevice'[i])
        PROVE  /\ toDevice'[i].rid < nextRid'
               /\ \A r \in Result : Known(r)' /\ r.rid = toDevice'[i].rid /\ IsFinal(r) => Concluded(r.cmd)'
    <3>1. toDevice'[i].rid < nextRid
      BY <2>1, <2>2
    <3>2. toDevice'[i].rid \in Nat
      <4>1. toDevice'[i] \in ServerMessage
        BY <2>2 DEF WellFormed, TypeOK, WireTypeOK
      <4> QED BY <2>2, <4>1, Read DEF IsReply
    <3>3. toDevice'[i].rid < nextRid'
      BY <1>1, <1>4, <3>1, <3>2
    <3>4. ASSUME NEW r \in Result, Known(r)', r.rid = toDevice'[i].rid, IsFinal(r)
          PROVE  Concluded(r.cmd)'
      <4>1. Known(r)
        BY <1>5, <3>1, <3>4
      <4>2. Concluded(r.cmd) /\ r.cmd \in Commands
        BY <1>1, <2>1, <2>2, <3>4, <4>1
      <4> QED BY <1>2, <4>2
    <3> QED BY <3>3, <3>4
  <2> QED BY <2>2 DEF AnswersConclude
<1>9. ForgottenOnlyWhenSettled'
  <2>1. ASSUME NEW c \in finished', ~\E r \in pending' : r.cmd = c /\ IsFinal(r)
        PROVE  Concluded(c)'
    <3>1. /\ c \in finished /\ c \in Commands
          /\ \A r \in pending \ pending' :
               \E i \in 1..Len(toDevice) : IsReply(toDevice[i]) /\ toDevice[i].rid = r.rid
      BY <1>1, <2>1 DEF MemoryStep, ForgetStep
    <3>2. CASE \E r \in pending : r.cmd = c /\ IsFinal(r)
      <4>1. PICK r \in pending : r.cmd = c /\ IsFinal(r)
        BY <3>2
      <4>2. r \in Result /\ Known(r)
        BY <1>1 DEF Known
      <4>3. PICK i \in 1..Len(toDevice) : IsReply(toDevice[i]) /\ toDevice[i].rid = r.rid
        BY <2>1, <3>1, <4>1
      <4>4. Concluded(c)
        BY <4>1, <4>2, <4>3 DEF MemoryInv, AnswersConclude
      <4> QED BY <1>2, <3>1, <4>4
    <3>3. CASE ~\E r \in pending : r.cmd = c /\ IsFinal(r)
      BY <1>2, <3>1, <3>3 DEF MemoryInv, ForgottenOnlyWhenSettled, Concluded
    <3> QED BY <3>2, <3>3
  <2> QED BY <2>1 DEF ForgottenOnlyWhenSettled, Concluded
<1> QED BY <1>6, <1>7, <1>8, <1>9 DEF MemoryInv

-----------------------------------------------------------------------------
(* One action at a time.                                                    *)

\* What is left alone, or emptied, does no harm.
LEMMA QuietMemory ==
  /\ UNCHANGED <<pending, nextRid>> => PendingStep
  /\ UNCHANGED toDevice \/ toDevice' = <<>> => ReplyStep
  /\ UNCHANGED <<stage, toServer>> => StageStep
  /\ UNCHANGED <<pending, finished>> => ForgetStep
<1>1. toDevice' = <<>> => ReplyStep
  BY DEF ReplyStep
<1> QED BY <1>1 DEF PendingStep, ReplyStep, StageStep, ForgetStep, Known

\* A message that answers nothing
LEMMA PostNoReply ==
  ASSUME WellFormed, NEW k, NEW m \in ServerMessage, ~IsReply(m), toDevice' = Post(k, m)
  PROVE  ReplyStep
<1>1. toDevice \in Seq(ServerMessage)
  BY DEF WellFormed, TypeOK, WireTypeOK
<1>2. CASE toDevice' = toDevice
  BY <1>2, QuietMemory
<1>3. CASE toDevice' = Append(toDevice, m)
  BY <1>1, <1>3 DEF ReplyStep
<1> QED BY <1>2, <1>3 DEF Post

\* A message that is received
LEMMA TailReply ==
  ASSUME WellFormed, toDevice # <<>>, toDevice' = Tail(toDevice)
  PROVE  ReplyStep
<1>1. toDevice \in Seq(ServerMessage)
  BY DEF WellFormed, TypeOK, WireTypeOK
<1>2. ASSUME NEW i \in 1..Len(toDevice')
      PROVE  i + 1 \in 1..Len(toDevice) /\ toDevice'[i] = toDevice[i + 1]
  BY <1>1, <1>2
<1> QED BY <1>2 DEF ReplyStep

\* A handler that is not about to answer may finish or go on.
LEMMA OneHandler ==
  ASSUME WellFormed, NEW k \in Conns, NEW s \in Stage \ ReplyStages,
         stage' = [stage EXCEPT ![k] = s],
         \/ UNCHANGED toServer
         \/ \E q : toServer' = [toServer EXCEPT ![k] = q]
  PROVE  StageStep
<1>1. stage \in [Conns -> Stage] /\ toServer \in [Conns -> Seq(ClientMessage)]
  BY DEF WellFormed, TypeOK, ServerTypeOK, WireTypeOK
<1>2. ASSUME NEW n \in Conns, stage'[n] \in ReplyStages
      PROVE  stage'[n] = stage[n] /\ toServer'[n] = toServer[n]
  <2>1. n # k
    BY <1>1, <1>2
  <2> QED BY <1>1, <2>1
<1> QED BY <1>2 DEF StageStep

\* The requests of administrators send no answer.
LEMMA RequestMemory ==
  ASSUME DeliveryInv, NEW c \in Commands,
         Issue(c) \/ Dispatch(c) \/ MarkDelivered(c) \/ Lapse(c) \/ Expire
  PROVE  MemoryStep
<1> USE DEF serverVars, agentVars, history
<1>1. faulted' = faulted /\ PendingStep /\ StageStep /\ ForgetStep
  BY QuietMemory DEF Issue, Dispatch, MarkDelivered, Lapse, Expire
<1>2. CASE UNCHANGED toDevice
  BY <1>1, <1>2, QuietMemory DEF MemoryStep
<1>3. CASE toDevice' = Post(registered, [type |-> "command", cmd |-> c])
  BY <1>1, <1>3, Sent, PostNoReply DEF MemoryStep, IsReply, DeliveryInv
<1> QED BY <1>2, <1>3 DEF Issue, Dispatch, MarkDelivered, Lapse, Expire

\* Nor do the hello and what follows it.
LEMMA HelloMemory ==
  ASSUME DeliveryInv, NEW k \in Conns,
         \/ HandleHello(k) \/ ReadPending(k) \/ RejectPending(k) \/ SendPending(k)
         \/ MarkPending(k) \/ EndPending(k) \/ HelloFails(k)
  PROVE  MemoryStep
<1> USE DEF serverVars, agentVars, history
<1>1. WellFormed
  BY DEF DeliveryInv
<1>2. faulted' = faulted /\ PendingStep /\ ForgetStep
  BY QuietMemory DEF HandleHello, ReadPending, RejectPending, SendPending, MarkPending, EndPending,
                     HelloFails
<1>3. StageStep
  <2>1. {"idle", "pendingForDevice", "loop", "markDelivered"} \subseteq Stage \ ReplyStages
    BY DEF Stage, ReplyStages
  <2>2. CASE UNCHANGED <<stage, toServer>>
    BY <2>2, QuietMemory
  <2>3. CASE HandleHello(k) \/ ReadPending(k) \/ MarkPending(k)
    BY <1>1, <2>1, <2>3, OneHandler DEF HandleHello, ReadPending, MarkPending
  <2>4. CASE EndPending(k) \/ HelloFails(k)
    BY <1>1, <2>1, <2>4, OneHandler DEF EndPending, HelloFails, Finish
  <2>5. CASE SendPending(k)
    BY <1>1, <2>1, <2>2, <2>5, OneHandler DEF SendPending
  <2> QED BY <2>2, <2>3, <2>4, <2>5 DEF RejectPending
<1>4. ReplyStep
  <2>1. CASE UNCHANGED toDevice
    BY <2>1, QuietMemory
  <2>2. CASE \E n, m : m \in ServerMessage /\ ~IsReply(m) /\ toDevice' = Post(n, m)
    BY <1>1, <2>2, PostNoReply
  <2>3. \A why \in {"connectionReplaced", "internalError"} :
          ~IsReply([type |-> "close", reason |-> why])
    BY DEF IsReply
  <2>4. ~IsReply([type |-> "helloAccepted"])
    BY DEF IsReply
  <2>5. CASE HandleHello(k) \/ HelloFails(k)
    BY <2>1, <2>2, <2>3, <2>4, <2>5, Sent DEF HandleHello, HelloFails
  <2>6. CASE SendPending(k)
    <3>1. \A e \in todo[k] : e.cmd \in Commands
      BY <1>1 DEF WellFormed, TypeOK, ServerTypeOK
    <3>2. \A e \in todo[k] : LET m == [type |-> "command", cmd |-> e.cmd]
                            IN  m \in ServerMessage /\ ~IsReply(m)
      BY <3>1, Sent DEF IsReply
    <3> QED BY <2>1, <2>2, <2>6, <3>2 DEF SendPending
  <2> QED BY <2>1, <2>5, <2>6 DEF ReadPending, RejectPending, MarkPending, EndPending
<1> QED BY <1>2, <1>3, <1>4 DEF MemoryStep

\* A result is answered once its transaction has closed the row, or has failed.
LEMMA ResultMemory ==
  ASSUME DeliveryInv, NEW k \in Conns,
         \/ RecordStart(k) \/ RecordTx(k) \/ RecordFails(k) \/ RecordReply(k)
         \/ Disconnect(k) \/ ServerRestart
  PROVE  MemoryStep
<1> USE DEF serverVars, agentVars, history
<1> DEFINE r == Head(toServer[k])
<1>1. WellFormed
  BY DEF DeliveryInv
<1>2. faulted \subseteq faulted' /\ PendingStep /\ ForgetStep
  BY QuietMemory DEF RecordStart, RecordTx, RecordFails, RecordReply, Disconnect, ServerRestart
<1>3. stage \in [Conns -> Stage]
  BY <1>1 DEF WellFormed, TypeOK, ServerTypeOK
<1>4. StageStep
  <2>1. CASE RecordStart(k) \/ RecordReply(k)
    <3>1. {"idle", "txInTime", "txLate"} \subseteq Stage \ ReplyStages
      BY DEF Stage, ReplyStages
    <3> QED BY <1>1, <2>1, <3>1, OneHandler DEF RecordStart, RecordReply, Finish
  <2>2. CASE RecordTx(k)
    <3>1. r \in Result /\ target \in [Commands -> TargetStatus]
      <4>1. Handling(k, "result")
        BY <1>1, <2>2 DEF WellFormed, HandlerOK, RecordTx, ResultStages
      <4> QED BY <1>1, <4>1, HeadType, Received DEF WellFormed, TypeOK, RowTypeOK
    <3>2. IsFinal(r) => target'[r.cmd] \in TERMINAL_TARGET_STATUSES
      <4>1. r.cmd \in Commands
        BY <3>1 DEF Result
      <4>2. target' = IF Settled(r.cmd) THEN target ELSE
              [target EXCEPT ![r.cmd] = IF stage[k] = "txLate" THEN "expired" ELSE r.status]
        BY <2>2 DEF RecordTx
      <4> HIDE DEF r
      <4> QED BY <3>1, <4>1, <4>2 DEF Settled, IsFinal, TERMINAL_TARGET_STATUSES
    <3>3. UNCHANGED toServer /\ \A n \in Conns : n # k => stage'[n] = stage[n]
      BY <1>3, <2>2 DEF RecordTx
    <3> QED BY <3>2, <3>3 DEF StageStep, Concluded, Settled
  <2>3. CASE RecordFails(k)
    <3>1. UNCHANGED toServer /\ \A n \in Conns : n # k => stage'[n] = stage[n]
      BY <1>3, <2>3 DEF RecordFails
    <3>2. r.cmd \in faulted'
      BY <2>3 DEF RecordFails
    <3> QED BY <3>1, <3>2 DEF StageStep, Concluded
  <2>4. CASE Disconnect(k)
    BY <2>4, QuietMemory DEF Disconnect
  <2>5. CASE ServerRestart
    BY <2>5 DEF ServerRestart, StageStep, ReplyStages
  <2> QED BY <2>1, <2>2, <2>3, <2>4, <2>5
<1>5. ReplyStep
  <2>1. CASE RecordReply(k)
    <3>1. stage[k] \in ReplyStages
      BY <2>1 DEF RecordReply, ReplyStages
    <3>2. r \in Result
      BY <1>1, <3>1, AnsweredResult
    <3> DEFINE a == IF stage[k] = "replyAccepted" THEN "accepted" ELSE "error"
               m == [type |-> a, rid |-> r.rid, cmd |-> r.cmd]
    <3>3. m \in ServerMessage /\ m.rid = r.rid
      BY <3>2, Sent
    <3>4. toDevice' = Post(k, m) \/ toDevice' = toDevice
      BY <2>1 DEF RecordReply
    <3>5. toDevice \in Seq(ServerMessage)
      BY <1>1 DEF WellFormed, TypeOK, WireTypeOK
    <3> HIDE DEF m
    <3>6. CASE toDevice' = toDevice
      BY <3>6, QuietMemory
    <3>7. CASE toDevice' = Append(toDevice, m)
      BY <3>1, <3>3, <3>5, <3>7 DEF ReplyStep
    <3> QED BY <3>4, <3>6, <3>7 DEF Post
  <2> QED BY <2>1, QuietMemory DEF RecordStart, RecordTx, RecordFails, Disconnect, ServerRestart
<1> QED BY <1>2, <1>4, <1>5 DEF MemoryStep

\* A connection that breaks keeps the message that is being handled.
LEMMA BreakMemory ==
  ASSUME WellFormed, WireBreaks, UNCHANGED stage
  PROVE  StageStep /\ ReplyStep
<1>1. /\ toServer \in [Conns -> Seq(ClientMessage)] /\ conn \in Conns
      /\ toServer[conn] \in Seq(ClientMessage)
  BY DEF WellFormed, TypeOK, WireTypeOK, HandlerOK, WireBreaks
<1>2. PICK n \in 0..Len(toServer[conn]) :
        /\ stage[conn] # "idle" => n > 0
        /\ toServer' = [toServer EXCEPT ![conn] = SubSeq(@, 1, n)]
  BY DEF WireBreaks
<1>3. ASSUME NEW k \in Conns, stage[k] \in ReplyStages
      PROVE  Head(toServer'[k]) = Head(toServer[k])
  <2>1. CASE k = conn
    <3>1. n > 0 /\ toServer'[k] = SubSeq(toServer[k], 1, n)
      BY <1>1, <1>2, <1>3, <2>1 DEF ReplyStages
    <3> QED BY <1>1, <1>2, <2>1, <3>1
  <2>2. CASE k # conn
    BY <1>1, <1>2, <2>2
  <2> QED BY <2>1, <2>2
<1>4. toDevice' = <<>>
  BY DEF WireBreaks
<1> QED BY <1>3, <1>4, QuietMemory DEF StageStep

\* A connection that opens or breaks, and an agent that starts with empty maps.
LEMMA LinkMemory ==
  ASSUME DeliveryInv, Connect \/ Drop \/ AgentRestart
  PROVE  MemoryStep
<1> USE DEF serverVars, agentVars, history
<1>1. WellFormed
  BY DEF DeliveryInv
<1>2. CASE Connect
  <2>1. faulted' = faulted /\ PendingStep /\ ForgetStep /\ ReplyStep
    BY <1>2, QuietMemory DEF Connect
  <2>2. /\ toServer \in [Conns -> Seq(ClientMessage)] /\ UNCHANGED stage
        /\ toServer' = [toServer EXCEPT ![conn + 1] = <<[type |-> "hello", caps |-> skills]>>]
    BY <1>1, <1>2 DEF Connect, WellFormed, TypeOK, WireTypeOK
  <2>3. \A k \in Conns : stage[k] \in ReplyStages => k # conn + 1
    <3>1. conn \in Nat
      BY <1>1 DEF WellFormed, TypeOK, AgentTypeOK
    <3>2. \A k \in Conns : stage[k] \in ReplyStages => ~(k > conn)
      BY <1>1 DEF WellFormed, HandlerOK, ReplyStages
    <3> QED BY <3>1, <3>2 DEF Conns
  <2> QED BY <2>1, <2>2, <2>3 DEF MemoryStep, StageStep
<1>3. CASE Drop
  <2>1. faulted' = faulted /\ PendingStep /\ ForgetStep /\ UNCHANGED stage /\ WireBreaks
    BY <1>3, QuietMemory DEF Drop
  <2> QED BY <1>1, <2>1, BreakMemory DEF MemoryStep
<1>4. CASE AgentRestart
  <2>1. faulted' = faulted /\ UNCHANGED <<stage, nextRid>> /\ finished' = {} /\ pending' = {}
    BY <1>4 DEF AgentRestart
  <2>2. PendingStep /\ ForgetStep
    BY <2>1 DEF PendingStep, ForgetStep
  <2>3. StageStep /\ ReplyStep
    BY <1>1, <1>4, <2>1, BreakMemory, QuietMemory DEF AgentRestart
  <2> QED BY <2>1, <2>2, <2>3 DEF MemoryStep
<1> QED BY <1>2, <1>3, <1>4

\* What is sent goes behind the message that is being handled.
LEMMA AppendMemory ==
  ASSUME WellFormed, NEW r, UNCHANGED stage, LinkUp,
         r \in Result, toServer' = [toServer EXCEPT ![conn] = Append(@, r)]
  PROVE  StageStep
<1>1. /\ toServer \in [Conns -> Seq(ClientMessage)] /\ conn \in Conns
      /\ toServer[conn] \in Seq(ClientMessage) /\ r \in ClientMessage
  BY Received DEF WellFormed, TypeOK, WireTypeOK, HandlerOK
<1>2. ASSUME NEW k \in Conns, stage[k] \in ReplyStages
      PROVE  Head(toServer'[k]) = Head(toServer[k])
  <2>1. toServer[k] # <<>>
    BY <1>2 DEF WellFormed, HandlerOK, Handling, ReplyStages, ResultStages
  <2>2. CASE k = conn
    <3>1. toServer'[k] = Append(toServer[k], r)
      BY <1>1, <2>2
    <3> QED BY <1>1, <2>1, <2>2, <3>1
  <2>3. CASE k # conn
    BY <1>1, <2>3
  <2> QED BY <2>2, <2>3
<1> QED BY <1>2 DEF StageStep

\* sendCommandResult forgets nothing.
LEMMA SendResultMemory ==
  ASSUME WellFormed, NEW r \in Result, SendResult(r), UNCHANGED stage
  PROVE  StageStep /\ pending' = pending \cup {r}
<1>1. CASE LinkUp
  BY <1>1, AppendMemory DEF SendResult
<1>2. CASE ~LinkUp
  BY <1>2, QuietMemory DEF SendResult
<1> QED BY <1>1, <1>2 DEF SendResult

\* A result with a new request id: the final one of its command, or none that ends it
LEMMA NewResultMemory ==
  ASSUME WellFormed, NEW c \in Commands, NEW s \in ResultStatus, SendResult(NewResult(c, s)),
         nextRid' = nextRid + 1, UNCHANGED <<stage, faulted>>, ReplyStep,
         \/ UNCHANGED finished
         \/ s \in {"succeeded", "failed"} /\ finished' = finished \cup {c}
  PROVE  MemoryStep
<1> DEFINE n == NewResult(c, s)
<1>1. n \in Result /\ n.rid = nextRid /\ n.cmd = c /\ n.status = s
  BY NewResultType DEF WellFormed, NewResult
<1> HIDE DEF n
<1>2. StageStep /\ pending' = pending \cup {n}
  BY <1>1, SendResultMemory DEF n
<1>3. PendingStep
  BY <1>1, <1>2 DEF PendingStep
<1>4. ForgetStep
  BY <1>1, <1>2 DEF ForgetStep, IsFinal
<1> QED BY <1>2, <1>3, <1>4 DEF MemoryStep

\* A command is answered with the result that is kept, or with a new one.
LEMMA ReceiveCommandMemory ==
  ASSUME DeliveryInv, ReceiveCommand
  PROVE  MemoryStep
<1> USE DEF serverVars
<1> DEFINE c == Head(toDevice).cmd
<1>1. WellFormed /\ TypeOK
  BY DEF DeliveryInv, WellFormed
<1>2. c \in Commands
  BY <1>1, IncomingType, Read DEF ReceiveCommand
<1>3. ReplyStep /\ UNCHANGED <<stage, faulted>>
  BY <1>1, TailReply DEF ReceiveCommand, Incoming
<1>4. \/ /\ completed[c] # NoResult /\ SendResult(completed[c]) /\ UNCHANGED <<nextRid, finished>>
      \/ /\ SendResult(NewResult(c, "acknowledged")) /\ nextRid' = nextRid + 1 /\ UNCHANGED finished
      \/ /\ SendResult(NewResult(c, "failed")) /\ nextRid' = nextRid + 1
         /\ finished' = finished \cup {c}
  BY DEF ReceiveCommand, SendAcknowledged, SendFinal
<1> HIDE DEF c
<1>5. CASE completed[c] # NoResult /\ SendResult(completed[c]) /\ UNCHANGED <<nextRid, finished>>
  <2>1. completed[c] \in Result
    BY <1>1, <1>2, <1>5 DEF TypeOK, AgentTypeOK
  <2>2. StageStep /\ pending' = pending \cup {completed[c]}
    BY <1>1, <1>3, <1>5, <2>1, SendResultMemory
  <2>3. PendingStep
    BY <1>2, <1>5, <2>2 DEF PendingStep, Known
  <2>4. ForgetStep
    BY <1>5, <2>2 DEF ForgetStep
  <2> QED BY <1>3, <2>2, <2>3, <2>4 DEF MemoryStep
<1> QED BY <1>1, <1>2, <1>3, <1>4, <1>5, NewResultMemory DEF ResultStatus

\* A handler that returns makes a final result, and keeps it.
LEMMA FinishCommandMemory ==
  ASSUME DeliveryInv, NEW c \in Commands, FinishCommand(c)
  PROVE  MemoryStep
<1> USE DEF serverVars
<1>1. WellFormed /\ UNCHANGED <<stage, faulted>> /\ ReplyStep
  BY QuietMemory DEF DeliveryInv, FinishCommand
<1>2. PICK s \in {"succeeded", "failed"} : SendFinal(c, s)
  BY DEF FinishCommand
<1>3. SendResult(NewResult(c, s)) /\ nextRid' = nextRid + 1 /\ finished' = finished \cup {c}
  BY <1>2 DEF SendFinal
<1> QED BY <1>1, <1>2, <1>3, NewResultMemory DEF ResultStatus

\* What is forgotten has been answered.
LEMMA AnswerMemory ==
  ASSUME DeliveryInv,
         ReceiveHelloAccepted \/ Resend \/ ReceiveAccepted \/ ReceiveError \/ ReceiveClose
  PROVE  MemoryStep
<1> USE DEF serverVars, agentVars, history
<1>1. WellFormed /\ TypeOK
  BY DEF DeliveryInv, WellFormed
<1>2. UNCHANGED <<faulted, finished, nextRid, stage>>
  BY DEF ReceiveHelloAccepted, Resend, ReceiveAccepted, ReceiveError, ReceiveClose
<1>3. CASE ReceiveHelloAccepted \/ ReceiveClose
  <2>1. ReplyStep
    BY <1>1, <1>3, TailReply, QuietMemory DEF ReceiveHelloAccepted, ReceiveClose, Incoming
  <2> QED BY <1>2, <1>3, <2>1, QuietMemory DEF MemoryStep, ReceiveHelloAccepted, ReceiveClose
<1>4. CASE Resend
  <2>1. UNCHANGED <<pending, toDevice>>
    BY <1>4 DEF Resend
  <2>2. StageStep
    <3>1. CASE UNCHANGED toServer
      BY <1>2, <3>1, QuietMemory
    <3>2. CASE \E r \in pending : toServer' = [toServer EXCEPT ![conn] = Append(@, r)]
      BY <1>1, <1>2, <1>4, <3>2, AppendMemory DEF Resend, LinkUp, TypeOK, AgentTypeOK
    <3> QED BY <1>4, <3>1, <3>2 DEF Resend
  <2> QED BY <1>2, <2>1, <2>2, QuietMemory DEF MemoryStep
<1>5. CASE ReceiveAccepted \/ ReceiveError
  <2> DEFINE m == Head(toDevice)
  <2>1. /\ toDevice' = Tail(toDevice) /\ toDevice # <<>> /\ UNCHANGED toServer
        /\ pending' = {r \in pending : r.rid # m.rid} /\ IsReply(m)
    BY <1>5 DEF ReceiveAccepted, ReceiveError, Forget, Incoming, IsReply
  <2>2. ReplyStep /\ StageStep
    BY <1>1, <1>2, <2>1, TailReply, QuietMemory
  <2>3. PendingStep
    BY <1>2, <2>1 DEF PendingStep, Known
  <2>4. ForgetStep
    <3>1. 1 \in 1..Len(toDevice) /\ toDevice[1] = m
      BY <1>1, <2>1 DEF TypeOK, WireTypeOK
    <3> HIDE DEF m
    <3>2. \A r \in pending \ pending' : r.rid = m.rid
      BY <2>1
    <3> QED BY <1>2, <2>1, <3>1, <3>2 DEF ForgetStep
  <2> QED BY <1>2, <2>2, <2>3, <2>4 DEF MemoryStep
<1> QED BY <1>3, <1>4, <1>5

\* No step does more than that to the memory of the agent.
LEMMA MemorySteps == DeliveryInv /\ [Next]_vars => MemoryStep
<1> SUFFICES ASSUME DeliveryInv, [Next]_vars PROVE MemoryStep
  OBVIOUS
<1>1. ASSUME NEW c \in Commands,
             Issue(c) \/ Dispatch(c) \/ MarkDelivered(c) \/ Lapse(c) \/ FinishCommand(c)
      PROVE  MemoryStep
  BY <1>1, RequestMemory, FinishCommandMemory
<1>2. CASE Expire
  <2>1. PICK c \in Commands : TRUE
    BY <1>2 DEF Expire, DeliveryInv, WellFormed, TypeOK, RowTypeOK
  <2> QED BY <1>2, <2>1, RequestMemory
<1>3. ASSUME NEW k \in Conns, Gateway(k) \/ HelloFails(k) \/ RecordFails(k) \/ Disconnect(k)
      PROVE  MemoryStep
  BY <1>3, HelloMemory, ResultMemory DEF Gateway
<1>4. CASE ServerRestart
  <2>1. 1 \in Conns
    BY DeliveryAssumption DEF Conns
  <2> QED BY <1>4, <2>1, ResultMemory
<1>5. CASE Connect \/ Drop \/ AgentRestart
  BY <1>5, LinkMemory
<1>6. CASE Agent
  BY <1>6, ReceiveCommandMemory, AnswerMemory DEF Agent
<1>7. CASE UNCHANGED vars
  BY <1>7, QuietMemory DEF MemoryStep, vars
<1> QED BY <1>1, <1>2, <1>3, <1>4, <1>5, <1>6, <1>7 DEF Next

\* No message is lost twice over: the agent lets go of a final result only once
\* the row of its command is closed, or a failing database has answered it, for
\* any number of connections, redeliveries, restarts and answers that come late.
THEOREM NothingIsForgottenEarly == Spec => []ForgottenOnlyWhenSettled
<1> DEFINE Inv == DeliveryInv /\ MemoryInv
<1>1. Init => Inv
  <2> SUFFICES ASSUME Init PROVE MemoryInv
    BY InitInv
  <2>1. \A r \in Result : ~Known(r)
    BY DEF Init, Known, Result, NoResult
  <2> QED BY <2>1 DEF Init, MemoryInv, RequestIdsOK, HandlersConclude, AnswersConclude,
                      ForgottenOnlyWhenSettled, ReplyStages
<1>2. Inv /\ [Next]_vars => Inv'
  <2> SUFFICES ASSUME Inv, [Next]_vars PROVE Inv'
    OBVIOUS
  <2>1. DeliveryInv' /\ RowStep /\ MemoryStep
    BY InvStep, RowSteps, MemorySteps
  <2>2. ReportStep
    BY ReportSteps
  <2> QED BY <2>1, <2>2, MemoryStays DEF DeliveryInv
<1>3. Inv => ForgottenOnlyWhenSettled
  BY DEF MemoryInv
<1> QED BY <1>1, <1>2, <1>3, PTL DEF Spec
=============================================================================
