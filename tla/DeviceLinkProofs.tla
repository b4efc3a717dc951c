-------------------------- MODULE DeviceLinkProofs --------------------------
(***************************************************************************)
(* Theorems about DeviceLink: what an agent shows is so, for any number of *)
(* enrolments, connections and disturbances; and about PolicySync: one     *)
(* policy decides, and the devices are told, for any tree of partitions.   *)
(*                                                                         *)
(* The parts of LinkInv.  DevicesOK: the devices there are, and who refers  *)
(* to them.  UnopenedOK, SlotsOK and OpenIsRegistered: a connection that    *)
(* was accepted and is open is the registered one.  SocketOK, AcceptedOK    *)
(* and WaitsOK: how the agent's socket, its phase and its state go          *)
(* together.  CondemnedOK and ClosesOK: a close that ends in a state which  *)
(* the agent does not leave has its cause already when it is decided, and   *)
(* while it is on its way.  RacedOK: a hello that has passed authentication *)
(* is overtaken by a revocation only if it is raced.                        *)
(*                                                                         *)
(* The parts of PolicyInv.  Tree, RowsOK and RequestsOK: what there is, and *)
(* that levels order the tree.  Lonely: a request that is alone has no      *)
(* other beside it.  KnowsRight: what such a request has read is still so.  *)
(* ToldOrReached: a device that is not excused was told what is effective,  *)
(* or a request that has committed will come to it.                         *)
(*                                                                         *)
(* At the end, what is proved of the link, the policies, the plugin host    *)
(* and the timing of the player is put together (PartsSpec).                *)
(***************************************************************************)
EXTENDS MCServiceParts, PluginHostProofs, PlayerProofs, FiniteSetTheorems,
        WellFoundedInduction, TLAPS

Spent == {"rotated", "revoked", "deleted"}

\* The devices there are.
Enrolled == {d \in Devs : lifecycle[d] # "none"}

\* What is on its way to the device.
Wire == {toDevice[i] : i \in 1..Len(toDevice)}

DevicesOK ==
  /\ Enrolled = 1..Used
  /\ disk # 0 => disk \in Enrolled
  /\ reg # 0 => reg \in Enrolled
  /\ enrolling.step # "no" => enrolling.dev \in Enrolled
  /\ \A k \in Conns : hello[k] # "none" => dev[k] \in Enrolled
  /\ \A order \in cutting : lifecycle[order.dev] \in Spent

UnopenedOK ==
  \A k \in Conns : hello[k] = "none" => k \notin readable /\ condemned[k] = "no"

SlotsOK ==
  \A d \in Devs :
    registered[d] # 0 => hello[registered[d]] = "accepted" /\ dev[registered[d]] = d

OpenIsRegistered ==
  \A k \in Conns : hello[k] = "accepted" /\ k \in readable => registered[dev[k]] = k

\* The socket is that of the latest connection, of an agent that is started and enrolled.
SocketOK ==
  /\ sock \in {0, conn} /\ (sock = 0 <=> phase = "none")
  /\ \A k \in Conns : k > conn => hello[k] = "none"
  /\ phase = "opening" => hello[sock] = "none"
  /\ phase \in {"open", "closing"} => hello[sock] # "none" /\ dev[sock] = reg
  /\ phase \notin {"open", "closing"} => toDevice = <<>>
  /\ sock # 0 => started /\ reg # 0
  /\ ~started => reg = 0 /\ conn < MaxConn

\* The agent is online only after the server has accepted its connection.
AcceptedOK ==
  /\ phase = "opening" => state # "online"
  /\ state = "online" /\ sock # 0 => hello[sock] = "accepted"
  /\ \A msg \in Wire : msg.type = "helloAccepted" => hello[sock] = "accepted"

WaitsOK ==
  /\ state \in {"authentication-failed", "connection-replaced"} => reg # 0
  /\ NeverStranded

CondemnedOK ==
  /\ \A k \in Conns : condemned[k] \in {"no", "authenticationRequired", "internalError"}
  /\ \A k \in Conns :
       condemned[k] = "authenticationRequired" => lifecycle[dev[k]] # "active" \/ mistimed

ClosesOK ==
  /\ \A msg \in Wire : msg.type = "close" =>
       /\ Refuses(msg.code) => lifecycle[reg] # "active" \/ mistimed
       /\ msg.code = "connectionReplaced" => mistimed
  /\ phase = "closing" => mistimed

RacedOK ==
  \A k \in Conns :
    hello[k] \in {"checked", "recording"} /\ lifecycle[dev[k]] \in Spent =>
      k \in raced \/ \E order \in cutting : order.dev = dev[k]

LinkInv ==
  /\ TypeOK /\ DevicesOK
  /\ UnopenedOK /\ SlotsOK /\ OpenIsRegistered
  /\ SocketOK /\ AcceptedOK /\ WaitsOK
  /\ CondemnedOK /\ ClosesOK /\ GivesUpOnlyForCause
  /\ RacedOK /\ StaleOnlyIfRaced

-----------------------------------------------------------------------------
(* Helpers.                                                                  *)

\* Devices are numbered in the order of their enrolment; as long as none is
\* added, the number of them that were enrolled stays.
LEMMA SameDevices ==
  ASSUME Enrolled = 1..Used, Enrolled' = Enrolled
  PROVE  (Enrolled = 1..Used)'
BY DEF Used, Enrolled

\* The number of enrolled devices is one of 0..MaxUses.
LEMMA UsedIsBounded == Used \in 0..MaxUses
<1>1. IsFiniteSet(Devs) /\ Cardinality(Devs) = MaxUses
  BY FS_Interval, LinkAssumption DEF Devs
<1>2. Enrolled \subseteq Devs
  BY DEF Enrolled
<1>3. Cardinality(Enrolled) \in Nat /\ Cardinality(Enrolled) <= MaxUses
  BY <1>1, <1>2, FS_Subset, FS_CardinalityType
<1> QED
  BY <1>3, LinkAssumption DEF Used, Enrolled

\* What Post() adds to the wire: at most its message, on the agent's connection.
LEMMA Posted ==
  ASSUME toDevice \in Seq(ServerMessage), NEW k, NEW msg \in ServerMessage, toDevice' = Post(k, msg)
  PROVE  /\ toDevice' \in Seq(ServerMessage)
         /\ Wire' \subseteq Wire \cup {msg}
         /\ toDevice' # toDevice => sock = k /\ phase \in {"open", "closing"}
         /\ toDevice' = toDevice => Wire' = Wire
<1>1. toDevice' = toDevice => Wire' = Wire
  BY DEF Wire
<1>2. CASE sock = k /\ phase \in {"open", "closing"}
  <2>1. toDevice' = Append(toDevice, msg)
    BY <1>2 DEF Post
  <2> QED BY <2>1, <1>1, <1>2 DEF Wire
<1>3. CASE ~(sock = k /\ phase \in {"open", "closing"})
  BY <1>1, <1>3 DEF Post
<1> QED BY <1>2, <1>3

\* fatal() condemns at most this connection, and sends at most the error.
LEMMA FatalSends ==
  ASSUME TypeOK, NEW k \in Conns, NEW code \in CloseCode, Fatal(k, code)
  PROVE  /\ toDevice' \in Seq(ServerMessage)
         /\ Wire' \subseteq Wire \cup {FatalError}
         /\ toDevice' # toDevice => phase \in {"open", "closing"}
         /\ condemned' \in [Conns -> CloseCode \cup {"no"}]
         /\ \A j \in Conns :
              condemned'[j] # condemned[j] => j = k /\ k \in readable /\ condemned'[j] = code
<1>1. FatalError \in ServerMessage
  BY DEF FatalError, ServerMessage, CloseCode
<1>2. toDevice \in Seq(ServerMessage) /\ condemned \in [Conns -> CloseCode \cup {"no"}]
  BY DEF TypeOK, PendingTypeOK, GatewayTypeOK
<1>3. CASE k \in readable /\ condemned[k] = "no"
  <2>1. condemned' = [condemned EXCEPT ![k] = code] /\ toDevice' = Post(k, FatalError)
    BY <1>3 DEF Fatal
  <2> QED BY <1>1, <1>2, <1>3, <2>1, Posted
<1>4. CASE ~(k \in readable /\ condemned[k] = "no")
  <2>1. UNCHANGED <<condemned, toDevice>>
    BY <1>4 DEF Fatal
  <2> QED BY <1>2, <2>1 DEF Wire
<1> QED BY <1>3, <1>4

\* The first message is on the wire, and its receipt puts none there.
LEMMA Received ==
  ASSUME toDevice \in Seq(ServerMessage), toDevice # <<>>
  PROVE  /\ Head(toDevice) \in Wire /\ Head(toDevice) \in ServerMessage
         /\ toDevice' = Tail(toDevice) => toDevice' \in Seq(ServerMessage) /\ Wire' \subseteq Wire
<1>1. Len(toDevice) \in Nat \ {0} /\ Head(toDevice) = toDevice[1]
  OBVIOUS
<1>2. \A i \in 1..Len(Tail(toDevice)) : i + 1 \in 1..Len(toDevice) /\ Tail(toDevice)[i] = toDevice[i + 1]
  BY <1>1
<1>3. Tail(toDevice) \in Seq(ServerMessage)
  BY <1>1
<1> QED BY <1>1, <1>2, <1>3 DEF Wire

\* An abandoned connection loses its messages, and at most its hello.
LEMMA Abandoned ==
  ASSUME TypeOK, NEW k \in 0..MaxConn, Abandon(k)
  PROVE  /\ toDevice' = <<>> /\ toDevice' \in Seq(ServerMessage) /\ Wire' = {}
         /\ hello' \in [Conns -> HelloStage]
         /\ \A j \in Conns : hello'[j] # hello[j] => hello[j] = "waiting" /\ hello'[j] = "lost"
         /\ UNCHANGED <<cutting, registered, readable, attached, dev, condemned>>
<1>1. toDevice' = <<>> /\ Wire' = {}
  BY DEF Abandon, Wire
<1>2. hello \in [Conns -> HelloStage]
  BY DEF TypeOK, GatewayTypeOK
<1>3. CASE k # 0 /\ hello[k] = "waiting" /\ hello' = [hello EXCEPT ![k] = "lost"]
  BY <1>1, <1>2, <1>3, LinkAssumption DEF HelloStage, Abandon, Conns
<1>4. CASE UNCHANGED hello
  BY <1>1, <1>2, <1>4 DEF Abandon
<1> QED BY <1>3, <1>4 DEF Abandon

\* A close frees the socket.  The agent stays in a state it does not leave by
\* itself only for the code; otherwise it has its timer.
LEMMA Closed ==
  ASSUME TypeOK, NEW code, HandleClose(code)
  PROVE  /\ sock' = 0 /\ phase' = "none" /\ timer' \in BOOLEAN /\ state' \in AgentState
         /\ UNCHANGED <<started, reg, conn>>
         /\ ~started \/ reg = 0 => UNCHANGED <<timer, state>>
         /\ started /\ reg # 0 =>
              \/ Refuses(code) /\ state' = "authentication-failed"
              \/ code = "connectionReplaced" /\ state' = "connection-replaced"
              \/ timer' /\ (state' = "reconnecting" \/ state' = state)
<1> USE DEF HandleClose, SocketAfterClose, TypeOK, AgentTypeOK, AgentState
<1>1. CASE ~started \/ reg = 0
  BY <1>1
<1>2. CASE started /\ reg # 0 /\ Refuses(code)
  BY <1>2 DEF Refuses
<1>3. CASE started /\ reg # 0 /\ ~Refuses(code) /\ code = "connectionReplaced"
  BY <1>3 DEF Refuses
<1>4. CASE started /\ reg # 0 /\ ~Refuses(code) /\ code # "connectionReplaced"
  <2>1. ScheduleReconnect
    BY <1>4 DEF Refuses
  <2> QED BY <1>4, <2>1 DEF ScheduleReconnect
<1> QED BY <1>1, <1>2, <1>3, <1>4

\* connect() opens the next connection, or leaves everything but the state.
LEMMA Connected ==
  ASSUME TypeOK, NEW r, NEW s \in {0, sock}, NEW newState \in AgentState,
         NEW otherwise \in AgentState, Connect(r, s, newState, otherwise),
         WillConnect(r, s) => conn < MaxConn
  PROVE  /\ conn' \in 0..MaxConn /\ sock' \in 0..MaxConn /\ state' \in AgentState
         /\ phase' \in {"none", "opening", "open", "closing"}
<1> USE LinkAssumption DEF Connect, TypeOK, AgentTypeOK
<1>1. CASE WillConnect(r, s)
  BY <1>1
<1>2. CASE ~WillConnect(r, s)
  BY <1>2
<1> QED BY <1>1, <1>2

\* Each part of the invariant is about few variables, and stays while these do.
LEMMA Frames ==
  /\ DevicesOK /\ UNCHANGED <<lifecycle, cutting, disk, reg, enrolling, hello, dev>> => DevicesOK'
  /\ UnopenedOK /\ UNCHANGED <<hello, readable, condemned>> => UnopenedOK'
  /\ SlotsOK /\ UNCHANGED <<registered, hello, dev>> => SlotsOK'
  /\ OpenIsRegistered /\ UNCHANGED <<hello, readable, registered, dev>> => OpenIsRegistered'
  /\ SocketOK /\ UNCHANGED <<sock, conn, phase, hello, dev, reg, toDevice, started>> => SocketOK'
  /\ AcceptedOK /\ UNCHANGED <<phase, state, sock, hello, toDevice>> => AcceptedOK'
  /\ WaitsOK /\ UNCHANGED <<state, reg, sock, timer>> => WaitsOK'
  /\ CondemnedOK /\ UNCHANGED <<condemned, lifecycle, dev, mistimed>> => CondemnedOK'
  /\ ClosesOK /\ UNCHANGED <<toDevice, lifecycle, reg, mistimed, phase>> => ClosesOK'
  /\ GivesUpOnlyForCause /\ UNCHANGED <<state, sock, timer, lifecycle, reg, mistimed>> => GivesUpOnlyForCause'
  /\ RacedOK /\ UNCHANGED <<hello, lifecycle, dev, raced, cutting>> => RacedOK'
  /\ StaleOnlyIfRaced /\ UNCHANGED <<registered, readable, lifecycle, raced, cutting>> => StaleOnlyIfRaced'
<1>1. DevicesOK /\ UNCHANGED <<lifecycle, cutting, disk, reg, enrolling, hello, dev>> => DevicesOK'
  BY DEF DevicesOK, Enrolled, Used
<1>2. UnopenedOK /\ UNCHANGED <<hello, readable, condemned>> => UnopenedOK'
  BY DEF UnopenedOK
<1>3. SlotsOK /\ UNCHANGED <<registered, hello, dev>> => SlotsOK'
  BY DEF SlotsOK
<1>4. OpenIsRegistered /\ UNCHANGED <<hello, readable, registered, dev>> => OpenIsRegistered'
  BY DEF OpenIsRegistered
<1>5. SocketOK /\ UNCHANGED <<sock, conn, phase, hello, dev, reg, toDevice, started>> => SocketOK'
  BY DEF SocketOK
<1>6. AcceptedOK /\ UNCHANGED <<phase, state, sock, hello, toDevice>> => AcceptedOK'
  BY DEF AcceptedOK, Wire
<1>7. WaitsOK /\ UNCHANGED <<state, reg, sock, timer>> => WaitsOK'
  BY DEF WaitsOK, NeverStranded
<1>8. CondemnedOK /\ UNCHANGED <<condemned, lifecycle, dev, mistimed>> => CondemnedOK'
  BY DEF CondemnedOK
<1>9. ClosesOK /\ UNCHANGED <<toDevice, lifecycle, reg, mistimed, phase>> => ClosesOK'
  BY DEF ClosesOK, Wire
<1>10. GivesUpOnlyForCause /\ UNCHANGED <<state, sock, timer, lifecycle, reg, mistimed>> => GivesUpOnlyForCause'
  BY DEF GivesUpOnlyForCause
<1>11. RacedOK /\ UNCHANGED <<hello, lifecycle, dev, raced, cutting>> => RacedOK'
  BY DEF RacedOK, Spent
<1>12. StaleOnlyIfRaced /\ UNCHANGED <<registered, readable, lifecycle, raced, cutting>> => StaleOnlyIfRaced'
  BY DEF StaleOnlyIfRaced
<1> QED BY <1>1, <1>2, <1>3, <1>4, <1>5, <1>6, <1>7, <1>8, <1>9, <1>10, <1>11, <1>12

-----------------------------------------------------------------------------
(* Every action keeps the invariant.                                         *)

LEMMA AuthenticateKeeps ==
  ASSUME LinkInv, NEW k \in Conns, Authenticate(k)
  PROVE  LinkInv'
<1> USE LinkAssumption DEF LinkInv, TypeOK, Devs, Conns, Spent
<1>1. \/ UNCHANGED <<condemned, toDevice>>
      \/ Fatal(k, "authenticationRequired")
  BY DEF Authenticate
<1>2. /\ toDevice' \in Seq(ServerMessage) /\ Wire' \subseteq Wire \cup {FatalError}
      /\ toDevice' # toDevice => phase \in {"open", "closing"}
      /\ condemned' \in [Conns -> CloseCode \cup {"no"}]
      /\ \A j \in Conns : condemned'[j] # condemned[j] =>
           j = k /\ k \in readable /\ condemned'[j] = "authenticationRequired"
  BY <1>1, FatalSends DEF CloseCode, PendingTypeOK, GatewayTypeOK, Wire
<1>3. /\ hello[k] \in {"waiting", "checked", "recording"}
      /\ hello'[k] \in {"checked", "refused"}
      /\ hello' \in [Conns -> HelloStage] /\ \A j \in Conns : j # k => hello'[j] = hello[j]
      /\ UNCHANGED <<registered, readable, dev, lifecycle, reg, started>>
      /\ UNCHANGED <<conn, sock, phase, state>>
  BY DEF Authenticate, MayAuthenticate, agent, store, history, GatewayTypeOK, HelloStage
<1>4. GatewayTypeOK'
  BY <1>2, <1>3 DEF Authenticate, MayAuthenticate, agent, store, history, GatewayTypeOK
<1>5. PendingTypeOK'
  BY <1>1, <1>2, <1>3 DEF PendingTypeOK, AgentTypeOK, GatewayTypeOK, Authenticate, MayAuthenticate, agent, store, history
<1>6. DevicesOK'
  BY <1>1, <1>2, <1>3 DEF GatewayTypeOK, DevicesOK, Enrolled, Used, Authenticate, MayAuthenticate, agent, store, history
<1>7. UnopenedOK'
  BY <1>1, <1>2, <1>3 DEF GatewayTypeOK, UnopenedOK, Authenticate, MayAuthenticate, agent, store, history
<1>8. SlotsOK'
  BY <1>3, SMTT(40) DEF GatewayTypeOK, SlotsOK
<1>9. OpenIsRegistered'
  BY <1>1, <1>2, <1>3, SMTT(40) DEF GatewayTypeOK, OpenIsRegistered, Authenticate, MayAuthenticate, agent, store, history
<1>10. SocketOK'
  <2>1. \A j \in Conns : hello'[j] = "none" <=> hello[j] = "none"
    BY <1>3
  <2>2. phase \in {"opening", "open", "closing"} => sock \in Conns
    BY DEF SocketOK, AgentTypeOK
  <2>3. phase \notin {"open", "closing"} => toDevice' = <<>>
    BY <1>2 DEF SocketOK
  <2> QED BY <1>3, <2>1, <2>2, <2>3 DEF SocketOK
<1>11. AcceptedOK'
  <2>1. sock # 0 /\ hello[sock] = "accepted" => hello'[sock] = "accepted"
    BY <1>3 DEF AgentTypeOK
  <2>2. \A msg \in Wire' : msg.type = "helloAccepted" => msg \in Wire /\ sock # 0
    BY <1>2 DEF FatalError, SocketOK, Wire
  <2> QED BY <1>3, <2>1, <2>2 DEF AcceptedOK
<1>12. CondemnedOK'
  <2>1. lifecycle[dev[k]] = "active" => UNCHANGED condemned
    BY DEF Authenticate, MayAuthenticate
  <2> QED BY <1>2, <1>3, <2>1 DEF CondemnedOK, Authenticate, history
<1>13. ClosesOK'
  BY <1>2, <1>3, SMTT(40) DEF ClosesOK, FatalError, Refuses, Authenticate, history
<1>14. RacedOK'
  <2>1. hello'[k] = "checked" => lifecycle[dev[k]] = "active"
    BY DEF Authenticate, MayAuthenticate, GatewayTypeOK
  <2> QED BY <1>3, <2>1 DEF RacedOK, Authenticate, history
<1>15. /\ AgentTypeOK' /\ HistoryTypeOK' /\ WaitsOK' /\ GivesUpOnlyForCause'
       /\ StaleOnlyIfRaced'
  BY <1>1, <1>2, <1>3, Frames DEF AgentTypeOK, HistoryTypeOK, Authenticate, MayAuthenticate, agent, store, history
<1> QED BY <1>4, <1>5, <1>6, <1>7, <1>8, <1>9, <1>10, <1>11, <1>12, <1>13, <1>14, <1>15

LEMMA AdmitKeeps ==
  ASSUME LinkInv, NEW k \in Conns, Admit(k)
  PROVE  LinkInv'
<1> USE LinkAssumption DEF LinkInv, TypeOK, Devs, Conns, Spent
<1>1. UNCHANGED Wire
  BY DEF Wire, Admit, agent, store, history
<1>2. GatewayTypeOK'
  BY <1>1 DEF GatewayTypeOK, HelloStage, Lifecycle, Admit, agent, store, history
<1>3. DevicesOK'
  BY <1>1 DEF GatewayTypeOK, DevicesOK, Enrolled, Used, Admit, agent, store, history
<1>4. UnopenedOK'
  BY <1>1 DEF GatewayTypeOK, UnopenedOK, Admit, agent, store, history
<1>5. SlotsOK'
  BY <1>1, SMTT(40) DEF GatewayTypeOK, SlotsOK, Admit, agent, store, history
<1>6. OpenIsRegistered'
  BY <1>1, SMTT(40) DEF GatewayTypeOK, OpenIsRegistered, Admit, agent, store, history
<1>7. SocketOK'
  BY <1>1, SMTT(40) DEF GatewayTypeOK, AgentTypeOK, SocketOK, Admit, agent, store, history
<1>8. AcceptedOK'
  BY <1>1, SMTT(40) DEF GatewayTypeOK, AgentTypeOK, SocketOK, AcceptedOK, Admit, agent, store, history
<1>9. RacedOK'
  BY <1>1 DEF GatewayTypeOK, RacedOK, Admit, agent, store, history
<1>10. /\ AgentTypeOK' /\ PendingTypeOK' /\ HistoryTypeOK' /\ WaitsOK'
       /\ CondemnedOK' /\ ClosesOK' /\ GivesUpOnlyForCause' /\ StaleOnlyIfRaced'
  BY <1>1, Frames DEF AgentTypeOK, PendingTypeOK, HistoryTypeOK, Admit, agent, store, history
<1> QED BY <1>2, <1>3, <1>4, <1>5, <1>6, <1>7, <1>8, <1>9, <1>10

LEMMA RegisterKeeps ==
  ASSUME LinkInv, NEW k \in Conns, Register(k)
  PROVE  LinkInv'
<1> USE LinkAssumption DEF LinkInv, TypeOK, Devs, Conns, Spent
<1>1. k <= conn /\ registered[dev[k]] \in 0..MaxConn
  BY DEF Register, SocketOK, GatewayTypeOK, AgentTypeOK
<1>2. \/ toDevice' = Post(k, Accepted)
      \/ /\ sock = registered[dev[k]] /\ sock # k /\ sock \in Conns
         /\ toDevice' = Post(sock, Close("connectionReplaced"))
      \/ UNCHANGED toDevice
  BY DEF Register, OpenAfterRegister, GatewayTypeOK
<1>3. /\ toDevice' \in Seq(ServerMessage)
      /\ toDevice' # toDevice => phase \in {"open", "closing"}
      /\ \/ Wire' \subseteq Wire \cup {Accepted} /\ (toDevice' # toDevice => sock = k)
         \/ /\ Wire' \subseteq Wire \cup {Close("connectionReplaced")}
            /\ sock = registered[dev[k]] /\ sock # k /\ sock \in Conns
      /\ toDevice' = toDevice => Wire' = Wire
  BY <1>2, Posted DEF Accepted, Close, ServerMessage, CloseCode, PendingTypeOK, Wire
<1>4. /\ hello[k] = "recording" /\ hello' = [hello EXCEPT ![k] = "accepted"]
      /\ registered' = [registered EXCEPT ![dev[k]] = k]
      /\ readable' = readable \ ({registered[dev[k]]} \ {k})
      /\ mistimed' = (mistimed \/ registered[dev[k]] > k)
      /\ UNCHANGED <<cutting, attached, dev, condemned, raced, lifecycle>>
      /\ UNCHANGED <<reg, conn, sock, phase, state>>
  BY DEF Register, OpenAfterRegister, agent
<1>5. GatewayTypeOK'
  <2>1. registered' \in [Devs -> 0..MaxConn]
    BY <1>4 DEF GatewayTypeOK
  <2>2. readable' \subseteq Conns /\ hello' \in [Conns -> HelloStage]
    BY <1>4 DEF GatewayTypeOK, HelloStage
  <2> QED BY <1>4, <2>1, <2>2 DEF GatewayTypeOK
<1>6. PendingTypeOK'
  BY <1>1, <1>2, <1>3, <1>4 DEF PendingTypeOK, AgentTypeOK, GatewayTypeOK, Register, agent, store
<1>7. HistoryTypeOK'
  BY <1>1, <1>2, <1>3, <1>4 DEF HistoryTypeOK, GatewayTypeOK, Register, agent, store
<1>8. DevicesOK'
  BY <1>1, <1>2, <1>3, <1>4 DEF GatewayTypeOK, DevicesOK, Enrolled, Used, Register, agent, store
<1>9. UnopenedOK'
  BY <1>4 DEF GatewayTypeOK, UnopenedOK
<1>10. SlotsOK'
  BY <1>4, SMTT(40) DEF GatewayTypeOK, SlotsOK
<1>11. OpenIsRegistered'
  BY <1>4, SMTT(40) DEF GatewayTypeOK, OpenIsRegistered
<1>12. SocketOK'
  BY <1>1, <1>2, <1>3, <1>4, SMTT(40) DEF GatewayTypeOK, AgentTypeOK, SocketOK, Register, agent, store
<1>13. AcceptedOK'
  BY <1>3, <1>4, SMTT(40) DEF GatewayTypeOK, SocketOK, AcceptedOK, Close
<1>14. CondemnedOK'
  <2>1. UNCHANGED <<condemned, lifecycle, dev>> /\ (mistimed => mistimed')
    BY <1>4
  <2> QED BY <2>1 DEF CondemnedOK
<1>15. ClosesOK'
  <2>1. CASE Wire' \subseteq Wire \cup {Accepted}
    <3>1. mistimed => mistimed'
      BY <1>4
    <3>2. \A msg \in Wire' : msg.type = "close" => msg \in Wire
      BY <2>1 DEF Accepted
    <3> QED BY <1>4, <3>1, <3>2 DEF ClosesOK
  <2>2. CASE Wire' \subseteq Wire \cup {Close("connectionReplaced")} /\ sock = registered[dev[k]] /\ sock # k /\ sock \in Conns
    <3>1. sock > k
      BY <1>1, <2>2 DEF SocketOK, AgentTypeOK
    <3>2. mistimed'
      BY <1>4, <2>2, <3>1
    <3> QED BY <1>4, <2>2, <3>2 DEF ClosesOK
  <2> QED BY <1>3, <2>1, <2>2
<1>16. GivesUpOnlyForCause'
  BY <1>1, <1>2, <1>3, <1>4 DEF AgentTypeOK, SocketOK, WaitsOK, NeverStranded, GivesUpOnlyForCause, Register, agent, store
<1>17. RacedOK'
  BY <1>1, <1>2, <1>3, <1>4 DEF GatewayTypeOK, RacedOK, Register, agent, store
<1>18. StaleOnlyIfRaced'
  <2>1. lifecycle[dev[k]] \in Spent => k \in raced \/ \E order \in cutting : order.dev = dev[k]
    BY <1>4 DEF RacedOK
  <2>2. registered'[dev[k]] = k /\ \A d \in Devs : d # dev[k] => registered'[d] = registered[d]
    BY <1>4 DEF GatewayTypeOK
  <2> QED BY <1>4, <2>1, <2>2 DEF StaleOnlyIfRaced
<1>19. /\ AgentTypeOK' /\ WaitsOK'
  BY <1>1, <1>2, <1>3, <1>4, Frames DEF AgentTypeOK, Register, agent, store
<1> QED BY <1>5, <1>6, <1>7, <1>8, <1>9, <1>10, <1>11, <1>12, <1>13, <1>14, <1>15, <1>16, <1>17, <1>18, <1>19

LEMMA HelloFailsKeeps ==
  ASSUME LinkInv, NEW k \in Conns, HelloFails(k)
  PROVE  LinkInv'
<1> USE LinkAssumption DEF LinkInv, TypeOK, Devs, Conns, Spent
<1>1. \/ UNCHANGED <<condemned, toDevice>>
      \/ Fatal(k, "internalError")
  BY DEF HelloFails
<1>2. /\ toDevice' \in Seq(ServerMessage) /\ Wire' \subseteq Wire \cup {FatalError}
      /\ toDevice' # toDevice => phase \in {"open", "closing"}
      /\ condemned' \in [Conns -> CloseCode \cup {"no"}]
      /\ \A j \in Conns : condemned'[j] # condemned[j] =>
           j = k /\ k \in readable /\ condemned'[j] = "internalError"
  BY <1>1, FatalSends DEF CloseCode, PendingTypeOK, GatewayTypeOK, Wire
<1>3. /\ hello[k] \in {"waiting", "checked", "recording"}
      /\ hello'[k] \in {"refused"}
      /\ hello' \in [Conns -> HelloStage] /\ \A j \in Conns : j # k => hello'[j] = hello[j]
      /\ UNCHANGED <<registered, readable, dev, lifecycle, reg, started>>
      /\ UNCHANGED <<conn, sock, phase, state>>
  BY DEF HelloFails, Mishap, Disturb, agent, store, seen, GatewayTypeOK, HelloStage
<1>4. GatewayTypeOK'
  BY <1>2, <1>3 DEF HelloFails, Mishap, Disturb, agent, store, seen, GatewayTypeOK
<1>5. PendingTypeOK'
  BY <1>1, <1>2, <1>3 DEF PendingTypeOK, AgentTypeOK, GatewayTypeOK, HelloFails, Mishap, Disturb, agent, store, seen
<1>6. HistoryTypeOK'
  BY <1>1, <1>2, <1>3 DEF HistoryTypeOK, GatewayTypeOK, HelloFails, Mishap, Disturb, agent, store, seen
<1>7. DevicesOK'
  BY <1>1, <1>2, <1>3 DEF GatewayTypeOK, DevicesOK, Enrolled, Used, HelloFails, Mishap, Disturb, agent, store, seen
<1>8. UnopenedOK'
  BY <1>1, <1>2, <1>3 DEF GatewayTypeOK, UnopenedOK, HelloFails, Mishap, Disturb, agent, store, seen
<1>9. SlotsOK'
  BY <1>3, SMTT(40) DEF GatewayTypeOK, SlotsOK
<1>10. OpenIsRegistered'
  BY <1>1, <1>2, <1>3, SMTT(40) DEF GatewayTypeOK, OpenIsRegistered, HelloFails, Mishap, Disturb, agent, store, seen
<1>11. SocketOK'
  <2>1. \A j \in Conns : hello'[j] = "none" <=> hello[j] = "none"
    BY <1>3
  <2>2. phase \in {"opening", "open", "closing"} => sock \in Conns
    BY DEF SocketOK, AgentTypeOK
  <2>3. phase \notin {"open", "closing"} => toDevice' = <<>>
    BY <1>2 DEF SocketOK
  <2> QED BY <1>3, <2>1, <2>2, <2>3 DEF SocketOK
<1>12. AcceptedOK'
  <2>1. sock # 0 /\ hello[sock] = "accepted" => hello'[sock] = "accepted"
    BY <1>3 DEF AgentTypeOK
  <2>2. \A msg \in Wire' : msg.type = "helloAccepted" => msg \in Wire /\ sock # 0
    BY <1>2 DEF FatalError, SocketOK, Wire
  <2> QED BY <1>3, <2>1, <2>2 DEF AcceptedOK
<1>13. CondemnedOK'
  BY <1>2, <1>3, SMTT(40) DEF CondemnedOK, HelloFails, seen
<1>14. ClosesOK'
  BY <1>2, <1>3, SMTT(40) DEF ClosesOK, FatalError, Refuses, HelloFails, seen
<1>15. RacedOK'
  BY <1>1, <1>2, <1>3 DEF GatewayTypeOK, RacedOK, HelloFails, Mishap, Disturb, agent, store, seen
<1>16. /\ AgentTypeOK' /\ WaitsOK' /\ GivesUpOnlyForCause' /\ StaleOnlyIfRaced'
  BY <1>1, <1>2, <1>3, Frames DEF AgentTypeOK, HelloFails, Mishap, Disturb, agent, store, seen
<1> QED BY <1>4, <1>5, <1>6, <1>7, <1>8, <1>9, <1>10, <1>11, <1>12, <1>13, <1>14, <1>15, <1>16

LEMMA MessageFailsKeeps ==
  ASSUME LinkInv, NEW k \in Conns, MessageFails(k)
  PROVE  LinkInv'
<1> USE LinkAssumption DEF LinkInv, TypeOK, Devs, Conns, Spent
<1>1. \/ UNCHANGED <<condemned, toDevice>>
      \/ Fatal(k, "internalError")
  BY DEF MessageFails
<1>2. /\ toDevice' \in Seq(ServerMessage) /\ Wire' \subseteq Wire \cup {FatalError}
      /\ toDevice' # toDevice => phase \in {"open", "closing"}
      /\ condemned' \in [Conns -> CloseCode \cup {"no"}]
      /\ \A j \in Conns : condemned'[j] # condemned[j] =>
           j = k /\ k \in readable /\ condemned'[j] = "internalError"
  BY <1>1, FatalSends DEF CloseCode, PendingTypeOK, GatewayTypeOK, Wire
<1>3. GatewayTypeOK'
  BY <1>1, <1>2 DEF GatewayTypeOK, HelloStage, Lifecycle, MessageFails, Mishap, Disturb, agent, store, seen
<1>4. PendingTypeOK'
  BY <1>1, <1>2 DEF PendingTypeOK, AgentTypeOK, GatewayTypeOK, MessageFails, Mishap, Disturb, agent, store, seen
<1>5. HistoryTypeOK'
  BY <1>1, <1>2 DEF HistoryTypeOK, GatewayTypeOK, MessageFails, Mishap, Disturb, agent, store, seen
<1>6. UnopenedOK'
  BY <1>1, <1>2 DEF GatewayTypeOK, UnopenedOK, MessageFails, Mishap, Disturb, agent, store, seen
<1>7. SocketOK'
  BY <1>1, <1>2, SMTT(40) DEF GatewayTypeOK, AgentTypeOK, SocketOK, MessageFails, Mishap, Disturb, agent, store, seen
<1>8. AcceptedOK'
  BY <1>2, SMTT(40) DEF AcceptedOK, FatalError, MessageFails, Mishap, Disturb, agent, store, seen
<1>9. CondemnedOK'
  BY <1>1, <1>2, SMTT(40) DEF GatewayTypeOK, CondemnedOK, MessageFails, Mishap, Disturb, agent, store, seen
<1>10. ClosesOK'
  BY <1>2, SMTT(40) DEF ClosesOK, FatalError, Refuses, MessageFails, Mishap, Disturb, agent, store, seen
<1>11. /\ AgentTypeOK' /\ DevicesOK' /\ SlotsOK' /\ OpenIsRegistered' /\ WaitsOK'
       /\ GivesUpOnlyForCause' /\ RacedOK' /\ StaleOnlyIfRaced'
  BY <1>1, <1>2, Frames DEF AgentTypeOK, MessageFails, Mishap, Disturb, agent, store, seen
<1> QED BY <1>3, <1>4, <1>5, <1>6, <1>7, <1>8, <1>9, <1>10, <1>11

LEMMA HelloTimeoutKeeps ==
  ASSUME LinkInv, NEW k \in Conns, HelloTimeout(k)
  PROVE  LinkInv'
<1> USE LinkAssumption DEF LinkInv, TypeOK, Devs, Conns, Spent
<1>1. \/ UNCHANGED <<condemned, toDevice>>
      \/ Fatal(k, "authenticationRequired")
  BY DEF HelloTimeout
<1>2. /\ toDevice' \in Seq(ServerMessage) /\ Wire' \subseteq Wire \cup {FatalError}
      /\ toDevice' # toDevice => phase \in {"open", "closing"}
      /\ condemned' \in [Conns -> CloseCode \cup {"no"}]
      /\ \A j \in Conns : condemned'[j] # condemned[j] =>
           j = k /\ k \in readable /\ condemned'[j] = "authenticationRequired"
  BY <1>1, FatalSends DEF CloseCode, PendingTypeOK, GatewayTypeOK, Wire
<1>3. GatewayTypeOK'
  BY <1>1, <1>2 DEF GatewayTypeOK, HelloStage, Lifecycle, HelloTimeout, Mishap, Disturb, agent, store
<1>4. PendingTypeOK'
  BY <1>1, <1>2 DEF PendingTypeOK, AgentTypeOK, GatewayTypeOK, HelloTimeout, Mishap, Disturb, agent, store
<1>5. HistoryTypeOK'
  BY <1>1, <1>2 DEF HistoryTypeOK, GatewayTypeOK, HelloTimeout, Mishap, Disturb, agent, store
<1>6. UnopenedOK'
  BY <1>1, <1>2 DEF GatewayTypeOK, UnopenedOK, HelloTimeout, Mishap, Disturb, agent, store
<1>7. SocketOK'
  BY <1>1, <1>2, SMTT(40) DEF GatewayTypeOK, AgentTypeOK, SocketOK, HelloTimeout, Mishap, Disturb, agent, store
<1>8. AcceptedOK'
  BY <1>2, SMTT(40) DEF AcceptedOK, FatalError, HelloTimeout, Mishap, Disturb, agent, store
<1>9. CondemnedOK'
  BY <1>1, <1>2, SMTT(40) DEF GatewayTypeOK, CondemnedOK, HelloTimeout, Mishap, Disturb, agent, store
<1>10. ClosesOK'
  BY <1>2, SMTT(40) DEF ClosesOK, FatalError, Refuses, HelloTimeout, Mishap, Disturb, agent, store
<1>11. GivesUpOnlyForCause'
  BY <1>1, <1>2 DEF AgentTypeOK, SocketOK, WaitsOK, NeverStranded, GivesUpOnlyForCause, HelloTimeout, Mishap, Disturb, agent, store
<1>12. /\ AgentTypeOK' /\ DevicesOK' /\ SlotsOK' /\ OpenIsRegistered' /\ WaitsOK'
       /\ RacedOK' /\ StaleOnlyIfRaced'
  BY <1>1, <1>2, Frames DEF AgentTypeOK, HelloTimeout, Mishap, Disturb, agent, store
<1> QED BY <1>3, <1>4, <1>5, <1>6, <1>7, <1>8, <1>9, <1>10, <1>11, <1>12

LEMMA CloseCondemnedKeeps ==
  ASSUME LinkInv, NEW k \in Conns, CloseCondemned(k)
  PROVE  LinkInv'
<1> USE LinkAssumption DEF LinkInv, TypeOK, Devs, Conns, Spent
<1>1. /\ toDevice' \in Seq(ServerMessage) /\ Wire' \subseteq Wire \cup {Close(condemned[k])}
      /\ toDevice' # toDevice => sock = k /\ phase \in {"open", "closing"}
  BY Posted DEF CloseCondemned, Close, ServerMessage, GatewayTypeOK, PendingTypeOK, Wire
<1>2. GatewayTypeOK'
  BY <1>1 DEF GatewayTypeOK, HelloStage, Lifecycle, CloseCondemned, agent, store, history
<1>3. PendingTypeOK'
  BY <1>1 DEF PendingTypeOK, AgentTypeOK, GatewayTypeOK, CloseCondemned, agent, store, history
<1>4. UnopenedOK'
  BY <1>1 DEF GatewayTypeOK, UnopenedOK, CloseCondemned, agent, store, history
<1>5. OpenIsRegistered'
  BY <1>1, SMTT(40) DEF GatewayTypeOK, OpenIsRegistered, CloseCondemned, agent, store, history
<1>6. SocketOK'
  BY <1>1, SMTT(40) DEF GatewayTypeOK, AgentTypeOK, SocketOK, CloseCondemned, agent, store, history
<1>7. AcceptedOK'
  BY <1>1, SMTT(40) DEF AcceptedOK, Close, CloseCondemned, agent, store, history
<1>8. CondemnedOK'
  BY <1>1, SMTT(40) DEF GatewayTypeOK, CondemnedOK, CloseCondemned, agent, store, history
<1>9. ClosesOK'
  <2>1. toDevice' # toDevice /\ Refuses(condemned[k]) => lifecycle[reg] # "active" \/ mistimed
    BY <1>1 DEF SocketOK, CondemnedOK, Refuses
  <2>2. toDevice' = toDevice => Wire' = Wire
    BY DEF Wire
  <2>3. condemned[k] # "connectionReplaced"
    BY DEF CondemnedOK
  <2> QED BY <1>1, <2>1, <2>2, <2>3 DEF ClosesOK, Close, Refuses, CloseCondemned, agent, store, history
<1>10. StaleOnlyIfRaced'
  BY <1>1 DEF GatewayTypeOK, SlotsOK, StaleOnlyIfRaced, CloseCondemned, agent, store, history
<1>11. /\ AgentTypeOK' /\ HistoryTypeOK' /\ DevicesOK' /\ SlotsOK' /\ WaitsOK'
       /\ GivesUpOnlyForCause' /\ RacedOK'
  BY <1>1, Frames DEF AgentTypeOK, HistoryTypeOK, CloseCondemned, agent, store, history
<1> QED BY <1>2, <1>3, <1>4, <1>5, <1>6, <1>7, <1>8, <1>9, <1>10, <1>11

LEMMA DisconnectKeeps ==
  ASSUME LinkInv, NEW k \in Conns, Disconnect(k)
  PROVE  LinkInv'
<1> USE LinkAssumption DEF LinkInv, TypeOK, Devs, Conns, Spent
<1>1. UNCHANGED Wire
  BY DEF Wire, Disconnect, agent, store, history
<1>2. GatewayTypeOK'
  <2>1. registered' \in [Devs -> 0..MaxConn]
    BY DEF Disconnect, GatewayTypeOK
  <2>2. readable' \subseteq Conns /\ attached' \subseteq Conns
    BY DEF Disconnect, GatewayTypeOK
  <2> QED BY <2>1, <2>2 DEF Disconnect, GatewayTypeOK
<1>3. UnopenedOK'
  BY <1>1 DEF GatewayTypeOK, UnopenedOK, Disconnect, Authenticated, agent, store, history
<1>4. SlotsOK'
  BY <1>1, SMTT(40) DEF GatewayTypeOK, SlotsOK, Disconnect, Authenticated, agent, store, history
<1>5. OpenIsRegistered'
  BY <1>1, SMTT(40) DEF GatewayTypeOK, OpenIsRegistered, Disconnect, Authenticated, agent, store, history
<1>6. StaleOnlyIfRaced'
  BY <1>1 DEF GatewayTypeOK, SlotsOK, StaleOnlyIfRaced, Disconnect, Authenticated, agent, store, history
<1>7. /\ AgentTypeOK' /\ PendingTypeOK' /\ HistoryTypeOK' /\ DevicesOK'
      /\ SocketOK' /\ AcceptedOK' /\ WaitsOK' /\ CondemnedOK' /\ ClosesOK'
      /\ GivesUpOnlyForCause' /\ RacedOK'
  BY <1>1, Frames DEF AgentTypeOK, PendingTypeOK, HistoryTypeOK, Disconnect, Authenticated, agent, store, history
<1> QED BY <1>2, <1>3, <1>4, <1>5, <1>6, <1>7

LEMMA RevokeKeeps ==
  ASSUME LinkInv, NEW d \in Devs, Revoke(d)
  PROVE  LinkInv'
<1> USE LinkAssumption DEF LinkInv, TypeOK, Devs, Conns, Spent
<1>1. UNCHANGED Wire
  BY DEF Wire, Revoke, agent, store, seen
<1>2. GatewayTypeOK'
  BY <1>1 DEF GatewayTypeOK, HelloStage, Lifecycle, Revoke, Disturb, agent, store, seen
<1>3. PendingTypeOK'
  BY <1>1 DEF PendingTypeOK, AgentTypeOK, GatewayTypeOK, Revoke, Disturb, agent, store, seen
<1>4. HistoryTypeOK'
  BY <1>1 DEF HistoryTypeOK, GatewayTypeOK, Revoke, Disturb, agent, store, seen
<1>5. DevicesOK'
  <2>1. Enrolled' = Enrolled /\ \A e \in Devs : lifecycle[e] \in Spent => lifecycle'[e] \in Spent
    BY DEF Revoke, Enrolled, GatewayTypeOK, Lifecycle
  <2>2. \A order \in cutting : order.dev \in Devs
    BY DEF PendingTypeOK
  <2>3. (\A order \in cutting : lifecycle[order.dev] \in Spent)'
    BY <2>1, <2>2 DEF Revoke, DevicesOK, GatewayTypeOK
  <2> QED BY <2>1, <2>3, SameDevices DEF DevicesOK, Revoke, agent, store, seen
<1>6. CondemnedOK'
  BY <1>1, SMTT(40) DEF GatewayTypeOK, CondemnedOK, Revoke, Disturb, agent, store, seen
<1>7. ClosesOK'
  BY <1>1, SMTT(40) DEF GatewayTypeOK, AgentTypeOK, SocketOK, ClosesOK, Refuses, Revoke, Disturb, agent, store, seen
<1>8. GivesUpOnlyForCause'
  BY <1>1 DEF AgentTypeOK, SocketOK, WaitsOK, NeverStranded, GivesUpOnlyForCause, Revoke, Disturb, agent, store, seen
<1>9. RacedOK'
  <2> DEFINE new == [dev |-> d, code |-> "deviceRevoked"]
  <2>1. cutting' = cutting \cup {new} /\ new.dev = d
    BY DEF Revoke
  <2>2. \A e \in Devs : e # d => lifecycle'[e] = lifecycle[e]
    BY DEF Revoke, GatewayTypeOK
  <2>3. (\E order \in cutting' : order.dev = d) /\ cutting \subseteq cutting'
    BY <2>1
  <2> HIDE DEF new
  <2> QED BY <2>2, <2>3 DEF GatewayTypeOK, RacedOK, Revoke, agent, store, seen
<1>10. StaleOnlyIfRaced'
  <2> DEFINE new == [dev |-> d, code |-> "deviceRevoked"]
  <2>1. cutting' = cutting \cup {new} /\ new.dev = d
    BY DEF Revoke
  <2>2. \A e \in Devs : e # d => lifecycle'[e] = lifecycle[e]
    BY DEF Revoke, GatewayTypeOK
  <2>3. (\E order \in cutting' : order.dev = d) /\ cutting \subseteq cutting'
    BY <2>1
  <2> HIDE DEF new
  <2> QED BY <2>2, <2>3 DEF GatewayTypeOK, StaleOnlyIfRaced, Revoke, agent, store, seen
<1>11. /\ AgentTypeOK' /\ UnopenedOK' /\ SlotsOK' /\ OpenIsRegistered' /\ SocketOK'
       /\ AcceptedOK' /\ WaitsOK'
  BY <1>1, Frames DEF AgentTypeOK, Revoke, Disturb, agent, store, seen
<1> QED BY <1>2, <1>3, <1>4, <1>5, <1>6, <1>7, <1>8, <1>9, <1>10, <1>11

LEMMA RotateCredentialKeeps ==
  ASSUME LinkInv, NEW d \in Devs, RotateCredential(d)
  PROVE  LinkInv'
<1> USE LinkAssumption DEF LinkInv, TypeOK, Devs, Conns, Spent
<1>1. UNCHANGED Wire
  BY DEF Wire, RotateCredential, agent, store, seen
<1>2. GatewayTypeOK'
  BY <1>1 DEF GatewayTypeOK, HelloStage, Lifecycle, RotateCredential, Disturb, agent, store, seen
<1>3. PendingTypeOK'
  BY <1>1 DEF PendingTypeOK, AgentTypeOK, GatewayTypeOK, RotateCredential, Disturb, agent, store, seen
<1>4. HistoryTypeOK'
  BY <1>1 DEF HistoryTypeOK, GatewayTypeOK, RotateCredential, Disturb, agent, store, seen
<1>5. DevicesOK'
  <2>1. Enrolled' = Enrolled /\ \A e \in Devs : lifecycle[e] \in Spent => lifecycle'[e] \in Spent
    BY DEF RotateCredential, Enrolled, GatewayTypeOK, Lifecycle
  <2>2. \A order \in cutting : order.dev \in Devs
    BY DEF PendingTypeOK
  <2>3. (\A order \in cutting : lifecycle[order.dev] \in Spent)'
    BY <2>1, <2>2 DEF RotateCredential, DevicesOK, GatewayTypeOK
  <2> QED BY <2>1, <2>3, SameDevices DEF DevicesOK, RotateCredential, agent, store, seen
<1>6. CondemnedOK'
  BY <1>1, SMTT(40) DEF GatewayTypeOK, CondemnedOK, RotateCredential, Disturb, agent, store, seen
<1>7. ClosesOK'
  BY <1>1, SMTT(40) DEF GatewayTypeOK, AgentTypeOK, SocketOK, ClosesOK, Refuses, RotateCredential, Disturb, agent, store, seen
<1>8. GivesUpOnlyForCause'
  BY <1>1 DEF AgentTypeOK, SocketOK, WaitsOK, NeverStranded, GivesUpOnlyForCause, RotateCredential, Disturb, agent, store, seen
<1>9. RacedOK'
  <2> DEFINE new == [dev |-> d, code |-> "authenticationRequired"]
  <2>1. cutting' = cutting \cup {new} /\ new.dev = d
    BY DEF RotateCredential
  <2>2. \A e \in Devs : e # d => lifecycle'[e] = lifecycle[e]
    BY DEF RotateCredential, GatewayTypeOK
  <2>3. (\E order \in cutting' : order.dev = d) /\ cutting \subseteq cutting'
    BY <2>1
  <2> HIDE DEF new
  <2> QED BY <2>2, <2>3 DEF GatewayTypeOK, RacedOK, RotateCredential, agent, store, seen
<1>10. StaleOnlyIfRaced'
  <2> DEFINE new == [dev |-> d, code |-> "authenticationRequired"]
  <2>1. cutting' = cutting \cup {new} /\ new.dev = d
    BY DEF RotateCredential
  <2>2. \A e \in Devs : e # d => lifecycle'[e] = lifecycle[e]
    BY DEF RotateCredential, GatewayTypeOK
  <2>3. (\E order \in cutting' : order.dev = d) /\ cutting \subseteq cutting'
    BY <2>1
  <2> HIDE DEF new
  <2> QED BY <2>2, <2>3 DEF GatewayTypeOK, StaleOnlyIfRaced, RotateCredential, agent, store, seen
<1>11. /\ AgentTypeOK' /\ UnopenedOK' /\ SlotsOK' /\ OpenIsRegistered' /\ SocketOK'
       /\ AcceptedOK' /\ WaitsOK'
  BY <1>1, Frames DEF AgentTypeOK, RotateCredential, Disturb, agent, store, seen
<1> QED BY <1>2, <1>3, <1>4, <1>5, <1>6, <1>7, <1>8, <1>9, <1>10, <1>11

LEMMA CutKeeps ==
  ASSUME LinkInv, NEW d \in Devs, Cut(d)
  PROVE  LinkInv'
<1> USE LinkAssumption DEF LinkInv, TypeOK, Devs, Conns, Spent
<1>1. PICK order \in cutting :
        /\ order.dev = d /\ cutting' = cutting \ {order}
        /\ registered' = [registered EXCEPT ![d] = 0]
        /\ readable' = readable \ {registered[d]}
        /\ toDevice' = IF registered[d] \in readable
                       THEN Post(registered[d], Close(order.code)) ELSE toDevice
        /\ raced' = raced \cup {j \in Conns : dev[j] = d /\ hello[j] \in {"checked", "recording"}}
  BY DEF Cut
<1>2. UNCHANGED <<attached, hello, dev, condemned, mistimed, lifecycle, reg, phase, state, sock>>
  BY DEF Cut, agent
<1>3. /\ order.code \in {"authenticationRequired", "deviceRevoked"} /\ Close(order.code) \in ServerMessage
      /\ Refuses(order.code) /\ order.code # "connectionReplaced"
  BY DEF Close, ServerMessage, CloseCode, PendingTypeOK, Refuses
<1>4. /\ toDevice' \in Seq(ServerMessage) /\ Wire' \subseteq Wire \cup {Close(order.code)}
      /\ toDevice' # toDevice => sock = registered[d] /\ sock \in Conns /\ phase \in {"open", "closing"}
      /\ toDevice' = toDevice => Wire' = Wire
  <2>1. CASE registered[d] \in readable
    BY <1>1, <1>3, <2>1, Posted DEF PendingTypeOK, GatewayTypeOK
  <2>2. CASE registered[d] \notin readable
    BY <1>1, <2>2 DEF PendingTypeOK, Wire
  <2> QED BY <2>1, <2>2
<1>5. GatewayTypeOK'
  <2>1. registered' \in [Devs -> 0..MaxConn]
    BY <1>1 DEF GatewayTypeOK
  <2>2. readable' \subseteq Conns
    BY <1>1 DEF GatewayTypeOK
  <2> QED BY <1>2, <2>1, <2>2 DEF GatewayTypeOK
<1>6. PendingTypeOK'
  BY <1>1, <1>4 DEF PendingTypeOK, Cut, store
<1>7. HistoryTypeOK'
  BY <1>1, <1>2, <1>3, <1>4 DEF HistoryTypeOK, GatewayTypeOK, Cut, agent, store
<1>8. DevicesOK'
  BY <1>1, <1>2, <1>3, <1>4 DEF GatewayTypeOK, DevicesOK, Enrolled, Used, Cut, agent, store
<1>9. UnopenedOK'
  BY <1>1, <1>2 DEF GatewayTypeOK, UnopenedOK
<1>10. SlotsOK'
  BY <1>1, <1>2, SMTT(40) DEF GatewayTypeOK, SlotsOK
<1>11. OpenIsRegistered'
  BY <1>1, <1>2, SMTT(40) DEF GatewayTypeOK, OpenIsRegistered
<1>12. SocketOK'
  BY <1>1, <1>2, <1>3, <1>4, SMTT(40) DEF GatewayTypeOK, AgentTypeOK, SocketOK, Cut, agent, store
<1>13. AcceptedOK'
  BY <1>2, <1>4, SMTT(40) DEF AcceptedOK, Close
<1>14. ClosesOK'
  <2>1. toDevice' # toDevice => dev[sock] = d /\ reg = d
    BY <1>1, <1>4 DEF SlotsOK, SocketOK
  <2>2. lifecycle[d] \in Spent
    BY <1>1 DEF DevicesOK
  <2> QED BY <1>2, <1>3, <1>4, <2>1, <2>2 DEF ClosesOK, Close
<1>15. RacedOK'
  BY <1>1, <1>2 DEF GatewayTypeOK, RacedOK
<1>16. StaleOnlyIfRaced'
  BY <1>1, <1>2 DEF GatewayTypeOK, SlotsOK, StaleOnlyIfRaced
<1>17. /\ AgentTypeOK' /\ WaitsOK' /\ CondemnedOK' /\ GivesUpOnlyForCause'
  BY <1>1, <1>2, <1>3, <1>4, Frames DEF AgentTypeOK, Cut, agent, store
<1> QED BY <1>5, <1>6, <1>7, <1>8, <1>9, <1>10, <1>11, <1>12, <1>13, <1>14, <1>15, <1>16, <1>17

LEMMA RemoveKeeps ==
  ASSUME LinkInv, NEW d \in Devs, Remove(d)
  PROVE  LinkInv'
<1> USE LinkAssumption DEF LinkInv, TypeOK, Devs, Conns, Spent
<1>1. UNCHANGED Wire
  BY DEF Wire, Remove, gateway, agent, store, history
<1>2. GatewayTypeOK'
  BY <1>1 DEF GatewayTypeOK, HelloStage, Lifecycle, Remove, gateway, agent, store, history
<1>3. DevicesOK'
  <2>1. Enrolled' = Enrolled /\ \A e \in Devs : lifecycle[e] \in Spent => lifecycle'[e] \in Spent
    BY DEF Remove, Enrolled, GatewayTypeOK, Lifecycle
  <2>2. \A order \in cutting : order.dev \in Devs
    BY DEF PendingTypeOK
  <2>3. (\A order \in cutting : lifecycle[order.dev] \in Spent)'
    BY <2>1, <2>2 DEF Remove, DevicesOK, GatewayTypeOK, gateway
  <2> QED BY <2>1, <2>3, SameDevices DEF DevicesOK, Remove, gateway, agent, store
<1>4. CondemnedOK'
  BY <1>1, SMTT(40) DEF GatewayTypeOK, CondemnedOK, Remove, gateway, agent, store, history
<1>5. ClosesOK'
  BY <1>1, SMTT(40) DEF GatewayTypeOK, AgentTypeOK, SocketOK, ClosesOK, Refuses, Remove, gateway, agent, store, history
<1>6. GivesUpOnlyForCause'
  BY <1>1 DEF AgentTypeOK, SocketOK, WaitsOK, NeverStranded, GivesUpOnlyForCause, Remove, gateway, agent, store, history
<1>7. RacedOK'
  BY <1>1 DEF GatewayTypeOK, RacedOK, Remove, gateway, agent, store, history
<1>8. StaleOnlyIfRaced'
  BY <1>1 DEF GatewayTypeOK, SlotsOK, StaleOnlyIfRaced, Remove, gateway, agent, store, history
<1>9. /\ AgentTypeOK' /\ PendingTypeOK' /\ HistoryTypeOK' /\ UnopenedOK'
      /\ SlotsOK' /\ OpenIsRegistered' /\ SocketOK' /\ AcceptedOK' /\ WaitsOK'
  BY <1>1, Frames DEF AgentTypeOK, PendingTypeOK, HistoryTypeOK, Remove, gateway, agent, store, history
<1> QED BY <1>2, <1>3, <1>4, <1>5, <1>6, <1>7, <1>8, <1>9

LEMMA OpenKeeps ==
  ASSUME LinkInv, Open
  PROVE  LinkInv'
<1> USE LinkAssumption DEF LinkInv, TypeOK, Devs, Conns, Spent
<1>1. sock \in Conns /\ sock = conn /\ reg \in Enrolled /\ reg \in Devs /\ hello[sock] = "none"
  BY DEF Open, SocketOK, AgentTypeOK, DevicesOK
<1>2. UNCHANGED Wire
  BY DEF Wire, Open, store, history
<1>3. GatewayTypeOK'
  BY <1>1 DEF Open, GatewayTypeOK, HelloStage
<1>4. AgentTypeOK'
  BY <1>1, <1>2 DEF AgentTypeOK, PendingTypeOK, AgentState, Open, store, history
<1>5. DevicesOK'
  <2>1. Enrolled' = Enrolled /\ Used' = Used
    BY DEF Open, Enrolled, Used
  <2> QED BY <1>1, <2>1 DEF Open, store, GatewayTypeOK, DevicesOK
<1>6. UnopenedOK'
  BY <1>1, <1>2 DEF GatewayTypeOK, UnopenedOK, Open, store, history
<1>7. SlotsOK'
  BY <1>1, SMTT(40) DEF Open, GatewayTypeOK, SlotsOK
<1>8. OpenIsRegistered'
  BY <1>1, <1>2, SMTT(40) DEF GatewayTypeOK, OpenIsRegistered, Open, store, history
<1>9. SocketOK'
  BY <1>1, <1>2, SMTT(40) DEF GatewayTypeOK, AgentTypeOK, SocketOK, Open, store, history
<1>10. AcceptedOK'
  BY <1>1, <1>2, SMTT(40) DEF GatewayTypeOK, AgentTypeOK, SocketOK, AcceptedOK, Open, store, history
<1>11. WaitsOK'
  BY <1>1, <1>2 DEF AgentTypeOK, SocketOK, WaitsOK, NeverStranded, Open, store, history
<1>12. CondemnedOK'
  BY <1>1, SMTT(40) DEF Open, history, GatewayTypeOK, UnopenedOK, CondemnedOK
<1>13. ClosesOK'
  BY <1>1, <1>2, SMTT(40) DEF GatewayTypeOK, AgentTypeOK, SocketOK, ClosesOK, Refuses, Open, store, history
<1>14. GivesUpOnlyForCause'
  BY <1>1, <1>2 DEF AgentTypeOK, SocketOK, WaitsOK, NeverStranded, GivesUpOnlyForCause, Open, store, history
<1>15. RacedOK'
  BY <1>1, <1>2 DEF GatewayTypeOK, RacedOK, Open, store, history
<1>16. StaleOnlyIfRaced'
  <2>1. \A d \in Devs : registered[d] # sock
    BY <1>1 DEF SlotsOK
  <2> QED BY <1>1, <2>1 DEF Open, history, StaleOnlyIfRaced
<1>17. /\ PendingTypeOK' /\ HistoryTypeOK'
  BY <1>1, <1>2 DEF PendingTypeOK, HistoryTypeOK, Open, store, history
<1> QED BY <1>3, <1>4, <1>5, <1>6, <1>7, <1>8, <1>9, <1>10, <1>11, <1>12, <1>13, <1>14, <1>15, <1>16, <1>17

LEMMA OpenFailsKeeps ==
  ASSUME LinkInv, OpenFails
  PROVE  LinkInv'
<1> USE LinkAssumption DEF LinkInv, TypeOK, Devs, Conns, Spent
<1>1. /\ UNCHANGED <<started, reg, conn>> /\ sock' = 0 /\ phase' = "none" /\ timer' \in BOOLEAN /\ state' \in AgentState
      /\ ~started \/ reg = 0 => UNCHANGED <<timer, state>>
      /\ started /\ reg # 0 => timer' /\ (state' = "reconnecting" \/ state' = state)
  BY Closed DEF OpenFails, Refuses
<1>2. UNCHANGED Wire
  BY DEF Wire, OpenFails, gateway, store, seen
<1>3. AgentTypeOK'
  BY <1>1, <1>2 DEF AgentTypeOK, PendingTypeOK, AgentState, OpenFails, Mishap, Disturb, gateway, store, seen
<1>4. HistoryTypeOK'
  BY <1>1, <1>2 DEF HistoryTypeOK, GatewayTypeOK, OpenFails, Mishap, Disturb, gateway, store, seen
<1>5. SocketOK'
  BY <1>1, <1>2, SMTT(40) DEF GatewayTypeOK, AgentTypeOK, SocketOK, OpenFails, Mishap, Disturb, gateway, store, seen
<1>6. AcceptedOK'
  BY <1>1, <1>2, SMTT(40) DEF GatewayTypeOK, AgentTypeOK, SocketOK, AcceptedOK, OpenFails, Mishap, Disturb, gateway, store, seen
<1>7. WaitsOK'
  BY <1>1, <1>2 DEF AgentTypeOK, SocketOK, WaitsOK, NeverStranded, OpenFails, Mishap, Disturb, gateway, store, seen
<1>8. ClosesOK'
  BY <1>1, <1>2, SMTT(40) DEF GatewayTypeOK, AgentTypeOK, SocketOK, ClosesOK, Refuses, OpenFails, Mishap, Disturb, gateway, store, seen
<1>9. GivesUpOnlyForCause'
  BY <1>1, <1>2 DEF AgentTypeOK, SocketOK, WaitsOK, NeverStranded, GivesUpOnlyForCause, OpenFails, Mishap, Disturb, gateway, store, seen
<1>10. /\ GatewayTypeOK' /\ PendingTypeOK' /\ DevicesOK' /\ UnopenedOK' /\ SlotsOK'
       /\ OpenIsRegistered' /\ CondemnedOK' /\ RacedOK' /\ StaleOnlyIfRaced'
  BY <1>1, <1>2, Frames DEF GatewayTypeOK, PendingTypeOK, OpenFails, Mishap, Disturb, gateway, store, seen
<1> QED BY <1>3, <1>4, <1>5, <1>6, <1>7, <1>8, <1>9, <1>10

LEMMA BreakKeeps ==
  ASSUME LinkInv, Break
  PROVE  LinkInv'
<1> USE LinkAssumption DEF LinkInv, TypeOK, Devs, Conns, Spent
<1>1. /\ UNCHANGED <<started, reg, conn>> /\ sock' = 0 /\ phase' = "none" /\ timer' \in BOOLEAN /\ state' \in AgentState
      /\ ~started \/ reg = 0 => UNCHANGED <<timer, state>>
      /\ started /\ reg # 0 => timer' /\ (state' = "reconnecting" \/ state' = state)
  BY Closed DEF Break, Refuses
<1>2. /\ toDevice' = <<>> /\ toDevice' \in Seq(ServerMessage) /\ Wire' = {}
      /\ hello' \in [Conns -> HelloStage]
      /\ \A j \in Conns : hello'[j] # hello[j] => hello[j] = "waiting" /\ hello'[j] = "lost"
      /\ UNCHANGED <<cutting, registered, readable, attached, dev, condemned>>
  BY Abandoned DEF Break, AgentTypeOK
<1>3. GatewayTypeOK'
  BY <1>1, <1>2 DEF GatewayTypeOK, HelloStage, Lifecycle, Break, Mishap, Disturb, store, seen
<1>4. AgentTypeOK'
  BY <1>1, <1>2 DEF AgentTypeOK, PendingTypeOK, AgentState, Break, Mishap, Disturb, store, seen
<1>5. PendingTypeOK'
  BY <1>1, <1>2 DEF PendingTypeOK, AgentTypeOK, GatewayTypeOK, Break, Mishap, Disturb, store, seen
<1>6. HistoryTypeOK'
  BY <1>1, <1>2 DEF HistoryTypeOK, GatewayTypeOK, Break, Mishap, Disturb, store, seen
<1>7. DevicesOK'
  BY <1>1, <1>2 DEF GatewayTypeOK, DevicesOK, Enrolled, Used, Break, Mishap, Disturb, store, seen
<1>8. UnopenedOK'
  BY <1>1, <1>2 DEF GatewayTypeOK, UnopenedOK, Break, Mishap, Disturb, store, seen
<1>9. SlotsOK'
  BY <1>1, <1>2, SMTT(40) DEF GatewayTypeOK, SlotsOK, Break, Mishap, Disturb, store, seen
<1>10. OpenIsRegistered'
  BY <1>1, <1>2, SMTT(40) DEF GatewayTypeOK, OpenIsRegistered, Break, Mishap, Disturb, store, seen
<1>11. SocketOK'
  BY <1>1, <1>2, SMTT(40) DEF GatewayTypeOK, AgentTypeOK, SocketOK, Break, Mishap, Disturb, store, seen
<1>12. AcceptedOK'
  BY <1>1, <1>2, SMTT(40) DEF GatewayTypeOK, AgentTypeOK, SocketOK, AcceptedOK, Break, Mishap, Disturb, store, seen
<1>13. WaitsOK'
  BY <1>1, <1>2 DEF AgentTypeOK, SocketOK, WaitsOK, NeverStranded, Break, Mishap, Disturb, store, seen
<1>14. ClosesOK'
  BY <1>1, <1>2, SMTT(40) DEF GatewayTypeOK, AgentTypeOK, SocketOK, ClosesOK, Refuses, Break, Mishap, Disturb, store, seen
<1>15. GivesUpOnlyForCause'
  BY <1>1, <1>2 DEF AgentTypeOK, SocketOK, WaitsOK, NeverStranded, GivesUpOnlyForCause, Break, Mishap, Disturb, store, seen
<1>16. RacedOK'
  BY <1>1, <1>2 DEF GatewayTypeOK, RacedOK, Break, Mishap, Disturb, store, seen
<1>17. /\ CondemnedOK' /\ StaleOnlyIfRaced'
  BY <1>1, <1>2, Frames DEF Break, Mishap, Disturb, store, seen
<1> QED BY <1>3, <1>4, <1>5, <1>6, <1>7, <1>8, <1>9, <1>10, <1>11, <1>12, <1>13, <1>14, <1>15, <1>16, <1>17

LEMMA HandshakeTimeoutKeeps ==
  ASSUME LinkInv, HandshakeTimeout
  PROVE  LinkInv'
<1> USE LinkAssumption DEF LinkInv, TypeOK, Devs, Conns, Spent
<1>1. UNCHANGED Wire
  BY DEF Wire, HandshakeTimeout, gateway, store
<1>2. AgentTypeOK'
  BY <1>1 DEF AgentTypeOK, PendingTypeOK, AgentState, HandshakeTimeout, Mishap, Disturb, gateway, store
<1>3. HistoryTypeOK'
  BY <1>1 DEF HistoryTypeOK, GatewayTypeOK, HandshakeTimeout, Mishap, Disturb, gateway, store
<1>4. SocketOK'
  BY <1>1, SMTT(40) DEF GatewayTypeOK, AgentTypeOK, SocketOK, HandshakeTimeout, Mishap, Disturb, gateway, store
<1>5. AcceptedOK'
  BY <1>1, SMTT(40) DEF GatewayTypeOK, AgentTypeOK, SocketOK, AcceptedOK, HandshakeTimeout, Mishap, Disturb, gateway, store
<1>6. CondemnedOK'
  BY <1>1, SMTT(40) DEF GatewayTypeOK, CondemnedOK, HandshakeTimeout, Mishap, Disturb, gateway, store
<1>7. ClosesOK'
  BY <1>1, SMTT(40) DEF GatewayTypeOK, AgentTypeOK, SocketOK, ClosesOK, Refuses, HandshakeTimeout, Mishap, Disturb, gateway, store
<1>8. GivesUpOnlyForCause'
  BY <1>1 DEF AgentTypeOK, SocketOK, WaitsOK, NeverStranded, GivesUpOnlyForCause, HandshakeTimeout, Mishap, Disturb, gateway, store
<1>9. /\ GatewayTypeOK' /\ PendingTypeOK' /\ DevicesOK' /\ UnopenedOK' /\ SlotsOK'
      /\ OpenIsRegistered' /\ WaitsOK' /\ RacedOK' /\ StaleOnlyIfRaced'
  BY <1>1, Frames DEF GatewayTypeOK, PendingTypeOK, HandshakeTimeout, Mishap, Disturb, gateway, store
<1> QED BY <1>2, <1>3, <1>4, <1>5, <1>6, <1>7, <1>8, <1>9

LEMMA CloseEchoedKeeps ==
  ASSUME LinkInv, CloseEchoed
  PROVE  LinkInv'
<1> USE LinkAssumption DEF LinkInv, TypeOK, Devs, Conns, Spent
<1>1. /\ UNCHANGED <<started, reg, conn>> /\ sock' = 0 /\ phase' = "none" /\ timer' \in BOOLEAN /\ state' \in AgentState
      /\ ~started \/ reg = 0 => UNCHANGED <<timer, state>>
      /\ started /\ reg # 0 =>
           \/ state' = "authentication-failed"
           \/ timer' /\ (state' = "reconnecting" \/ state' = state)
  BY Closed DEF CloseEchoed
<1>2. Wire' = {}
  BY DEF CloseEchoed, Wire
<1>3. UNCHANGED Wire
  BY DEF Wire, CloseEchoed, store, history
<1>4. GatewayTypeOK'
  BY <1>1, <1>2, <1>3 DEF GatewayTypeOK, HelloStage, Lifecycle, CloseEchoed, store, history
<1>5. AgentTypeOK'
  BY <1>1, <1>2, <1>3 DEF AgentTypeOK, PendingTypeOK, AgentState, CloseEchoed, store, history
<1>6. UnopenedOK'
  BY <1>1, <1>2, <1>3 DEF GatewayTypeOK, UnopenedOK, CloseEchoed, store, history
<1>7. OpenIsRegistered'
  BY <1>1, <1>2, <1>3, SMTT(40) DEF GatewayTypeOK, OpenIsRegistered, CloseEchoed, store, history
<1>8. SocketOK'
  BY <1>1, <1>2, <1>3, SMTT(40) DEF GatewayTypeOK, AgentTypeOK, SocketOK, CloseEchoed, store, history
<1>9. AcceptedOK'
  BY <1>1, <1>2, SMTT(40) DEF AcceptedOK
<1>10. WaitsOK'
  BY <1>1, <1>2, <1>3 DEF AgentTypeOK, SocketOK, WaitsOK, NeverStranded, CloseEchoed, store, history
<1>11. ClosesOK'
  BY <1>1, <1>2, SMTT(40) DEF ClosesOK
<1>12. GivesUpOnlyForCause'
  BY <1>1 DEF AgentTypeOK, SocketOK, WaitsOK, ClosesOK, GivesUpOnlyForCause, CloseEchoed, history
<1>13. StaleOnlyIfRaced'
  BY <1>1, <1>2, <1>3 DEF GatewayTypeOK, SlotsOK, StaleOnlyIfRaced, CloseEchoed, store, history
<1>14. /\ PendingTypeOK' /\ HistoryTypeOK' /\ DevicesOK' /\ SlotsOK'
       /\ CondemnedOK' /\ RacedOK'
  BY <1>1, <1>2, <1>3, Frames DEF PendingTypeOK, HistoryTypeOK, CloseEchoed, store, history
<1> QED BY <1>4, <1>5, <1>6, <1>7, <1>8, <1>9, <1>10, <1>11, <1>12, <1>13, <1>14

LEMMA ReceiveAcceptedKeeps ==
  ASSUME LinkInv, ReceiveAccepted
  PROVE  LinkInv'
<1> USE LinkAssumption DEF LinkInv, TypeOK, Devs, Conns, Spent
<1>1. Head(toDevice) \in Wire /\ toDevice # <<>>
      /\ toDevice' \in Seq(ServerMessage) /\ Wire' \subseteq Wire
  BY Received DEF ReceiveAccepted, Incoming, PendingTypeOK
<1>2. AgentTypeOK'
  BY <1>1 DEF AgentTypeOK, PendingTypeOK, AgentState, ReceiveAccepted, Incoming, gateway, store, history
<1>3. PendingTypeOK'
  BY <1>1 DEF PendingTypeOK, AgentTypeOK, GatewayTypeOK, ReceiveAccepted, Incoming, gateway, store, history
<1>4. SocketOK'
  BY <1>1, SMTT(40) DEF GatewayTypeOK, AgentTypeOK, SocketOK, ReceiveAccepted, Incoming, gateway, store, history
<1>5. AcceptedOK'
  BY <1>1, SMTT(40) DEF GatewayTypeOK, AgentTypeOK, SocketOK, AcceptedOK, ReceiveAccepted, Incoming, gateway, store, history
<1>6. WaitsOK'
  BY <1>1 DEF AgentTypeOK, SocketOK, WaitsOK, NeverStranded, ReceiveAccepted, Incoming, gateway, store, history
<1>7. ClosesOK'
  BY <1>1, SMTT(40) DEF GatewayTypeOK, AgentTypeOK, SocketOK, ClosesOK, Refuses, ReceiveAccepted, Incoming, gateway, store, history
<1>8. GivesUpOnlyForCause'
  BY <1>1 DEF AgentTypeOK, SocketOK, WaitsOK, NeverStranded, GivesUpOnlyForCause, ReceiveAccepted, Incoming, gateway, store, history
<1>9. /\ GatewayTypeOK' /\ HistoryTypeOK' /\ DevicesOK' /\ UnopenedOK' /\ SlotsOK'
      /\ OpenIsRegistered' /\ CondemnedOK' /\ RacedOK' /\ StaleOnlyIfRaced'
  BY <1>1, Frames DEF GatewayTypeOK, HistoryTypeOK, ReceiveAccepted, Incoming, gateway, store, history
<1> QED BY <1>2, <1>3, <1>4, <1>5, <1>6, <1>7, <1>8, <1>9

LEMMA ReceiveErrorKeeps ==
  ASSUME LinkInv, ReceiveError
  PROVE  LinkInv'
<1> USE LinkAssumption DEF LinkInv, TypeOK, Devs, Conns, Spent
<1>1. Head(toDevice) \in Wire /\ toDevice # <<>>
      /\ toDevice' \in Seq(ServerMessage) /\ Wire' \subseteq Wire
  BY Received DEF ReceiveError, Incoming, PendingTypeOK
<1>2. AgentTypeOK'
  BY <1>1 DEF AgentTypeOK, PendingTypeOK, AgentState, ReceiveError, Incoming, gateway, store, history
<1>3. PendingTypeOK'
  BY <1>1 DEF PendingTypeOK, AgentTypeOK, GatewayTypeOK, ReceiveError, Incoming, gateway, store, history
<1>4. SocketOK'
  BY <1>1, SMTT(40) DEF GatewayTypeOK, AgentTypeOK, SocketOK, ReceiveError, Incoming, gateway, store, history
<1>5. AcceptedOK'
  BY <1>1, SMTT(40) DEF GatewayTypeOK, AgentTypeOK, SocketOK, AcceptedOK, ReceiveError, Incoming, gateway, store, history
<1>6. WaitsOK'
  BY <1>1 DEF AgentTypeOK, SocketOK, WaitsOK, NeverStranded, ReceiveError, Incoming, gateway, store, history
<1>7. ClosesOK'
  BY <1>1, SMTT(40) DEF GatewayTypeOK, AgentTypeOK, SocketOK, ClosesOK, Refuses, ReceiveError, Incoming, gateway, store, history
<1>8. GivesUpOnlyForCause'
  BY <1>1 DEF AgentTypeOK, SocketOK, WaitsOK, NeverStranded, GivesUpOnlyForCause, ReceiveError, Incoming, gateway, store, history
<1>9. /\ GatewayTypeOK' /\ HistoryTypeOK' /\ DevicesOK' /\ UnopenedOK' /\ SlotsOK'
      /\ OpenIsRegistered' /\ CondemnedOK' /\ RacedOK' /\ StaleOnlyIfRaced'
  BY <1>1, Frames DEF GatewayTypeOK, HistoryTypeOK, ReceiveError, Incoming, gateway, store, history
<1> QED BY <1>2, <1>3, <1>4, <1>5, <1>6, <1>7, <1>8, <1>9

LEMMA ReceiveCloseKeeps ==
  ASSUME LinkInv, ReceiveClose
  PROVE  LinkInv'
<1> USE LinkAssumption DEF LinkInv, TypeOK, Devs, Conns, Spent
<1>1. Head(toDevice) \in Wire /\ Head(toDevice).type = "close"
  BY Received DEF ReceiveClose, Incoming, PendingTypeOK
<1>2. /\ UNCHANGED <<started, reg, conn>> /\ sock' = 0 /\ phase' = "none" /\ timer' \in BOOLEAN /\ state' \in AgentState
      /\ ~started \/ reg = 0 => UNCHANGED <<timer, state>>
      /\ started /\ reg # 0 =>
           \/ Refuses(Head(toDevice).code) /\ state' = "authentication-failed"
           \/ Head(toDevice).code = "connectionReplaced" /\ state' = "connection-replaced"
           \/ timer' /\ (state' = "reconnecting" \/ state' = state)
  BY Closed DEF ReceiveClose
<1>3. toDevice' = <<>> /\ toDevice' \in Seq(ServerMessage) /\ Wire' = {}
  BY DEF ReceiveClose, Wire
<1>4. AgentTypeOK'
  BY <1>1, <1>2, <1>3 DEF AgentTypeOK, PendingTypeOK, AgentState, ReceiveClose, gateway, store, history
<1>5. PendingTypeOK'
  BY <1>1, <1>2, <1>3 DEF PendingTypeOK, AgentTypeOK, GatewayTypeOK, ReceiveClose, gateway, store, history
<1>6. SocketOK'
  BY <1>1, <1>2, <1>3, SMTT(40) DEF GatewayTypeOK, AgentTypeOK, SocketOK, ReceiveClose, gateway, store, history
<1>7. AcceptedOK'
  BY <1>1, <1>2, <1>3, SMTT(40) DEF GatewayTypeOK, AgentTypeOK, SocketOK, AcceptedOK, ReceiveClose, gateway, store, history
<1>8. WaitsOK'
  BY <1>1, <1>2, <1>3 DEF AgentTypeOK, SocketOK, WaitsOK, NeverStranded, ReceiveClose, gateway, store, history
<1>9. ClosesOK'
  BY <1>1, <1>2, <1>3, SMTT(40) DEF GatewayTypeOK, AgentTypeOK, SocketOK, ClosesOK, Refuses, ReceiveClose, gateway, store, history
<1>10. GivesUpOnlyForCause'
  <2>1. /\ Refuses(Head(toDevice).code) => lifecycle[reg] # "active" \/ mistimed
        /\ Head(toDevice).code = "connectionReplaced" => mistimed
        /\ sock # 0 /\ started /\ reg # 0
    BY <1>1 DEF ClosesOK, SocketOK, Wire
  <2> QED BY <1>2, <2>1 DEF GivesUpOnlyForCause, ReceiveClose, history
<1>11. /\ GatewayTypeOK' /\ HistoryTypeOK' /\ DevicesOK' /\ UnopenedOK' /\ SlotsOK'
       /\ OpenIsRegistered' /\ CondemnedOK' /\ RacedOK' /\ StaleOnlyIfRaced'
  BY <1>1, <1>2, <1>3, Frames DEF GatewayTypeOK, HistoryTypeOK, ReceiveClose, gateway, store, history
<1> QED BY <1>4, <1>5, <1>6, <1>7, <1>8, <1>9, <1>10, <1>11

LEMMA TimerFiresKeeps ==
  ASSUME LinkInv, TimerFires
  PROVE  LinkInv'
<1> USE LinkAssumption DEF LinkInv, TypeOK, Devs, Conns, Spent
<1>1. sock = 0 => toDevice = <<>> /\ Wire = {}
  BY DEF SocketOK, Wire
<1>2. UNCHANGED Wire
  BY DEF Wire, TimerFires, gateway, store, history
<1>3. AgentTypeOK'
  <2>1. state \in AgentState /\ "reconnecting" \in AgentState
    BY DEF AgentTypeOK, AgentState
  <2>2. /\ conn' \in 0..MaxConn /\ sock' \in 0..MaxConn /\ state' \in AgentState
        /\ phase' \in {"none", "opening", "open", "closing"}
    BY <2>1, Connected DEF TimerFires
  <2> QED BY <2>2 DEF AgentTypeOK, TimerFires, store
<1>4. SocketOK'
  BY <1>1, <1>2, SMTT(40) DEF GatewayTypeOK, AgentTypeOK, SocketOK, TimerFires, WillConnect, Connect, gateway, store, history
<1>5. AcceptedOK'
  <2>1. CASE WillConnect(reg, sock)
    BY <1>1, <1>2, <2>1 DEF TimerFires, WillConnect, Connect, AcceptedOK
  <2>2. CASE ~WillConnect(reg, sock)
    BY <1>1, <1>2, <2>2 DEF TimerFires, Connect, SocketOK, AcceptedOK, gateway
  <2> QED BY <2>1, <2>2
<1>6. WaitsOK'
  BY <1>1, <1>2 DEF AgentTypeOK, SocketOK, WaitsOK, NeverStranded, TimerFires, WillConnect, Connect, gateway, store, history
<1>7. ClosesOK'
  BY <1>1, <1>2, SMTT(40) DEF GatewayTypeOK, AgentTypeOK, SocketOK, ClosesOK, Refuses, TimerFires, WillConnect, Connect, gateway, store, history
<1>8. GivesUpOnlyForCause'
  BY <1>1, <1>2 DEF AgentTypeOK, SocketOK, WaitsOK, NeverStranded, GivesUpOnlyForCause, TimerFires, WillConnect, Connect, gateway, store, history
<1>9. /\ GatewayTypeOK' /\ PendingTypeOK' /\ HistoryTypeOK' /\ DevicesOK'
      /\ UnopenedOK' /\ SlotsOK' /\ OpenIsRegistered' /\ CondemnedOK' /\ RacedOK'
      /\ StaleOnlyIfRaced'
  BY <1>1, <1>2, Frames DEF GatewayTypeOK, PendingTypeOK, HistoryTypeOK, TimerFires, WillConnect, Connect, gateway, store, history
<1> QED BY <1>3, <1>4, <1>5, <1>6, <1>7, <1>8, <1>9

LEMMA StartKeeps ==
  ASSUME LinkInv, Start
  PROVE  LinkInv'
<1> USE LinkAssumption DEF LinkInv, TypeOK, Devs, Conns, Spent
<1>1. sock = 0 /\ phase = "none" /\ reg = 0 /\ conn < MaxConn /\ toDevice = <<>> /\ Wire = {}
  BY DEF Start, SocketOK, Wire
<1>2. UNCHANGED Wire
  BY DEF Wire, Start, gateway, seen
<1>3. AgentTypeOK'
  <2>1. state \in AgentState /\ {"connecting", "unenrolled"} \subseteq AgentState /\ 0 \in {0, sock}
    BY DEF AgentTypeOK, AgentState
  <2>2. CASE reg' = disk /\ Connect(disk, sock, "connecting", "unenrolled")
    <3>1. /\ conn' \in 0..MaxConn /\ sock' \in 0..MaxConn /\ state' \in AgentState
          /\ phase' \in {"none", "opening", "open", "closing"}
      BY <1>1, <2>1, <2>2, Connected
    <3> QED BY <2>2, <3>1 DEF AgentTypeOK, Start
  <2>3. CASE state' = "unenrolled" /\ UNCHANGED <<reg, conn, sock, phase>>
    BY <2>1, <2>3 DEF AgentTypeOK, Start
  <2> QED BY <2>2, <2>3 DEF Start
<1>4. HistoryTypeOK'
  BY <1>1, <1>2 DEF HistoryTypeOK, GatewayTypeOK, Start, Mishap, Disturb, WillConnect, Connect, gateway, seen
<1>5. DevicesOK'
  BY <1>1, <1>2 DEF GatewayTypeOK, DevicesOK, Enrolled, Used, Start, Mishap, Disturb, WillConnect, Connect, gateway, seen
<1>6. SocketOK'
  BY <1>1, <1>2, SMTT(40) DEF GatewayTypeOK, AgentTypeOK, SocketOK, Start, Mishap, Disturb, WillConnect, Connect, gateway, seen
<1>7. AcceptedOK'
  BY <1>1, <1>2, SMTT(40) DEF Start, WillConnect, Connect, AcceptedOK
<1>8. WaitsOK'
  BY <1>1, <1>2 DEF AgentTypeOK, SocketOK, WaitsOK, NeverStranded, Start, Mishap, Disturb, WillConnect, Connect, gateway, seen
<1>9. ClosesOK'
  BY <1>1, <1>2, SMTT(40) DEF Start, WillConnect, Connect, ClosesOK
<1>10. GivesUpOnlyForCause'
  BY <1>1, <1>2 DEF AgentTypeOK, SocketOK, WaitsOK, NeverStranded, GivesUpOnlyForCause, Start, Mishap, Disturb, WillConnect, Connect, gateway, seen
<1>11. /\ GatewayTypeOK' /\ PendingTypeOK' /\ UnopenedOK' /\ SlotsOK'
       /\ OpenIsRegistered' /\ CondemnedOK' /\ RacedOK' /\ StaleOnlyIfRaced'
  BY <1>1, <1>2, Frames DEF GatewayTypeOK, PendingTypeOK, Start, Mishap, Disturb, WillConnect, Connect, gateway, seen
<1> QED BY <1>3, <1>4, <1>5, <1>6, <1>7, <1>8, <1>9, <1>10, <1>11

LEMMA EnrollKeeps ==
  ASSUME LinkInv, Enroll
  PROVE  LinkInv'
<1> USE LinkAssumption DEF LinkInv, TypeOK, Devs, Conns, Spent
<1>1. Used \in 0..MaxUses /\ Used + 1 \in Devs /\ Enrolled = 1..Used /\ Used + 1 \notin Enrolled
  BY UsedIsBounded DEF Enroll, CodeActive, DevicesOK
<1>2. /\ lifecycle' \in [Devs -> Lifecycle] /\ lifecycle'[Used + 1] = "active"
      /\ \A d \in Devs : d # Used + 1 => lifecycle'[d] = lifecycle[d]
  BY <1>1 DEF Enroll, GatewayTypeOK, Lifecycle
<1>3. (\A k \in Conns : hello[k] # "none" => dev[k] \in Enrolled) /\ (reg # 0 => reg \in Enrolled)
  BY DEF DevicesOK
<1>4. UNCHANGED Wire
  BY DEF Wire, Enroll, gateway, agent, history
<1>5. GatewayTypeOK'
  BY <1>1, <1>2, <1>3, <1>4 DEF GatewayTypeOK, HelloStage, Lifecycle, Enroll, CodeActive, gateway, agent, history
<1>6. PendingTypeOK'
  BY <1>1 DEF Enroll, gateway, PendingTypeOK
<1>7. DevicesOK'
  <2>1. Enrolled' = 1..(Used + 1)
    <3>1. \A d \in Devs : d \in Enrolled' <=> d \in Enrolled \/ d = Used + 1
      BY <1>1, <1>2 DEF Enrolled
    <3>2. \A d : d \in Enrolled' => d \in Devs
      BY DEF Enrolled
    <3>3. \A d : d \in 1..(Used + 1) => d \in Devs /\ (d \in 1..Used \/ d = Used + 1)
      BY <1>1
    <3>4. \A d : d \in Enrolled' <=> d \in 1..(Used + 1)
      BY <1>1, <3>1, <3>2, <3>3
    <3> QED BY <3>4
  <2>2. Used' = Used + 1
    <3>1. Used' = Cardinality(1..(Used + 1))
      BY <2>1 DEF Used, Enrolled
    <3>2. Cardinality(1..(Used + 1)) = Used + 1
      BY <1>1, FS_Interval
    <3> QED BY <3>1, <3>2
  <2>3. \A order \in cutting : order.dev \in Enrolled
    BY DEF DevicesOK, Enrolled, PendingTypeOK
  <2>4. \A order \in cutting : lifecycle'[order.dev] \in Spent
    BY <1>1, <1>2, <2>3 DEF DevicesOK, Enrolled
  <2> QED BY <1>1, <1>3, <2>1, <2>2, <2>4 DEF DevicesOK, Enroll, gateway, agent
<1>8. CondemnedOK'
  BY <1>1, <1>2, <1>3, SMTT(40) DEF Enroll, gateway, history, UnopenedOK, CondemnedOK, Enrolled
<1>9. ClosesOK'
  BY <1>1, <1>2, <1>3, <1>4, SMTT(40) DEF Enroll, agent, history, SocketOK, ClosesOK, Enrolled, Wire
<1>10. GivesUpOnlyForCause'
  BY <1>1, <1>2, <1>3 DEF Enroll, agent, history, WaitsOK, GivesUpOnlyForCause, Enrolled
<1>11. RacedOK'
  BY <1>1, <1>2, <1>3, <1>4 DEF GatewayTypeOK, RacedOK, Enroll, CodeActive, gateway, agent, history
<1>12. StaleOnlyIfRaced'
  BY <1>1, <1>2, <1>3, <1>4 DEF GatewayTypeOK, SlotsOK, StaleOnlyIfRaced, Enroll, CodeActive, gateway, agent, history
<1>13. /\ AgentTypeOK' /\ HistoryTypeOK' /\ UnopenedOK' /\ SlotsOK'
       /\ OpenIsRegistered' /\ SocketOK' /\ AcceptedOK' /\ WaitsOK'
  BY <1>1, <1>2, <1>3, <1>4, Frames DEF AgentTypeOK, HistoryTypeOK, Enroll, CodeActive, gateway, agent, history
<1> QED BY <1>5, <1>6, <1>7, <1>8, <1>9, <1>10, <1>11, <1>12, <1>13

LEMMA EnrollFailsKeeps ==
  ASSUME LinkInv, EnrollFails
  PROVE  LinkInv'
<1> USE LinkAssumption DEF LinkInv, TypeOK, Devs, Conns, Spent
<1>1. UNCHANGED Wire
  BY DEF Wire, EnrollFails, gateway, agent, seen
<1>2. PendingTypeOK'
  BY <1>1 DEF PendingTypeOK, AgentTypeOK, GatewayTypeOK, EnrollFails, Mishap, Disturb, NotEnrolling, gateway, agent, seen
<1>3. HistoryTypeOK'
  BY <1>1 DEF HistoryTypeOK, GatewayTypeOK, EnrollFails, Mishap, Disturb, NotEnrolling, gateway, agent, seen
<1>4. DevicesOK'
  BY <1>1 DEF GatewayTypeOK, DevicesOK, Enrolled, Used, EnrollFails, Mishap, Disturb, NotEnrolling, gateway, agent, seen
<1>5. /\ GatewayTypeOK' /\ AgentTypeOK' /\ UnopenedOK' /\ SlotsOK'
      /\ OpenIsRegistered' /\ SocketOK' /\ AcceptedOK' /\ WaitsOK' /\ CondemnedOK'
      /\ ClosesOK' /\ GivesUpOnlyForCause' /\ RacedOK' /\ StaleOnlyIfRaced'
  BY <1>1, Frames DEF GatewayTypeOK, AgentTypeOK, EnrollFails, Mishap, Disturb, NotEnrolling, gateway, agent, seen
<1> QED BY <1>2, <1>3, <1>4, <1>5

LEMMA EnrollSaveKeeps ==
  ASSUME LinkInv, EnrollSave
  PROVE  LinkInv'
<1> USE LinkAssumption DEF LinkInv, TypeOK, Devs, Conns, Spent
<1>1. UNCHANGED Wire
  BY DEF Wire, EnrollSave, gateway, agent, history
<1>2. AgentTypeOK'
  BY <1>1 DEF AgentTypeOK, PendingTypeOK, AgentState, EnrollSave, gateway, agent, history
<1>3. PendingTypeOK'
  BY <1>1 DEF PendingTypeOK, AgentTypeOK, GatewayTypeOK, EnrollSave, gateway, agent, history
<1>4. DevicesOK'
  BY DEF EnrollSave, gateway, agent, PendingTypeOK, DevicesOK, Enrolled, Used
<1>5. /\ GatewayTypeOK' /\ HistoryTypeOK' /\ UnopenedOK' /\ SlotsOK'
      /\ OpenIsRegistered' /\ SocketOK' /\ AcceptedOK' /\ WaitsOK' /\ CondemnedOK'
      /\ ClosesOK' /\ GivesUpOnlyForCause' /\ RacedOK' /\ StaleOnlyIfRaced'
  BY <1>1, Frames DEF GatewayTypeOK, HistoryTypeOK, EnrollSave, gateway, agent, history
<1> QED BY <1>2, <1>3, <1>4, <1>5

LEMMA EnrollEndKeeps ==
  ASSUME LinkInv, EnrollEnd
  PROVE  LinkInv'
<1> USE LinkAssumption DEF LinkInv, TypeOK, Devs, Conns, Spent
<1>1. /\ toDevice' = <<>> /\ toDevice' \in Seq(ServerMessage) /\ Wire' = {}
      /\ hello' \in [Conns -> HelloStage]
      /\ \A j \in Conns : hello'[j] # hello[j] => hello[j] = "waiting" /\ hello'[j] = "lost"
      /\ UNCHANGED <<cutting, registered, readable, attached, dev, condemned>>
  BY Abandoned DEF EnrollEnd, AgentTypeOK
<1>2. enrolling.dev \in 1..MaxUses /\ conn' = conn + 1 /\ sock' = conn + 1 /\ phase' = "opening" /\ state' = "connecting"
  BY DEF EnrollEnd, Connect, WillConnect, DevicesOK, Enrolled
<1>3. GatewayTypeOK'
  BY <1>1, <1>2 DEF GatewayTypeOK, HelloStage, Lifecycle, EnrollEnd, NotEnrolling, history
<1>4. AgentTypeOK'
  BY <1>1, <1>2 DEF AgentTypeOK, PendingTypeOK, AgentState, EnrollEnd, NotEnrolling, history
<1>5. PendingTypeOK'
  BY <1>1, <1>2 DEF PendingTypeOK, AgentTypeOK, GatewayTypeOK, EnrollEnd, NotEnrolling, history
<1>6. DevicesOK'
  BY <1>1, <1>2 DEF GatewayTypeOK, DevicesOK, Enrolled, Used, EnrollEnd, NotEnrolling, history
<1>7. UnopenedOK'
  BY <1>1, <1>2 DEF GatewayTypeOK, UnopenedOK, EnrollEnd, NotEnrolling, history
<1>8. SlotsOK'
  BY <1>1, <1>2, SMTT(40) DEF GatewayTypeOK, SlotsOK, EnrollEnd, NotEnrolling, history
<1>9. OpenIsRegistered'
  BY <1>1, <1>2, SMTT(40) DEF GatewayTypeOK, OpenIsRegistered, EnrollEnd, NotEnrolling, history
<1>10. SocketOK'
  BY <1>1, <1>2, SMTT(40) DEF GatewayTypeOK, AgentTypeOK, SocketOK, EnrollEnd, NotEnrolling, history
<1>11. AcceptedOK'
  BY <1>1, <1>2, SMTT(40) DEF GatewayTypeOK, AgentTypeOK, SocketOK, AcceptedOK, EnrollEnd, NotEnrolling, history
<1>12. WaitsOK'
  BY <1>1, <1>2 DEF AgentTypeOK, SocketOK, WaitsOK, NeverStranded, EnrollEnd, NotEnrolling, history
<1>13. ClosesOK'
  BY <1>1, <1>2, SMTT(40) DEF GatewayTypeOK, AgentTypeOK, SocketOK, ClosesOK, Refuses, EnrollEnd, NotEnrolling, history
<1>14. GivesUpOnlyForCause'
  BY <1>1, <1>2 DEF AgentTypeOK, SocketOK, WaitsOK, NeverStranded, GivesUpOnlyForCause, EnrollEnd, NotEnrolling, history
<1>15. RacedOK'
  BY <1>1, <1>2 DEF GatewayTypeOK, RacedOK, EnrollEnd, NotEnrolling, history
<1>16. /\ HistoryTypeOK' /\ CondemnedOK' /\ StaleOnlyIfRaced'
  BY <1>1, <1>2, Frames DEF HistoryTypeOK, EnrollEnd, NotEnrolling, history
<1> QED BY <1>3, <1>4, <1>5, <1>6, <1>7, <1>8, <1>9, <1>10, <1>11, <1>12, <1>13, <1>14, <1>15, <1>16

LEMMA ClearStartKeeps ==
  ASSUME LinkInv, ClearStart
  PROVE  LinkInv'
<1> USE LinkAssumption DEF LinkInv, TypeOK, Devs, Conns, Spent
<1>1. UNCHANGED Wire
  BY DEF Wire, ClearStart, gateway, agent, seen
<1>2. AgentTypeOK'
  BY <1>1 DEF AgentTypeOK, PendingTypeOK, AgentState, ClearStart, Mishap, Disturb, gateway, agent, seen
<1>3. HistoryTypeOK'
  BY <1>1 DEF HistoryTypeOK, GatewayTypeOK, ClearStart, Mishap, Disturb, gateway, agent, seen
<1>4. DevicesOK'
  BY <1>1 DEF GatewayTypeOK, DevicesOK, Enrolled, Used, ClearStart, Mishap, Disturb, gateway, agent, seen
<1>5. /\ GatewayTypeOK' /\ PendingTypeOK' /\ UnopenedOK' /\ SlotsOK'
      /\ OpenIsRegistered' /\ SocketOK' /\ AcceptedOK' /\ WaitsOK' /\ CondemnedOK'
      /\ ClosesOK' /\ GivesUpOnlyForCause' /\ RacedOK' /\ StaleOnlyIfRaced'
  BY <1>1, Frames DEF GatewayTypeOK, PendingTypeOK, ClearStart, Mishap, Disturb, gateway, agent, seen
<1> QED BY <1>2, <1>3, <1>4, <1>5

LEMMA ClearEndKeeps ==
  ASSUME LinkInv, ClearEnd
  PROVE  LinkInv'
<1> USE LinkAssumption DEF LinkInv, TypeOK, Devs, Conns, Spent
<1>1. /\ toDevice' = <<>> /\ toDevice' \in Seq(ServerMessage) /\ Wire' = {}
      /\ hello' \in [Conns -> HelloStage]
      /\ \A j \in Conns : hello'[j] # hello[j] => hello[j] = "waiting" /\ hello'[j] = "lost"
      /\ UNCHANGED <<cutting, registered, readable, attached, dev, condemned>>
  BY Abandoned DEF ClearEnd, AgentTypeOK
<1>2. GatewayTypeOK'
  BY <1>1 DEF GatewayTypeOK, HelloStage, Lifecycle, ClearEnd, history
<1>3. AgentTypeOK'
  <2>1. 0 \in 0..MaxUses /\ 0 \in 0..MaxConn
    OBVIOUS
  <2>2. state' \in AgentState
    BY DEF ClearEnd, AgentState
  <2> QED BY <2>1, <2>2 DEF ClearEnd, AgentTypeOK
<1>4. PendingTypeOK'
  BY <1>1 DEF PendingTypeOK, AgentTypeOK, GatewayTypeOK, ClearEnd, history
<1>5. DevicesOK'
  BY <1>1 DEF GatewayTypeOK, DevicesOK, Enrolled, Used, ClearEnd, history
<1>6. UnopenedOK'
  BY <1>1 DEF GatewayTypeOK, UnopenedOK, ClearEnd, history
<1>7. SlotsOK'
  BY <1>1, SMTT(40) DEF GatewayTypeOK, SlotsOK, ClearEnd, history
<1>8. OpenIsRegistered'
  BY <1>1, SMTT(40) DEF GatewayTypeOK, OpenIsRegistered, ClearEnd, history
<1>9. SocketOK'
  BY <1>1, SMTT(40) DEF GatewayTypeOK, AgentTypeOK, SocketOK, ClearEnd, history
<1>10. AcceptedOK'
  BY <1>1, SMTT(40) DEF GatewayTypeOK, AgentTypeOK, SocketOK, AcceptedOK, ClearEnd, history
<1>11. WaitsOK'
  BY <1>1 DEF AgentTypeOK, SocketOK, WaitsOK, NeverStranded, ClearEnd, history
<1>12. ClosesOK'
  BY <1>1, SMTT(40) DEF GatewayTypeOK, AgentTypeOK, SocketOK, ClosesOK, Refuses, ClearEnd, history
<1>13. GivesUpOnlyForCause'
  BY <1>1 DEF AgentTypeOK, SocketOK, WaitsOK, NeverStranded, GivesUpOnlyForCause, ClearEnd, history
<1>14. RacedOK'
  BY <1>1 DEF GatewayTypeOK, RacedOK, ClearEnd, history
<1>15. /\ HistoryTypeOK' /\ CondemnedOK' /\ StaleOnlyIfRaced'
  BY <1>1, Frames DEF HistoryTypeOK, ClearEnd, history
<1> QED BY <1>2, <1>3, <1>4, <1>5, <1>6, <1>7, <1>8, <1>9, <1>10, <1>11, <1>12, <1>13, <1>14, <1>15

LEMMA AppStopsKeeps ==
  ASSUME LinkInv, AppStops
  PROVE  LinkInv'
<1> USE LinkAssumption DEF LinkInv, TypeOK, Devs, Conns, Spent
<1>1. /\ toDevice' = <<>> /\ toDevice' \in Seq(ServerMessage) /\ Wire' = {}
      /\ hello' \in [Conns -> HelloStage]
      /\ \A j \in Conns : hello'[j] # hello[j] => hello[j] = "waiting" /\ hello'[j] = "lost"
      /\ UNCHANGED <<cutting, registered, readable, attached, dev, condemned>>
  BY Abandoned DEF AppStops, AgentTypeOK
<1>2. GatewayTypeOK'
  BY <1>1 DEF GatewayTypeOK, HelloStage, Lifecycle, AppStops, Mishap, Disturb, NotEnrolling, seen
<1>3. AgentTypeOK'
  <2>1. 0 \in 0..MaxUses /\ 0 \in 0..MaxConn
    OBVIOUS
  <2>2. state' \in AgentState
    BY DEF AppStops, AgentState
  <2> QED BY <2>1, <2>2 DEF AppStops, AgentTypeOK
<1>4. PendingTypeOK'
  BY <1>1 DEF PendingTypeOK, AgentTypeOK, GatewayTypeOK, AppStops, Mishap, Disturb, NotEnrolling, seen
<1>5. HistoryTypeOK'
  BY <1>1 DEF HistoryTypeOK, GatewayTypeOK, AppStops, Mishap, Disturb, NotEnrolling, seen
<1>6. DevicesOK'
  BY <1>1 DEF GatewayTypeOK, DevicesOK, Enrolled, Used, AppStops, Mishap, Disturb, NotEnrolling, seen
<1>7. UnopenedOK'
  BY <1>1 DEF GatewayTypeOK, UnopenedOK, AppStops, Mishap, Disturb, NotEnrolling, seen
<1>8. SlotsOK'
  BY <1>1, SMTT(40) DEF GatewayTypeOK, SlotsOK, AppStops, Mishap, Disturb, NotEnrolling, seen
<1>9. OpenIsRegistered'
  BY <1>1, SMTT(40) DEF GatewayTypeOK, OpenIsRegistered, AppStops, Mishap, Disturb, NotEnrolling, seen
<1>10. SocketOK'
  BY <1>1, SMTT(40) DEF GatewayTypeOK, AgentTypeOK, SocketOK, AppStops, Mishap, Disturb, NotEnrolling, seen
<1>11. AcceptedOK'
  BY <1>1, SMTT(40) DEF GatewayTypeOK, AgentTypeOK, SocketOK, AcceptedOK, AppStops, Mishap, Disturb, NotEnrolling, seen
<1>12. WaitsOK'
  BY <1>1 DEF AgentTypeOK, SocketOK, WaitsOK, NeverStranded, AppStops, Mishap, Disturb, NotEnrolling, seen
<1>13. ClosesOK'
  BY <1>1, SMTT(40) DEF GatewayTypeOK, AgentTypeOK, SocketOK, ClosesOK, Refuses, AppStops, Mishap, Disturb, NotEnrolling, seen
<1>14. GivesUpOnlyForCause'
  BY <1>1 DEF AgentTypeOK, SocketOK, WaitsOK, NeverStranded, GivesUpOnlyForCause, AppStops, Mishap, Disturb, NotEnrolling, seen
<1>15. RacedOK'
  BY <1>1 DEF GatewayTypeOK, RacedOK, AppStops, Mishap, Disturb, NotEnrolling, seen
<1>16. /\ CondemnedOK' /\ StaleOnlyIfRaced'
  BY <1>1, Frames DEF AppStops, Mishap, Disturb, NotEnrolling, seen
<1> QED BY <1>2, <1>3, <1>4, <1>5, <1>6, <1>7, <1>8, <1>9, <1>10, <1>11, <1>12, <1>13, <1>14, <1>15, <1>16

-----------------------------------------------------------------------------
(* The theorems.                                                             *)

\* Every step keeps the invariant.
LEMMA NextKeepsLink ==
  ASSUME LinkInv, [Next]_vars
  PROVE  LinkInv'
<1>1. ASSUME NEW k \in Conns, HelloStep(k)
      PROVE  LinkInv'
  BY <1>1, AuthenticateKeeps, AdmitKeeps, RegisterKeeps DEF HelloStep
<1>2. ASSUME NEW k \in Conns,
             HelloFails(k) \/ MessageFails(k) \/ HelloTimeout(k) \/ CloseCondemned(k) \/ Disconnect(k)
      PROVE  LinkInv'
  BY <1>2, HelloFailsKeeps, MessageFailsKeeps, HelloTimeoutKeeps, CloseCondemnedKeeps,
     DisconnectKeeps
<1>3. ASSUME NEW d \in Devs, Admin(d)
      PROVE  LinkInv'
  BY <1>3, RevokeKeeps, RotateCredentialKeeps, CutKeeps, RemoveKeeps DEF Admin
<1>4. CASE Open \/ OpenFails \/ Break \/ HandshakeTimeout \/ CloseEchoed \/ Receive \/ TimerFires
  BY <1>4, OpenKeeps, OpenFailsKeeps, BreakKeeps, HandshakeTimeoutKeeps, CloseEchoedKeeps,
     ReceiveAcceptedKeeps, ReceiveErrorKeeps, ReceiveCloseKeeps, TimerFiresKeeps DEF Receive
<1>5. CASE Start \/ AppStops \/ Enrolment
  BY <1>5, StartKeeps, AppStopsKeeps, EnrollKeeps, EnrollFailsKeeps, EnrollSaveKeeps,
     EnrollEndKeeps, ClearStartKeeps, ClearEndKeeps DEF Enrolment
<1>6. CASE UNCHANGED vars
  <2>1. (TypeOK /\ SocketOK)'
    BY <1>6 DEF LinkInv, vars, TypeOK, GatewayTypeOK, AgentTypeOK, PendingTypeOK, HistoryTypeOK,
       SocketOK
  <2> QED BY <1>6, <2>1, Frames DEF LinkInv, vars
<1> QED BY <1>1, <1>2, <1>3, <1>4, <1>5, <1>6 DEF Next

\* It holds in the initial states.
LEMMA InitLink == Init => LinkInv
<1> SUFFICES ASSUME Init PROVE LinkInv
  OBVIOUS
<1> USE LinkAssumption
<1>1. TypeOK
  <2>1. 1 \in Devs /\ 0 \in 0..MaxUses /\ 0 \in 0..MaxConn /\ 0 \in 0..MaxDisturbances
    BY DEF Devs
  <2>2. GatewayTypeOK
    BY <2>1 DEF Init, GatewayTypeOK, Lifecycle, HelloStage
  <2>3. AgentTypeOK
    BY <2>1 DEF Init, AgentTypeOK, AgentState
  <2>4. PendingTypeOK /\ HistoryTypeOK
    <3>1. toDevice \in Seq(ServerMessage)
      BY DEF Init
    <3>2. enrolling \in [step : {"no", "answered", "saved"}, dev : 0..MaxUses]
      BY <2>1 DEF Init, NotEnrolling
    <3> QED BY <2>1, <3>1, <3>2 DEF Init, PendingTypeOK, HistoryTypeOK
  <2> QED BY <2>2, <2>3, <2>4 DEF TypeOK
<1>2. DevicesOK
  <2>1. Enrolled = {}
    BY DEF Init, Enrolled
  <2>2. Used = 0
    <3>1. Used = Cardinality({})
      BY <2>1 DEF Used, Enrolled
    <3> QED BY <3>1, FS_EmptySet
  <2>3. 1..0 = {}
    OBVIOUS
  <2> QED BY <2>1, <2>2, <2>3 DEF Init, NotEnrolling, DevicesOK
<1>3. Wire = {}
  BY DEF Init, Wire
<1>4. UnopenedOK /\ SlotsOK /\ OpenIsRegistered /\ RacedOK /\ StaleOnlyIfRaced
  BY DEF Init, UnopenedOK, SlotsOK, OpenIsRegistered, RacedOK, StaleOnlyIfRaced
<1>5. SocketOK
  BY DEF Init, SocketOK
<1>6. AcceptedOK /\ WaitsOK /\ CondemnedOK /\ ClosesOK /\ GivesUpOnlyForCause
  BY <1>3 DEF Init, AcceptedOK, WaitsOK, NeverStranded, CondemnedOK, ClosesOK, GivesUpOnlyForCause
<1> QED BY <1>1, <1>2, <1>4, <1>5, <1>6 DEF LinkInv

\* An agent that is online on an open connection was accepted there, so that
\* this connection is the registered one.
LEMMA OnlineIsRegistered == LinkInv => OnlineIsReachable
<1> SUFFICES ASSUME LinkInv, state = "online", sock \in readable
             PROVE  registered[reg] = sock
  BY DEF OnlineIsReachable
<1>1. sock \in Conns /\ sock # 0
  BY DEF LinkInv, TypeOK, GatewayTypeOK, Conns
<1>2. hello[sock] = "accepted"
  BY <1>1 DEF LinkInv, AcceptedOK
<1>3. dev[sock] = reg
  BY <1>1, <1>2 DEF LinkInv, SocketOK, TypeOK, AgentTypeOK
<1> QED BY <1>1, <1>2, <1>3 DEF LinkInv, OpenIsRegistered

\* The gateway and the agent keep the invariant for any number of enrolments,
\* connections and disturbances.
THEOREM LinkInvariant == Spec => []LinkInv
<1>1. Init => LinkInv
  BY InitLink
<1>2. LinkInv /\ [Next]_vars => LinkInv'
  BY NextKeepsLink
<1> QED BY <1>1, <1>2, PTL DEF Spec

\* Every variable of the gateway, of the agent and of the wire keeps its type.
THEOREM LinkTypes == Spec => []TypeOK
<1>1. LinkInv => TypeOK
  BY DEF LinkInv
<1> QED BY <1>1, LinkInvariant, PTL

\* What an agent shows is so: online is where the server sends the commands of
\* the device, waiting is waiting for something, giving up has a cause, and
\* so has a connection that outlives the revocation of its device.
THEOREM LinkStaysHonest == Spec => []LinkIsHonest
<1>1. LinkInv => LinkIsHonest
  BY OnlineIsRegistered DEF LinkInv, WaitsOK, LinkIsHonest
<1> QED BY <1>1, LinkInvariant, PTL


-----------------------------------------------------------------------------
(* The tree of partition nodes.                                             *)

\* A set of numbers that is not empty has a least one.
LEMMA LeastExists ==
  ASSUME NEW S \in SUBSET Nat, S # {}
  PROVE  \E a \in S : \A b \in S : a <= b
<1> DEFINE R == OpToRel(<, Nat)
<1>1. IsWellFoundedOn(R, Nat)
  BY NatLessThanWellFounded
<1>2. \A x, y \in Nat : x < y => <<x, y>> \in R
  BY DEF OpToRel
<1> HIDE DEF R
<1>3. PICK a \in S : \A b \in S : ~(<<b, a>> \in R)
  BY <1>1, WFMin
<1>4. \A b \in S : a <= b
  <2> SUFFICES ASSUME NEW b \in S PROVE a <= b
    OBVIOUS
  <2>1. a \in Nat /\ b \in Nat /\ ~(<<b, a>> \in R)
    BY <1>3
  <2>2. ~(b < a)
    BY <1>2, <2>1
  <2> QED BY <2>1, <2>2
<1> QED BY <1>4

\* Nearest chooses it.
LEMMA NearestIsLeast ==
  ASSUME NEW S \in SUBSET Nat, S # {}
  PROVE  Nearest(S) \in S /\ \A b \in S : Nearest(S) <= b
BY LeastExists DEF Nearest

\* Of two numbers it is the smaller one.
LEMMA NearestOfTwo ==
  ASSUME NEW a \in Nat, NEW b \in Nat
  PROVE  Nearest({a, b}) = IF a <= b THEN a ELSE b
<1> DEFINE S == {a, b}
<1>1. S \in SUBSET Nat /\ S # {}
  OBVIOUS
<1> HIDE DEF S
<1>2. Nearest(S) \in S /\ \A c \in S : Nearest(S) <= c
  BY <1>1, NearestIsLeast
<1> USE DEF S
<1>3. Nearest(S) \in {a, b} /\ Nearest(S) <= a /\ Nearest(S) <= b
  BY <1>2
<1> HIDE DEF S
<1>4. Nearest(S) = IF a <= b THEN a ELSE b
  BY <1>3
<1> QED BY <1>4 DEF S

\* A tree: whatever has a parent is on a higher level than that.
Leveled(tree, level) ==
  /\ tree \in [Nodes -> Nodes \union {Root, Gone}] /\ level \in [Nodes -> Nat]
  /\ \A m \in Nodes : tree[m] \in Nodes => level[tree[m]] < level[m]

\* Depth, of a tree that is given
IsDepth(f, tree, above) ==
  f = [m \in Nodes |-> IF m = above THEN 0
                       ELSE IF tree[m] \notin Nodes THEN Far
                       ELSE Nearest({Far, f[tree[m]] + 1})]
DepthFrom(tree, above) == CHOOSE f : IsDepth(f, tree, above)

\* Far is more than any depth there can be.
LEMMA FarIsNumber == Far \in Nat /\ Far > 0 /\ Far = Cardinality(Nodes) + 1
BY PolicyAssumption, FS_CardinalityType DEF Far

\* The ways from m up to a node, by their length
Climbs(tree, above, m) ==
  {k \in 0..(Far - 1) : \E way \in [0..k -> Nodes] :
      /\ way[0] = m /\ way[k] = above
      /\ \A i \in 0..(k - 1) : way[i] # above /\ way[i + 1] = tree[way[i]]}

\* From a node that is not the one above, the ways begin with its parent.
LEMMA ClimbOn ==
  ASSUME NEW tree, NEW above, NEW m \in Nodes, m # above
  PROVE  /\ tree[m] \notin Nodes => Climbs(tree, above, m) = {}
         /\ tree[m] \in Nodes =>
              \A k \in Nat : k \in Climbs(tree, above, m)
                 <=> k >= 1 /\ k < Far /\ k - 1 \in Climbs(tree, above, tree[m])
<1> USE FarIsNumber
<1>1. ASSUME NEW k \in Climbs(tree, above, m)
      PROVE  tree[m] \in Nodes /\ k >= 1 /\ k - 1 \in Climbs(tree, above, tree[m])
  <2>1. k \in 0..(Far - 1)
    BY DEF Climbs
  <2>2. PICK way \in [0..k -> Nodes] :
          /\ way[0] = m /\ way[k] = above
          /\ \A i \in 0..(k - 1) : way[i] # above /\ way[i + 1] = tree[way[i]]
    BY DEF Climbs
  <2>3. k >= 1
    BY <2>1, <2>2
  <2>4. tree[m] = way[1] /\ way[1] \in Nodes
    BY <2>1, <2>2, <2>3
  <2> DEFINE on == [i \in 0..(k - 1) |-> way[i + 1]]
  <2>5. on \in [0..(k - 1) -> Nodes]
    BY <2>1, <2>2, <2>3
  <2>6. on[0] = tree[m] /\ on[k - 1] = above
    BY <2>1, <2>2, <2>3, <2>4
  <2>7. \A i \in 0..((k - 1) - 1) : on[i] # above /\ on[i + 1] = tree[on[i]]
    <3> SUFFICES ASSUME NEW i \in 0..((k - 1) - 1) PROVE on[i] # above /\ on[i + 1] = tree[on[i]]
      OBVIOUS
    <3>1. on[i] = way[i + 1] /\ on[i + 1] = way[(i + 1) + 1] /\ i + 1 \in 0..(k - 1)
      BY <2>1, <2>3
    <3> QED BY <2>2, <3>1
  <2> HIDE DEF on
  <2>8. k - 1 \in 0..(Far - 1)
    BY <2>1, <2>3
  <2>9. k - 1 \in Climbs(tree, above, tree[m])
    BY <2>5, <2>6, <2>7, <2>8 DEF Climbs
  <2> QED BY <2>3, <2>4, <2>9
<1>2. ASSUME tree[m] \in Nodes, NEW k \in Nat, k >= 1, k < Far, k - 1 \in Climbs(tree, above, tree[m])
      PROVE  k \in Climbs(tree, above, m)
  <2>1. PICK on \in [0..(k - 1) -> Nodes] :
          /\ on[0] = tree[m] /\ on[k - 1] = above
          /\ \A i \in 0..((k - 1) - 1) : on[i] # above /\ on[i + 1] = tree[on[i]]
    BY <1>2 DEF Climbs
  <2> DEFINE way == [i \in 0..k |-> IF i = 0 THEN m ELSE on[i - 1]]
  <2>2. way \in [0..k -> Nodes] /\ way[0] = m /\ way[k] = above
    BY <1>2, <2>1
  <2>3. \A i \in 0..(k - 1) : way[i] # above /\ way[i + 1] = tree[way[i]]
    <3> SUFFICES ASSUME NEW i \in 0..(k - 1) PROVE way[i] # above /\ way[i + 1] = tree[way[i]]
      OBVIOUS
    <3>1. CASE i = 0
      BY <1>2, <2>1, <3>1
    <3>2. CASE i # 0
      <4>1. i - 1 \in 0..((k - 1) - 1) /\ way[i] = on[i - 1] /\ way[i + 1] = on[(i - 1) + 1]
        BY <1>2, <3>2
      <4> QED BY <2>1, <4>1
    <3> QED BY <3>1, <3>2
  <2> HIDE DEF way
  <2>4. k \in 0..(Far - 1)
    BY <1>2
  <2> QED BY <2>2, <2>3, <2>4 DEF Climbs
<1>3. Climbs(tree, above, m) \subseteq 0..(Far - 1)
  BY DEF Climbs
<1>4. \A k \in Climbs(tree, above, m) :
         tree[m] \in Nodes /\ k >= 1 /\ k < Far /\ k - 1 \in Climbs(tree, above, tree[m])
  BY <1>1, <1>3
<1> QED BY <1>2, <1>4

\* The depth of every node is the length of the shortest way.
LEMMA DepthExists ==
  ASSUME NEW tree, NEW above
  PROVE  IsDepth(DepthFrom(tree, above), tree, above)
<1> DEFINE S(m) == {Far} \union Climbs(tree, above, m)
           f == [m \in Nodes |-> Nearest(S(m))]
<1> USE FarIsNumber
<1>1. ASSUME NEW m \in Nodes
      PROVE  /\ S(m) \in SUBSET Nat /\ Climbs(tree, above, m) \subseteq 0..(Far - 1)
             /\ f[m] \in S(m) /\ \A b \in S(m) : f[m] <= b
  <2>1. Climbs(tree, above, m) \subseteq 0..(Far - 1)
    BY DEF Climbs
  <2>2. S(m) \in SUBSET Nat /\ S(m) # {}
    BY <2>1
  <2>3. f[m] = Nearest(S(m))
    OBVIOUS
  <2> HIDE DEF S, f
  <2> QED BY <2>1, <2>2, <2>3, NearestIsLeast
<1>2. ASSUME NEW m \in Nodes
      PROVE  f[m] = IF m = above THEN 0
                    ELSE IF tree[m] \notin Nodes THEN Far
                    ELSE Nearest({Far, f[tree[m]] + 1})
  <2>1. S(m) \in SUBSET Nat /\ Climbs(tree, above, m) \subseteq 0..(Far - 1)
        /\ f[m] \in S(m) /\ \A b \in S(m) : f[m] <= b
    BY <1>1
  <2>2. CASE m = above
    <3> DEFINE way == [i \in 0..0 |-> m]
    <3>1. way \in [0..0 -> Nodes] /\ way[0] = m /\ way[0] = above
      BY <2>2
    <3>2. \A i \in 0..(0 - 1) : way[i] # above /\ way[i + 1] = tree[way[i]]
      OBVIOUS
    <3> HIDE DEF way
    <3>3. 0 \in 0..(Far - 1)
      OBVIOUS
    <3>4. 0 \in Climbs(tree, above, m)
      BY <3>1, <3>2, <3>3 DEF Climbs
    <3> HIDE DEF f
    <3>5. f[m] <= 0 /\ f[m] \in Nat
      BY <2>1, <3>4
    <3> QED BY <2>2, <3>5
  <2>3. CASE m # above /\ tree[m] \notin Nodes
    <3>1. Climbs(tree, above, m) = {}
      BY <2>3, ClimbOn
    <3> QED BY <2>1, <2>3, <3>1
  <2>4. CASE m # above /\ tree[m] \in Nodes
    <3> DEFINE n == tree[m]
    <3>1. S(n) \in SUBSET Nat /\ Climbs(tree, above, n) \subseteq 0..(Far - 1)
          /\ f[n] \in S(n) /\ \A b \in S(n) : f[n] <= b
      BY <1>1, <2>4
    <3>2. \A k \in Nat : k \in Climbs(tree, above, m)
             <=> k >= 1 /\ k < Far /\ k - 1 \in Climbs(tree, above, n)
      BY <2>4, ClimbOn
    <3> HIDE DEF f
    <3>3. f[n] \in Nat /\ f[m] \in Nat
      BY <2>1, <3>1
    <3>4. Nearest({Far, f[n] + 1}) = IF Far <= f[n] + 1 THEN Far ELSE f[n] + 1
      BY <3>3, NearestOfTwo
    <3> HIDE DEF n
    <3>5. f[m] = IF Far <= f[n] + 1 THEN Far ELSE f[n] + 1
      <4>1. CASE f[n] + 1 < Far
        <5>1. f[n] \in Climbs(tree, above, n)
          BY <3>1, <3>3, <4>1
        <5>2. f[n] + 1 \in Climbs(tree, above, m)
          BY <3>2, <3>3, <4>1, <5>1
        <5>3. f[m] <= f[n] + 1
          BY <2>1, <5>2
        <5>4. f[m] \in Climbs(tree, above, m)
          BY <2>1, <3>3, <4>1, <5>3
        <5>5. f[m] - 1 \in Climbs(tree, above, n)
          BY <3>2, <3>3, <5>4
        <5>6. f[n] <= f[m] - 1
          BY <3>1, <5>5
        <5> QED BY <3>3, <4>1, <5>3, <5>6
      <4>2. CASE ~(f[n] + 1 < Far)
        <5>1. f[m] \notin Climbs(tree, above, m)
          <6> SUFFICES ASSUME f[m] \in Climbs(tree, above, m) PROVE FALSE
            OBVIOUS
          <6>1. f[m] - 1 \in Climbs(tree, above, n) /\ f[m] < Far
            BY <3>2, <3>3
          <6>2. f[n] <= f[m] - 1
            BY <3>1, <6>1
          <6> QED BY <3>3, <4>2, <6>1, <6>2
        <5> QED BY <2>1, <3>3, <4>2, <5>1
      <4> QED BY <4>1, <4>2
    <3> QED BY <2>4, <3>4, <3>5 DEF n
  <2> QED BY <2>2, <2>3, <2>4
<1>3. IsDepth(f, tree, above)
  <2>1. f = [m \in Nodes |-> f[m]]
    OBVIOUS
  <2> HIDE DEF f
  <2> QED BY <1>2, <2>1 DEF IsDepth
<1> HIDE DEF f
<1> QED BY <1>3 DEF DepthFrom

\* In a set of nodes that is not empty one is on the lowest level.
LEMMA LowestExists ==
  ASSUME NEW tree, NEW level, Leveled(tree, level), NEW S \in SUBSET Nodes, S # {}
  PROVE  \E k \in S : \A n \in S : level[k] <= level[n]
<1> DEFINE L == {level[k] : k \in S}
<1>1. L \in SUBSET Nat /\ L # {}
  BY DEF Leveled
<1>2. PICK a \in L : \A b \in L : a <= b
  <2> HIDE DEF L
  <2> QED BY <1>1, LeastExists
<1> QED BY <1>2

\* A depth is 0, or one more than that of the parent if there is one.
LEMMA DepthOf ==
  ASSUME NEW tree, NEW level, Leveled(tree, level), NEW above, NEW m \in Nodes
  PROVE  LET f == DepthFrom(tree, above)
         IN  /\ f[m] \in 0..Far
             /\ m = above => f[m] = 0
             /\ m # above /\ tree[m] \notin Nodes => f[m] = Far
             /\ m # above /\ tree[m] \in Nodes =>
                  /\ f[m] = IF Far <= f[tree[m]] + 1 THEN Far ELSE f[tree[m]] + 1
                  /\ f[tree[m]] \in 0..Far
<1> DEFINE f == DepthFrom(tree, above)
<1>1. f = [n \in Nodes |-> IF n = above THEN 0
                           ELSE IF tree[n] \notin Nodes THEN Far
                           ELSE Nearest({Far, f[tree[n]] + 1})]
  BY DepthExists DEF IsDepth
<1> HIDE DEF f
<1>2. ASSUME NEW n \in Nodes, n # above, tree[n] \in Nodes, f[tree[n]] \in Nat
      PROVE  f[n] = IF Far <= f[tree[n]] + 1 THEN Far ELSE f[tree[n]] + 1
  <2>1. f[n] = Nearest({Far, f[tree[n]] + 1})
    BY <1>1, <1>2
  <2>2. f[tree[n]] + 1 \in Nat /\ Far \in Nat
    BY <1>2, FarIsNumber
  <2> QED BY <2>1, <2>2, NearestOfTwo
<1>3. \A n \in Nodes : f[n] \in 0..Far
  <2> DEFINE Bad == {k \in Nodes : f[k] \notin 0..Far}
  <2> SUFFICES ASSUME Bad # {} PROVE FALSE
    OBVIOUS
  <2>1. Bad \in SUBSET Nodes
    OBVIOUS
  <2>2. PICK k \in Bad : \A n \in Bad : level[k] <= level[n]
    <3> HIDE DEF Bad
    <3> QED BY <2>1, LowestExists
  <2>3. k \in Nodes /\ f[k] \notin 0..Far
    OBVIOUS
  <2>4. k # above /\ tree[k] \in Nodes
    BY <1>1, <2>3, FarIsNumber
  <2>5. level[tree[k]] < level[k] /\ level[tree[k]] \in Nat /\ level[k] \in Nat
    BY <2>3, <2>4 DEF Leveled
  <2>6. tree[k] \notin Bad
    <3> HIDE DEF Bad
    <3> QED BY <2>2, <2>5
  <2>7. f[tree[k]] \in 0..Far
    BY <2>4, <2>6
  <2>8. f[k] = IF Far <= f[tree[k]] + 1 THEN Far ELSE f[tree[k]] + 1
    BY <1>2, <2>3, <2>4, <2>7, FarIsNumber
  <2> QED BY <2>3, <2>7, <2>8, FarIsNumber
<1>4. m = above => f[m] = 0
  BY <1>1
<1>5. m # above /\ tree[m] \notin Nodes => f[m] = Far
  BY <1>1
<1>6. m # above /\ tree[m] \in Nodes =>
        /\ f[m] = IF Far <= f[tree[m]] + 1 THEN Far ELSE f[tree[m]] + 1
        /\ f[tree[m]] \in 0..Far
  BY <1>2, <1>3, FarIsNumber
<1> QED BY <1>3, <1>4, <1>5, <1>6 DEF f

\* What is below a node is on a higher level, and there are at least as many
\* nodes as steps between them.
LEMMA DepthBounded ==
  ASSUME NEW tree, NEW level, Leveled(tree, level), NEW above \in Nodes, NEW m \in Nodes,
         DepthFrom(tree, above)[m] < Far
  PROVE  level[above] <= level[m] /\ DepthFrom(tree, above)[m] + 1 < Far
<1> DEFINE f == DepthFrom(tree, above)
           A(k) == {n \in Nodes : level[n] <= level[k]}
           Fine(k) == f[k] < Far => level[above] <= level[k] /\ f[k] < Cardinality(A(k))
           Bad == {k \in Nodes : ~Fine(k)}
<1>1. \A k \in Nodes : IsFiniteSet(A(k)) /\ Cardinality(A(k)) \in Nat
  <2> SUFFICES ASSUME NEW k \in Nodes PROVE IsFiniteSet(A(k)) /\ Cardinality(A(k)) \in Nat
    OBVIOUS
  <2>1. A(k) \subseteq Nodes /\ IsFiniteSet(Nodes)
    BY PolicyAssumption
  <2> HIDE DEF A
  <2> QED BY <2>1, FS_Subset, FS_CardinalityType
<1>2. \A k \in Nodes : level[k] \in Nat /\ k \in A(k)
  BY DEF Leveled
<1>3. Bad = {}
  <2> SUFFICES ASSUME Bad # {} PROVE FALSE
    OBVIOUS
  <2>1. PICK k \in Bad : \A n \in Bad : level[k] <= level[n]
    <3>1. Bad \in SUBSET Nodes
      OBVIOUS
    <3> HIDE DEF Bad
    <3> QED BY <3>1, LowestExists
  <2>2. k \in Nodes /\ ~Fine(k) /\ f[k] < Far
    OBVIOUS
  <2>3. CASE k = above
    <3>1. f[k] = 0
      BY <2>2, <2>3, DepthOf
    <3>2. Cardinality(A(k)) # 0
      <4>1. IsFiniteSet(A(k)) /\ A(k) # {}
        BY <1>1, <1>2, <2>2
      <4> HIDE DEF A
      <4> QED BY <4>1, FS_EmptySet
    <3>3. level[above] <= level[k]
      BY <1>2, <2>2, <2>3
    <3>4. f[k] < Cardinality(A(k))
      <4>1. Cardinality(A(k)) \in Nat
        BY <1>1, <2>2
      <4> HIDE DEF A, f
      <4> QED BY <3>1, <3>2, <4>1
    <3> QED BY <2>2, <3>3, <3>4
  <2>4. CASE k # above
    <3>1. tree[k] \in Nodes /\ f[tree[k]] \in 0..Far
          /\ f[k] = IF Far <= f[tree[k]] + 1 THEN Far ELSE f[tree[k]] + 1
      <4>1. f[k] # Far
        <5> HIDE DEF f
        <5> QED BY <2>2, FarIsNumber
      <4> HIDE DEF Bad
      <4> QED BY <2>2, <2>4, <4>1, DepthOf DEF f
    <3>2. f[k] = f[tree[k]] + 1 /\ f[tree[k]] < Far
      <4>1. f[k] < Far
        BY <2>2
      <4> HIDE DEF f
      <4> QED BY <3>1, <4>1, FarIsNumber
    <3>3. level[tree[k]] < level[k] /\ level[tree[k]] \in Nat /\ level[k] \in Nat
      BY <2>2, <3>1 DEF Leveled
    <3>4. tree[k] \notin Bad
      <4> HIDE DEF Bad
      <4> QED BY <2>1, <3>3
    <3>5. level[above] <= level[tree[k]] /\ f[tree[k]] < Cardinality(A(tree[k]))
      <4>1. Fine(tree[k])
        BY <3>1, <3>4
      <4> HIDE DEF f, A, Bad
      <4> QED BY <3>2, <4>1
    <3>6. A(tree[k]) \in SUBSET A(k) /\ A(tree[k]) # A(k)
      <4>1. \A n \in Nodes : level[n] <= level[tree[k]] => level[n] <= level[k]
        BY <1>2, <3>3
      <4>2. k \in A(k) /\ k \notin A(tree[k])
        BY <2>2, <3>3
      <4> QED BY <4>1, <4>2
    <3>7. Cardinality(A(tree[k])) \in Nat /\ Cardinality(A(k)) \in Nat
      BY <1>1, <2>2, <3>1
    <3>8. Cardinality(A(tree[k])) < Cardinality(A(k))
      <4>1. IsFiniteSet(A(k))
        BY <1>1, <2>2
      <4> HIDE DEF A
      <4>2. Cardinality(A(tree[k])) <= Cardinality(A(k))
            /\ Cardinality(A(tree[k])) # Cardinality(A(k))
        BY <3>6, <4>1, FS_Subset
      <4> QED BY <3>7, <4>2
    <3>9. level[above] <= level[k] /\ f[k] < Cardinality(A(k))
      <4>1. level[above] \in Nat
        BY <1>2
      <4>2. level[above] <= level[k]
        BY <3>3, <3>5, <4>1
      <4> HIDE DEF f, A, Bad
      <4> QED BY <3>1, <3>2, <3>5, <3>7, <3>8, <4>2
    <3> QED BY <2>2, <3>9
  <2> QED BY <2>3, <2>4
<1>4. level[above] <= level[m] /\ f[m] < Cardinality(A(m))
  <2>1. Fine(m)
    BY <1>3
  <2> QED BY <2>1
<1>5. Cardinality(A(m)) <= Cardinality(Nodes)
  <2>1. A(m) \in SUBSET Nodes /\ IsFiniteSet(Nodes)
    BY PolicyAssumption
  <2> HIDE DEF A
  <2> QED BY <2>1, FS_Subset
<1>6. f[m] \in Nat
  BY DepthOf, FarIsNumber
<1>7. Cardinality(A(m)) \in Nat /\ Cardinality(Nodes) \in Nat
  BY <1>1, PolicyAssumption, FS_CardinalityType
<1> HIDE DEF A, f, Fine, Bad
<1>8. f[m] + 1 < Far
  BY <1>4, <1>5, <1>6, <1>7, FarIsNumber
<1> QED BY <1>4, <1>8 DEF f

\* Depth is that of the tree there is.
LEMMA DepthIs ==
  ASSUME NEW n, NEW above
  PROVE  Depth(n, above) = DepthFrom(parent, above)[n]
BY Zenon DEF Depth, DepthFrom, IsDepth

\* The tree there is.
Tree ==
  /\ parent \in [Nodes -> Nodes \union {Root, Gone}]
  /\ \A n \in There : parent[n] # Root => parent[n] \in There
  /\ \E level : Leveled(parent, level)

\* Ways, and the shortest of them, of a tree that is given
WaysFrom(tree, from, to) == {DepthFrom(tree, n)[m] + 1 : m \in from, n \in to}
NearestBelow(tree, from, to) == Nearest({Far} \union WaysFrom(tree, from, to))

\* The shortest is a number, and less than Far only if one node is below another.
LEMMA NearestDepth ==
  ASSUME NEW tree, NEW level, Leveled(tree, level),
         NEW from \in SUBSET Nodes, NEW to \in SUBSET Nodes
  PROVE  /\ NearestBelow(tree, from, to) \in 0..Far
         /\ NearestBelow(tree, from, to) < Far =>
              \E m \in from, n \in to : DepthFrom(tree, n)[m] < Far
<1> DEFINE W == WaysFrom(tree, from, to)
           S == {Far} \union W
<1>1. \A m \in from, n \in to : DepthFrom(tree, n)[m] \in 0..Far
  BY DepthOf, Zenon
<1>2. \A k \in W : \E m \in from, n \in to :
                      k = DepthFrom(tree, n)[m] + 1 /\ DepthFrom(tree, n)[m] \in 0..Far
  BY <1>1 DEF WaysFrom
<1> HIDE DEF W
<1>3. W \in SUBSET Nat
  BY <1>2, FarIsNumber
<1>4. S \in SUBSET Nat /\ S # {} /\ Far \in S
  BY <1>3, FarIsNumber
<1>5. \A k \in S : k = Far \/ k \in W
  OBVIOUS
<1>6. NearestBelow(tree, from, to) = Nearest(S)
  BY Zenon DEF NearestBelow, W
<1> HIDE DEF S
<1>7. PICK k : k = Nearest(S)
  OBVIOUS
<1>8. k \in S /\ \A b \in S : k <= b
  BY <1>4, <1>7, NearestIsLeast
<1>9. k \in 0..Far
  BY <1>4, <1>8, FarIsNumber
<1>10. ASSUME k < Far PROVE \E m \in from, n \in to : DepthFrom(tree, n)[m] < Far
  <2>1. k \in W
    BY <1>5, <1>8, <1>9, <1>10, FarIsNumber
  <2>2. PICK m \in from, n \in to :
           k = DepthFrom(tree, n)[m] + 1 /\ DepthFrom(tree, n)[m] \in 0..Far
    BY <1>2, <2>1
  <2>3. PICK a : a = DepthFrom(tree, n)[m]
    OBVIOUS
  <2>4. a < Far
    BY <1>10, <2>2, <2>3, FarIsNumber
  <2> QED BY <2>3, <2>4
<1> QED BY <1>6, <1>7, <1>9, <1>10, Zenon

\* Distance is a number; it is less than Far only for a device that is named or
\* in or below a node that is.
LEMMA DistanceIs ==
  ASSUME Tree, NEW d \in Devices, NEW p \in Policies, member[d] \subseteq There
  PROVE  /\ Distance(d, p) \in 0..Far
         /\ Distance(d, p) < Far =>
              d \in targets[p] \/ \E n \in targets[p] \cap There : member[d] \cap Below(n) # {}
<1>1. PICK level : Leveled(parent, level)
  BY DEF Tree
<1>2. member[d] \in SUBSET Nodes /\ targets[p] \cap There \in SUBSET Nodes
  BY DEF There
<1> DEFINE k == NearestBelow(parent, member[d], targets[p] \cap There)
<1>3. /\ k \in 0..Far
      /\ k < Far => \E m \in member[d], n \in targets[p] \cap There : DepthFrom(parent, n)[m] < Far
  BY <1>1, <1>2, NearestDepth
<1>4. Distance(d, p) = IF d \in targets[p] THEN 0 ELSE k
  <2>1. Ways(d, p) = WaysFrom(parent, member[d], targets[p] \cap There)
    BY DepthIs DEF Ways, WaysFrom
  <2> QED BY <2>1, Zenon DEF Distance, NearestBelow
<1>5. \A m, n : m \in member[d] /\ DepthFrom(parent, n)[m] < Far => m \in Below(n)
  BY DepthIs, Zenon DEF Below
<1> HIDE DEF k
<1>6. k < Far => \E n \in targets[p] \cap There : member[d] \cap Below(n) # {}
  BY <1>3, <1>5, Zenon
<1> QED BY <1>3, <1>4, <1>6, FarIsNumber

\* After a step, that of the tree there is then.
LEMMA DepthIsNext ==
  ASSUME NEW n, NEW above
  PROVE  Depth(n, above)' = DepthFrom(parent', above)[n]
BY Zenon DEF Depth, DepthFrom, IsDepth

\* And after a step.
LEMMA DistanceIsNext ==
  ASSUME Tree', NEW d \in Devices, NEW p \in Policies, member'[d] \subseteq There'
  PROVE  /\ Distance(d, p)' \in 0..Far
         /\ Distance(d, p)' < Far =>
              d \in targets'[p] \/ \E n \in targets'[p] \cap There' : member'[d] \cap Below(n)' # {}
<1>1. PICK level : Leveled(parent', level)
  BY DEF Tree
<1>2. member'[d] \in SUBSET Nodes /\ targets'[p] \cap There' \in SUBSET Nodes
  BY DEF There
<1> DEFINE k == NearestBelow(parent', member'[d], targets'[p] \cap There')
<1>3. /\ k \in 0..Far
      /\ k < Far => \E m \in member'[d], n \in targets'[p] \cap There' : DepthFrom(parent', n)[m] < Far
  BY <1>1, <1>2, NearestDepth
<1>4. Distance(d, p)' = IF d \in targets'[p] THEN 0 ELSE k
  <2>1. Ways(d, p)' = WaysFrom(parent', member'[d], targets'[p] \cap There')
    BY DepthIsNext DEF Ways, WaysFrom
  <2> QED BY <2>1, Zenon DEF Distance, NearestBelow
<1>5. \A m, n : m \in member'[d] /\ DepthFrom(parent', n)[m] < Far => m \in Below(n)'
  BY DepthIsNext, Zenon DEF Below
<1> HIDE DEF k
<1>6. k < Far => \E n \in targets'[p] \cap There' : member'[d] \cap Below(n)' # {}
  BY <1>3, <1>5, Zenon
<1> QED BY <1>3, <1>4, <1>6, FarIsNumber

-----------------------------------------------------------------------------
(* One policy decides.                                                       *)

\* Of finitely many things that are in order one comes first.
LEMMA FirstExists ==
  ASSUME NEW S, IsFiniteSet(S), S # {}, NEW B,
         \A x \in S : <<x, x>> \notin B,
         \A x, y, z \in S : <<x, y>> \in B /\ <<y, z>> \in B => <<x, z>> \in B,
         \A x, y \in S : x = y \/ <<x, y>> \in B \/ <<y, x>> \in B
  PROVE  \E x \in S : {y \in S : ~\E z \in S : <<z, y>> \in B} = {x}
<1> DEFINE Prior(x) == {y \in S : <<y, x>> \in B}
           N == {Cardinality(Prior(x)) : x \in S}
<1>1. \A x \in S : IsFiniteSet(Prior(x)) /\ Cardinality(Prior(x)) \in Nat
  <2> SUFFICES ASSUME NEW x \in S PROVE IsFiniteSet(Prior(x)) /\ Cardinality(Prior(x)) \in Nat
    OBVIOUS
  <2>1. Prior(x) \in SUBSET S
    OBVIOUS
  <2> HIDE DEF Prior
  <2> QED BY <2>1, FS_Subset, FS_CardinalityType
<1>2. PICK k \in N : \A n \in N : k <= n
  <2>1. N \in SUBSET Nat /\ N # {}
    <3> HIDE DEF Prior
    <3> QED BY <1>1
  <2> HIDE DEF N
  <2> QED BY <2>1, LeastExists
<1>3. PICK x \in S : \A y \in S : Cardinality(Prior(x)) <= Cardinality(Prior(y))
  <2> HIDE DEF Prior
  <2> QED BY <1>2
<1>4. \A y \in S : <<y, x>> \notin B
  <2> SUFFICES ASSUME NEW y \in S, <<y, x>> \in B PROVE FALSE
    OBVIOUS
  <2>1. Prior(y) \in SUBSET Prior(x) /\ y \in Prior(x) /\ y \notin Prior(y)
    OBVIOUS
  <2>2. Cardinality(Prior(y)) <= Cardinality(Prior(x))
        /\ Cardinality(Prior(y)) # Cardinality(Prior(x))
    <3>1. IsFiniteSet(Prior(x)) /\ Prior(y) # Prior(x)
      BY <1>1, <2>1
    <3> HIDE DEF Prior
    <3> QED BY <2>1, <3>1, FS_Subset
  <2>3. Cardinality(Prior(x)) \in Nat /\ Cardinality(Prior(y)) \in Nat
    BY <1>1
  <2>4. Cardinality(Prior(x)) <= Cardinality(Prior(y))
    BY <1>3
  <2> HIDE DEF Prior
  <2> QED BY <2>2, <2>3, <2>4
<1>5. {y \in S : ~\E z \in S : <<z, y>> \in B} = {x}
  BY <1>4
<1> QED BY <1>5

\* What the rows are
RowsOK ==
  /\ policy \in [Policies -> RowType \union {Gone}]
  /\ member \in [Devices -> SUBSET There]
  /\ targets \in [Policies -> SUBSET (Devices \union There)]
  /\ \A p \in Policies : policy[p] = Gone => targets[p] = {}

\* Policies that apply are finitely many, and compareEffectivePolicies orders them.
LEMMA OneAlwaysDecides ==
  ASSUME Tree, RowsOK
  PROVE  OneDecides
<1> SUFFICES ASSUME NEW d \in Devices, Applicable(d) # {}
             PROVE  Cardinality(Deciding(d)) = 1
  BY DEF OneDecides
<1> DEFINE S == Applicable(d)
           B == {pair \in S \X S : compareEffectivePolicies(d, pair[1], pair[2])}
<1>1. S \subseteq Policies /\ IsFiniteSet(S)
  <2>1. S \subseteq Policies
    BY DEF Applicable, Defined
  <2> HIDE DEF S
  <2> QED BY <2>1, PolicyAssumption, FS_Subset
<1>2. \A x \in S : /\ Distance(d, x) \in Nat /\ policy[x].priority \in Nat
                   /\ policy[x].updatedAt \in Nat /\ Rank[x] \in Nat
  <2> SUFFICES ASSUME NEW x \in S
               PROVE  /\ Distance(d, x) \in Nat /\ policy[x].priority \in Nat
                      /\ policy[x].updatedAt \in Nat /\ Rank[x] \in Nat
    OBVIOUS
  <2>1. x \in Policies /\ policy[x] # Gone
    BY DEF Applicable, Defined
  <2>2. policy[x] \in RowType
    BY <2>1 DEF RowsOK
  <2>3. Distance(d, x) \in 0..Far
    <3>1. member[d] \subseteq There
      BY DEF RowsOK
    <3> QED BY <2>1, <3>1, DistanceIs, Zenon
  <2>4. Rank[x] \in Nat
    BY <2>1, PolicyAssumption
  <2> QED BY <2>2, <2>3, <2>4, FarIsNumber DEF RowType
<1>3. \A x, y \in S : Rank[x] = Rank[y] => x = y
  BY <1>1, PolicyAssumption
<1> HIDE DEF S
<1>4. \A x, y \in S : <<x, y>> \in B <=> compareEffectivePolicies(d, x, y)
  OBVIOUS
<1> HIDE DEF B
<1>5. \A x \in S : <<x, x>> \notin B
  BY <1>2, <1>4 DEF compareEffectivePolicies
<1>6. \A x, y, z \in S : <<x, y>> \in B /\ <<y, z>> \in B => <<x, z>> \in B
  BY <1>2, <1>4 DEF compareEffectivePolicies
<1>7. \A x, y \in S : x = y \/ <<x, y>> \in B \/ <<y, x>> \in B
  <2> SUFFICES ASSUME NEW x \in S, NEW y \in S, x # y
               PROVE  compareEffectivePolicies(d, x, y) \/ compareEffectivePolicies(d, y, x)
    BY <1>4
  <2>1. Rank[x] # Rank[y]
    BY <1>3
  <2> QED BY <1>2, <2>1 DEF compareEffectivePolicies
<1>8. PICK x \in S : {y \in S : ~\E z \in S : <<z, y>> \in B} = {x}
  <2>1. S # {}
    BY DEF S
  <2> QED BY <1>1, <1>5, <1>6, <1>7, <2>1, FirstExists
<1>9. Deciding(d) = {y \in S : ~\E z \in S : <<z, y>> \in B}
  BY <1>4 DEF Deciding, S
<1> QED BY <1>8, <1>9, FS_Singleton

\* What is effective is a value, or none.
LEMMA EffectiveIsValue ==
  ASSUME RowsOK, NEW d \in Devices
  PROVE  effectiveForDevice(d) \in Values \union {None}
<1>1. CASE Deciding(d) = {}
  BY <1>1 DEF effectiveForDevice
<1>2. CASE Deciding(d) # {}
  <2>1. PICK p : p = CHOOSE q \in Deciding(d) : TRUE
    OBVIOUS
  <2>2. p \in Deciding(d)
    BY <1>2, <2>1
  <2>3. p \in Policies /\ policy[p] # Gone
    BY <2>2 DEF Deciding, Applicable, Defined
  <2>4. policy[p] \in RowType
    BY <2>3 DEF RowsOK
  <2>5. effectiveForDevice(d) = policy[p].value
    BY <1>2, <2>1 DEF effectiveForDevice
  <2> QED BY <2>4, <2>5 DEF RowType
<1> QED BY <1>1, <1>2

-----------------------------------------------------------------------------
(* What a change of the rows concerns.                                       *)

\* As long as the rows and the tree stay, so does what is effective.
LEMMA SameDistance ==
  ASSUME UNCHANGED <<parent, member>>, NEW d, NEW p, targets'[p] = targets[p]
  PROVE  Distance(d, p)' = Distance(d, p)
<1>1. There' = There
  BY DEF There
<1>2. \A m, n : Depth(m, n)' = Depth(m, n)
  BY Zenon DEF Depth
<1>3. Ways(d, p)' = Ways(d, p)
  BY <1>1, <1>2 DEF Ways
<1> QED BY <1>3 DEF Distance

\* With the rows as they are, the same is effective.
LEMMA SameRowsSameEffect ==
  ASSUME UNCHANGED <<parent, member, policy, targets>>, NEW d
  PROVE  effectiveForDevice(d)' = effectiveForDevice(d)
<1>1. \A p : Distance(d, p)' = Distance(d, p)
  BY SameDistance
<1>2. Applicable(d)' = Applicable(d)
  BY <1>1 DEF Applicable, Defined
<1>3. \A p, q : compareEffectivePolicies(d, p, q)' <=> compareEffectivePolicies(d, p, q)
  BY <1>1 DEF compareEffectivePolicies
<1>4. Deciding(d)' = Deciding(d)
  BY <1>2, <1>3 DEF Deciding
<1> QED BY <1>4 DEF effectiveForDevice

\* A policy that does not apply to a device, neither before nor after, changes
\* nothing for it.
LEMMA OnlyApplicableMatter ==
  ASSUME UNCHANGED <<parent, member>>, NEW d \in Devices, NEW p \in Policies,
         \A q \in Policies \ {p} : policy'[q] = policy[q] /\ targets'[q] = targets[q],
         p \notin Applicable(d), p \notin Applicable(d)'
  PROVE  effectiveForDevice(d)' = effectiveForDevice(d)
<1>1. \A q \in Policies \ {p} : Distance(d, q)' = Distance(d, q)
  BY SameDistance
<1>2. Applicable(d)' = Applicable(d)
  <2>1. \A q \in Policies \ {p} : q \in Applicable(d)' <=> q \in Applicable(d)
    BY <1>1 DEF Applicable, Defined
  <2>2. Applicable(d) \subseteq Policies /\ Applicable(d)' \subseteq Policies
    BY DEF Applicable, Defined
  <2> QED BY <2>1, <2>2
<1>3. \A q \in Applicable(d) : q \in Policies \ {p}
  BY DEF Applicable, Defined
<1>4. \A q, r \in Applicable(d) :
         compareEffectivePolicies(d, q, r)' <=> compareEffectivePolicies(d, q, r)
  BY <1>1, <1>3 DEF compareEffectivePolicies
<1>5. Deciding(d)' = Deciding(d)
  BY <1>2, <1>4 DEF Deciding
<1>6. CASE Deciding(d) = {}
  BY <1>5, <1>6 DEF effectiveForDevice
<1>7. CASE Deciding(d) # {}
  <2>1. PICK q : q = CHOOSE r \in Deciding(d) : TRUE
    OBVIOUS
  <2>2. q \in Deciding(d)
    BY <1>7, <2>1
  <2>3. q \in Policies \ {p}
    BY <1>3, <2>2 DEF Deciding
  <2>4. policy'[q] = policy[q]
    BY <2>3
  <2> QED BY <1>5, <1>7, <2>1, <2>4 DEF effectiveForDevice
<1> QED BY <1>6, <1>7

-----------------------------------------------------------------------------
(* The inductive invariant.                                                  *)

\* A request at a step that has read what it will write
Changing == {"update", "targets", "remove"}

\* What a request may carry: a row, targets, or the settings of devices
Answers == UNION {[S -> Values \union {None}] : S \in SUBSET Devices}
FoundValues == Rows \union (SUBSET (Devices \union Nodes)) \union {<<>>} \union Answers
RequestShape ==
  [pc : {"none", "expand", "resolve"} \union Changing, policy : Policies \union {None},
   scope : SUBSET (Devices \union Nodes), todo : SUBSET Devices, found : FoundValues, alone : BOOLEAN]

IsRequest(r) ==
  /\ r \in RequestShape
  /\ r.pc \in Changing => r.policy \in Policies
  /\ r.pc = "update" => r.found \in Rows
  /\ r.pc = "targets" => r.found \subseteq Devices \union Nodes
  /\ r.pc = "resolve" =>
       /\ r.scope \subseteq Devices /\ r.todo \subseteq r.scope
       /\ r.found \in [r.scope \ r.todo -> Values \union {None}]

RequestsOK ==
  /\ requests = [i \in Slots |-> requests[i]]
  /\ \A i \in Slots : IsRequest(requests[i])

\* What a request that has committed will bring to d
Concerned(i) ==
  (requests[i].scope \cap Devices)
    \union {d \in Devices :
              member[d] \cap UNION {Below(n) : n \in requests[i].scope \cap There} # {}}
Reaches(i, d) ==
  \/ requests[i].pc = "expand" /\ d \in Concerned(i)
  \/ requests[i].pc = "resolve" /\ d \in requests[i].scope

\* A request that is alone has no other beside it, and what it has read is so.
Lonely ==
  \A i, j \in Slots :
     i # j /\ requests[i].alone /\ requests[i].pc # "none" => requests[j].pc = "none"
UpToDate(r) ==
  /\ r.pc \in {"targets", "remove"} => r.scope = targets[r.policy]
  /\ r.pc = "resolve" => \A d \in r.scope \ r.todo : r.found[d] = effectiveForDevice(d)
KnowsRight == \A i \in Slots : requests[i].alone => UpToDate(requests[i])

\* A device that is not excused was told what is effective, or a request will
\* come to it.
ToldOrReached ==
  \A d \in Devices \ excused :
     issued[d] = effectiveForDevice(d) \/ \E i \in Slots : Reaches(i, d)

PolicyInv ==
  /\ Tree /\ RowsOK /\ RequestsOK
  /\ issued \in [Devices -> Values \union {None}] /\ excused \subseteq Devices
  /\ Lonely /\ KnowsRight /\ ToldOrReached

-----------------------------------------------------------------------------
(* What a request goes on as.                                                *)

\* A free slot has read nothing that could be wrong.
LEMMA NoRequestIs == IsRequest(NoRequest) /\ NoRequest.pc = "none" /\ UpToDate(NoRequest)
<1>1. <<>> \in FoundValues
  BY Zenon DEF FoundValues
<1>2. NoRequest \in RequestShape
  BY <1>1, Zenon DEF NoRequest, RequestShape
<1>3. NoRequest.pc = "none"
  BY DEF NoRequest
<1> QED BY <1>2, <1>3 DEF IsRequest, Changing, UpToDate

\* One that is no longer alone
LEMMA CrowdedRequest ==
  ASSUME NEW q, IsRequest(q), NEW r, r = [q EXCEPT !.alone = @ /\ q.pc = "none"]
  PROVE  IsRequest(r) /\ r.pc = q.pc /\ r.scope = q.scope /\ (r.alone => r.pc = "none")
<1>1. PICK a : a = (q.alone /\ q.pc = "none")
  OBVIOUS
<1>2. a \in BOOLEAN /\ r = [q EXCEPT !.alone = a] /\ (a => q.pc = "none")
  BY <1>1, Zenon
<1>3. r \in RequestShape
  BY <1>2, Zenon DEF IsRequest, RequestShape
<1>4. /\ r.pc = q.pc /\ r.policy = q.policy /\ r.scope = q.scope /\ r.todo = q.todo
      /\ r.found = q.found /\ r.alone = a
  BY <1>2 DEF IsRequest, RequestShape
<1>5. IsRequest(r)
  BY <1>3, <1>4, Zenon DEF IsRequest
<1> QED BY <1>2, <1>4, <1>5, Zenon

\* One that begins
LEMMA NewRequest ==
  ASSUME NEW q, IsRequest(q), NEW a \in BOOLEAN, NEW r, r = [q EXCEPT !.alone = a]
  PROVE  /\ IsRequest(r) /\ r.pc = q.pc /\ r.scope = q.scope /\ r.alone = a
         /\ UpToDate(q) => UpToDate(r)
<1>1. r \in RequestShape
  BY Zenon DEF IsRequest, RequestShape
<1>2. /\ r.pc = q.pc /\ r.policy = q.policy /\ r.scope = q.scope /\ r.todo = q.todo
      /\ r.found = q.found /\ r.alone = a
  BY DEF IsRequest, RequestShape
<1> QED BY <1>1, <1>2, Zenon DEF IsRequest, UpToDate

\* With the parents as they are, so is what is below a node.
LEMMA BelowStays ==
  ASSUME parent' = parent
  PROVE  There' = There /\ \A n : Below(n)' = Below(n)
<1>1. There' = There
  BY DEF There
<1> QED BY <1>1, Zenon DEF Below, Depth

\* With the partitions as they are, a request reaches whom it reached.
LEMMA ReachesStill ==
  ASSUME UNCHANGED <<parent, member>>, NEW i, NEW d,
         requests'[i].pc = requests[i].pc, requests'[i].scope = requests[i].scope
  PROVE  Reaches(i, d)' <=> Reaches(i, d)
<1>1. Concerned(i)' = Concerned(i)
  BY BelowStays, Zenon DEF Concerned
<1> QED BY <1>1, Zenon DEF Reaches

\* Whom a change of p concerns, its request reaches.
LEMMA ChangeReaches ==
  ASSUME Tree, RowsOK, RowsOK', UNCHANGED <<parent, member>>, NEW d \in Devices, NEW p \in Policies,
         \A q \in Policies \ {p} : policy'[q] = policy[q] /\ targets'[q] = targets[q],
         NEW i \in Slots, requests'[i].pc = "expand",
         targets[p] \subseteq requests'[i].scope, targets'[p] \subseteq requests'[i].scope,
         ~Reaches(i, d)'
  PROVE  effectiveForDevice(d)' = effectiveForDevice(d)
<1>1. There' = There /\ member[d] \subseteq There /\ member' = member
  BY BelowStays DEF RowsOK
<1>2. \A n : Below(n)' = Below(n)
  BY BelowStays
<1>3. d \notin Concerned(i)'
  BY DEF Reaches
<1>4. d \notin requests'[i].scope
      /\ \A n \in requests'[i].scope \cap There : member[d] \cap Below(n) = {}
  <2>1. d \notin requests'[i].scope
    BY <1>3, Zenon DEF Concerned
  <2>2. ASSUME NEW n \in requests'[i].scope \cap There, NEW m \in member[d] \cap Below(n)
        PROVE  FALSE
    <3>1. n \in requests'[i].scope \cap There' /\ m \in Below(n)' /\ m \in member'[d]
      BY <1>1, <1>2
    <3>2. m \in UNION {Below(k)' : k \in requests'[i].scope \cap There'}
      BY <3>1, Zenon
    <3>3. member'[d] \cap UNION {Below(k)' : k \in requests'[i].scope \cap There'} # {}
      BY <3>1, <3>2, Zenon
    <3>4. d \in Concerned(i)'
      BY <3>3, Zenon DEF Concerned
    <3> QED BY <1>3, <3>4
  <2> QED BY <2>1, <2>2
<1>5. ~(Distance(d, p) < Far)
  <2>1. ~(d \in targets[p] \/ \E n \in targets[p] \cap There : member[d] \cap Below(n) # {})
    BY <1>4
  <2> QED BY <1>1, <2>1, DistanceIs, Zenon
<1>6. ~(Distance(d, p)' < Far)
  <2>1. Tree'
    BY <1>1 DEF Tree
  <2>2. Distance(d, p)' < Far =>
          d \in targets'[p] \/ \E n \in targets'[p] \cap There' : member'[d] \cap Below(n)' # {}
    BY <1>1, <2>1, DistanceIsNext, Zenon
  <2> QED BY <1>1, <1>2, <1>4, <2>2
<1>7. p \notin Applicable(d) /\ p \notin Applicable(d)'
  BY <1>5, <1>6 DEF Applicable
<1> QED BY <1>7, OnlyApplicableMatter

\* A change of a partition excuses whoever it concerns.
LEMMA PartitionStep ==
  ASSUME PolicyInv, PartitionChanged, UNCHANGED issued, Tree', RowsOK'
  PROVE  PolicyInv'
<1>1. requests' = [j \in Slots |-> [requests[j] EXCEPT !.alone = @ /\ requests[j].pc = "none"]]
      /\ excused' = excused \union Missed
  BY DEF PartitionChanged
<1>2. \A j \in Slots : IsRequest(requests'[j]) /\ (requests'[j].alone => requests'[j].pc = "none")
  <2> SUFFICES ASSUME NEW j \in Slots
               PROVE  IsRequest(requests'[j]) /\ (requests'[j].alone => requests'[j].pc = "none")
    OBVIOUS
  <2>1. IsRequest(requests[j])
    BY DEF PolicyInv, RequestsOK
  <2>2. requests'[j] = [requests[j] EXCEPT !.alone = @ /\ requests[j].pc = "none"]
    BY <1>1
  <2> QED BY <2>1, <2>2, CrowdedRequest
<1>3. RequestsOK'
  <2>1. requests' = [i \in Slots |-> requests'[i]]
    BY <1>1
  <2> QED BY <1>2, <2>1, Zenon DEF RequestsOK
<1>5. Lonely' /\ KnowsRight'
  BY <1>2 DEF Lonely, KnowsRight, UpToDate
<1>6. excused' \subseteq Devices /\ issued' = issued
  BY <1>1 DEF PolicyInv, Missed
<1>7. ToldOrReached'
  BY <1>1, <1>6 DEF ToldOrReached, Missed
<1> QED BY <1>3, <1>5, <1>6, <1>7 DEF PolicyInv

\* A request that begins has read what is so.
LEMMA BeginStep ==
  ASSUME PolicyInv, NEW i \in Slots, NEW r, IsRequest(r), r.pc # "none", UpToDate(r),
         Begin(i, r), UNCHANGED <<parent, member, policy, targets, issued, excused>>
  PROVE  PolicyInv'
<1>1. requests[i].pc = "none"
      /\ requests' = [j \in Slots |->
           IF j = i THEN [r EXCEPT !.alone = UnderWay = {}]
           ELSE [requests[j] EXCEPT !.alone = @ /\ requests[j].pc = "none"]]
  BY Zenon DEF Begin
<1>2. \A j \in Slots \ {i} :
         /\ IsRequest(requests'[j]) /\ (requests'[j].alone => requests'[j].pc = "none")
         /\ requests'[j].pc = requests[j].pc /\ requests'[j].scope = requests[j].scope
  <2> SUFFICES ASSUME NEW j \in Slots \ {i}
               PROVE  /\ IsRequest(requests'[j]) /\ (requests'[j].alone => requests'[j].pc = "none")
                      /\ requests'[j].pc = requests[j].pc /\ requests'[j].scope = requests[j].scope
    OBVIOUS
  <2>1. IsRequest(requests[j])
    BY DEF PolicyInv, RequestsOK
  <2>2. requests'[j] = [requests[j] EXCEPT !.alone = @ /\ requests[j].pc = "none"]
    BY <1>1
  <2> QED BY <2>1, <2>2, CrowdedRequest
<1>3. PICK yes \in BOOLEAN : yes = (UnderWay = {})
  BY Zenon
<1>4. /\ IsRequest(requests'[i]) /\ requests'[i].pc = r.pc /\ requests'[i].alone = yes
      /\ UpToDate(requests'[i])
  <2>1. requests'[i] = [r EXCEPT !.alone = yes]
    BY <1>1, <1>3, Zenon
  <2> QED BY <2>1, NewRequest
<1>5. RequestsOK'
  <2>1. requests' = [j \in Slots |-> requests'[j]]
    BY <1>1
  <2> QED BY <1>2, <1>4, <2>1, Zenon DEF RequestsOK
<1>7. Lonely'
  <2>1. requests'[i].alone => UnderWay = {}
    BY <1>3, <1>4, Zenon
  <2>2. requests'[i].alone => \A j \in Slots \ {i} : requests'[j].pc = "none"
    BY <1>2, <2>1 DEF UnderWay
  <2> QED BY <1>2, <2>2 DEF Lonely
<1>8. \A d \in Devices : effectiveForDevice(d)' = effectiveForDevice(d)
  BY SameRowsSameEffect
<1>9. KnowsRight'
  <2>1. UpToDate(requests[i])'
    BY <1>4, <1>8 DEF UpToDate, IsRequest
  <2> QED BY <1>2, <2>1 DEF KnowsRight, UpToDate
<1>10. ToldOrReached'
  <2> SUFFICES ASSUME NEW d \in Devices \ excused, ~\E j \in Slots : Reaches(j, d)'
               PROVE  issued[d] = effectiveForDevice(d)
    BY <1>8 DEF ToldOrReached
  <2>1. ASSUME NEW j \in Slots PROVE ~Reaches(j, d)
    <3>1. CASE j = i
      BY <1>1, <3>1 DEF Reaches
    <3>2. CASE j # i
      <4>1. requests'[j].pc = requests[j].pc /\ requests'[j].scope = requests[j].scope
        BY <1>2, <3>2
      <4> QED BY <4>1, ReachesStill, Zenon
    <3> QED BY <3>1, <3>2
  <2> QED BY <2>1 DEF PolicyInv, ToldOrReached
<1>11. Tree' /\ RowsOK'
  <2>1. There' = There
    BY DEF There
  <2> QED BY <2>1 DEF PolicyInv, Tree, RowsOK
<1> QED BY <1>5, <1>7, <1>9, <1>10, <1>11 DEF PolicyInv

\* A request goes on or ends while the rows stay.
LEMMA AdvanceStep ==
  ASSUME PolicyInv, NEW i \in Slots, NEW r, IsRequest(r),
         requests' = [requests EXCEPT ![i] = r],
         r.pc # "none" => requests[i].pc # "none" /\ r.alone = requests[i].alone,
         r.alone => UpToDate(r),
         UNCHANGED <<parent, member, policy, targets>>
  PROVE  /\ Tree' /\ RowsOK' /\ RequestsOK' /\ Lonely' /\ KnowsRight'
         /\ requests'[i] = r /\ \A j \in Slots \ {i} : requests'[j] = requests[j]
         /\ \A d \in Devices : effectiveForDevice(d)' = effectiveForDevice(d)
<1>1. requests'[i] = r /\ \A j \in Slots \ {i} : requests'[j] = requests[j]
  BY DEF PolicyInv, RequestsOK
<1>2. RequestsOK'
  <2>1. requests' = [j \in Slots |-> requests'[j]]
    BY DEF PolicyInv, RequestsOK
  <2> QED BY <1>1, <2>1 DEF PolicyInv, RequestsOK
<1>3. Lonely'
  <2> SUFFICES ASSUME NEW j \in Slots, NEW k \in Slots, j # k, requests'[j].alone,
                      requests'[j].pc # "none"
               PROVE  requests'[k].pc = "none"
    BY DEF Lonely
  <2>1. requests[j].alone /\ requests[j].pc # "none"
    BY <1>1
  <2>2. requests[k].pc = "none"
    BY <2>1 DEF PolicyInv, Lonely
  <2> QED BY <1>1, <2>2
<1>4. \A d \in Devices : effectiveForDevice(d)' = effectiveForDevice(d)
  BY SameRowsSameEffect
<1>5. KnowsRight'
  <2> SUFFICES ASSUME NEW j \in Slots, requests'[j].alone PROVE UpToDate(requests[j])'
    BY DEF KnowsRight
  <2>1. UpToDate(requests'[j]) /\ IsRequest(requests'[j])
    BY <1>1 DEF PolicyInv, KnowsRight, RequestsOK
  <2> QED BY <1>4, <2>1 DEF UpToDate, IsRequest
<1>6. Tree' /\ RowsOK'
  <2>1. There' = There
    BY DEF There
  <2> QED BY <2>1 DEF PolicyInv, Tree, RowsOK
<1> QED BY <1>1, <1>2, <1>3, <1>4, <1>5, <1>6

\* A request gives up: it has reached nobody yet.
LEMMA DropStep ==
  ASSUME PolicyInv, NEW i \in Slots, requests[i].pc \in Changing,
         requests' = [requests EXCEPT ![i] = NoRequest],
         UNCHANGED <<parent, member, policy, targets, issued, excused>>
  PROVE  PolicyInv'
<1>1. /\ Tree' /\ RowsOK' /\ RequestsOK' /\ Lonely' /\ KnowsRight'
      /\ \A j \in Slots \ {i} : requests'[j] = requests[j]
      /\ \A d \in Devices : effectiveForDevice(d)' = effectiveForDevice(d)
  BY NoRequestIs, AdvanceStep
<1>2. ToldOrReached'
  <2> SUFFICES ASSUME NEW d \in Devices \ excused, ~\E j \in Slots : Reaches(j, d)'
               PROVE  issued[d] = effectiveForDevice(d)
    BY <1>1 DEF ToldOrReached
  <2>1. ASSUME NEW j \in Slots PROVE ~Reaches(j, d)
    <3>1. CASE j = i
      BY <3>1 DEF Reaches, Changing
    <3>2. CASE j # i
      BY <1>1, <3>2, ReachesStill
    <3> QED BY <3>1, <3>2
  <2> QED BY <2>1 DEF PolicyInv, ToldOrReached
<1> QED BY <1>1, <1>2 DEF PolicyInv

\* A request that has committed reaches whom its change concerns, or excuses them.
LEMMA CommitStep ==
  ASSUME PolicyInv, NEW i \in Slots, requests[i].pc \in Changing, NEW p \in Policies,
         NEW scope \in SUBSET (Devices \union Nodes), Committed(i, scope), RowsOK',
         \A q \in Policies \ {p} : policy'[q] = policy[q] /\ targets'[q] = targets[q],
         requests[i].alone => targets[p] \subseteq scope /\ targets'[p] \subseteq scope
  PROVE  PolicyInv'
<1>1. /\ UNCHANGED <<parent, member, issued>>
      /\ requests' = [requests EXCEPT ![i] = [@ EXCEPT !.pc = "expand", !.scope = scope]]
      /\ excused' = IF requests[i].alone THEN excused ELSE excused \union Missed
  BY DEF Committed
<1> DEFINE r == requests[i]
<1>2. IsRequest(r)
  BY DEF PolicyInv, RequestsOK
<1>3. requests'[i] = [r EXCEPT !.pc = "expand", !.scope = scope]
  <2>1. i \in DOMAIN requests
    BY DEF PolicyInv, RequestsOK
  <2> QED BY <1>1, <2>1
<1>4. /\ \A j \in Slots \ {i} : requests'[j] = requests[j]
      /\ requests' = [k \in Slots |-> requests'[k]]
  BY <1>1 DEF PolicyInv, RequestsOK
<1> HIDE DEF r
<1>5. /\ requests'[i].pc = "expand" /\ requests'[i].scope = scope /\ requests'[i].alone = r.alone
      /\ requests'[i].found = r.found /\ requests'[i].policy = r.policy
  BY <1>2, <1>3 DEF IsRequest, RequestShape
<1>6. RequestsOK'
  <2>1. IsRequest(requests'[i])
    <3>1. requests'[i] \in RequestShape
      BY <1>2, <1>3, Zenon DEF IsRequest, RequestShape
    <3> QED BY <1>5, <3>1 DEF IsRequest, Changing
  <2>2. \A j \in Slots \ {i} : IsRequest(requests'[j])
    BY <1>4 DEF PolicyInv, RequestsOK
  <2>3. \A j \in Slots : IsRequest(requests'[j])
    BY <2>1, <2>2
  <2> QED BY <1>4, <2>3, Zenon DEF RequestsOK
<1>7. r.pc # "none" /\ r = requests[i]
  BY DEF Changing, r
<1>8. Lonely'
  <2> SUFFICES ASSUME NEW j \in Slots, NEW k \in Slots, j # k, requests'[j].alone,
                      requests'[j].pc # "none"
               PROVE  requests'[k].pc = "none"
    BY DEF Lonely
  <2>1. requests[j].alone /\ requests[j].pc # "none"
    BY <1>4, <1>5, <1>7
  <2>2. requests[k].pc = "none"
    BY <2>1 DEF PolicyInv, Lonely
  <2>3. k # i
    BY <1>7, <2>2
  <2> QED BY <1>4, <2>2, <2>3
<1>9. KnowsRight'
  <2> SUFFICES ASSUME NEW j \in Slots, requests'[j].alone PROVE UpToDate(requests[j])'
    BY DEF KnowsRight
  <2>1. CASE j = i
    BY <1>5, <2>1 DEF UpToDate
  <2>2. CASE j # i
    <3>1. requests[j].pc = "none" /\ requests'[j] = requests[j]
      BY <1>4, <1>7, <2>2 DEF PolicyInv, Lonely
    <3> QED BY <3>1 DEF UpToDate
  <2> QED BY <2>1, <2>2
<1>10. ToldOrReached'
  <2> SUFFICES ASSUME NEW d \in Devices \ excused', ~\E j \in Slots : Reaches(j, d)'
               PROVE  issued[d] = effectiveForDevice(d)'
    BY <1>1 DEF ToldOrReached
  <2>1. CASE ~r.alone
    BY <1>1, <1>7, <2>1 DEF Missed
  <2>2. CASE r.alone
    <3>1. d \in Devices \ excused
      BY <1>1, <1>7, <2>2
    <3>2. ASSUME NEW j \in Slots PROVE ~Reaches(j, d)
      <4>1. CASE j = i
        BY <4>1 DEF Reaches, Changing
      <4>2. CASE j # i
        <5>1. requests[j].pc = "none"
          BY <1>7, <2>2, <4>2 DEF PolicyInv, Lonely
        <5> QED BY <5>1 DEF Reaches
      <4> QED BY <4>1, <4>2
    <3>3. issued[d] = effectiveForDevice(d)
      BY <3>1, <3>2 DEF PolicyInv, ToldOrReached
    <3>4. effectiveForDevice(d)' = effectiveForDevice(d)
      <4>1. Tree /\ RowsOK /\ d \in Devices /\ ~Reaches(i, d)'
        BY <3>1 DEF PolicyInv
      <4>2. targets[p] \subseteq requests'[i].scope /\ targets'[p] \subseteq requests'[i].scope
        BY <1>5, <1>7, <2>2
      <4> QED BY <1>1, <1>5, <4>1, <4>2, ChangeReaches
    <3> QED BY <3>3, <3>4
  <2> QED BY <1>2, <2>1, <2>2 DEF IsRequest
<1>11. Tree'
  <2>1. There' = There /\ parent' = parent
    BY <1>1 DEF There
  <2> QED BY <2>1 DEF PolicyInv, Tree
<1>12. excused' \subseteq Devices /\ issued' = issued
  BY <1>1 DEF PolicyInv, Missed
<1> QED BY <1>6, <1>8, <1>9, <1>10, <1>11, <1>12 DEF PolicyInv

-----------------------------------------------------------------------------
(* The steps.                                                                *)

\* A new node is on the level above its parent's; nothing is below it yet.
LEMMA CreateNodeStep ==
  ASSUME PolicyInv, NEW n \in Nodes, NEW above \in Nodes \union {Root}, createNode(n, above)
  PROVE  PolicyInv'
<1>1. /\ parent[n] = Gone /\ above \in There \union {Root}
      /\ parent' = [parent EXCEPT ![n] = above]
      /\ UNCHANGED <<member, policy, targets, issued>> /\ PartitionChanged
  BY DEF createNode
<1>2. /\ parent \in [Nodes -> Nodes \union {Root, Gone}] /\ Root \notin Nodes /\ Gone \notin Nodes
      /\ Root # Gone
      /\ \A m \in There : parent[m] # Root => parent[m] \in There
  BY PolicyAssumption DEF PolicyInv, Tree
<1>3. There' = There \union {n} /\ n \notin There /\ above # Gone
  BY <1>1, <1>2 DEF There
<1>4. \A m \in Nodes : parent[m] # n
  BY <1>2, <1>3 DEF There
<1>5. PICK level : Leveled(parent, level)
  BY DEF PolicyInv, Tree
<1> DEFINE higher == [level EXCEPT ![n] = IF above \in Nodes THEN level[above] + 1 ELSE 0]
<1>6. Leveled(parent', higher)
  <2>1. /\ level \in [Nodes -> Nat]
        /\ \A m \in Nodes : parent[m] \in Nodes => level[parent[m]] < level[m]
    BY <1>5 DEF Leveled
  <2>2. higher \in [Nodes -> Nat]
    BY <2>1
  <2>3. parent' \in [Nodes -> Nodes \union {Root, Gone}]
    BY <1>1, <1>2
  <2>4. ASSUME NEW m \in Nodes, parent'[m] \in Nodes PROVE higher[parent'[m]] < higher[m]
    <3>1. CASE m = n
      <4>1. parent'[m] = above /\ above \in Nodes /\ above # n
        BY <1>1, <1>2, <1>3, <2>4, <3>1 DEF There
      <4> QED BY <2>1, <3>1, <4>1
    <3>2. CASE m # n
      <4>1. parent'[m] = parent[m] /\ parent[m] \in Nodes /\ parent[m] # n
        BY <1>1, <1>2, <1>4, <2>4, <3>2
      <4> QED BY <2>1, <3>2, <4>1
    <3> QED BY <3>1, <3>2
  <2> HIDE DEF higher
  <2> QED BY <2>2, <2>3, <2>4 DEF Leveled
<1> HIDE DEF higher
<1>7. Tree'
  <2>1. parent' \in [Nodes -> Nodes \union {Root, Gone}]
    BY <1>1, <1>2
  <2>2. ASSUME NEW m \in There', parent'[m] # Root PROVE parent'[m] \in There'
    <3>1. CASE m = n
      BY <1>1, <1>2, <1>3, <2>2, <3>1
    <3>2. CASE m # n
      <4>1. m \in There /\ parent'[m] = parent[m]
        BY <1>1, <1>2, <1>3, <2>2, <3>2 DEF There
      <4> QED BY <1>2, <1>3, <2>2, <4>1
    <3> QED BY <3>1, <3>2
  <2> QED BY <1>6, <2>1, <2>2 DEF Tree
<1>8. RowsOK'
  BY <1>1, <1>3 DEF PolicyInv, RowsOK
<1> QED BY <1>1, <1>7, <1>8, PartitionStep

\* With a node goes all that is below it, and nothing else.
LEMMA RemoveNodeStep ==
  ASSUME PolicyInv, NEW n \in Nodes, removeNode(n)
  PROVE  PolicyInv'
<1>1. /\ n \in There
      /\ parent' = [m \in Nodes |-> IF m \in Below(n) THEN Gone ELSE parent[m]]
      /\ member' = [d \in Devices |-> member[d] \ Below(n)]
      /\ targets' = [p \in Policies |-> targets[p] \ Below(n)]
      /\ UNCHANGED <<policy, issued>> /\ PartitionChanged
  BY DEF removeNode
<1>2. /\ parent \in [Nodes -> Nodes \union {Root, Gone}] /\ Root \notin Nodes /\ Gone \notin Nodes
      /\ Root # Gone
      /\ \A m \in There : parent[m] # Root => parent[m] \in There
  BY PolicyAssumption DEF PolicyInv, Tree
<1>3. There' = There \ Below(n) /\ Below(n) \subseteq Nodes
  BY <1>1, <1>2 DEF There, Below
<1>4. PICK level : Leveled(parent, level)
  BY DEF PolicyInv, Tree
<1>5. ASSUME NEW m \in There, parent[m] \in Below(n) PROVE m \in Below(n)
  <2> DEFINE f == DepthFrom(parent, n)
  <2>1. \A k : Depth(k, n) = f[k]
    BY DepthIs
  <2>2. m \in Nodes /\ parent[m] \in Nodes
    BY <1>3, <1>5 DEF There
  <2>3. f[parent[m]] < Far
    BY <1>5, <2>1 DEF Below
  <2>4. f[parent[m]] + 1 < Far
    BY <1>1, <1>4, <2>2, <2>3, DepthBounded
  <2>5. m = n => f[m] = 0
    BY <1>4, <2>2, DepthOf
  <2>6. m # n => f[m] = IF Far <= f[parent[m]] + 1 THEN Far ELSE f[parent[m]] + 1
    BY <1>4, <2>2, DepthOf, Zenon
  <2>7. f[parent[m]] \in 0..Far
    BY <1>4, <2>2, DepthOf, Zenon
  <2> HIDE DEF f
  <2>8. f[m] < Far
    BY <2>4, <2>5, <2>6, <2>7, FarIsNumber
  <2> QED BY <2>1, <2>8 DEF Below
<1>6. Leveled(parent', level)
  <2>1. parent' \in [Nodes -> Nodes \union {Root, Gone}]
    BY <1>1, <1>2
  <2>2. \A m \in Nodes : parent'[m] \in Nodes => parent'[m] = parent[m]
    BY <1>1, <1>2
  <2> QED BY <1>4, <2>1, <2>2 DEF Leveled
<1>7. Tree'
  <2>1. parent' \in [Nodes -> Nodes \union {Root, Gone}]
    BY <1>1, <1>2
  <2>2. ASSUME NEW m \in There', parent'[m] # Root PROVE parent'[m] \in There'
    <3>1. m \in There /\ m \notin Below(n) /\ parent'[m] = parent[m]
      BY <1>1, <1>3 DEF There
    <3> QED BY <1>2, <1>3, <1>5, <2>2, <3>1
  <2> QED BY <1>6, <2>1, <2>2 DEF Tree
<1>8. RowsOK'
  <2>1. Devices \cap Nodes = {}
    BY PolicyAssumption
  <2>2. member' \in [Devices -> SUBSET There']
    BY <1>1, <1>3 DEF PolicyInv, RowsOK
  <2>3. targets' \in [Policies -> SUBSET (Devices \union There')]
    BY <1>1, <1>3 DEF PolicyInv, RowsOK
  <2>4. policy' \in [Policies -> RowType \union {Gone}]
        /\ \A p \in Policies : policy'[p] = Gone => targets'[p] = {}
    BY <1>1 DEF PolicyInv, RowsOK
  <2> QED BY <2>2, <2>3, <2>4 DEF RowsOK
<1> QED BY <1>1, <1>7, <1>8, PartitionStep

\* A device moves in the tree; the tree stays.
LEMMA SetPartitionsStep ==
  ASSUME PolicyInv, NEW d \in Devices, NEW nodes \in Places, setPartitions(d, nodes)
  PROVE  PolicyInv'
<1>1. /\ nodes \subseteq There /\ member' = [member EXCEPT ![d] = nodes]
      /\ UNCHANGED <<parent, policy, targets, issued>> /\ PartitionChanged
  BY DEF setPartitions
<1>2. There' = There
  BY <1>1 DEF There
<1>3. Tree' /\ RowsOK'
  BY <1>1, <1>2 DEF PolicyInv, Tree, RowsOK
<1> QED BY <1>1, <1>3, PartitionStep

\* A new policy has no targets.
LEMMA CreateStep ==
  ASSUME PolicyInv, NEW p \in Policies, NEW row \in Rows, create(p, row)
  PROVE  PolicyInv'
<1>1. /\ policy[p] = Gone /\ policy' = [policy EXCEPT ![p] = row]
      /\ UNCHANGED <<parent, member, targets, requests, issued, excused>>
  BY DEF create
<1>2. row \in RowType /\ Gone \notin RowType
  BY PolicyAssumption DEF RowType
<1>3. There' = There
  BY <1>1 DEF There
<1>4. targets[p] = {} /\ targets'[p] = {}
  BY <1>1 DEF PolicyInv, RowsOK
<1>5. Tree' /\ RowsOK'
  BY <1>1, <1>2, <1>3, <1>4 DEF PolicyInv, Tree, RowsOK
<1>6. ASSUME NEW d \in Devices PROVE effectiveForDevice(d)' = effectiveForDevice(d)
  <2>1. p \notin Applicable(d)
    BY <1>1 DEF Applicable, Defined
  <2>2. member[d] \subseteq There
    BY DEF PolicyInv, RowsOK
  <2>3. ~(Distance(d, p)' < Far)
    <3>1. member'[d] \subseteq There' /\ Tree'
      BY <1>1, <1>3, <1>5, <2>2
    <3> QED BY <1>4, <3>1, DistanceIsNext
  <2>4. p \notin Applicable(d)'
    BY <2>3 DEF Applicable
  <2>5. \A q \in Policies \ {p} : policy'[q] = policy[q] /\ targets'[q] = targets[q]
    BY <1>1 DEF PolicyInv, RowsOK
  <2> QED BY <1>1, <2>1, <2>4, <2>5, OnlyApplicableMatter
<1>7. RequestsOK' /\ Lonely'
  BY <1>1, Zenon DEF PolicyInv, RequestsOK, Lonely
<1>8. KnowsRight'
  <2> SUFFICES ASSUME NEW i \in Slots, requests'[i].alone PROVE UpToDate(requests[i])'
    BY DEF KnowsRight
  <2>1. UpToDate(requests[i]) /\ IsRequest(requests[i])
    BY <1>1 DEF PolicyInv, KnowsRight, RequestsOK
  <2> QED BY <1>1, <1>6, <2>1 DEF UpToDate, IsRequest
<1>9. ToldOrReached'
  <2> SUFFICES ASSUME NEW d \in Devices \ excused, ~\E j \in Slots : Reaches(j, d)'
               PROVE  issued[d] = effectiveForDevice(d)
    BY <1>1, <1>6 DEF ToldOrReached
  <2>1. \A j \in Slots : ~Reaches(j, d)
    BY <1>1, ReachesStill
  <2> QED BY <2>1 DEF PolicyInv, ToldOrReached
<1> QED BY <1>1, <1>5, <1>7, <1>8, <1>9 DEF PolicyInv

\* A request to update has read nothing yet.
LEMMA UpdateStep ==
  ASSUME PolicyInv, NEW i \in Slots, NEW p \in Policies, NEW row \in Rows, update(i, p, row)
  PROVE  PolicyInv'
<1> DEFINE r == [NoRequest EXCEPT !.pc = "update", !.policy = p, !.found = row]
<1>1. Begin(i, r) /\ UNCHANGED <<parent, member, policy, targets, issued, excused>>
  BY Zenon DEF update
<1>2. r.pc = "update" /\ r.policy = p /\ r.scope = {} /\ r.todo = {} /\ r.found = row
  BY DEF NoRequest
<1>3. r \in RequestShape
  BY NoRequestIs, Zenon DEF IsRequest, RequestShape, Changing, FoundValues
<1> HIDE DEF r
<1>4. IsRequest(r) /\ r.pc # "none" /\ UpToDate(r)
  BY <1>2, <1>3 DEF IsRequest, UpToDate, Changing
<1> QED BY <1>1, <1>4, BeginStep

\* A request to set targets, or to remove, has read the targets there are.
LEMMA ReadTargetsStep ==
  ASSUME PolicyInv, NEW i \in Slots, NEW p \in Policies, NEW change \in {"targets", "remove"},
         NEW new \in SUBSET (Devices \union Nodes), readTargets(i, p, change, new)
  PROVE  PolicyInv'
<1> DEFINE r == [NoRequest EXCEPT !.pc = change, !.policy = p, !.scope = targets[p],
                                  !.found = new]
<1>1. Begin(i, r) /\ UNCHANGED <<parent, member, policy, targets, issued, excused>>
  BY Zenon DEF readTargets
<1>2. r.pc = change /\ r.policy = p /\ r.scope = targets[p] /\ r.todo = {} /\ r.found = new
  BY DEF NoRequest
<1>3. targets[p] \subseteq Devices \union Nodes
  BY DEF PolicyInv, RowsOK, There
<1>4. r \in RequestShape
  BY <1>3, NoRequestIs, Zenon DEF IsRequest, RequestShape, Changing, FoundValues
<1> HIDE DEF r
<1>5. IsRequest(r) /\ r.pc # "none" /\ UpToDate(r)
  BY <1>2, <1>3, <1>4 DEF IsRequest, UpToDate, Changing
<1> QED BY <1>1, <1>5, BeginStep

\* The push after a hello has its device before it.
LEMMA HelloBegins ==
  ASSUME PolicyInv, NEW i \in Slots, NEW d \in Devices, Hello(i, d)
  PROVE  PolicyInv'
<1> DEFINE r == [NoRequest EXCEPT !.pc = "resolve", !.scope = {d}, !.todo = {d}]
<1>1. Begin(i, r) /\ UNCHANGED <<parent, member, policy, targets, issued, excused>>
  BY Zenon DEF Hello
<1>2. r.pc = "resolve" /\ r.scope = {d} /\ r.todo = {d} /\ r.found = <<>>
  BY DEF NoRequest
<1>3. r \in RequestShape
  BY NoRequestIs, Zenon DEF IsRequest, RequestShape, Changing, FoundValues
<1> HIDE DEF r
<1>4. IsRequest(r) /\ r.pc # "none" /\ UpToDate(r)
  BY <1>2, <1>3 DEF IsRequest, UpToDate, Changing
<1> QED BY <1>1, <1>4, BeginStep

\* An update concerns the targets of the policy.
LEMMA UpdateRowStep ==
  ASSUME PolicyInv, NEW i \in Slots, UpdateRow(i)
  PROVE  PolicyInv'
<1>1. PICK p : p = requests[i].policy
  OBVIOUS
<1>2. requests[i].pc = "update" /\ requests[i].pc \in Changing
  BY DEF UpdateRow, Changing
<1>3. p \in Policies /\ requests[i].found \in Rows
  BY <1>1, <1>2 DEF PolicyInv, RequestsOK, IsRequest
<1>4. CASE policy[p] = Gone
  <2>1. /\ requests' = [requests EXCEPT ![i] = NoRequest]
        /\ UNCHANGED <<parent, member, policy, targets, issued, excused>>
    BY <1>1, <1>4, Zenon DEF UpdateRow
  <2> QED BY <1>2, <2>1, DropStep
<1>5. CASE policy[p] # Gone
  <2>1. /\ policy' = [policy EXCEPT ![p] = requests[i].found]
        /\ targets' = targets /\ Committed(i, targets[p])
    BY <1>1, <1>5, Zenon DEF UpdateRow
  <2>2. requests[i].found \in RowType /\ Gone \notin RowType
    BY <1>3, PolicyAssumption DEF RowType
  <2>3. There' = There /\ member' = member
    BY <2>1 DEF Committed, There
  <2>4. RowsOK'
    BY <1>3, <2>1, <2>2, <2>3 DEF PolicyInv, RowsOK
  <2>5. \A q \in Policies \ {p} : policy'[q] = policy[q] /\ targets'[q] = targets[q]
    BY <2>1 DEF PolicyInv, RowsOK
  <2>6. targets[p] \in SUBSET (Devices \union Nodes)
    BY <1>3 DEF PolicyInv, RowsOK, There
  <2> QED BY <1>2, <1>3, <2>1, <2>4, <2>5, <2>6, CommitStep
<1> QED BY <1>4, <1>5

\* New targets concern those there were and those there are.
LEMMA SetTargetsStep ==
  ASSUME PolicyInv, NEW i \in Slots, SetTargets(i)
  PROVE  PolicyInv'
<1>1. PICK p, new : p = requests[i].policy /\ new = requests[i].found
  OBVIOUS
<1>2. requests[i].pc = "targets" /\ requests[i].pc \in Changing
  BY DEF SetTargets, Changing
<1>3. p \in Policies /\ IsRequest(requests[i])
  BY <1>1, <1>2 DEF PolicyInv, RequestsOK, IsRequest
<1>4. CASE policy[p] = Gone \/ ~(new \subseteq Devices \union There)
  <2>1. /\ requests' = [requests EXCEPT ![i] = NoRequest]
        /\ UNCHANGED <<parent, member, policy, targets, issued, excused>>
    BY <1>1, <1>4, Zenon DEF SetTargets
  <2> QED BY <1>2, <2>1, DropStep
<1>5. CASE policy[p] # Gone /\ new \subseteq Devices \union There
  <2>1. /\ targets' = [targets EXCEPT ![p] = new]
        /\ policy' = [policy EXCEPT ![p].updatedAt = 1]
        /\ Committed(i, requests[i].scope \union new)
    BY <1>1, <1>5, Zenon DEF SetTargets
  <2>2. policy[p] \in RowType /\ Gone \notin RowType
    BY <1>3, <1>5, PolicyAssumption DEF PolicyInv, RowsOK
  <2>3. [policy[p] EXCEPT !.updatedAt = 1] \in RowType
    BY <2>2 DEF RowType
  <2>4. policy' = [policy EXCEPT ![p] = [policy[p] EXCEPT !.updatedAt = 1]]
    BY <2>1
  <2>5. There' = There /\ member' = member
    BY <2>1 DEF Committed, There
  <2>6. RowsOK'
    BY <1>3, <1>5, <2>1, <2>2, <2>3, <2>4, <2>5 DEF PolicyInv, RowsOK
  <2>7. \A q \in Policies \ {p} : policy'[q] = policy[q] /\ targets'[q] = targets[q]
    BY <2>1, <2>4 DEF PolicyInv, RowsOK
  <2>8. requests[i].scope \union new \in SUBSET (Devices \union Nodes)
    BY <1>1, <1>2, <1>3 DEF IsRequest, RequestShape
  <2>9. requests[i].alone => targets[p] \subseteq requests[i].scope \union new
    BY <1>1, <1>2 DEF PolicyInv, KnowsRight, UpToDate
  <2>10. targets'[p] = new
    BY <1>3, <2>1 DEF PolicyInv, RowsOK
  <2> QED BY <1>2, <1>3, <2>1, <2>6, <2>7, <2>8, <2>9, <2>10, CommitStep
<1> QED BY <1>4, <1>5

\* The removal of a policy concerns the targets there were.
LEMMA RemovePolicyStep ==
  ASSUME PolicyInv, NEW i \in Slots, RemovePolicy(i)
  PROVE  PolicyInv'
<1>1. PICK p : p = requests[i].policy
  OBVIOUS
<1>2. requests[i].pc = "remove" /\ requests[i].pc \in Changing
  BY DEF RemovePolicy, Changing
<1>3. p \in Policies /\ IsRequest(requests[i])
  BY <1>1, <1>2 DEF PolicyInv, RequestsOK, IsRequest
<1>4. CASE policy[p] = Gone
  <2>1. /\ requests' = [requests EXCEPT ![i] = NoRequest]
        /\ UNCHANGED <<parent, member, policy, targets, issued, excused>>
    BY <1>1, <1>4, Zenon DEF RemovePolicy
  <2> QED BY <1>2, <2>1, DropStep
<1>5. CASE policy[p] # Gone
  <2>1. /\ policy' = [policy EXCEPT ![p] = Gone] /\ targets' = [targets EXCEPT ![p] = {}]
        /\ Committed(i, requests[i].scope)
    BY <1>1, <1>5, Zenon DEF RemovePolicy
  <2>2. There' = There /\ member' = member
    BY <2>1 DEF Committed, There
  <2>3. RowsOK'
    BY <1>3, <2>1, <2>2 DEF PolicyInv, RowsOK
  <2>4. \A q \in Policies \ {p} : policy'[q] = policy[q] /\ targets'[q] = targets[q]
    BY <2>1 DEF PolicyInv, RowsOK
  <2>5. requests[i].scope \in SUBSET (Devices \union Nodes)
    BY <1>3 DEF IsRequest, RequestShape
  <2>6. requests[i].alone => targets[p] \subseteq requests[i].scope
    BY <1>1, <1>2 DEF PolicyInv, KnowsRight, UpToDate
  <2>7. targets'[p] = {}
    BY <1>3, <2>1 DEF PolicyInv, RowsOK
  <2> QED BY <1>2, <1>3, <2>1, <2>3, <2>4, <2>5, <2>6, <2>7, CommitStep
<1> QED BY <1>4, <1>5

\* The devices of a request are those its change concerns.
LEMMA ExpandStep ==
  ASSUME PolicyInv, NEW i \in Slots, Expand(i)
  PROVE  PolicyInv'
<1>1. /\ requests[i].pc = "expand"
      /\ requests' = [requests EXCEPT ![i] =
           [@ EXCEPT !.pc = "resolve", !.scope = Concerned(i), !.todo = Concerned(i), !.found = <<>>]]
      /\ UNCHANGED <<parent, member, policy, targets, issued, excused>>
  BY Zenon DEF Expand, Concerned
<1>2. IsRequest(requests[i]) /\ Concerned(i) \subseteq Devices
  BY DEF PolicyInv, RequestsOK, Concerned
<1> DEFINE r == [requests[i] EXCEPT !.pc = "resolve", !.scope = Concerned(i),
                                    !.todo = Concerned(i), !.found = <<>>]
<1>3. requests' = [requests EXCEPT ![i] = r]
  BY <1>1, Zenon
<1>4. IsRequest(r) /\ UpToDate(r) /\ r.pc = "resolve" /\ r.scope = Concerned(i)
      /\ r.alone = requests[i].alone
  <2>1. r \in RequestShape
    <3>1. Concerned(i) \in SUBSET (Devices \union Nodes) /\ Concerned(i) \in SUBSET Devices
      BY <1>2
    <3>2. <<>> \in FoundValues
      BY Zenon DEF FoundValues
    <3> QED BY <1>2, <3>1, <3>2, Zenon DEF IsRequest, RequestShape
  <2>2. /\ r.pc = "resolve" /\ r.scope = Concerned(i) /\ r.todo = Concerned(i) /\ r.found = <<>>
        /\ r.alone = requests[i].alone
    BY <1>2 DEF IsRequest, RequestShape
  <2> HIDE DEF r
  <2> QED BY <1>2, <2>1, <2>2 DEF IsRequest, UpToDate, Changing
<1> HIDE DEF r
<1>5. /\ Tree' /\ RowsOK' /\ RequestsOK' /\ Lonely' /\ KnowsRight'
      /\ requests'[i] = r /\ \A j \in Slots \ {i} : requests'[j] = requests[j]
      /\ \A d \in Devices : effectiveForDevice(d)' = effectiveForDevice(d)
  BY <1>1, <1>3, <1>4, AdvanceStep
<1>6. ToldOrReached'
  <2> SUFFICES ASSUME NEW d \in Devices \ excused, ~\E j \in Slots : Reaches(j, d)'
               PROVE  issued[d] = effectiveForDevice(d)
    BY <1>1, <1>5 DEF ToldOrReached
  <2>1. ASSUME NEW j \in Slots PROVE ~Reaches(j, d)
    <3>1. CASE j = i
      BY <1>1, <1>4, <1>5, <3>1 DEF Reaches
    <3>2. CASE j # i
      BY <1>1, <1>5, <3>2, ReachesStill
    <3> QED BY <3>1, <3>2
  <2> QED BY <2>1 DEF PolicyInv, ToldOrReached
<1> QED BY <1>1, <1>5, <1>6 DEF PolicyInv

\* One more device of a request is resolved.
LEMMA ResolveStep ==
  ASSUME PolicyInv, NEW i \in Slots, NEW d \in Devices, Resolve(i, d)
  PROVE  PolicyInv'
<1> DEFINE q == requests[i]
           more == [e \in DOMAIN q.found \union {d} |->
                      IF e = d THEN effectiveForDevice(d) ELSE q.found[e]]
           r == [q EXCEPT !.todo = q.todo \ {d}, !.found = more]
<1>1. /\ q.pc = "resolve" /\ d \in q.todo
      /\ requests' = [requests EXCEPT ![i] = r]
      /\ UNCHANGED <<parent, member, policy, targets, issued, excused>>
  BY Zenon DEF Resolve
<1>2. IsRequest(q)
  BY DEF PolicyInv, RequestsOK
<1>3. q.alone => UpToDate(q)
  BY DEF PolicyInv, KnowsRight
<1> HIDE DEF q
<1>4. effectiveForDevice(d) \in Values \union {None}
  BY EffectiveIsValue DEF PolicyInv
<1>5. more \in [q.scope \ (q.todo \ {d}) -> Values \union {None}]
      /\ more[d] = effectiveForDevice(d)
      /\ \A e \in q.scope \ q.todo : more[e] = q.found[e]
  <2>1. q.found \in [q.scope \ q.todo -> Values \union {None}] /\ q.todo \subseteq q.scope
    BY <1>1, <1>2 DEF IsRequest
  <2>2. DOMAIN q.found \union {d} = q.scope \ (q.todo \ {d})
    BY <1>1, <2>1
  <2> QED BY <1>1, <1>4, <2>1, <2>2
<1>6. more \in FoundValues
  <2> DEFINE S == q.scope \ (q.todo \ {d})
  <2>1. S \in SUBSET Devices
    BY <1>1, <1>2 DEF IsRequest
  <2>2. more \in [S -> Values \union {None}]
    BY <1>5
  <2> HIDE DEF S, more
  <2>3. [S -> Values \union {None}] \in {[T -> Values \union {None}] : T \in SUBSET Devices}
    BY <2>1, Zenon
  <2>4. more \in Answers
    BY <2>2, <2>3, Zenon DEF Answers
  <2> QED BY <2>4, Zenon DEF FoundValues
<1> HIDE DEF more
<1>7. /\ r.pc = "resolve" /\ r.scope = q.scope /\ r.todo = q.todo \ {d} /\ r.found = more
      /\ r.alone = q.alone /\ r.policy = q.policy /\ r \in RequestShape
  <2>1. q.todo \ {d} \in SUBSET Devices
    BY <1>2 DEF IsRequest, RequestShape
  <2>2. r \in RequestShape
    BY <1>2, <1>6, <2>1, Zenon DEF IsRequest, RequestShape
  <2>3. /\ r.pc = q.pc /\ r.scope = q.scope /\ r.todo = q.todo \ {d} /\ r.found = more
        /\ r.alone = q.alone /\ r.policy = q.policy
    BY <1>2 DEF IsRequest, RequestShape
  <2> QED BY <1>1, <2>2, <2>3, Zenon
<1> HIDE DEF r
<1>8. IsRequest(r)
  <2>1. q.scope \subseteq Devices /\ q.todo \subseteq q.scope
    BY <1>1, <1>2 DEF IsRequest
  <2> QED BY <1>5, <1>7, <2>1 DEF IsRequest, Changing
<1>9. r.alone => UpToDate(r)
  BY <1>1, <1>3, <1>5, <1>7 DEF UpToDate
<1>10. /\ Tree' /\ RowsOK' /\ RequestsOK' /\ Lonely' /\ KnowsRight'
       /\ requests'[i] = r /\ \A j \in Slots \ {i} : requests'[j] = requests[j]
       /\ \A e \in Devices : effectiveForDevice(e)' = effectiveForDevice(e)
  <2>1. requests[i].pc # "none" /\ r.alone = requests[i].alone
    BY <1>1, <1>7 DEF q
  <2> QED BY <1>1, <1>8, <1>9, <2>1, AdvanceStep
<1>11. ToldOrReached'
  <2> SUFFICES ASSUME NEW e \in Devices \ excused, ~\E j \in Slots : Reaches(j, e)'
               PROVE  issued[e] = effectiveForDevice(e)
    BY <1>1, <1>10 DEF ToldOrReached
  <2>1. ASSUME NEW j \in Slots PROVE ~Reaches(j, e)
    <3>1. requests'[j].pc = requests[j].pc /\ requests'[j].scope = requests[j].scope
      BY <1>1, <1>7, <1>10 DEF q
    <3> QED BY <1>1, <3>1, ReachesStill
  <2> QED BY <2>1 DEF PolicyInv, ToldOrReached
<1> QED BY <1>1, <1>10, <1>11 DEF PolicyInv

\* The devices of a request are told what it found, which is so if it was alone.
LEMMA IssueStep ==
  ASSUME PolicyInv, NEW i \in Slots, Issue(i)
  PROVE  PolicyInv'
<1> DEFINE r == requests[i]
<1>1. /\ r.pc = "resolve" /\ r.todo = {}
      /\ issued' = [d \in Devices |-> IF d \in r.scope THEN r.found[d] ELSE issued[d]]
      /\ excused' = IF r.alone THEN excused \ r.scope ELSE excused \union r.scope
      /\ requests' = [requests EXCEPT ![i] = NoRequest]
      /\ UNCHANGED <<parent, member, policy, targets>>
  BY Zenon DEF Issue
<1>2. /\ r.scope \subseteq Devices
      /\ \A d \in r.scope : r.found[d] \in Values \union {None}
      /\ r.alone => \A d \in r.scope : r.found[d] = effectiveForDevice(d)
  <2>1. IsRequest(r)
    BY DEF PolicyInv, RequestsOK
  <2>2. r.alone => UpToDate(r)
    BY DEF PolicyInv, KnowsRight
  <2> HIDE DEF r
  <2> QED BY <1>1, <2>1, <2>2 DEF IsRequest, UpToDate
<1>3. /\ Tree' /\ RowsOK' /\ RequestsOK' /\ Lonely' /\ KnowsRight'
      /\ \A j \in Slots \ {i} : requests'[j] = requests[j]
      /\ \A d \in Devices : effectiveForDevice(d)' = effectiveForDevice(d)
  BY <1>1, NoRequestIs, AdvanceStep
<1>4. ToldOrReached'
  <2> SUFFICES ASSUME NEW d \in Devices \ excused', ~\E j \in Slots : Reaches(j, d)'
               PROVE  issued'[d] = effectiveForDevice(d)
    BY <1>3 DEF ToldOrReached
  <2>1. CASE d \in r.scope
    BY <1>1, <1>2, <2>1
  <2>2. CASE d \notin r.scope
    <3>1. d \in Devices \ excused /\ issued'[d] = issued[d]
      BY <1>1, <2>2
    <3>2. ASSUME NEW j \in Slots PROVE ~Reaches(j, d)
      <4>1. CASE j = i
        BY <1>1, <2>2, <4>1 DEF Reaches
      <4>2. CASE j # i
        BY <1>1, <1>3, <4>2, ReachesStill
      <4> QED BY <4>1, <4>2
    <3> QED BY <3>1, <3>2 DEF PolicyInv, ToldOrReached
  <2> QED BY <2>1, <2>2
<1>5. issued' \in [Devices -> Values \union {None}] /\ excused' \subseteq Devices
  <2>1. issued \in [Devices -> Values \union {None}] /\ excused \subseteq Devices
    BY DEF PolicyInv
  <2> HIDE DEF r
  <2> QED BY <1>1, <1>2, <2>1
<1> QED BY <1>3, <1>4, <1>5 DEF PolicyInv

\* At first every device has been told.
LEMMA PolicyInvInit == PolicyInit => PolicyInv
<1> SUFFICES ASSUME PolicyInit PROVE PolicyInv
  OBVIOUS
<1>1. /\ parent = FirstParent /\ policy = FirstPolicy
      /\ member \in [Devices -> Places] /\ targets \in [Policies -> Selections]
      /\ \A d \in Devices : member[d] \subseteq There
      /\ \A p \in Policies :
            /\ targets[p] \subseteq Devices \union There
            /\ policy[p] = Gone => targets[p] = {}
      /\ requests = [i \in Slots |-> NoRequest]
      /\ issued = [d \in Devices |-> effectiveForDevice(d)] /\ excused = {}
  BY DEF PolicyInit
<1>2. Tree
  <2>1. PICK level \in [Nodes -> 0..Cardinality(Nodes)] : \A n \in Nodes :
          FirstParent[n] \in Nodes =>
              FirstParent[FirstParent[n]] # Gone /\ level[FirstParent[n]] < level[n]
    BY PolicyAssumption
  <2>2. FirstParent \in [Nodes -> Nodes \union {Root, Gone}]
    BY PolicyAssumption
  <2>3. level \in [Nodes -> Nat]
    BY <2>1, FarIsNumber
  <2>4. Leveled(parent, level)
    BY <1>1, <2>1, <2>2, <2>3 DEF Leveled
  <2>5. ASSUME NEW n \in There, parent[n] # Root PROVE parent[n] \in There
    BY <1>1, <2>1, <2>2, <2>5 DEF There
  <2> QED BY <1>1, <2>2, <2>4, <2>5 DEF Tree
<1>3. RowsOK
  <2>1. policy \in [Policies -> RowType \union {Gone}]
    BY <1>1, PolicyAssumption
  <2> QED BY <1>1, <2>1 DEF RowsOK
<1>4. RequestsOK /\ Lonely /\ KnowsRight
  BY <1>1, NoRequestIs DEF RequestsOK, Lonely, KnowsRight
<1>5. issued \in [Devices -> Values \union {None}] /\ ToldOrReached
  BY <1>1, <1>3, EffectiveIsValue DEF ToldOrReached
<1> QED BY <1>1, <1>2, <1>3, <1>4, <1>5 DEF PolicyInv

\* Every step keeps the invariant.
LEMMA PolicyInvNext == PolicyInv /\ [PolicyNext]_policyVars => PolicyInv'
<1> SUFFICES ASSUME PolicyInv, [PolicyNext]_policyVars PROVE PolicyInv'
  OBVIOUS
<1>1. ASSUME NEW n \in Nodes, NEW above \in Nodes \union {Root}, createNode(n, above)
      PROVE  PolicyInv'
  BY <1>1, CreateNodeStep
<1>2. ASSUME NEW n \in Nodes, removeNode(n) PROVE PolicyInv'
  BY <1>2, RemoveNodeStep
<1>3. ASSUME NEW d \in Devices, NEW nodes \in Places, setPartitions(d, nodes) PROVE PolicyInv'
  BY <1>3, SetPartitionsStep
<1>4. ASSUME NEW p \in Policies, NEW row \in Rows, create(p, row) PROVE PolicyInv'
  BY <1>4, CreateStep
<1>5. ASSUME NEW i \in Slots, NEW p \in Policies, NEW row \in Rows, update(i, p, row)
      PROVE  PolicyInv'
  BY <1>5, UpdateStep
<1>6. ASSUME NEW i \in Slots, NEW p \in Policies, NEW new \in Selections,
             readTargets(i, p, "targets", new)
      PROVE  PolicyInv'
  BY <1>6, ReadTargetsStep, PolicyAssumption
<1>7. ASSUME NEW i \in Slots, NEW p \in Policies, readTargets(i, p, "remove", {})
      PROVE  PolicyInv'
  BY <1>7, ReadTargetsStep
<1>8. ASSUME NEW i \in Slots, UpdateRow(i) \/ SetTargets(i) \/ RemovePolicy(i) PROVE PolicyInv'
  BY <1>8, UpdateRowStep, SetTargetsStep, RemovePolicyStep
<1>9. ASSUME NEW i \in Slots, Expand(i) \/ Issue(i) PROVE PolicyInv'
  BY <1>9, ExpandStep, IssueStep
<1>10. ASSUME NEW i \in Slots, NEW d \in Devices, Hello(i, d) \/ Resolve(i, d) PROVE PolicyInv'
  BY <1>10, HelloBegins, ResolveStep
<1>11. ASSUME UNCHANGED policyVars PROVE PolicyInv'
  <2>1. UNCHANGED <<parent, member, policy, targets, requests, issued, excused>>
    BY <1>11 DEF policyVars
  <2>2. There' = There
    BY <2>1 DEF There
  <2>3. \A d \in Devices : effectiveForDevice(d)' = effectiveForDevice(d)
    BY <2>1, SameRowsSameEffect
  <2>4. \A i \in Slots, d \in Devices : Reaches(i, d)' <=> Reaches(i, d)
    BY <2>1, ReachesStill
  <2>5. Tree' /\ RowsOK' /\ RequestsOK' /\ Lonely'
    BY <2>1, <2>2, Zenon DEF PolicyInv, Tree, RowsOK, RequestsOK, Lonely
  <2>6. KnowsRight'
    <3> SUFFICES ASSUME NEW i \in Slots, requests'[i].alone PROVE UpToDate(requests[i])'
      BY DEF KnowsRight
    <3>1. UpToDate(requests[i]) /\ IsRequest(requests[i])
      BY <2>1 DEF PolicyInv, KnowsRight, RequestsOK
    <3> QED BY <2>1, <2>3, <3>1 DEF UpToDate, IsRequest
  <2>7. ToldOrReached'
    BY <2>1, <2>3, <2>4 DEF PolicyInv, ToldOrReached
  <2> QED BY <2>1, <2>5, <2>6, <2>7 DEF PolicyInv
<1> QED BY <1>1, <1>2, <1>3, <1>4, <1>5, <1>6, <1>7, <1>8, <1>9, <1>10, <1>11, Zenon DEF PolicyNext

\* The invariant holds.
LEMMA PolicyInvariant == PolicySpec => []PolicyInv
<1> QED BY PolicyInvInit, PolicyInvNext, PTL DEF PolicySpec

\* Theorem: of the policies that apply to a device one decides, and once the
\* requests are over every device has been told the setting it decides, but
\* for those that are excused; whatever the tree, the memberships, the policies
\* and the order of updates, deletions and hellos (syncEffectiveSettings).
THEOREM PoliciesAlwaysArrive == PolicySpec => []PoliciesArrive
<1>1. PolicyInv => PoliciesArrive
  <2> SUFFICES ASSUME PolicyInv PROVE PoliciesArrive
    OBVIOUS
  <2>1. OneDecides
    BY OneAlwaysDecides DEF PolicyInv
  <2>2. ToldWhatIsEffective
    <3> SUFFICES ASSUME UnderWay = {}, NEW d \in Devices \ excused
                 PROVE  issued[d] = effectiveForDevice(d)
      BY DEF ToldWhatIsEffective
    <3>1. \A i \in Slots : ~Reaches(i, d)
      BY DEF UnderWay, Reaches
    <3> QED BY <3>1 DEF PolicyInv, ToldOrReached
  <2> QED BY <2>1, <2>2 DEF PoliciesArrive
<1> QED BY <1>1, PolicyInvariant, PTL

\* Theorem: rows and requests keep their shape, and the tree of partitions has no
\* cycle, whatever is created and removed.
THEOREM PolicyTypesHold == PolicySpec => []PolicyTypeOK
<1>1. PolicyInv => PolicyTypeOK
  <2> SUFFICES ASSUME PolicyInv PROVE PolicyTypeOK
    OBVIOUS
  <2>1. ASSUME NEW n \in There, parent[n] # Root
        PROVE  parent[n] \in There /\ Depth(parent[n], n) = Far
    <3>1. n \in Nodes /\ parent[n] \in There /\ parent[n] \in Nodes
      BY <2>1 DEF PolicyInv, Tree, There
    <3>2. PICK level : Leveled(parent, level)
      BY DEF PolicyInv, Tree
    <3>3. level[parent[n]] < level[n] /\ level[parent[n]] \in Nat /\ level[n] \in Nat
      BY <3>1, <3>2 DEF Leveled
    <3>4. Depth(parent[n], n) = DepthFrom(parent, n)[parent[n]]
      BY DepthIs
    <3>5. DepthFrom(parent, n)[parent[n]] < Far =>
            level[n] <= level[parent[n]]
      BY <3>1, <3>2, DepthBounded
    <3>6. DepthFrom(parent, n)[parent[n]] \in 0..Far
      BY <3>1, <3>2, DepthOf, Zenon
    <3> QED BY <3>1, <3>3, <3>4, <3>5, <3>6, FarIsNumber
  <2>2. \A i \in Slots :
          /\ requests[i].pc \in {"none", "update", "targets", "remove", "expand", "resolve"}
          /\ requests[i].scope \subseteq Devices \union Nodes /\ requests[i].todo \subseteq Devices
    BY DEF PolicyInv, RequestsOK, IsRequest, RequestShape, Changing
  <2>3. parent \in [Nodes -> Nodes \union {Root, Gone}] /\ issued \in [Devices -> Values \union {None}]
        /\ excused \subseteq Devices
    BY DEF PolicyInv, Tree
  <2>4. /\ member \in [Devices -> SUBSET There]
        /\ \A p \in Policies : policy[p] \in RowType \union {Gone}
                               /\ targets[p] \subseteq Devices \union There
    BY DEF PolicyInv, RowsOK
  <2> QED BY <2>1, <2>2, <2>3, <2>4 DEF PolicyTypeOK
<1> QED BY <1>1, PolicyInvariant, PTL

-----------------------------------------------------------------------------
(* The composed module.                                                       *)

\* A behaviour of PartsSpec steps one part and leaves the others as they are at first, so it is
\* a behaviour of each: what is proved of a part for any constants holds of it too.
LEMMA OneOfEachPart ==
    PartsSpec => Spec /\ PolicySpec /\ HostSpec /\ ScheduleSpec
<1>1. PartsInit => Init /\ PolicyInit /\ HostInit /\ ScheduleInit
  BY Zenon DEF PartsInit
<1>2. [PartsNext]_partVars =>
          /\ [Next]_vars /\ [PolicyNext]_policyVars /\ [HostNext]_hostVars
          /\ [ScheduleNext]_scheduleVars
  <2>1. CASE PartsNext BY <2>1, Zenon DEF PartsNext
  <2>2. CASE UNCHANGED partVars BY <2>2 DEF partVars
  <2> QED BY <2>1, <2>2
<1> QED
  BY <1>1, <1>2, PTL DEF PartsSpec, Spec, PolicySpec, HostSpec, ScheduleSpec

\* Theorem: whichever of the link, the policies, the plugins and the player runs, the
\* state of each keeps the shape of its code's.
THEOREM PartsTypesHold == PartsSpec => []PartsTypeOK
<1>1. TypeOK /\ PolicyTypeOK /\ HostTypeOK /\ ScheduleTypeOK => PartsTypeOK
  BY DEF PartsTypeOK
<1> QED
  BY <1>1, OneOfEachPart, LinkTypes, PolicyTypesHold, HostTypesHold, PlayerTypesHold, PTL
=============================================================================
