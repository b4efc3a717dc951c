----------------------------- MODULE DeviceLink -----------------------------
(***************************************************************************)
(* Who is connected as which device: the gateway's side of a connection    *)
(* (device.gateway.ts, device-connections.service.ts), enrolment, rotation *)
(* and revocation (device-enrollment.service.ts, devices.service.ts), and  *)
(* the connection states of the control agent (controlAgentService.ts) of  *)
(* one installation of the desktop app.                                    *)
(*                                                                         *)
(* An installation may enrol again; the server then creates a new device,  *)
(* so devices are numbered in that order.  Every await of the hello is a   *)
(* step, and so are the commit and the disconnection of a revocation or a  *)
(* rotation.  The commands that travel on a connection are the business of *)
(* CommandDelivery.                                                        *)
(***************************************************************************)
EXTENDS Naturals, Sequences, FiniteSets

CONSTANTS
  MaxUses,  \* how often the enrolment code may be used: enrolments of the installation
  MaxConn,  \* bound: connections the agent opens; the last one is not disturbed
  MaxDisturbances  \* bound: disturbances, cleared enrolments, and decisions of administrators

ASSUME LinkAssumption ==
  MaxUses \in Nat \ {0} /\ MaxConn \in Nat \ {0} /\ MaxDisturbances \in Nat

Devs == 1..MaxUses
Conns == 1..MaxConn

\* The credential the agent got at enrolment is good while the device is
\* "active"; "rotated" devices are active too, with another credential.
Lifecycle == {"none", "active", "rotated", "revoked", "deleted"}

\* Close codes that the agent tells apart; "broken" stands for all others.
CloseCode == {"authenticationRequired", "deviceRevoked", "connectionReplaced",
              "internalError", "broken"}

\* Where the hello of a connection is.  "waiting": sent, and the credential not
\* looked up; "lost": it never arrives; "recording": session.deviceId is set.
HelloStage == {"none", "waiting", "lost", "checked", "recording", "accepted", "refused"}

AgentState == {"stopped", "unenrolled", "connecting", "authenticating", "online",
               "reconnecting", "authentication-failed", "connection-replaced"}

VARIABLES
  \* --- database
  lifecycle,   \* device.lifecycleStatus and whether the enrolled credential is current
  \* --- memory of the server process
  cutting,     \* disconnections committed by revoke() or rotateCredential()
  registered,  \* registered[d]: connection in DeviceConnectionsService, 0 when none
  readable,    \* connections whose server socket has readyState OPEN
  attached,    \* connections whose disconnect event has not fired
  hello,       \* hello[k]: where the handler of the hello is
  dev,         \* dev[k]: the device the hello names
  condemned,   \* condemned[k]: close code of a fatal error that is being sent
  \* --- the wire
  toDevice,    \* messages under way to the device on its current connection
  \* --- the desktop app
  disk,        \* the device whose credential load() finds in a file or copy, 0 when none
  started,     \* the agent's started flag
  reg,         \* registration: the device the agent is enrolled as, 0 when none
  enrolling,   \* what enroll() waits for, and the device it is about
  clearing,    \* clearEnrollment() has cleared the store and goes on
  conn,        \* number of the latest connection the agent opened
  sock,        \* the agent's socket, 0 when undefined
  phase,       \* readyState of the agent's socket
  timer,       \* reconnectTimer is set
  state,       \* snapshot.state
  \* --- history, read by no action
  raced,       \* connections whose hello was past authentication at a disconnection
  mistimed,    \* a handshake timer fired, or an older connection replaced a newer one
  disturbances \* how many there were, for the bound

gateway == <<cutting, registered, readable, attached, hello, dev, condemned>>
store == <<disk, enrolling, clearing>>
agent == <<started, reg, conn, sock, phase, timer, state>>
seen == <<raced, mistimed>>
history == <<raced, mistimed, disturbances>>
vars == <<lifecycle, cutting, registered, readable, attached, hello, dev, condemned,
          toDevice, disk, started, reg, enrolling, clearing, conn, sock, phase, timer,
          state, raced, mistimed, disturbances>>

-----------------------------------------------------------------------------

\* The bounds on what goes wrong by itself; the last connection is undisturbed.
Disturb ==
  /\ disturbances < MaxDisturbances
  /\ disturbances' = disturbances + 1

Mishap == conn < MaxConn /\ Disturb

Used == Cardinality({d \in Devs : lifecycle[d] # "none"})

\* A message handed to connection k's server socket reaches the device if the
\* device is still at the other end.
Post(k, msg) ==
  IF sock = k /\ phase \in {"open", "closing"} THEN Append(toDevice, msg) ELSE toDevice

Accepted == [type |-> "helloAccepted", code |-> "broken"]
FatalError == [type |-> "error", code |-> "broken"]
Close(code) == [type |-> "close", code |-> code]

\* session.deviceId is set.
Authenticated(k) == hello[k] \in {"recording", "accepted"}

\* fatal(): send the error; its callback closes the socket once it is sent.
Fatal(k, code) ==
  IF k \in readable /\ condemned[k] = "no"
  THEN /\ condemned' = [condemned EXCEPT ![k] = code]
       /\ toDevice' = Post(k, FatalError)
  ELSE UNCHANGED <<condemned, toDevice>>

-----------------------------------------------------------------------------
(* The gateway.                                                              *)

\* findAuthenticatedDevice: the credential matches and the device is active.
MayAuthenticate(d) == lifecycle[d] = "active"

\* enrollmentService.authenticate() has looked the device up.
Authenticate(k) ==
  /\ hello[k] = "waiting"
  /\ IF MayAuthenticate(dev[k])
     THEN /\ hello' = [hello EXCEPT ![k] = "checked"]
          /\ UNCHANGED <<condemned, toDevice>>
     ELSE /\ hello' = [hello EXCEPT ![k] = "refused"]
          /\ Fatal(k, "authenticationRequired")
  /\ UNCHANGED <<cutting, registered, readable, attached, dev>>
  /\ UNCHANGED lifecycle /\ UNCHANGED store /\ UNCHANGED agent /\ UNCHANGED history

\* markCredentialUsed is done: the hello timer is cleared, the session has a device.
Admit(k) ==
  /\ hello[k] = "checked"
  /\ hello' = [hello EXCEPT ![k] = "recording"]
  /\ UNCHANGED <<cutting, registered, readable, attached, dev, condemned, toDevice>>
  /\ UNCHANGED lifecycle /\ UNCHANGED store /\ UNCHANGED agent /\ UNCHANGED history

\* The sockets that stay open when k takes the slot of prev.
OpenAfterRegister(k, prev) == readable \ ({prev} \ {k})

\* recordConnectionState is done: register, close the connection that is
\* replaced, and accept - whatever became of this connection meanwhile.
Register(k) ==
  LET prev == registered[dev[k]] IN
  /\ hello[k] = "recording"
  /\ hello' = [hello EXCEPT ![k] = "accepted"]
  /\ registered' = [registered EXCEPT ![dev[k]] = k]
  /\ readable' = OpenAfterRegister(k, prev)
  /\ toDevice' = IF prev \in readable \ readable' /\ sock = prev
                 THEN Post(prev, Close("connectionReplaced"))
                 ELSE IF k \in readable THEN Post(k, Accepted) ELSE toDevice
  /\ mistimed' = (mistimed \/ prev > k)
  /\ UNCHANGED <<cutting, attached, dev, condemned, raced, disturbances>>
  /\ UNCHANGED lifecycle /\ UNCHANGED store /\ UNCHANGED agent

\* A database error in the hello: handleUnexpectedError.
HelloFails(k) ==
  /\ Mishap
  /\ hello[k] \in {"waiting", "checked", "recording"}
  /\ hello' = [hello EXCEPT ![k] = "refused"]
  /\ Fatal(k, "internalError")
  /\ UNCHANGED <<cutting, registered, readable, attached, dev>>
  /\ UNCHANGED lifecycle /\ UNCHANGED store /\ UNCHANGED agent /\ UNCHANGED seen

\* A database error in a later message of the device, or in deliverPending().
MessageFails(k) ==
  /\ Mishap
  /\ hello[k] = "accepted"
  /\ Fatal(k, "internalError")
  /\ UNCHANGED <<cutting, registered, readable, attached, hello, dev>>
  /\ UNCHANGED lifecycle /\ UNCHANGED store /\ UNCHANGED agent /\ UNCHANGED seen

\* The hello timer, which runs until the device is authenticated.
HelloTimeout(k) ==
  /\ Mishap
  /\ k \in attached \cap readable
  /\ condemned[k] = "no"
  /\ hello[k] \in {"waiting", "lost", "checked"}
  /\ Fatal(k, "authenticationRequired")
  /\ mistimed' = TRUE
  /\ UNCHANGED <<cutting, registered, readable, attached, hello, dev, raced>>
  /\ UNCHANGED lifecycle /\ UNCHANGED store /\ UNCHANGED agent

\* The error is sent, and the callback of fatal() closes the socket.
CloseCondemned(k) ==
  /\ condemned[k] # "no"
  /\ condemned' = [condemned EXCEPT ![k] = "no"]
  /\ readable' = readable \ {k}
  /\ toDevice' = IF k \in readable THEN Post(k, Close(condemned[k])) ELSE toDevice
  /\ UNCHANGED <<cutting, registered, attached, hello, dev>>
  /\ UNCHANGED lifecycle /\ UNCHANGED store /\ UNCHANGED agent /\ UNCHANGED history

\* handleDisconnect.  A hello that is being handled goes on.
Disconnect(k) ==
  /\ k \in attached
  /\ k \in readable => ~(sock = k /\ phase \in {"open", "closing"})
  /\ attached' = attached \ {k}
  /\ readable' = readable \ {k}
  /\ registered' = IF Authenticated(k) /\ registered[dev[k]] = k
                   THEN [registered EXCEPT ![dev[k]] = 0] ELSE registered
  /\ UNCHANGED <<cutting, hello, dev, condemned, toDevice>>
  /\ UNCHANGED lifecycle /\ UNCHANGED store /\ UNCHANGED agent /\ UNCHANGED history

-----------------------------------------------------------------------------
(* The administrators.                                                       *)

\* revoke(): commits, or finds that it was done before; disconnects either way.
Revoke(d) ==
  /\ lifecycle[d] \in {"active", "rotated", "revoked"}
  /\ Disturb
  /\ lifecycle' = [lifecycle EXCEPT ![d] = "revoked"]
  /\ cutting' = cutting \cup {[dev |-> d, code |-> "deviceRevoked"]}
  /\ UNCHANGED <<registered, readable, attached, hello, dev, condemned, toDevice>>
  /\ UNCHANGED store /\ UNCHANGED agent /\ UNCHANGED seen

\* rotateCredential(): the new credential is shown to the administrator; the
\* installation keeps the old one.
RotateCredential(d) ==
  /\ lifecycle[d] \in {"active", "rotated"}
  /\ Disturb
  /\ lifecycle' = [lifecycle EXCEPT ![d] = "rotated"]
  /\ cutting' = cutting \cup {[dev |-> d, code |-> "authenticationRequired"]}
  /\ UNCHANGED <<registered, readable, attached, hello, dev, condemned, toDevice>>
  /\ UNCHANGED store /\ UNCHANGED agent /\ UNCHANGED seen

\* disconnect() of DeviceConnectionsService, after the transaction.
Cut(d) ==
  LET k == registered[d] IN
  \E order \in cutting :
    /\ order.dev = d
    /\ cutting' = cutting \ {order}
    /\ registered' = [registered EXCEPT ![d] = 0]
    /\ readable' = readable \ {k}
    /\ toDevice' = IF k \in readable THEN Post(k, Close(order.code)) ELSE toDevice
    /\ raced' = raced \cup {j \in Conns : dev[j] = d /\ hello[j] \in {"checked", "recording"}}
    /\ UNCHANGED <<attached, hello, dev, condemned, mistimed, disturbances>>
    /\ UNCHANGED lifecycle /\ UNCHANGED store /\ UNCHANGED agent

\* remove(): only of a revoked device; nothing is disconnected.
Remove(d) ==
  /\ lifecycle[d] = "revoked"
  /\ lifecycle' = [lifecycle EXCEPT ![d] = "deleted"]
  /\ UNCHANGED toDevice
  /\ UNCHANGED gateway /\ UNCHANGED store /\ UNCHANGED agent /\ UNCHANGED history

-----------------------------------------------------------------------------
(* The agent's connection.  These operators say what becomes of the agent.   *)

\* connect(): the attempt is made if there is a registration and no socket.
WillConnect(isReg, s) == isReg # 0 /\ s = 0

\* connect() when it was called with `sock` = s and registration r.
Connect(r, s, newState, otherwise) ==
  IF WillConnect(r, s)
  THEN /\ conn' = conn + 1 /\ sock' = conn + 1
       /\ phase' = "opening"
       /\ state' = newState
  ELSE /\ sock' = s
       /\ phase' = IF s = 0 THEN "none" ELSE phase
       /\ state' = otherwise
       /\ UNCHANGED conn

\* What a slip would make of it: only a connection that was accepted is retried.
BugRetriesAcceptedOnly ==
  /\ timer' = (timer \/ state = "online")
  /\ state' = "reconnecting"

\* scheduleReconnect(): nothing happens while an older timer is still set.
ScheduleReconnect ==
  /\ timer' = TRUE
  /\ state' = IF timer THEN state ELSE "reconnecting"

\* What a slip would make of it: the socket that was closed is kept.
BugKeepsSocket == sock
SocketAfterClose == 0

\* The closes that say that the credential is not accepted.
Refuses(code) == code \in {"authenticationRequired", "deviceRevoked"}

\* handleClose(): which closes end in a reconnection.
HandleClose(code) ==
  /\ sock' = SocketAfterClose
  /\ phase' = "none"
  /\ IF ~started \/ reg = 0 THEN UNCHANGED <<timer, state>>
     ELSE CASE Refuses(code) ->
                 state' = "authentication-failed" /\ UNCHANGED timer
            [] code = "connectionReplaced" ->
                 state' = "connection-replaced" /\ UNCHANGED timer
            [] OTHER -> ScheduleReconnect
  /\ UNCHANGED <<started, reg, conn>>

\* The TCP connection and the upgrade succeed: handleConnection on one side,
\* handleOpen on the other, which sends the hello.
Open ==
  /\ phase = "opening"
  /\ phase' = "open"
  /\ state' = "authenticating"
  /\ readable' = readable \cup {sock} /\ attached' = attached \cup {sock}
  /\ hello' = [hello EXCEPT ![sock] = "waiting"]
  /\ dev' = [dev EXCEPT ![sock] = reg]
  /\ UNCHANGED <<cutting, registered, condemned, toDevice, started, reg, conn, sock, timer>>
  /\ UNCHANGED lifecycle /\ UNCHANGED store /\ UNCHANGED history

OpenFails ==
  /\ Mishap
  /\ phase = "opening"
  /\ HandleClose("broken")
  /\ UNCHANGED toDevice
  /\ UNCHANGED lifecycle /\ UNCHANGED gateway /\ UNCHANGED store /\ UNCHANGED seen

\* What is left of a connection the device abandons: the hello may not arrive.
Abandon(k) ==
  /\ toDevice' = <<>>
  /\ \/ k # 0 /\ hello[k] = "waiting" /\ hello' = [hello EXCEPT ![k] = "lost"]
     \/ UNCHANGED hello
  /\ UNCHANGED <<cutting, registered, readable, attached, dev, condemned>>

\* The network breaks the connection.
Break ==
  /\ Mishap
  /\ phase \in {"open", "closing"}
  /\ Abandon(sock)
  /\ HandleClose("broken")
  /\ UNCHANGED lifecycle /\ UNCHANGED store /\ UNCHANGED seen

\* The agent's handshake timer closes the socket; it stays the current socket
\* until its close event.
HandshakeTimeout ==
  /\ Mishap
  /\ phase = "open"
  /\ state # "online"
  /\ phase' = "closing"
  /\ mistimed' = TRUE
  /\ UNCHANGED <<toDevice, started, reg, conn, sock, timer, state, raced>>
  /\ UNCHANGED lifecycle /\ UNCHANGED gateway /\ UNCHANGED store

\* The server echoes the agent's close frame, after what it had sent before.
CloseEchoed ==
  /\ phase = "closing"
  /\ sock \in readable
  /\ toDevice = <<>>
  /\ readable' = readable \ {sock}
  /\ HandleClose("authenticationRequired")
  /\ UNCHANGED <<cutting, registered, attached, hello, dev, condemned, toDevice>>
  /\ UNCHANGED lifecycle /\ UNCHANGED store /\ UNCHANGED history

Incoming(type) == toDevice # <<>> /\ Head(toDevice).type = type

ReceiveAccepted ==
  /\ Incoming("helloAccepted")
  /\ toDevice' = Tail(toDevice)
  /\ state' = "online"
  /\ UNCHANGED <<started, reg, conn, sock, phase, timer>>
  /\ UNCHANGED lifecycle /\ UNCHANGED gateway /\ UNCHANGED store /\ UNCHANGED history

\* handleProtocolError of a fatal error; the close that follows it decides.
ReceiveError ==
  /\ Incoming("error")
  /\ toDevice' = Tail(toDevice)
  /\ state' = "authentication-failed"
  /\ UNCHANGED <<started, reg, conn, sock, phase, timer>>
  /\ UNCHANGED lifecycle /\ UNCHANGED gateway /\ UNCHANGED store /\ UNCHANGED history

ReceiveClose ==
  /\ Incoming("close")
  /\ toDevice' = <<>>
  /\ HandleClose(Head(toDevice).code)
  /\ UNCHANGED lifecycle /\ UNCHANGED gateway /\ UNCHANGED store /\ UNCHANGED history

\* The reconnect timer fires and connects, unless there is nothing to connect.
TimerFires ==
  /\ timer
  /\ WillConnect(reg, sock) => conn < MaxConn
  /\ timer' = FALSE
  /\ Connect(reg, sock, "reconnecting", state)
  /\ UNCHANGED <<toDevice, started, reg>>
  /\ UNCHANGED lifecycle /\ UNCHANGED gateway /\ UNCHANGED store /\ UNCHANGED history

-----------------------------------------------------------------------------
(* The agent's enrolment.                                                    *)

NotEnrolling == [step |-> "no", dev |-> 0]

\* start(), called once when the app comes up.  It is over before a user can
\* enrol: it only reads the credential.
Start ==
  /\ ~started
  /\ started' = TRUE
  /\ \/ /\ reg' = disk
        /\ Connect(disk, sock, "connecting", "unenrolled")
        /\ UNCHANGED disturbances
     \/ /\ Mishap /\ disk # 0   \* the credential cannot be read
        /\ state' = "unenrolled"
        /\ UNCHANGED <<reg, conn, sock, phase>>
  /\ UNCHANGED <<timer, toDevice, disk, enrolling, clearing>>
  /\ UNCHANGED lifecycle /\ UNCHANGED gateway /\ UNCHANGED seen

\* codeStatus: a use is left.  That the code may also expire or be revoked is
\* that the enrolment may not happen.
CodeActive == Used < MaxUses

\* enroll() asks the server, whose enroll() creates a device and consumes a use
\* of the code in one transaction that locks the code.
Enroll ==
  /\ started
  /\ conn < MaxConn
  /\ enrolling = NotEnrolling
  /\ CodeActive
  /\ lifecycle' = [lifecycle EXCEPT ![Used + 1] = "active"]
  /\ enrolling' = [step |-> "answered", dev |-> Used + 1]
  /\ UNCHANGED <<toDevice, disk, clearing>>
  /\ UNCHANGED gateway /\ UNCHANGED agent /\ UNCHANGED history

\* enroll() throws: the answer is lost, or the credential cannot be saved.  The
\* device the server has created stays, and so does the use of the code.
EnrollFails ==
  /\ Mishap
  /\ enrolling.step = "answered"
  /\ enrolling' = NotEnrolling
  /\ UNCHANGED <<toDevice, disk, clearing>>
  /\ UNCHANGED lifecycle /\ UNCHANGED gateway /\ UNCHANGED agent /\ UNCHANGED seen

\* save() has written the primary file, and goes on with the copies.
EnrollSave ==
  /\ enrolling.step = "answered"
  /\ enrolling' = [enrolling EXCEPT !.step = "saved"]
  /\ disk' = enrolling.dev
  /\ UNCHANGED <<toDevice, clearing>>
  /\ UNCHANGED lifecycle /\ UNCHANGED gateway /\ UNCHANGED agent /\ UNCHANGED history

\* The rest of enroll(): the connection of the old registration is closed.
EnrollEnd ==
  /\ enrolling.step = "saved"
  /\ conn < MaxConn
  /\ enrolling' = NotEnrolling
  /\ reg' = enrolling.dev
  /\ started' = TRUE
  /\ Abandon(sock)
  /\ Connect(enrolling.dev, 0, "connecting", state)
  /\ UNCHANGED <<timer, disk, clearing>>
  /\ UNCHANGED lifecycle /\ UNCHANGED history

\* clearEnrollment() until the store is cleared.  It goes on when a copy of the
\* credential cannot be removed, which the next start then finds.
ClearStart ==
  /\ started
  /\ ~clearing
  /\ Mishap
  /\ clearing' = TRUE
  /\ disk' \in {0, disk}
  /\ UNCHANGED <<toDevice, enrolling>>
  /\ UNCHANGED lifecycle /\ UNCHANGED gateway /\ UNCHANGED agent /\ UNCHANGED seen

\* The rest of clearEnrollment().  The reconnect timer stays set.
ClearEnd ==
  /\ clearing
  /\ clearing' = FALSE
  /\ reg' = 0
  /\ sock' = 0 /\ phase' = "none"
  /\ state' = "unenrolled"
  /\ Abandon(sock)
  /\ UNCHANGED <<started, conn, timer, disk, enrolling>>
  /\ UNCHANGED lifecycle /\ UNCHANGED history

\* The app is disposed of or crashes; only the store is left.
AppStops ==
  /\ started
  /\ Mishap
  /\ started' = FALSE
  /\ reg' = 0 /\ enrolling' = NotEnrolling /\ clearing' = FALSE
  /\ sock' = 0 /\ phase' = "none" /\ timer' = FALSE
  /\ state' = "stopped"
  /\ Abandon(sock)
  /\ UNCHANGED <<disk, conn>>
  /\ UNCHANGED lifecycle /\ UNCHANGED seen

-----------------------------------------------------------------------------

Init ==
  /\ lifecycle = [d \in Devs |-> "none"]
  /\ cutting = {}
  /\ registered = [d \in Devs |-> 0]
  /\ readable = {} /\ attached = {}
  /\ hello = [k \in Conns |-> "none"]
  /\ dev = [k \in Conns |-> 1]
  /\ condemned = [k \in Conns |-> "no"]
  /\ toDevice = <<>>
  /\ disk = 0 /\ started = FALSE /\ reg = 0
  /\ enrolling = NotEnrolling /\ clearing = FALSE
  /\ conn = 0 /\ sock = 0 /\ phase = "none" /\ timer = FALSE /\ state = "stopped"
  /\ raced = {} /\ mistimed = FALSE /\ disturbances = 0

HelloStep(k) == Authenticate(k) \/ Admit(k) \/ Register(k)

Receive == ReceiveAccepted \/ ReceiveError \/ ReceiveClose

Admin(d) == Revoke(d) \/ RotateCredential(d) \/ Cut(d) \/ Remove(d)

Enrolment ==
  \/ Enroll \/ EnrollFails \/ EnrollSave \/ EnrollEnd \/ ClearStart \/ ClearEnd

Next ==
  \/ \E k \in Conns : HelloStep(k) \/ HelloFails(k) \/ MessageFails(k) \/ HelloTimeout(k) \/ CloseCondemned(k)
                     \/ Disconnect(k)
  \/ \E d \in Devs : Admin(d)
  \/ Open \/ OpenFails \/ Break \/ HandshakeTimeout \/ CloseEchoed \/ Receive \/ TimerFires
  \/ Start \/ AppStops \/ Enrolment

Spec == Init /\ [][Next]_vars

\* The event loops go on: hellos are handled, sent errors close their socket,
\* the agent's socket opens and delivers, its timer fires, and a revocation
\* that is committed disconnects.  Nobody has to enrol or to start the app.
Fairness ==
  /\ \A k \in Conns : WF_vars(HelloStep(k)) /\ WF_vars(CloseCondemned(k))
  /\ \A d \in Devs : WF_vars(Cut(d))
  /\ WF_vars(Open) /\ WF_vars(Receive) /\ WF_vars(CloseEchoed) /\ WF_vars(TimerFires)

FairSpec == Spec /\ Fairness

-----------------------------------------------------------------------------
(* Properties.                                                               *)

ServerMessage == [type : {"helloAccepted", "error", "close"}, code : CloseCode]

GatewayTypeOK ==
  /\ lifecycle \in [Devs -> Lifecycle]
  /\ registered \in [Devs -> 0..MaxConn]
  /\ readable \subseteq Conns /\ attached \subseteq Conns
  /\ hello \in [Conns -> HelloStage]
  /\ dev \in [Conns -> Devs]
  /\ condemned \in [Conns -> CloseCode \cup {"no"}]

AgentTypeOK ==
  /\ disk \in 0..MaxUses /\ reg \in 0..MaxUses
  /\ started \in BOOLEAN /\ clearing \in BOOLEAN
  /\ conn \in 0..MaxConn /\ sock \in 0..MaxConn
  /\ phase \in {"none", "opening", "open", "closing"}
  /\ timer \in BOOLEAN
  /\ state \in AgentState

PendingTypeOK ==
  /\ cutting \subseteq [dev : Devs, code : {"authenticationRequired", "deviceRevoked"}]
  /\ enrolling \in [step : {"no", "answered", "saved"}, dev : 0..MaxUses]
  /\ toDevice \in Seq(ServerMessage)

HistoryTypeOK ==
  raced \subseteq Conns /\ mistimed \in BOOLEAN /\ disturbances \in 0..MaxDisturbances

\* Every variable keeps its type; in particular the agent's state is one of
\* those it tells its windows about, and a device's slot holds a connection.
TypeOK == GatewayTypeOK /\ AgentTypeOK /\ PendingTypeOK /\ HistoryTypeOK

\* An agent that says it is online on a connection which the server has open is
\* where the server sends the commands of its device.
OnlineIsReachable ==
  state = "online" /\ sock \in readable => registered[reg] = sock

\* A connection of a device whose credential is no longer good survives only
\* if its hello had passed authentication, and was not registered yet, when
\* revoke() or rotateCredential() looked for a connection to close.
StaleOnlyIfRaced ==
  \A d \in Devs :
    /\ registered[d] \in readable
    /\ lifecycle[d] \in {"rotated", "revoked", "deleted"}
    => registered[d] \in raced \/ \E order \in cutting : order.dev = d

\* The agent never waits for nothing: while it says that it is connecting,
\* online or reconnecting, it has a socket or its timer is set.
NeverStranded ==
  /\ reg # 0
  /\ state \in {"connecting", "authenticating", "online", "reconnecting"}
  => sock # 0 \/ timer

\* The states from which the agent does not come back by itself have a cause:
\* the credential is no longer good, a handshake timer fired, or an older
\* connection of the device was registered later.
GivesUpOnlyForCause ==
  /\ state \in {"authentication-failed", "connection-replaced"}
  /\ sock = 0 /\ ~timer
  => lifecycle[reg] # "active" \/ mistimed

\* An enrolled agent gets online unless one of those causes, or a user, stops it.
ComesOnline ==
  started /\ reg # 0 ~> \/ state = "online" /\ registered[reg] = sock
                        \/ reg = 0 \/ lifecycle[reg] # "active" \/ mistimed

\* What an agent shows is so: online is reachable, waiting is waiting for
\* something, giving up has a cause, and so has a connection that outlives the
\* revocation of its device.
LinkIsHonest ==
  OnlineIsReachable /\ NeverStranded /\ GivesUpOnlyForCause /\ StaleOnlyIfRaced
=============================================================================
