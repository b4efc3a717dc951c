------------------------------ MODULE JsonRpc ------------------------------
(***************************************************************************)
(* The JSON-RPC endpoints of packages/rpc, put together as the plugin host *)
(* puts them together: one JsonRpcServer of a plugin in the main process   *)
(* and one JsonRpcClient of it in each window, all on the same channel. A  *)
(* plugin that is loaded again in a window gets a new client there, and    *)
(* every client counts its request ids from 1. The channel keeps the order *)
(* of what one window sends and is sent; a window's transport may break,   *)
(* after which send() throws.                                              *)
(***************************************************************************)
EXTENDS Naturals, Sequences, FiniteSets

CONSTANTS Windows,
          NoClient,
          Unsteady,     \* bound: the windows whose plugin is unloaded, or transport breaks
          MaxClients,   \* bound: clients of one window, one after the other
          MaxRequests   \* bound: requests of all clients

Ids == 1..MaxRequests
Clients == Windows \X (1..MaxClients)
Window(c) == c[1]

ASSUME RpcAssumption ==
    NoClient \notin Clients /\ MaxRequests \in Nat \ {0} /\ MaxClients \in Nat \ {0}

VARIABLES
    promises,       \* per client: the state of the promise of each of its requests
    created,        \* per window: how many clients it has had
    listening,      \* the windows whose last client has its listener
    broken,      \* the windows whose transport throws
    toServer,    \* per window: the messages on their way to the server, and, as a ghost
                 \* where there are two, the client each comes from
    toClient,    \* per window: the responses on their way back, and whom they answer
    jobs,        \* the handlers that run: for which client and id, and whether
                 \* their AbortSignal has been aborted
    activeRequests,      \* activeRequests: per id, the client whose controller it has
    serving      \* the server has handlers and listens

rpcVars == <<promises, created, listening, broken, toServer, toClient, jobs, activeRequests, serving>>

windowVars == <<created, listening, broken>>
Results == {"value", "undefined", "error"}
Job(c, id) == [client |-> c, id |-> id]
JobRuns(c, id) == Job(c, id) \in DOMAIN jobs
LastClient(w) == <<w, created[w]>>

Send(c, type, id) ==
    toServer' = [toServer EXCEPT ![Window(c)] = Append(@, [type |-> type, client |-> c, id |-> id])]
Reply(c, id, result) ==
    toClient' = [toClient EXCEPT ![Window(c)] =
                    Append(@, [client |-> c, id |-> id, result |-> result])]
SettleCall(c, id, outcome) == promises' = [promises EXCEPT ![c][id] = outcome]

-----------------------------------------------------------------------------
(* JsonRpcClient                                                           *)

\* The plugin is loaded again: its client begins with the id 1.
NewClient(w) ==
    /\ w \notin listening /\ created[w] < MaxClients
    /\ created' = [created EXCEPT ![w] = @ + 1]
    /\ listening' = listening \union {w}
    /\ UNCHANGED <<promises, broken, toServer, toClient, jobs, activeRequests, serving>>

\* request: an id of its own, a timer, and the message; when send() throws the
\* promise is rejected at once. A client that was disposed still sends.
request(c) ==
    LET id == Len(promises[c]) + 1
    IN  /\ c[2] <= created[Window(c)]
        /\ Cardinality({k \in Clients \X Ids : k[2] \in DOMAIN promises[k[1]]}) < MaxRequests
        /\ IF Window(c) \in broken
           THEN promises' = [promises EXCEPT ![c] = Append(@, "rejected")] /\ UNCHANGED toServer
           ELSE /\ promises' = [promises EXCEPT ![c] = Append(@, "pending")]
                /\ Send(c, "request", id)
        /\ UNCHANGED <<windowVars, toClient, jobs, activeRequests, serving>>

\* The timer of a request, or its AbortSignal, fires: the request is forgotten
\* and the server told, then the promise is rejected. When telling throws, the
\* promise is never settled.
GiveUp(c, id) ==
    /\ id \in DOMAIN promises[c] /\ promises[c][id] = "pending"
    /\ IF Window(c) \in broken THEN SettleCall(c, id, "lost") /\ UNCHANGED toServer
       ELSE SettleCall(c, id, "gaveUp") /\ Send(c, "cancel", id)
    /\ UNCHANGED <<windowVars, toClient, jobs, activeRequests, serving>>

\* handleMessage: a response settles the request it names, once, of the client that
\* listens, whether or not it is the one that is answered. One without 'result' and
\* 'error' is no response: JSON leaves out an undefined result.
ClientHandles(w) ==
    /\ toClient[w] # <<>>
    /\ LET m == Head(toClient[w])
           c == LastClient(w)
       IN  IF /\ w \in listening /\ m.result # "undefined"
              /\ m.id \in DOMAIN promises[c] /\ promises[c][m.id] = "pending"
           THEN SettleCall(c, m.id, IF m.result = "value" THEN "resolved" ELSE "rejected")
           ELSE UNCHANGED promises
    /\ toClient' = [toClient EXCEPT ![w] = Tail(@)]
    /\ UNCHANGED <<windowVars, toServer, jobs, activeRequests, serving>>

\* dispose, when the plugin of the window is unloaded: the listener goes. Nobody cancels
\* the requests; their answers are on their way, or still to come.
DisposeClient(w) ==
    /\ w \in Unsteady /\ w \in listening
    /\ listening' = listening \ {w}
    /\ promises' = [promises EXCEPT ![LastClient(w)] =
                        [id \in DOMAIN @ |-> IF @[id] = "pending" THEN "rejected" ELSE @[id]]]
    /\ UNCHANGED <<created, broken, toServer, toClient, jobs, activeRequests, serving>>

\* The window goes away, or its frame is replaced.
Breaks(w) ==
    /\ w \in Unsteady /\ w \notin broken
    /\ broken' = broken \union {w}
    /\ UNCHANGED <<promises, created, listening, toServer, toClient, jobs, activeRequests, serving>>

-----------------------------------------------------------------------------
(* JsonRpcServer                                                           *)

Received(w) == toServer' = [toServer EXCEPT ![w] = Tail(@)]

Abort(id) ==
    jobs' = [j \in DOMAIN jobs |-> jobs[j] \/ j = Job(activeRequests[id], id)]

\* handleMessage of a cancellation
HandleCancel(w) ==
    /\ serving /\ toServer[w] # <<>> /\ Head(toServer[w]).type = "cancel"
    /\ Abort(Head(toServer[w]).id)
    /\ Received(w)
    /\ UNCHANGED <<promises, windowVars, toClient, activeRequests, serving>>

\* handleMessage of a request, up to the await of its handler. A request with
\* the same id from another client takes its place in activeRequests.
HandleRequest(w) ==
    /\ serving /\ toServer[w] # <<>> /\ Head(toServer[w]).type = "request"
    /\ LET c  == Head(toServer[w]).client
           id == Head(toServer[w]).id
       IN  /\ jobs' = [j \in DOMAIN jobs \union {Job(c, id)} |->
                          IF j \in DOMAIN jobs THEN jobs[j] ELSE FALSE]
           /\ activeRequests' = [activeRequests EXCEPT ![id] = c]
    /\ Received(w)
    /\ UNCHANGED <<promises, windowVars, toClient, serving>>

\* The listener is gone: the message is dropped.
Drop(w) ==
    /\ ~serving /\ toServer[w] # <<>>
    /\ Received(w)
    /\ UNCHANGED <<promises, windowVars, toClient, jobs, activeRequests, serving>>

BugHandled(c, id) ==
    /\ JobRuns(c, id)
    /\ \E result \in Results, d \in Clients : Len(promises[d]) >= id /\ Reply(d, id, result)
    /\ jobs' = [j \in DOMAIN jobs \ {Job(c, id)} |-> jobs[j]]
    /\ activeRequests' = [activeRequests EXCEPT ![id] = NoClient]
    /\ UNCHANGED <<promises, windowVars, toServer, serving>>

\* The handler returns or throws: the window that asked is answered, and the
\* id is deleted from activeRequests, whoever has it by now.
Handled(c, id) ==
    /\ JobRuns(c, id)
    /\ \E result \in Results : Reply(c, id, result)
    /\ jobs' = [j \in DOMAIN jobs \ {Job(c, id)} |-> jobs[j]]
    /\ activeRequests' = [activeRequests EXCEPT ![id] = NoClient]
    /\ UNCHANGED <<promises, windowVars, toServer, serving>>

\* dispose, when the plugin is unloaded: what is active is aborted.
DisposeServer ==
    /\ serving
    /\ serving' = FALSE
    /\ jobs' = [j \in DOMAIN jobs |-> jobs[j] \/ activeRequests[j.id] = j.client]
    /\ activeRequests' = [id \in Ids |-> NoClient]
    /\ UNCHANGED <<promises, windowVars, toServer, toClient>>

-----------------------------------------------------------------------------
RpcInit ==
    /\ promises = [c \in Clients |-> <<>>]
    /\ created = [w \in Windows |-> 1] /\ listening = Windows /\ broken = {}
    /\ toServer = [w \in Windows |-> <<>>] /\ toClient = [w \in Windows |-> <<>>]
    /\ jobs = [j \in {} |-> FALSE] /\ activeRequests = [id \in Ids |-> NoClient]
    /\ serving = TRUE

RpcNext ==
    \/ \E w \in Windows :
          \/ NewClient(w) \/ ClientHandles(w) \/ DisposeClient(w) \/ Breaks(w)
          \/ HandleCancel(w) \/ HandleRequest(w) \/ Drop(w)
    \/ \E c \in Clients :
          \/ request(c)
          \/ \E id \in Ids : GiveUp(c, id) \/ Handled(c, id)
    \/ DisposeServer

\* The timer of every request fires.
RpcFairness == \A c \in Clients, id \in Ids : WF_rpcVars(GiveUp(c, id))

RpcSpec == RpcInit /\ [][RpcNext]_rpcVars /\ RpcFairness

-----------------------------------------------------------------------------
\* Messages and jobs have ids that their client has given to a request.
RpcTypeOK ==
    /\ promises \in [Clients -> Seq({"pending", "resolved", "rejected", "gaveUp", "lost"})]
    /\ \A w \in Windows :
          /\ \A i \in DOMAIN toServer[w] :
                toServer[w][i].id \in DOMAIN promises[toServer[w][i].client]
          /\ toServer[w] \in Seq([type : {"request", "cancel"}, client : Clients, id : Ids])
          /\ toClient[w] \in Seq([client : Clients, id : Ids, result : Results])
    /\ created \in [Windows -> 1..MaxClients]
    /\ listening \subseteq Windows /\ broken \subseteq Windows
    /\ DOMAIN jobs \subseteq [client : Clients, id : Ids]
    /\ \A j \in DOMAIN jobs : jobs[j] \in BOOLEAN
    /\ activeRequests \in [Ids -> Clients \union {NoClient}]
    /\ serving \in BOOLEAN

\* A call is answered by the handler that ran for it, when that has ended, or by the late
\* answer to an earlier client of the same window: as long as its handler runs, or before
\* it has begun, no other window's call with the same id can settle it.
AnsweredByItsHandler ==
    [][\A c \in Clients : \A id \in DOMAIN promises[c] :
          promises[c][id] = "pending" /\ promises'[c][id] = "resolved"
             => LET w == Window(c)
                    answered == Head(toClient[w]).client
                IN  \/ /\ answered = c /\ ~JobRuns(c, id)
                       /\ \A i \in DOMAIN toServer[w] :
                             toServer[w][i] # [type |-> "request", client |-> c, id |-> id]
                    \/ Window(answered) = w /\ answered[2] < c[2]]_rpcVars

\* Every call is settled while its window lives, whatever happens to the
\* server, to its handler and to the messages.
CallsSettle ==
    LET unsettled(c) == {id \in DOMAIN promises[c] : promises[c][id] \in {"pending", "lost"}}
        open == {c \in Clients : Window(c) \notin broken /\ unsettled(c) # {}}
    IN  open # {} ~> open = {}

\* Every call is settled, and by nothing but the end of its own handler, or of that of an
\* earlier client of its window, although all clients choose the same ids.
CallsSettleRightly == AnsweredByItsHandler /\ CallsSettle
=============================================================================
