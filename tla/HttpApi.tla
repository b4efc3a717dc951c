------------------------------ MODULE HttpApi ------------------------------
(***************************************************************************)
(* The local HTTP API of the desktop app: HttpApiService.setConfig, start, *)
(* stop, restart and registerRoute. Each of them is an operation that      *)
(* awaits the end of a server and a free port, and nothing keeps two of    *)
(* them apart: setConfig and restart are called over IPC, by plugins and   *)
(* over the API itself, and registerRoute restarts without being awaited.  *)
(*                                                                         *)
(* A step is one task of the main process. http.Server.close() and         *)
(* WebSocketServer.close() call back when the last connection and the last *)
(* client are gone (Node.js and the ws library). Of the configuration only *)
(* 'enabled' is kept: a setting that forces a restart acts like restart(), *)
(* and which port is found is left out.                                    *)
(***************************************************************************)
EXTENDS Naturals, Sequences, FiniteSets, FiniteSetsExt

CONSTANTS MaxOps,     \* bound: operations that are begun
          HttpRoutes  \* the routes plugins may register

ASSUME HttpAssumption == MaxOps \in Nat \ {0} /\ IsFiniteSet(HttpRoutes)

VARIABLES
    enabled,     \* this.config.enabled
    routes,      \* this.routes
    server,      \* this.server (and this.app): a server's number, or 0
    wsServer,    \* this.wsServer: the number of the server it was made for, or 0
    servers,     \* every server made: its routes, whether it listens, and
                 \* whether a WebSocket client is connected to it
    ops,         \* the operations begun, in order
    overlapped   \* ghost: an operation began while another had not ended

httpVars == <<enabled, routes, server, wsServer, servers, ops, overlapped>>

\* keep: the 'enabled' that registerRoute puts back, as a set of one; via: the server
\* that handles the request the operation runs for, or 0; starting: it is past
\* its stop(); at: the server it waits for
Op(keep, via, starting) ==
    [pc |-> "begun", keep |-> keep, via |-> via, starting |-> starting, at |-> 0]

Pending == {o \in DOMAIN ops : ops[o].pc \notin {"ended", "failed"}}
Listening == {n \in DOMAIN servers : servers[n].listening}
WaitingFor(pc, n) == {o \in DOMAIN ops : ops[o].pc = pc /\ ops[o].at = n}

-----------------------------------------------------------------------------
(* stop(), alone or at the head of start(), up to its next await: the end  *)
(* of the WebSocket server ws, of the server srv, or none of them.         *)

Stop(op, ws, srv, on) ==
    CASE ws # 0                           -> [op EXCEPT !.pc = "closingWs", !.at = ws]
      [] ws = 0 /\ srv # 0                -> [op EXCEPT !.pc = "closing", !.at = srv]
      [] ws = 0 /\ srv = 0 /\ op.starting -> [op EXCEPT !.pc = "porting"]
      [] OTHER -> [op EXCEPT !.starting = TRUE, !.pc = IF on THEN "porting" ELSE "ended"]

\* server.close(): it accepts no more connections
CloseServer(n) == [servers EXCEPT ![n].listening = FALSE]

\* The stop() of the operations os is over: this.server and this.app are
\* cleared; each registerRoute puts its configuration back, in their order;
\* start() reads 'enabled' and begins with a stop() of its own.
Stopped(os, ws) ==
    LET before(o)   == {p \in os : p <= o /\ ops[p].keep # {} /\ ~ops[p].starting}
        enabledAt(o) == IF before(o) = {} THEN enabled ELSE ops[Max(before(o))].keep = {TRUE}
        next(o)     == CASE ops[o].starting                   -> Stop(ops[o], 0, 0, TRUE)
                         [] ~ops[o].starting /\ enabledAt(o)  ->
                               Stop([ops[o] EXCEPT !.starting = TRUE], ws, 0, TRUE)
                         [] OTHER                             -> [ops[o] EXCEPT !.pc = "ended"]
    IN  /\ server' = 0
        /\ enabled' = enabledAt(Max(os))
        /\ ops' = [o \in DOMAIN ops |-> IF o \in os THEN next(o) ELSE ops[o]]

\* A new operation runs up to its first await.
BeginOp(op, on) ==
    LET o == Stop(op, wsServer, server, on)
    IN  /\ Len(ops) < MaxOps
        /\ ops' = Append(ops, o)
        /\ enabled' = on
        /\ overlapped' = (overlapped \/ Pending # {})
        /\ servers' = IF o.pc = "closing" THEN CloseServer(server) ELSE servers
        /\ UNCHANGED <<server, wsServer>>

BugWsClosed(n) ==
    LET os == WaitingFor("closingWs", n)
    IN  /\ os # {} /\ ~servers[n].client
        /\ wsServer' = 0
        /\ Stopped(os, 0)
        /\ UNCHANGED <<servers, routes, overlapped>>

\* stop() resumes when the WebSocket server n has no client left: it goes on
\* with the server that this.server is by now.
WsClosed(n) ==
    LET os == WaitingFor("closingWs", n)
    IN  /\ os # {} /\ ~servers[n].client
        /\ wsServer' = 0
        /\ IF server = 0
           THEN Stopped(os, 0) /\ UNCHANGED servers
           ELSE /\ servers' = CloseServer(server)
                /\ ops' = [o \in DOMAIN ops |-> IF o \in os THEN Stop(ops[o], 0, server, TRUE)
                                                            ELSE ops[o]]
                /\ UNCHANGED <<enabled, server>>
        /\ UNCHANGED <<routes, overlapped>>

\* stop() resumes when no connection is left on n: a request that asked for
\* the restart is itself one of them until the operation has ended.
Closed(n) ==
    LET os == WaitingFor("closing", n)
    IN  /\ os # {} /\ ~servers[n].client
        /\ \A o \in Pending : ops[o].via # n
        /\ Stopped(os, wsServer)
        /\ UNCHANGED <<routes, wsServer, servers, overlapped>>

\* The end of start(), once findAvailablePort has found a port: the routes of
\* this moment are built in, and this.server is the new server.
ListenWith(o, built) ==
    /\ ops[o].pc = "porting"
    /\ servers' = Append(servers, [routes |-> built, listening |-> TRUE, client |-> FALSE])
    /\ server' = Len(servers) + 1
    /\ wsServer' = Len(servers) + 1
    /\ ops' = [ops EXCEPT ![o].pc = "ended"]
    /\ UNCHANGED <<enabled, routes, overlapped>>

Listen(o) == ListenWith(o, routes)

\* findAvailablePort rejects with an error other than EADDRINUSE.
ListenFails(o) ==
    /\ ops[o].pc = "porting"
    /\ ops' = [ops EXCEPT ![o].pc = "failed"]
    /\ UNCHANGED <<enabled, routes, server, wsServer, servers, overlapped>>

-----------------------------------------------------------------------------
(* The operations. via is 0 for a call over IPC or from a plugin, or the   *)
(* server whose management route was called.                               *)

\* The app's own start() when it is ready
startApi ==
    /\ ops = <<>> /\ enabled
    /\ BeginOp(Op({}, 0, TRUE), enabled)
    /\ UNCHANGED routes

setApiConfig(on, via) ==
    /\ on # enabled
    /\ BeginOp(Op({}, via, FALSE), on)
    /\ UNCHANGED routes

\* restart, and setConfig with another setting that forces one
restart(via) ==
    /\ BeginOp(Op({}, via, FALSE), enabled)
    /\ UNCHANGED routes

\* While the API runs it is restarted, with the configuration it has now.
ChangeRoutes(changed) ==
    /\ routes' = changed
    /\ IF server = 0 THEN UNCHANGED <<enabled, server, wsServer, servers, ops, overlapped>>
                     ELSE BeginOp(Op({enabled}, 0, FALSE), enabled)

registerRoute(r) == r \notin routes /\ ChangeRoutes(routes \union {r})
disposeRoute(r) == r \in routes /\ ChangeRoutes(routes \ {r})

-----------------------------------------------------------------------------
(* The clients of the API.                                                 *)

SetClient(n, connected) ==
    /\ servers' = [servers EXCEPT ![n].client = connected]
    /\ UNCHANGED <<enabled, routes, server, wsServer, ops, overlapped>>

\* The upgrade handler hands clients to this.wsServer until a stop() closes it.
WsConnects(n) ==
    /\ n \in Listening /\ wsServer = n /\ ~servers[n].client
    /\ WaitingFor("closingWs", n) = {}
    /\ SetClient(n, TRUE)

WsLeaves(n) == servers[n].client /\ SetClient(n, FALSE)

\* A client gives up the request that restarts the API: its connection ends.
RequestAborted(o) ==
    /\ o \in Pending /\ ops[o].via # 0
    /\ ops' = [ops EXCEPT ![o].via = 0]
    /\ UNCHANGED <<enabled, routes, server, wsServer, servers, overlapped>>

-----------------------------------------------------------------------------
HttpInit ==
    /\ enabled \in BOOLEAN
    /\ routes = {} /\ server = 0 /\ wsServer = 0 /\ servers = <<>> /\ ops = <<>>
    /\ overlapped = FALSE

HttpNext ==
    \/ startApi
    \/ \E via \in {0} \union Listening :
          restart(via) \/ \E on \in BOOLEAN : setApiConfig(on, via)
    \/ \E r \in HttpRoutes : registerRoute(r) \/ disposeRoute(r)
    \/ \E n \in DOMAIN servers : WsClosed(n) \/ Closed(n) \/ WsConnects(n) \/ WsLeaves(n)
    \/ \E o \in DOMAIN ops : Listen(o) \/ ListenFails(o) \/ RequestAborted(o)

\* Node.js calls back, and WebSocket clients leave. No client has to abort.
HttpFairness ==
    /\ \A n \in 1..MaxOps : /\ WF_httpVars(n \in DOMAIN servers /\ WsClosed(n))
                            /\ WF_httpVars(n \in DOMAIN servers /\ Closed(n))
                            /\ WF_httpVars(n \in DOMAIN servers /\ WsLeaves(n))
    /\ \A o \in 1..MaxOps : WF_httpVars(o \in DOMAIN ops /\ (Listen(o) \/ ListenFails(o)))

HttpSpec == HttpInit /\ [][HttpNext]_httpVars /\ HttpFairness

-----------------------------------------------------------------------------
\* The servers the service refers to are servers it has made.
HttpTypeOK ==
    /\ enabled \in BOOLEAN
    /\ routes \subseteq HttpRoutes
    /\ server \in 0..Len(servers) /\ wsServer \in 0..Len(servers)
    /\ servers \in Seq([routes : SUBSET HttpRoutes, listening : BOOLEAN, client : BOOLEAN])
    /\ ops \in Seq([pc : {"closingWs", "closing", "porting", "ended", "failed"},
                    keep : SUBSET BOOLEAN, via : 0..Len(servers),
                    starting : BOOLEAN, at : 0..Len(servers)])
    /\ overlapped \in BOOLEAN

\* Operations that do not overlap leave one server at most, the one that the
\* next stop() closes, and it listens exactly when the API is enabled, unless
\* the last start found no port.
OneListener ==
    ~overlapped =>
        /\ Listening \subseteq {server}
        /\ ops # <<>> /\ Pending = {} =>
              ((Listening # {}) <=> (enabled /\ ops[Len(ops)].pc # "failed"))

\* However registrations, their disposal, configuration changes and restarts
\* overlap, when nothing is pending the server that the service knows answers
\* exactly the routes that are registered.
ServesItsRoutes ==
    Pending = {} /\ server # 0 => servers[server].routes = routes

\* However operations overlap, all of them end, unless one was asked for over the
\* API: that one waits for the end of the request that waits for it.
OperationsEnd ==
    Pending # {} ~> (Pending = {} \/ \E o \in Pending : ops[o].via # 0)

\* While operations do not overlap the API has the one listener it should have,
\* and always it answers with the routes that are registered.
ServesAsAsked == OneListener /\ ServesItsRoutes
=============================================================================
