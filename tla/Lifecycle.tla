------------------------------ MODULE Lifecycle ------------------------------
(***************************************************************************)
(* How the manager's main starts and stops its two servers: the gRPC       *)
(* server it waits for, and the HTTP server (manager/include/httplib.h)    *)
(* that serves /api/latest on a thread of its own.  A signal handler stops *)
(* both; it runs on whatever thread the signal reaches, here beside main.  *)
(***************************************************************************)
EXTENDS Naturals, FiniteSets

CONSTANTS
  Signals,       \* the SIGINTs and SIGTERMs the process may receive
  MaxConnections \* how many HTTP connections are open at once, at most

ASSUME LifecycleAssumption ==
  /\ IsFiniteSet(Signals)
  /\ MaxConnections \in Nat

VARIABLES
  main,          \* how far main has come
  grpc,          \* the gRPC server: "none", "serving", "shutdown" or "destroyed"
  g_grpc_server, \* g_grpc_server is set
  g_http_server, \* g_http_server is set
  handler,       \* where the handler of each signal is
  http,          \* where http_thread is in listen
  svr_sock,      \* svr_sock_ holds the "open" listening socket, or is "invalid"
  is_running,    \* is_running_
  connections,   \* the HTTP connections that are open
  asserts,       \* the program was built with assert enabled
  aborted,       \* an assert has failed
  late           \* history: the signals that came once main had cleared both pointers

globals    == <<g_grpc_server, g_http_server>>
httpServer == <<http, svr_sock, is_running, connections>>
process    == <<asserts, aborted, late>>
processVars == <<main, grpc, globals, handler, httpServer, process>>

ProcessInit ==
  /\ main = "starting"
  /\ grpc = "none"
  /\ g_grpc_server = FALSE /\ g_http_server = FALSE
  /\ handler = [s \in Signals |-> "pending"]
  /\ http = "none"
  /\ svr_sock = "invalid"
  /\ is_running = FALSE
  /\ connections = 0
  /\ asserts \in BOOLEAN
  /\ aborted = FALSE
  /\ late = {}

-----------------------------------------------------------------------------
(* httplib::Server::stop, up to and after its test.                        *)

\* Nothing to stop: the accept loop has not been entered, or has been left.
StopNothing == ~is_running /\ UNCHANGED process

\* The server runs and, as far as assert checks it, has its socket.
StopProceeds ==
  /\ is_running
  /\ svr_sock = "open" \/ ~asserts
  /\ UNCHANGED process

\* assert(svr_sock_ != INVALID_SOCKET) fails.
StopAborts ==
  /\ is_running
  /\ svr_sock = "invalid" /\ asserts
  /\ aborted' = TRUE
  /\ UNCHANGED <<asserts, late>>

\* exchange: whoever comes second closes nothing.
CloseSocket == svr_sock' = "invalid" /\ UNCHANGED <<http, is_running, connections>>

-----------------------------------------------------------------------------
(* SignalHandler.                                                          *)

Cleared == main \in {"stopping", "closing", "joining", "returned"}

\* The handler starts, and stops the HTTP server if there is one.
HandlerEnters(s) ==
  /\ main # "returned"
  /\ handler[s] = "pending"
  /\ handler' = [handler EXCEPT ![s] = IF g_http_server THEN "stop" ELSE "grpc"]
  /\ late' = IF Cleared THEN late \cup {s} ELSE late
  /\ UNCHANGED <<main, grpc, globals, httpServer, asserts, aborted>>

HandlerStops(s) ==
  /\ handler[s] = "stop" /\ main # "returned"
  /\ \/ StopNothing /\ handler' = [handler EXCEPT ![s] = "grpc"]
     \/ StopProceeds /\ handler' = [handler EXCEPT ![s] = "close"]
     \/ StopAborts /\ UNCHANGED handler
  /\ UNCHANGED <<main, grpc, globals, httpServer>>

HandlerCloses(s) ==
  /\ handler[s] = "close" /\ main # "returned"
  /\ CloseSocket
  /\ handler' = [handler EXCEPT ![s] = "grpc"]
  /\ UNCHANGED <<main, grpc, globals, process>>

\* Tests g_grpc_server; Shutdown is the next step.
HandlerTests(s) ==
  /\ handler[s] = "grpc"
  /\ handler' = [handler EXCEPT ![s] = IF g_grpc_server THEN "shutdown" ELSE "done"]
  /\ UNCHANGED <<main, grpc, globals, httpServer, process>>

\* The call of Shutdown takes effect; the handler is still inside it.
HandlerShutsDown(s) ==
  /\ handler[s] = "shutdown" /\ main # "returned"
  /\ handler' = [handler EXCEPT ![s] = "leaving"]
  /\ grpc' = IF grpc = "serving" THEN "shutdown" ELSE grpc
  /\ UNCHANGED <<main, globals, httpServer, process>>

\* Shutdown, and with it the handler, returns.
HandlerReturns(s) ==
  /\ handler[s] = "leaving"
  /\ handler' = [handler EXCEPT ![s] = "done"]
  /\ UNCHANGED <<main, grpc, globals, httpServer, process>>

\* The handler goes on to a server that main, having returned, has destroyed.
HandlerStrays(s) ==
  /\ handler[s] \in {"stop", "close", "shutdown"} /\ main = "returned"
  /\ handler' = [handler EXCEPT ![s] = "stray"]
  /\ UNCHANGED <<main, grpc, globals, httpServer, process>>

Handler(s) ==
  HandlerEnters(s) \/ HandlerStops(s) \/ HandlerCloses(s) \/ HandlerTests(s)
    \/ HandlerShutsDown(s) \/ HandlerReturns(s) \/ HandlerStrays(s)

-----------------------------------------------------------------------------
(* http_thread: bind_to_port, then listen_internal.                        *)

Bind ==
  /\ http = "created"
  /\ \/ http' = "bound" /\ svr_sock' = "open"
     \/ http' = "returned" /\ UNCHANGED svr_sock      \* the port is taken
  /\ UNCHANGED <<main, grpc, globals, handler, is_running, connections, process>>

EnterLoop ==
  /\ http = "bound"
  /\ http' = "accepting"
  /\ is_running' = TRUE
  /\ UNCHANGED <<main, grpc, globals, handler, svr_sock, connections, process>>

Accept ==
  /\ http = "accepting" /\ svr_sock = "open"
  /\ connections < MaxConnections
  /\ connections' = connections + 1
  /\ UNCHANGED <<main, grpc, globals, handler, http, svr_sock, is_running, process>>

\* A client leaves, or keep_alive gives up: it looks at svr_sock_ and at its time-out.
Disconnect ==
  /\ connections > 0
  /\ connections' = connections - 1
  /\ UNCHANGED <<main, grpc, globals, handler, http, svr_sock, is_running, process>>

\* Defect: a failing accept is always tried again.
LeaveLoop_Never == FALSE /\ UNCHANGED processVars

\* The closed socket ends the loop, and TaskQueue::shutdown waits for the connections.
LeaveLoop ==
  /\ http = "accepting" /\ svr_sock = "invalid"
  /\ http' = "draining"
  /\ UNCHANGED <<main, grpc, globals, handler, svr_sock, is_running, connections, process>>

\* Defect for AssertSparesFirst: the loop also takes back svr_sock_.
AcceptFails_TakesBack ==
  /\ http = "accepting" /\ svr_sock = "open"
  /\ http' = "draining"
  /\ svr_sock' = "invalid"
  /\ UNCHANGED <<main, grpc, globals, handler, is_running, connections, process>>

\* accept fails although nobody has closed the socket (and not for want of descriptors, nor
\* interrupted): the loop closes it and ends, and svr_sock_ keeps its number.
AcceptFails ==
  /\ http = "accepting" /\ svr_sock = "open"
  /\ http' = "draining"
  /\ UNCHANGED <<main, grpc, globals, handler, svr_sock, is_running, connections, process>>

ListenReturns ==
  /\ http = "draining" /\ connections = 0
  /\ http' = "returned"
  /\ is_running' = FALSE
  /\ UNCHANGED <<main, grpc, globals, handler, svr_sock, connections, process>>

HttpThread == Bind \/ EnterLoop \/ LeaveLoop \/ ListenReturns

-----------------------------------------------------------------------------
(* main.                                                                   *)

ServeGrpc ==
  /\ main = "starting"
  /\ main' = "serving"
  /\ grpc' = "serving"
  /\ UNCHANGED <<globals, handler, httpServer, process>>

PublishGrpc ==
  /\ main = "serving"
  /\ main' = "published"
  /\ g_grpc_server' = TRUE
  /\ UNCHANGED <<grpc, g_http_server, handler, httpServer, process>>

PublishHttp ==
  /\ main = "published"
  /\ main' = "launching"
  /\ g_http_server' = TRUE
  /\ UNCHANGED <<grpc, g_grpc_server, handler, httpServer, process>>

LaunchHttp ==
  /\ main = "launching"
  /\ main' = "waiting"
  /\ http' = "created"
  /\ UNCHANGED <<grpc, globals, handler, svr_sock, is_running, connections, process>>

\* Defect for StrayNeedsOverlap: the gRPC server's pointer is left as it is.
ClearGrpc_Not ==
  /\ main = "clearing"
  /\ main' = "stopping"
  /\ UNCHANGED <<grpc, globals, handler, httpServer, process>>

\* Wait returns once Shutdown has been called, and main clears the first pointer.
WaitReturns ==
  /\ main = "waiting" /\ grpc = "shutdown"
  /\ main' = "clearing"
  /\ g_http_server' = FALSE
  /\ UNCHANGED <<grpc, g_grpc_server, handler, httpServer, process>>

ClearGrpc ==
  /\ main = "clearing"
  /\ main' = "stopping"
  /\ g_grpc_server' = FALSE
  /\ UNCHANGED <<grpc, g_http_server, handler, httpServer, process>>

MainStops ==
  /\ main = "stopping"
  /\ \/ StopNothing /\ main' = "joining"
     \/ StopProceeds /\ main' = "closing"
     \/ StopAborts /\ UNCHANGED main
  /\ UNCHANGED <<grpc, globals, handler, httpServer>>

MainCloses ==
  /\ main = "closing"
  /\ CloseSocket
  /\ main' = "joining"
  /\ UNCHANGED <<grpc, globals, handler, process>>

\* Defect: main returns without joining http_thread.
Return_Detached ==
  /\ main = "joining"
  /\ main' = "returned"
  /\ grpc' = "destroyed"
  /\ UNCHANGED <<globals, handler, httpServer, process>>

\* The join returns, and main with it: http_svr and server are destroyed.
Return ==
  /\ main = "joining" /\ http = "returned"
  /\ main' = "returned"
  /\ grpc' = "destroyed"
  /\ UNCHANGED <<globals, handler, httpServer, process>>

MainThread ==
  ServeGrpc \/ PublishGrpc \/ PublishHttp \/ LaunchHttp \/ WaitReturns \/ ClearGrpc
    \/ MainStops \/ MainCloses \/ Return

ProcessNext ==
  /\ ~aborted
  /\ \/ \E s \in Signals : Handler(s)
     \/ HttpThread \/ Accept \/ AcceptFails \/ Disconnect
     \/ MainThread

\* Every thread runs when it can, and no HTTP connection stays open for ever.
ProcessFairness ==
  /\ \A s \in Signals : WF_processVars(~aborted /\ Handler(s) /\ handler[s] # "pending")
  /\ WF_processVars(~aborted /\ HttpThread)
  /\ WF_processVars(~aborted /\ Disconnect)
  /\ WF_processVars(~aborted /\ MainThread)

ProcessSpec == ProcessInit /\ [][ProcessNext]_processVars /\ ProcessFairness

-----------------------------------------------------------------------------
(* Properties.                                                             *)

\* Once main has returned its objects are gone, and no HTTP connection is served from
\* them any more.
NothingOutlivesMain ==
  main = "returned" => http = "returned" /\ connections = 0

\* A signal handler goes on to a destroyed server only beside another: one handler has shut
\* the gRPC server down and let main return, and the one that strays had come before main
\* cleared the pointers.  One signal alone, or one that comes later, does no such harm.
StrayNeedsOverlap ==
  \A s \in Signals : handler[s] = "stray" =>
    s \notin late /\ \E t \in Signals : handler[t] \in {"leaving", "done"}

\* Once the gRPC server is shut down and the listening socket of a running HTTP server
\* is closed, main returns, unless an assert ends it first.
StopsWhenRunning ==
  (grpc = "shutdown" /\ is_running /\ svr_sock = "invalid")
    ~> (main = "returned" \/ aborted)

Past == {"grpc", "shutdown", "leaving", "done"}

\* The assert in stop (httplib.h:11617, a running server has its listening socket) spares
\* the first to call it: it fails, if at all, in main's own call or in a second handler's,
\* when another handler has got past its call, while the accept loop is still winding down.
AssertSparesFirst ==
  aborted =>
    \E s \in Signals :
      /\ handler[s] \in Past
      /\ main = "stopping" \/ \E t \in Signals : handler[t] = "stop"
=============================================================================
