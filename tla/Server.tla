------------------------------- MODULE Server -------------------------------
(***************************************************************************)
(* The life of the sso process: its start in steps that may each fail, the *)
(* gRPC listener, the HTTP gateway that calls it over loopback, the watcher *)
(* that shuts both down, main, and the database pool, composed with the    *)
(* rate limiter every RPC passes.  A step is what one goroutine does       *)
(* between two points where it may block.                                  *)
(***************************************************************************)
EXTENDS RateLimiter

VARIABLES
  httpOn,    \* cfg.HTTP.Enabled
  signalled, \* SIGINT or SIGTERM arrived
  stopCh,    \* App.stopCh is closed
  grpc,      \* the gRPC server
  http,      \* the HTTP server
  grpcRun,   \* the goroutine in grpcServer.Run
  httpRun,   \* the goroutine in httpServer.Run
  watcher,   \* the shutdown watcher
  run,       \* App.Run has returned, doneCh is closed
  main,      \* run() of cmd/sso
  pool,      \* the database pool
  web,       \* gateway requests in flight, and whether they made their RPC
  forced     \* history: servers whose graceful stop timed out

lifeVars == <<httpOn, signalled, stopCh, grpc, http, grpcRun, httpRun, watcher,
              run, main, pool, web, forced>>
vars == <<limiterVars, lifeVars>>

(* What main is building, in this order.                                    *)
Startup == {"config", "database", "modules", "auth", "limiter", "grpc", "http"}

ServerTypeOK ==
  /\ LimiterTypeOK
  /\ httpOn \in BOOLEAN /\ signalled \in BOOLEAN /\ stopCh \in BOOLEAN
  /\ grpc \in {"starting", "serving", "draining", "stopped", "early"}
  /\ http \in {"starting", "serving", "draining", "stopped"}
  /\ grpcRun \in {"running", "ok", "error"}
  /\ httpRun \in {"running", "ok", "error"}
  /\ watcher \in {"waiting", "http", "grpc", "done"}
  /\ run \in {"running", "returned"}
  /\ main \in Startup \cup {"select", "stop", "close", "returned"}
  /\ pool \in {"none", "open", "closing", "closed", "abandoned"}
  /\ web \in [Requests -> {"none", "open", "called"}]
  /\ forced \subseteq {"http", "grpc"}

Init ==
  /\ LimiterInit
  /\ httpOn \in BOOLEAN
  /\ signalled = FALSE /\ stopCh = FALSE
  /\ grpc = "starting" /\ http = "starting"
  /\ grpcRun = "running"
  /\ httpRun = IF httpOn THEN "running" ELSE "ok"
  /\ watcher = "waiting" /\ run = "running" /\ main = "config"
  /\ pool = "none"
  /\ web = [r \in Requests |-> "none"]
  /\ forced = {}

Up == main \notin Startup \cup {"returned"} \* Run was called, main is there

-----------------------------------------------------------------------------
(* The start: run() of cmd/sso and bootstrap.New.  A step that fails ends   *)
(* the process, and New closes the pool first.                              *)

StartUnchanged == UNCHANGED <<limiterVars, httpOn, signalled, stopCh, grpc, http,
                              grpcRun, httpRun, watcher, run, web, forced>>

Fails == main' = "returned" /\ pool' = IF pool = "open" THEN "closed" ELSE pool

Builds(step, next) ==
  /\ main = step
  /\ \/ main' = next /\ UNCHANGED pool
     \/ Fails
  /\ StartUnchanged

LoadConfig == Builds("config", "database")

(* sql.Open and a ping; a pool that does not answer is closed again.        *)
OpenDatabase ==
  /\ main = "database"
  /\ \/ main' = "modules" /\ pool' = "open"
     \/ Fails
  /\ StartUnchanged

WireModules      == Builds("modules", "auth")
WireAuth         == Builds("auth", "limiter")
BuildRateLimiter == Builds("limiter", "grpc")
BuildGRPCServer  == Builds("grpc", IF httpOn THEN "http" ELSE "select")

(* Mutant: the last step forgets the pool.                                  *)
BuildHTTPServerLeaks ==
  /\ main = "http" /\ main' \in {"select", "returned"}
  /\ UNCHANGED pool /\ StartUnchanged

BuildHTTPServer == Builds("http", "select")

Start == \/ LoadConfig \/ OpenDatabase \/ WireModules \/ WireAuth
         \/ BuildRateLimiter \/ BuildGRPCServer \/ BuildHTTPServer

-----------------------------------------------------------------------------
(* Listeners.                                                               *)

GRPCListenerUnchanged == UNCHANGED <<limiterVars, httpOn, signalled, http,
                                     httpRun, watcher, run, main, pool, web, forced>>

(* net.Listen succeeds and Serve accepts, or the port is not to be had.     *)
GRPCListens ==
  /\ Up /\ grpcRun = "running" /\ grpc = "starting"
  /\ \/ grpc' = "serving" /\ UNCHANGED <<grpcRun, stopCh>>
     \/ grpcRun' = "error" /\ stopCh' = TRUE /\ UNCHANGED grpc
  /\ GRPCListenerUnchanged

(* Serve blocks as long as its listener accepts, for ever if nothing goes   *)
(* wrong; when Accept fails it leaves open connections alone.               *)
GRPCServeFails ==
  /\ Up /\ grpcRun = "running" /\ grpc = "serving"
  /\ grpcRun' = "error" /\ stopCh' = TRUE /\ UNCHANGED grpc
  /\ GRPCListenerUnchanged

(* After a stop Serve returns; a server stopped before it served returns    *)
(* ErrServerStopped.                                                        *)
GRPCReturns ==
  /\ Up /\ grpcRun = "running"
  /\ \/ grpc = "stopped" /\ grpcRun' = "ok" /\ UNCHANGED stopCh
     \/ grpc = "early" /\ grpcRun' = "error" /\ stopCh' = TRUE
  /\ UNCHANGED grpc /\ GRPCListenerUnchanged

GRPCRun == GRPCListens \/ GRPCServeFails \/ GRPCReturns

HTTPListenerUnchanged == UNCHANGED <<limiterVars, httpOn, signalled, grpc,
                                     grpcRun, watcher, run, main, pool, web, forced>>

HTTPListens ==
  /\ Up /\ httpRun = "running" /\ http = "starting"
  /\ \/ http' = "serving" /\ UNCHANGED <<httpRun, stopCh>>
     \/ httpRun' = "error" /\ stopCh' = TRUE /\ UNCHANGED http
  /\ HTTPListenerUnchanged

HTTPServeFails ==
  /\ Up /\ httpRun = "running" /\ http = "serving"
  /\ httpRun' = "error" /\ stopCh' = TRUE /\ UNCHANGED http
  /\ HTTPListenerUnchanged

(* ErrServerClosed, from the moment of Shutdown on, is not an error.        *)
HTTPReturns ==
  /\ Up /\ httpRun = "running" /\ http \in {"draining", "stopped"}
  /\ httpRun' = "ok" /\ UNCHANGED <<http, stopCh>>
  /\ HTTPListenerUnchanged

HTTPRun == HTTPListens \/ HTTPServeFails \/ HTTPReturns

-----------------------------------------------------------------------------
(* Requests.                                                                *)

(* An RPC comes in, straight or as the call of a gateway request.  While    *)
(* the server drains, streams begun on a live connection before it learnt   *)
(* of the stop still come through.                                          *)
Receive(r) ==
  /\ Up /\ grpc \in {"serving", "draining"} /\ web[r] # "called"
  /\ Bind(r)
  /\ web' = [web EXCEPT ![r] = IF web[r] = "open" THEN "called" ELSE "none"]
  /\ UNCHANGED <<httpOn, signalled, stopCh, grpc, http, grpcRun, httpRun,
                 watcher, run, main, pool, forced>>

Serve(r) == Up /\ (Unary(r) \/ HandlerReturns(r)) /\ UNCHANGED lifeVars

(* The gateway takes a request, and answers it when its call is over or     *)
(* could not be made, when it needs none, or when its client has gone.      *)
(* Shutdown lets a connection accepted just before still send its request.  *)
GatewayAccepts(r) ==
  /\ Up /\ http \in {"serving", "draining"} /\ web[r] = "none" /\ at[r] = "idle"
  /\ web' = [web EXCEPT ![r] = "open"]
  /\ UNCHANGED <<limiterVars, httpOn, signalled, stopCh, grpc, http, grpcRun,
                 httpRun, watcher, run, main, pool, forced>>

GatewayAnswers(r) ==
  /\ Up /\ web[r] # "none"
  /\ web' = [web EXCEPT ![r] = "none"]
  /\ UNCHANGED <<limiterVars, httpOn, signalled, stopCh, grpc, http, grpcRun,
                 httpRun, watcher, run, main, pool, forced>>

-----------------------------------------------------------------------------
(* Shutdown.                                                                *)

Signal ==
  /\ main # "returned" /\ ~ signalled /\ signalled' = TRUE
  /\ UNCHANGED <<limiterVars, httpOn, stopCh, grpc, http, grpcRun, httpRun,
                 watcher, run, main, pool, web, forced>>

(* stopCh was closed, or the errgroup's context is cancelled by an error.   *)
StopRequested == stopCh \/ grpcRun = "error" \/ httpRun = "error"

BeginGRPCStop == grpc' = IF grpc = "starting" THEN "early" ELSE "draining"

(* Mutant: the gRPC server goes first.                                      *)
WatcherWakesGRPCFirst ==
  /\ Up /\ watcher = "waiting" /\ StopRequested
  /\ watcher' = "http" /\ http' = "draining" /\ BeginGRPCStop
  /\ UNCHANGED <<limiterVars, httpOn, signalled, stopCh, grpcRun, httpRun, run,
                 main, pool, web, forced>>

(* HTTP is shut down first, then gRPC.                                      *)
WatcherWakes ==
  /\ Up /\ watcher = "waiting" /\ StopRequested
  /\ IF httpOn
     THEN watcher' = "http" /\ http' = "draining" /\ UNCHANGED grpc
     ELSE watcher' = "grpc" /\ BeginGRPCStop /\ UNCHANGED http
  /\ UNCHANGED <<limiterVars, httpOn, signalled, stopCh, grpcRun, httpRun, run,
                 main, pool, web, forced>>

(* Shutdown waits for the gateway's requests or its deadline; closing the   *)
(* gateway's connection then ends those still there.                        *)
HTTPStop ==
  /\ Up /\ watcher = "http"
  /\ \/ (\A r \in Requests : web[r] = "none") /\ UNCHANGED forced
     \/ (\E r \in Requests : web[r] # "none") /\ forced' = forced \cup {"http"}
  /\ http' = "stopped"
  /\ web' = [r \in Requests |-> "none"]
  /\ watcher' = "grpc" /\ BeginGRPCStop
  /\ UNCHANGED <<limiterVars, httpOn, signalled, stopCh, grpcRun, httpRun, run,
                 main, pool>>

GRPCStopped ==
  /\ grpc' = IF grpc = "early" THEN "early" ELSE "stopped"
  /\ watcher' = "done"
  /\ UNCHANGED <<limiterVars, httpOn, signalled, stopCh, http, grpcRun,
                 httpRun, run, main, pool, web>>

Drained == \A r \in Requests : at[r] = "idle"

(* Mutant: no timer, the graceful stop waits for the handlers.              *)
GRPCStopUntimed ==
  Up /\ watcher = "grpc" /\ Drained /\ UNCHANGED forced /\ GRPCStopped

(* GracefulStop waits for the RPCs in flight; when the timer fires first,   *)
(* Stop cuts their connections and does not wait for the handlers.          *)
GRPCStop ==
  /\ Up /\ watcher = "grpc"
  /\ \/ Drained /\ UNCHANGED forced
     \/ ~ Drained /\ forced' = forced \cup {"grpc"}
  /\ GRPCStopped

RunReturns ==
  /\ Up /\ run = "running"
  /\ grpcRun # "running" /\ httpRun # "running" /\ watcher = "done"
  /\ run' = "returned"
  /\ UNCHANGED <<limiterVars, httpOn, signalled, stopCh, grpc, http, grpcRun,
                 httpRun, watcher, main, pool, web, forced>>

(* Mutant: on a signal main waits for Run, which nobody has told to stop.   *)
MainSelectsUntold ==
  /\ main = "select"
  /\ \/ signalled /\ main' = "stop"
     \/ run = "returned" /\ main' = "returned"
  /\ UNCHANGED <<limiterVars, httpOn, signalled, stopCh, grpc, http, grpcRun,
                 httpRun, watcher, run, pool, web, forced>>

(* main waits for Run or for a signal.  If Run returns first the process    *)
(* ends without closing the pool.                                           *)
MainSelects ==
  /\ main = "select"
  /\ \/ signalled /\ main' = "stop" /\ stopCh' = TRUE
     \/ run = "returned" /\ main' = "returned" /\ UNCHANGED stopCh
  /\ UNCHANGED <<limiterVars, httpOn, signalled, grpc, http, grpcRun, httpRun,
                 watcher, run, pool, web, forced>>

(* Mutant: Stop does not wait for Run.                                      *)
StopUnwaited ==
  /\ main = "stop"
  /\ main' = "close" /\ pool' = "closing"
  /\ UNCHANGED <<limiterVars, httpOn, signalled, stopCh, grpc, http, grpcRun,
                 httpRun, watcher, run, web, forced>>

(* App.Stop waits for Run to return, then closes the pool.                  *)
Stop ==
  /\ main = "stop" /\ run = "returned"
  /\ main' = "close" /\ pool' = "closing"
  /\ UNCHANGED <<limiterVars, httpOn, signalled, stopCh, grpc, http, grpcRun,
                 httpRun, watcher, run, web, forced>>

(* Close returns, or its timer fires first.                                 *)
closeDB ==
  /\ main = "close"
  /\ main' = "returned"
  /\ pool' \in {"closed", "abandoned"}
  /\ UNCHANGED <<limiterVars, httpOn, signalled, stopCh, grpc, http, grpcRun,
                 httpRun, watcher, run, web, forced>>

-----------------------------------------------------------------------------
(* The clock and the sweeps.  A signal ends the sweeps sooner or later,     *)
(* which nothing here relies on.                                            *)
Background == Up /\ (Tick \/ SweepBegins \/ evictIdle) /\ UNCHANGED lifeVars

Lifecycle == \/ GRPCRun \/ HTTPRun \/ WatcherWakes \/ HTTPStop \/ GRPCStop
             \/ RunReturns \/ MainSelects \/ Stop \/ closeDB

Next == \/ Start \/ Lifecycle \/ Signal \/ Background
        \/ \E r \in Requests : \/ Receive(r) \/ Serve(r)
                               \/ GatewayAccepts(r) \/ GatewayAnswers(r)

(* The start and each goroutine of the shutdown get on, timers included: an *)
(* attempt to listen has an outcome, and Serve returns once it was stopped. *)
(* Nothing is assumed of clients, of handlers or of signals, nor that a     *)
(* listener that serves ever fails.                                         *)
Spec == /\ Init /\ [][Next]_vars
        /\ WF_vars(Start)
        /\ WF_vars(GRPCListens) /\ WF_vars(GRPCReturns)
        /\ WF_vars(HTTPListens) /\ WF_vars(HTTPReturns)
        /\ WF_vars(WatcherWakes) /\ WF_vars(HTTPStop) /\ WF_vars(GRPCStop)
        /\ WF_vars(RunReturns) /\ WF_vars(MainSelects)
        /\ WF_vars(Stop) /\ WF_vars(closeDB)

-----------------------------------------------------------------------------
(* Properties.                                                              *)

(* A process that ends before it ran has no open pool: whichever step of    *)
(* the start failed, bootstrap.New released what it had acquired.           *)
FailedStartReleasesPool ==
  main = "returned" /\ run = "running" => pool # "open"

(* The pool is closed under no running handler, unless the graceful stop of *)
(* the gRPC server timed out and cut them off.                              *)
PoolOutlivesHandlers ==
  pool \notin {"none", "open"} /\ "grpc" \notin forced => Drained

(* As long as the gateway has requests the gRPC server behind it has not    *)
(* been told to stop: whatever fails or times out, HTTP is torn down first. *)
GatewayCallsAreServed ==
  (\E r \in Requests : web[r] # "none") => grpc \in {"starting", "serving"}

(* Once a signal arrives or a listener fails the process ends, even if no   *)
(* handler ever returns and the listeners would have served for ever: Stop  *)
(* tells Run, Run tells the servers, and everyone waited for comes back.    *)
ShutdownCompletes ==
  (signalled \/ grpcRun = "error" \/ httpRun = "error") ~> (main = "returned")
=============================================================================
