---------------------------- MODULE ServerProofs ----------------------------
(***************************************************************************)
(* Proofs for Server, for every number of requests and every rate policy:  *)
(* the order of the shutdown keeps the pool under the handlers and the     *)
(* gRPC server under the gateway, and the process keeps the limiter's      *)
(* promises.                                                               *)
(***************************************************************************)
EXTENDS Server, RateLimiterProofs

(* While main starts the pool is there from its step on, and nobody else    *)
(* has moved; Stop closes it only after Run; a process that ended before    *)
(* Run returned is one whose start failed.                                  *)
MainOK ==
  /\ main \in {"config", "database"} => pool = "none"
  /\ main \in (Startup \ {"config", "database"}) \cup {"select", "stop"}
       => pool = "open"
  /\ main \in Startup => run = "running" /\ Drained
  /\ main = "close" => run = "returned"
  /\ main = "returned" /\ run = "running" => pool # "open" /\ Drained

(* How far the servers are for each state of the watcher.                   *)
WatcherOK ==
  /\ watcher \in {"waiting", "http"} => grpc \in {"starting", "serving"}
  /\ watcher \in {"grpc", "done"} => grpc \notin {"starting", "serving"}
  /\ watcher # "waiting" => http # "serving"
  /\ watcher = "http" => http = "draining"
  /\ watcher \in {"grpc", "done"} /\ httpOn => http = "stopped"
  /\ watcher = "done" => grpc \in {"stopped", "early"}
  /\ watcher = "done" => "grpc" \in forced \/ Drained
  /\ run = "returned" => watcher = "done"

(* The gateway has requests only while HTTP is on and not yet stopped.      *)
GatewayOK ==
  /\ ~ httpOn => http = "starting" /\ httpRun = "ok"
  /\ \/ \A r \in Requests : web[r] = "none"
     \/ httpOn /\ watcher \in {"waiting", "http"}

LifeInv == ServerTypeOK /\ MainOK /\ WatcherOK /\ GatewayOK

-----------------------------------------------------------------------------
(* The limiter inside the process.                                          *)

(* Every step of the process is a step of the limiter or leaves it alone.   *)
LEMMA StepIsLimiterStep == [Next]_vars => [LimiterNext]_limiterVars
<1> SUFFICES ASSUME [Next]_vars
             PROVE  LimiterNext \/ UNCHANGED limiterVars
  OBVIOUS
<1>1. ASSUME Start PROVE UNCHANGED limiterVars
  BY <1>1 DEF Start, LoadConfig, OpenDatabase, WireModules, WireAuth,
     BuildRateLimiter, BuildGRPCServer, BuildHTTPServer, Builds, StartUnchanged
<1>2. ASSUME Lifecycle \/ Signal PROVE UNCHANGED limiterVars
  BY <1>2 DEF Lifecycle, Signal, GRPCRun, HTTPRun, GRPCListens, GRPCServeFails,
     GRPCReturns, HTTPListens, HTTPServeFails, HTTPReturns, GRPCListenerUnchanged,
     HTTPListenerUnchanged, WatcherWakes, HTTPStop, GRPCStop, GRPCStopped,
     RunReturns, MainSelects, Stop, closeDB
<1>3. ASSUME Background PROVE LimiterNext
  BY <1>3 DEF Background, LimiterNext
<1>4. ASSUME NEW r \in Requests, Receive(r) \/ Serve(r) PROVE LimiterNext
  BY <1>4 DEF Receive, Serve, LimiterNext
<1>5. ASSUME NEW r \in Requests, GatewayAccepts(r) \/ GatewayAnswers(r)
      PROVE  UNCHANGED limiterVars
  BY <1>5 DEF GatewayAccepts, GatewayAnswers
<1>6. ASSUME UNCHANGED vars PROVE UNCHANGED limiterVars
  BY <1>6 DEF vars
<1> QED BY <1>1, <1>2, <1>3, <1>4, <1>5, <1>6 DEF Next

(* The process, start and shutdown included, runs the limiter that          *)
(* RateLimiterProofs is about.                                              *)
THEOREM ServerRunsLimiter == Spec => LimiterSpec
<1>1. Init => LimiterInit
  BY DEF Init
<1> QED BY <1>1, StepIsLimiterStep, PTL DEF Spec, LimiterSpec

(* No key is given more than its burst and what time earned it, whatever    *)
(* the process goes through.                                                *)
THEOREM ServerSpendBounded == Spec => []SpendIsBounded
BY ServerRunsLimiter, SpendBounded, PTL

(* Nor can clients of the process tell evicted buckets from kept ones.      *)
THEOREM ServerEvictionInvisible == Spec => EvictionIsInvisible
BY ServerRunsLimiter, LimiterRefinesBuckets, PTL

-----------------------------------------------------------------------------
(* The invariant of the life cycle.                                         *)

(* The process starts in it.                                                *)
LEMMA InitLife == Init => LifeInv
<1> SUFFICES ASSUME Init PROVE LifeInv OBVIOUS
<1>1. LimiterTypeOK
  BY InitInv DEF Init, LimiterInv
<1>2. ServerTypeOK
  BY <1>1 DEF Init, ServerTypeOK, Startup
<1>3. Drained
  BY DEF Init, LimiterInit, Drained
<1>4. MainOK
  BY <1>3 DEF Init, MainOK, Startup
<1>5. WatcherOK
  BY DEF Init, WatcherOK
<1>6. GatewayOK
  BY DEF Init, GatewayOK
<1> QED BY <1>2, <1>4, <1>5, <1>6 DEF LifeInv

(* Where nothing is in flight, only a new RPC changes that.                 *)
LEMMA DrainedStays ==
  ASSUME Drained,
         \/ UNCHANGED limiterVars \/ Background
         \/ \E r \in Requests : Serve(r)
  PROVE  Drained'
BY DEF Drained, limiterVars, Background, Tick, SweepBegins, evictIdle, Serve,
   Unary, HandlerReturns

(* The type invariant, in a Boolean part and one about the other values.    *)
Flags == httpOn \in BOOLEAN /\ signalled \in BOOLEAN /\ stopCh \in BOOLEAN

Parts ==
  /\ grpc \in {"starting", "serving", "draining", "stopped", "early"}
  /\ http \in {"starting", "serving", "draining", "stopped"}
  /\ grpcRun \in {"running", "ok", "error"}
  /\ httpRun \in {"running", "ok", "error"}
  /\ watcher \in {"waiting", "http", "grpc", "done"}
  /\ run \in {"running", "returned"}
  /\ main \in Startup \cup {"select", "stop", "close", "returned"}
  /\ pool \in {"none", "open", "closing", "closed", "abandoned"}
  /\ web \in [Requests -> {"none", "open", "called"}]
  /\ forced \subseteq {"http", "grpc"}

LEMMA TypeParts == ServerTypeOK <=> LimiterTypeOK /\ Flags /\ Parts
BY DEF ServerTypeOK, Flags, Parts

(* A step of the start: the pool is open from OpenDatabase on, and a        *)
(* failure closes it.                                                       *)
LEMMA StartLife ==
  ASSUME LifeInv, LimiterTypeOK', Start PROVE LifeInv'
<1> USE DEF LifeInv
<1>1. StartUnchanged /\ main \in Startup
  BY DEF Start, LoadConfig, OpenDatabase, WireModules, WireAuth, Startup,
     BuildRateLimiter, BuildGRPCServer, BuildHTTPServer, Builds
<1>2. \/ Fails
      \/ /\ main = "config" /\ main' = "database" /\ pool' = pool
      \/ /\ main = "database" /\ main' = "modules" /\ pool' = "open"
      \/ /\ main \in Startup \ {"config", "database"} /\ pool' = pool
         /\ main' \in (Startup \ {"config", "database"}) \cup {"select"}
  BY DEF Start, LoadConfig, OpenDatabase, WireModules, WireAuth, Startup,
     BuildRateLimiter, BuildGRPCServer, BuildHTTPServer, Builds
<1>3. Drained /\ Drained'
  BY <1>1, DrainedStays DEF MainOK, StartUnchanged
<1>4. ServerTypeOK'
  BY <1>1, <1>2 DEF ServerTypeOK, StartUnchanged, Fails, Startup
<1>5. MainOK'
  BY <1>1, <1>2, <1>3 DEF MainOK, StartUnchanged, Fails, Startup, ServerTypeOK
<1>6. WatcherOK'
  BY <1>1, <1>3 DEF WatcherOK, StartUnchanged
<1>7. GatewayOK'
  BY <1>1 DEF GatewayOK, StartUnchanged
<1> QED BY <1>4, <1>5, <1>6, <1>7

(* The goroutines of the listeners leave the watcher's order alone.         *)
LEMMA ListenersLife ==
  ASSUME LifeInv, LimiterTypeOK', GRPCRun \/ HTTPRun PROVE LifeInv'
<1> USE DEF LifeInv
<1>1. UNCHANGED <<limiterVars, httpOn, signalled, watcher, run, main, pool,
                  web, forced>>
  BY DEF GRPCRun, HTTPRun, GRPCListens, GRPCServeFails, GRPCReturns, HTTPListens,
     HTTPServeFails, HTTPReturns, GRPCListenerUnchanged, HTTPListenerUnchanged
<1>2. Drained' <=> Drained
  BY <1>1 DEF Drained, limiterVars
<1>3. ServerTypeOK'
  <2>1. Flags'
    BY TypeParts, Zenon DEF Flags, GRPCRun, HTTPRun, GRPCListens, GRPCServeFails,
       GRPCReturns, HTTPListens, HTTPServeFails, HTTPReturns,
       GRPCListenerUnchanged, HTTPListenerUnchanged
  <2>2. Parts'
    BY <1>1, TypeParts DEF Parts, GRPCRun, HTTPRun, GRPCListens, GRPCServeFails,
       GRPCReturns, HTTPListens, HTTPServeFails, HTTPReturns,
       GRPCListenerUnchanged, HTTPListenerUnchanged
  <2> QED BY <2>1, <2>2 DEF ServerTypeOK, Flags, Parts
<1>4. MainOK'
  BY <1>1, <1>2 DEF MainOK
<1>5. CASE GRPCRun
  <2>1. WatcherOK'
    BY <1>1, <1>2, <1>5 DEF WatcherOK, GRPCRun, GRPCListens, GRPCServeFails,
       GRPCReturns, GRPCListenerUnchanged, ServerTypeOK
  <2>2. GatewayOK'
    BY <1>5 DEF GatewayOK, GRPCRun, GRPCListens, GRPCServeFails, GRPCReturns,
       GRPCListenerUnchanged
  <2> QED BY <1>3, <1>4, <2>1, <2>2
<1>6. CASE HTTPRun
  <2>1. WatcherOK'
    BY <1>1, <1>2, <1>6 DEF WatcherOK, HTTPRun, HTTPListens, HTTPServeFails,
       HTTPReturns, HTTPListenerUnchanged, ServerTypeOK, GatewayOK
  <2>2. GatewayOK'
    BY <1>6 DEF GatewayOK, HTTPRun, HTTPListens, HTTPServeFails, HTTPReturns,
       HTTPListenerUnchanged
  <2> QED BY <1>3, <1>4, <2>1, <2>2
<1> QED BY <1>5, <1>6

(* The watcher stops the gateway, then the gRPC server, then it is done.    *)
LEMMA WatcherLife ==
  ASSUME LifeInv, LimiterTypeOK', WatcherWakes \/ HTTPStop \/ GRPCStop
  PROVE  LifeInv'
<1> USE DEF LifeInv
<1>1. UNCHANGED <<limiterVars, httpOn, signalled, stopCh, grpcRun, httpRun, run,
                  main, pool>>
  BY DEF WatcherWakes, HTTPStop, GRPCStop, GRPCStopped
<1>2. Drained' <=> Drained
  BY <1>1 DEF Drained, limiterVars
<1>3. ServerTypeOK'
  <2>1. Flags'
    BY <1>1, TypeParts, Zenon DEF Flags
  <2>2. Parts'
    <3> USE TypeParts DEF Parts, BeginGRPCStop
    <3>1. CASE WatcherWakes
      BY <1>1, <3>1 DEF WatcherWakes
    <3>2. CASE HTTPStop
      BY <1>1, <3>2 DEF HTTPStop
    <3>3. CASE GRPCStop
      BY <1>1, <3>3 DEF GRPCStop, GRPCStopped
    <3> QED BY <3>1, <3>2, <3>3
  <2> QED BY <2>1, <2>2 DEF ServerTypeOK, Flags, Parts
<1>4. MainOK'
  BY <1>1, <1>2 DEF MainOK
<1>5. CASE WatcherWakes
  <2>1. WatcherOK'
    BY <1>1, <1>2, <1>5
       DEF WatcherOK, WatcherWakes, BeginGRPCStop, ServerTypeOK, GatewayOK
  <2>2. GatewayOK'
    BY <1>5 DEF GatewayOK, WatcherWakes, ServerTypeOK
  <2> QED BY <1>3, <1>4, <2>1, <2>2
<1>6. CASE HTTPStop
  <2>1. WatcherOK'
    BY <1>1, <1>2, <1>6
       DEF WatcherOK, HTTPStop, BeginGRPCStop, ServerTypeOK
  <2>2. httpOn
    BY <1>6 DEF GatewayOK, WatcherOK, HTTPStop, ServerTypeOK
  <2>3. GatewayOK'
    BY <1>6, <2>2 DEF GatewayOK, HTTPStop
  <2> QED BY <1>3, <1>4, <2>1, <2>3
<1>7. CASE GRPCStop
  <2>1. WatcherOK'
    BY <1>1, <1>2, <1>7 DEF WatcherOK, GRPCStop, GRPCStopped, ServerTypeOK
  <2>2. GatewayOK'
    BY <1>7 DEF GatewayOK, GRPCStop, GRPCStopped
  <2> QED BY <1>3, <1>4, <2>1, <2>2
<1> QED BY <1>5, <1>6, <1>7

(* main closes the pool only after Run, whose watcher has drained the       *)
(* handlers or timed out.                                                   *)
LEMMA MainLife ==
  ASSUME LifeInv, LimiterTypeOK',
         RunReturns \/ MainSelects \/ Stop \/ closeDB \/ Signal
  PROVE  LifeInv'
<1> USE DEF LifeInv, RunReturns, MainSelects, Stop, closeDB, Signal
<1>1. UNCHANGED <<limiterVars, httpOn, grpc, http, grpcRun, httpRun, watcher,
                  web, forced>>
  OBVIOUS
<1>2. Drained' <=> Drained
  BY <1>1 DEF Drained, limiterVars
<1>3. ServerTypeOK'
  <2>1. Flags'
    BY TypeParts, Zenon DEF Flags
  <2>2. Parts'
    BY <1>1, TypeParts DEF Parts, Startup
  <2> QED BY <2>1, <2>2 DEF ServerTypeOK, Flags, Parts
<1>4. MainOK'
  BY <1>1, <1>2 DEF MainOK, Startup, Up, ServerTypeOK
<1>5. WatcherOK'
  BY <1>1, <1>2 DEF WatcherOK, ServerTypeOK
<1>6. GatewayOK'
  BY <1>1 DEF GatewayOK
<1> QED BY <1>3, <1>4, <1>5, <1>6

(* Requests come in only until their server is stopped; sweeps and the      *)
(* clock touch none of this.                                                *)
LEMMA RequestsLife ==
  ASSUME LifeInv, LimiterTypeOK',
         \/ Background
         \/ \E r \in Requests : \/ Receive(r) \/ Serve(r)
                                \/ GatewayAccepts(r) \/ GatewayAnswers(r)
  PROVE  LifeInv'
<1> USE DEF LifeInv
<1>1. /\ Up
      /\ UNCHANGED <<httpOn, signalled, stopCh, grpc, http, grpcRun, httpRun,
                     watcher, run, main, pool, forced>>
  BY DEF Background, Receive, Serve, GatewayAccepts, GatewayAnswers, lifeVars
<1>2. web' \in [Requests -> {"none", "open", "called"}]
  BY DEF ServerTypeOK, Background, Receive, Serve, GatewayAccepts,
     GatewayAnswers, lifeVars
<1>3. ServerTypeOK'
  BY <1>1, <1>2 DEF ServerTypeOK
<1>4. MainOK'
  BY <1>1 DEF MainOK, Up
<1>5. Drained /\ watcher = "done" => Drained'
  <2> SUFFICES ASSUME Drained, watcher = "done" PROVE Drained'
    OBVIOUS
  <2>1. ASSUME NEW r \in Requests, Receive(r) PROVE FALSE
    BY <2>1 DEF Receive, WatcherOK
  <2>2. ASSUME NEW r \in Requests, GatewayAccepts(r) \/ GatewayAnswers(r)
        PROVE  UNCHANGED limiterVars
    BY <2>2 DEF GatewayAccepts, GatewayAnswers
  <2> QED BY <2>1, <2>2, DrainedStays
<1>6. WatcherOK'
  BY <1>1, <1>5 DEF WatcherOK
<1>7. GatewayOK'
  <2>1. CASE Background
    BY <1>1, <2>1 DEF GatewayOK, Background, lifeVars
  <2>2. ASSUME NEW r \in Requests, Receive(r) \/ Serve(r) \/ GatewayAnswers(r)
        PROVE  GatewayOK'
    BY <1>1, <2>2 DEF GatewayOK, Receive, Serve, GatewayAnswers, lifeVars,
       ServerTypeOK
  <2>3. ASSUME NEW r \in Requests, GatewayAccepts(r) PROVE GatewayOK'
    BY <1>1, <2>3 DEF GatewayOK, GatewayAccepts, WatcherOK, ServerTypeOK
  <2> QED BY <2>1, <2>2, <2>3
<1> QED BY <1>3, <1>4, <1>6, <1>7

(* Every step keeps the invariant.                                          *)
LEMMA NextLife == LifeInv /\ LimiterInv' /\ [Next]_vars => LifeInv'
<1> SUFFICES ASSUME LifeInv, LimiterInv', [Next]_vars PROVE LifeInv'
  OBVIOUS
<1>1. LimiterTypeOK'
  BY DEF LimiterInv
<1>2. CASE UNCHANGED vars
  BY <1>2 DEF vars, limiterVars, lifeVars, LifeInv, ServerTypeOK, LimiterTypeOK,
     MainOK, WatcherOK, GatewayOK, Drained
<1>3. CASE Next
  BY <1>1, <1>3, StartLife, ListenersLife, WatcherLife, MainLife, RequestsLife
     DEF Next, Lifecycle
<1> QED BY <1>2, <1>3

(* The inductive invariant holds throughout, whatever the fairness.         *)
THEOREM LifeInvariant == Spec => []LifeInv
<1>1. Spec => []LimiterInv
  BY ServerRunsLimiter, LimiterInvariant, PTL
<1> QED BY <1>1, InitLife, NextLife, PTL DEF Spec

-----------------------------------------------------------------------------
(* What follows from it.                                                    *)

(* Every state of the process is well formed.                               *)
THEOREM TypeCorrect == Spec => []ServerTypeOK
<1>1. LifeInv => ServerTypeOK
  BY DEF LifeInv
<1> QED BY <1>1, LifeInvariant, PTL

(* Whichever step of the start fails, no open pool is left behind.          *)
THEOREM FailedStartsReleasePool == Spec => []FailedStartReleasesPool
<1>1. LifeInv => FailedStartReleasesPool
  BY DEF LifeInv, MainOK, FailedStartReleasesPool
<1> QED BY <1>1, LifeInvariant, PTL

(* The pool is closed under no handler that the gRPC server still waits     *)
(* for: Stop comes after Run, Run after the watcher, the watcher after the  *)
(* handlers or their timeout.                                               *)
THEOREM PoolsOutliveHandlers == Spec => []PoolOutlivesHandlers
<1>1. LifeInv => PoolOutlivesHandlers
  <2> SUFFICES ASSUME LifeInv, pool \notin {"none", "open"}, "grpc" \notin forced
               PROVE  Drained
    BY DEF PoolOutlivesHandlers
  <2>1. main \in {"close", "returned"}
    BY DEF LifeInv, MainOK, ServerTypeOK, Startup
  <2>2. run = "returned" \/ Drained
    BY <2>1 DEF LifeInv, MainOK, ServerTypeOK
  <2> QED BY <2>2 DEF LifeInv, WatcherOK
<1> QED BY <1>1, LifeInvariant, PTL

(* The gateway's calls over loopback find the gRPC server up, because the   *)
(* watcher stops HTTP first and waits for it.                               *)
THEOREM GatewayCallsServed == Spec => []GatewayCallsAreServed
<1>1. LifeInv => GatewayCallsAreServed
  BY DEF LifeInv, WatcherOK, GatewayOK, GatewayCallsAreServed
<1> QED BY <1>1, LifeInvariant, PTL

-----------------------------------------------------------------------------
(* The process ends: what ShutdownCompletes rests on besides fairness.      *)

(* Stop has closed stopCh, and HTTP is stopped by nobody but the watcher.   *)
StopOK ==
  /\ main = "stop" => stopCh
  /\ watcher = "waiting" => http \in {"starting", "serving"}

(* The guards of the steps that Spec is fair to: somebody has a step to     *)
(* take.  A listener that blocks in Serve has none.                         *)
SomeoneMoves ==
  \/ main \in Startup
  \/ Up /\ grpcRun = "running" /\ grpc \in {"starting", "stopped", "early"}
  \/ Up /\ httpRun = "running" /\ http \in {"starting", "draining", "stopped"}
  \/ Up /\ watcher = "waiting" /\ StopRequested
  \/ Up /\ watcher \in {"http", "grpc"}
  \/ /\ Up /\ run = "running" /\ watcher = "done"
     /\ grpcRun # "running" /\ httpRun # "running"
  \/ main = "select" /\ (signalled \/ run = "returned")
  \/ main = "stop" /\ run = "returned"
  \/ main = "close"

(* From a signal or a failed listener on until main has returned, the       *)
(* listeners, the watcher, Run and Stop never wait for each other in a      *)
(* circle, nor for a handler, nor for a listener that goes on serving.      *)
ShutdownNeverStuck ==
  (signalled \/ grpcRun = "error" \/ httpRun = "error") =>
    main = "returned" \/ SomeoneMoves

(* The steps of the start and of the shutdown that may be left.             *)
MainAhead ==
  CASE main = "config" -> 10 [] main = "database" -> 9 [] main = "modules" -> 8
    [] main = "auth" -> 7 [] main = "limiter" -> 6 [] main = "grpc" -> 5
    [] main = "http" -> 4 [] main = "select" -> 3 [] main = "stop" -> 2
    [] main = "close" -> 1 [] main = "returned" -> 0

WatcherAhead == CASE watcher = "waiting" -> 3 [] watcher = "http" -> 2
                  [] watcher = "grpc" -> 1 [] watcher = "done" -> 0

GRPCAhead == CASE grpc = "starting" -> 3 [] grpc = "serving" -> 2
               [] grpc = "draining" -> 1 [] grpc \in {"early", "stopped"} -> 0

HTTPAhead == CASE http = "starting" -> 3 [] http = "serving" -> 2
               [] http = "draining" -> 1 [] http = "stopped" -> 0

RunsAhead == (IF grpcRun = "running" THEN 1 ELSE 0)
             + (IF httpRun = "running" THEN 1 ELSE 0)
             + (IF run = "running" THEN 1 ELSE 0)

StepsAhead == MainAhead + WatcherAhead + GRPCAhead + HTTPAhead + RunsAhead

(* Every step of the start and of the shutdown uses one up, and no request, *)
(* sweep or signal gives one back: whatever fails and times out, the        *)
(* process makes at most StepsAhead of them.                                *)
LifecycleGoesForward ==
  [][/\ Start \/ Lifecycle => StepsAhead' < StepsAhead
     /\ StepsAhead' <= StepsAhead]_vars

LEMMA InitStop == Init => StopOK
BY DEF Init, StopOK

LEMMA NextStop == LifeInv /\ StopOK /\ [Next]_vars => StopOK'
<1> SUFFICES ASSUME LifeInv, StopOK, [Next]_vars PROVE StopOK'
  OBVIOUS
<1>1. CASE UNCHANGED lifeVars
  BY <1>1 DEF lifeVars, StopOK
<1>2. CASE Start
  BY <1>2 DEF Start, LoadConfig, OpenDatabase, WireModules, WireAuth,
     BuildRateLimiter, BuildGRPCServer, BuildHTTPServer, Builds, Fails,
     StartUnchanged, StopOK
<1>3. CASE GRPCRun \/ HTTPRun \/ WatcherWakes \/ HTTPStop \/ GRPCStop
  BY <1>3 DEF GRPCRun, HTTPRun, GRPCListens, GRPCServeFails, GRPCReturns,
     HTTPListens, HTTPServeFails, HTTPReturns, GRPCListenerUnchanged,
     HTTPListenerUnchanged, WatcherWakes, HTTPStop, GRPCStop, GRPCStopped, StopOK
<1>4. CASE RunReturns \/ MainSelects \/ Stop \/ closeDB \/ Signal
  BY <1>4 DEF RunReturns, MainSelects, Stop, closeDB, Signal, StopOK
<1>5. CASE Background \/ \E r \in Requests : \/ Receive(r) \/ Serve(r)
                                             \/ GatewayAccepts(r) \/ GatewayAnswers(r)
  BY <1>5 DEF Background, Receive, Serve, GatewayAccepts, GatewayAnswers,
     lifeVars, StopOK
<1>6. UNCHANGED vars => UNCHANGED lifeVars
  BY DEF vars
<1> QED BY <1>1, <1>2, <1>3, <1>4, <1>5, <1>6 DEF Next, Lifecycle

LEMMA StopInvariant == Spec => []StopOK
BY InitStop, NextStop, LifeInvariant, PTL DEF Spec

(* The shutdown cannot deadlock.                                            *)
THEOREM ShutdownIsNeverStuck == Spec => []ShutdownNeverStuck
<1>1. ASSUME LifeInv, StopOK PROVE ShutdownNeverStuck
  <2> SUFFICES ASSUME signalled \/ grpcRun = "error" \/ httpRun = "error",
                      main # "returned", main \notin Startup
               PROVE  SomeoneMoves
    BY DEF ShutdownNeverStuck, SomeoneMoves
  <2>1. Up /\ main \in {"select", "stop", "close"}
    BY <1>1 DEF Up, LifeInv, ServerTypeOK
  <2>2. watcher \in {"waiting", "http", "grpc", "done"} /\ run \in {"running", "returned"}
    BY <1>1 DEF LifeInv, ServerTypeOK
  <2>3. CASE main = "close" \/ (main = "stop" /\ run = "returned")
             \/ (main = "select" /\ (signalled \/ run = "returned"))
    BY <2>3 DEF SomeoneMoves
  <2>4. CASE /\ run = "running"
             /\ main = "stop" \/ grpcRun = "error" \/ httpRun = "error"
    <3>1. StopRequested
      BY <1>1, <2>4 DEF StopRequested, StopOK
    <3>2. CASE watcher = "done"
      <4>1. grpc \in {"stopped", "early"}
        BY <1>1, <3>2 DEF LifeInv, WatcherOK
      <4>2. httpRun = "running" => http = "stopped"
        BY <1>1, <3>2 DEF LifeInv, WatcherOK, GatewayOK
      <4> QED BY <2>1, <2>4, <3>2, <4>1, <4>2 DEF SomeoneMoves
    <3> QED BY <2>1, <2>2, <3>1, <3>2 DEF SomeoneMoves
  <2> QED BY <2>1, <2>2, <2>3, <2>4
<1> QED BY <1>1, LifeInvariant, StopInvariant, PTL

LEMMA AheadTypes ==
  ASSUME ServerTypeOK, ServerTypeOK'
  PROVE  /\ MainAhead \in Nat /\ WatcherAhead \in Nat /\ GRPCAhead \in Nat
         /\ HTTPAhead \in Nat /\ RunsAhead \in Nat
         /\ MainAhead' \in Nat /\ WatcherAhead' \in Nat /\ GRPCAhead' \in Nat
         /\ HTTPAhead' \in Nat /\ RunsAhead' \in Nat
BY DEF ServerTypeOK, Startup, MainAhead, WatcherAhead, GRPCAhead, HTTPAhead,
   RunsAhead

(* One part gets on and none falls back.                                    *)
LEMMA PartsAdd ==
  ASSUME ServerTypeOK, ServerTypeOK',
         MainAhead' <= MainAhead, WatcherAhead' <= WatcherAhead,
         GRPCAhead' <= GRPCAhead, HTTPAhead' <= HTTPAhead, RunsAhead' <= RunsAhead
  PROVE  /\ StepsAhead' <= StepsAhead
         /\ \/ MainAhead' < MainAhead \/ WatcherAhead' < WatcherAhead
            \/ GRPCAhead' < GRPCAhead \/ HTTPAhead' < HTTPAhead
            \/ RunsAhead' < RunsAhead
            => StepsAhead' < StepsAhead
BY AheadTypes DEF StepsAhead

(* The shutdown cannot go round in circles either.                          *)
THEOREM LifecycleAlwaysGoesForward == Spec => LifecycleGoesForward
<1> DEFINE Forward == /\ Start \/ Lifecycle => StepsAhead' < StepsAhead
                      /\ StepsAhead' <= StepsAhead
<1>1. ASSUME LifeInv, LifeInv', StopOK, Start PROVE StepsAhead' < StepsAhead
  <2>1. MainAhead' < MainAhead /\ MainAhead' <= MainAhead
    BY <1>1 DEF Start, LoadConfig, OpenDatabase, WireModules, WireAuth,
       BuildRateLimiter, BuildGRPCServer, BuildHTTPServer, Builds, Fails,
       MainAhead
  <2>2. UNCHANGED <<grpc, http, grpcRun, httpRun, watcher, run>>
    BY <1>1 DEF Start, LoadConfig, OpenDatabase, WireModules, WireAuth,
       BuildRateLimiter, BuildGRPCServer, BuildHTTPServer, Builds, StartUnchanged
  <2>3. /\ WatcherAhead' = WatcherAhead /\ GRPCAhead' = GRPCAhead
        /\ HTTPAhead' = HTTPAhead /\ RunsAhead' = RunsAhead
    BY <2>2 DEF WatcherAhead, GRPCAhead, HTTPAhead, RunsAhead
  <2> QED BY <1>1, <2>1, <2>3, AheadTypes, PartsAdd DEF LifeInv
<1>2. ASSUME LifeInv, LifeInv', StopOK,
             GRPCRun \/ HTTPRun \/ WatcherWakes \/ HTTPStop \/ GRPCStop
      PROVE  StepsAhead' < StepsAhead
  <2>0. ServerTypeOK /\ ServerTypeOK'
    BY <1>2 DEF LifeInv
  <2>1. main' = main /\ run' = run
    BY <1>2 DEF GRPCRun, HTTPRun, GRPCListens, GRPCServeFails, GRPCReturns,
       HTTPListens, HTTPServeFails, HTTPReturns, GRPCListenerUnchanged,
       HTTPListenerUnchanged, WatcherWakes, HTTPStop, GRPCStop, GRPCStopped
  <2>2. MainAhead' = MainAhead
    BY <2>1 DEF MainAhead
  <2>3. CASE GRPCRun \/ HTTPRun
    <3>1. GRPCAhead' <= GRPCAhead /\ HTTPAhead' <= HTTPAhead /\ RunsAhead' <= RunsAhead
      BY <2>0, <2>3 DEF GRPCRun, HTTPRun, GRPCListens, GRPCServeFails,
         GRPCReturns, HTTPListens, HTTPServeFails, HTTPReturns,
         GRPCListenerUnchanged, HTTPListenerUnchanged, ServerTypeOK, GRPCAhead,
         HTTPAhead, RunsAhead
    <3>2. GRPCAhead' < GRPCAhead \/ HTTPAhead' < HTTPAhead \/ RunsAhead' < RunsAhead
      BY <2>0, <2>3 DEF GRPCRun, HTTPRun, GRPCListens, GRPCServeFails,
         GRPCReturns, HTTPListens, HTTPServeFails, HTTPReturns,
         GRPCListenerUnchanged, HTTPListenerUnchanged, ServerTypeOK, GRPCAhead,
         HTTPAhead, RunsAhead
    <3>3. WatcherAhead' = WatcherAhead
      BY <2>3 DEF GRPCRun, HTTPRun, GRPCListens, GRPCServeFails, GRPCReturns,
         HTTPListens, HTTPServeFails, HTTPReturns, GRPCListenerUnchanged,
         HTTPListenerUnchanged, WatcherAhead
    <3> QED BY <2>0, <2>2, <3>1, <3>2, <3>3, AheadTypes, PartsAdd
  <2>4. CASE WatcherWakes \/ HTTPStop \/ GRPCStop
    <3>1. RunsAhead' = RunsAhead
      BY <2>1, <2>4 DEF WatcherWakes, HTTPStop, GRPCStop, GRPCStopped, RunsAhead
    <3>2. WatcherAhead' < WatcherAhead /\ WatcherAhead' <= WatcherAhead
      BY <2>4 DEF WatcherWakes, HTTPStop, GRPCStop, GRPCStopped, WatcherAhead
    <3>3. GRPCAhead' <= GRPCAhead
      BY <1>2, <2>0, <2>4 DEF WatcherWakes, HTTPStop, GRPCStop, GRPCStopped,
         BeginGRPCStop, LifeInv, WatcherOK, ServerTypeOK, GRPCAhead
    <3>4. HTTPAhead' <= HTTPAhead
      BY <1>2, <2>0, <2>4 DEF WatcherWakes, HTTPStop, GRPCStop, GRPCStopped,
         StopOK, LifeInv, WatcherOK, ServerTypeOK, HTTPAhead
    <3> QED BY <2>0, <2>2, <3>1, <3>2, <3>3, <3>4, AheadTypes, PartsAdd
  <2> QED BY <1>2, <2>3, <2>4
<1>3. ASSUME LifeInv, LifeInv', RunReturns \/ MainSelects \/ Stop \/ closeDB
      PROVE  StepsAhead' < StepsAhead
  <2>0. ServerTypeOK /\ ServerTypeOK'
    BY <1>3 DEF LifeInv
  <2>1. UNCHANGED <<grpc, http, grpcRun, httpRun, watcher>>
    BY <1>3 DEF RunReturns, MainSelects, Stop, closeDB
  <2>2. /\ WatcherAhead' = WatcherAhead /\ GRPCAhead' = GRPCAhead
        /\ HTTPAhead' = HTTPAhead
    BY <2>1 DEF WatcherAhead, GRPCAhead, HTTPAhead
  <2>3. CASE RunReturns
    <3>1. MainAhead' = MainAhead
      BY <2>3 DEF RunReturns, MainAhead
    <3>2. RunsAhead' < RunsAhead /\ RunsAhead' <= RunsAhead
      BY <2>1, <2>3 DEF RunReturns, RunsAhead
    <3> QED BY <2>0, <2>2, <3>1, <3>2, AheadTypes, PartsAdd
  <2>4. CASE MainSelects \/ Stop \/ closeDB
    <3>1. MainAhead' < MainAhead /\ MainAhead' <= MainAhead
      BY <2>4 DEF MainSelects, Stop, closeDB, MainAhead
    <3>2. RunsAhead' = RunsAhead
      BY <2>1, <2>4 DEF MainSelects, Stop, closeDB, RunsAhead
    <3> QED BY <2>0, <2>2, <3>1, <3>2, AheadTypes, PartsAdd
  <2> QED BY <1>3, <2>3, <2>4
<1>4. ASSUME \/ UNCHANGED lifeVars \/ Signal \/ Background
             \/ \E r \in Requests : \/ Receive(r) \/ Serve(r)
                                    \/ GatewayAccepts(r) \/ GatewayAnswers(r)
      PROVE  StepsAhead' = StepsAhead
  <2>1. UNCHANGED <<grpc, http, grpcRun, httpRun, watcher, run, main>>
    BY <1>4 DEF lifeVars, Signal, Background, Receive, Serve, GatewayAccepts,
       GatewayAnswers
  <2> QED BY <2>1 DEF StepsAhead, MainAhead, WatcherAhead, GRPCAhead, HTTPAhead,
     RunsAhead
<1>5. ASSUME LifeInv, LifeInv', StopOK, Next PROVE Forward
  <2>1. StepsAhead \in Nat /\ StepsAhead' \in Nat
    <3>1. ServerTypeOK /\ ServerTypeOK'
      BY <1>5 DEF LifeInv
    <3> QED BY <3>1, AheadTypes DEF StepsAhead
  <2>2. Start \/ Lifecycle => StepsAhead' < StepsAhead
    BY <1>1, <1>2, <1>3, <1>5 DEF Lifecycle
  <2>3. ~ (Start \/ Lifecycle) => StepsAhead' = StepsAhead
    BY <1>4, <1>5 DEF Next
  <2> QED BY <2>1, <2>2, <2>3
<1>6. LifeInv /\ LifeInv' /\ StopOK /\ [Next]_vars => [Forward]_vars
  BY <1>5
<1> QED BY <1>6, LifeInvariant, StopInvariant, PTL DEF Spec, LifecycleGoesForward
=============================================================================
