----------------------------- MODULE MCPlatform -----------------------------
(* The ways messages and orders travel, the clocks that drive the day, and   *)
(* the order engines, each model on its own: focus says which one a          *)
(* behaviour is about, and the others stay as they are.                      *)
EXTENDS FanOut, RedisBus, RingBus, FixSession, GlobalClock, SessionPipeline, AlgoExecution,
        PrimeBroker, DarkPool

MCRepeat == [n \in Timers |-> IF n = "daily" THEN 1 ELSE 0]
MCProfile == 0 :> 0 @@ 1 :> 5 @@ 2 :> 7 @@ 3 :> 10

\* The bells are followed through a weekend to the evening of the next day;
\* timers and heartbeats from the opening on up to the next morning, each without the
\* other.
ClockLimit == 4

VARIABLE focus

platformVars == <<busVars, redisVars, ringVars, fixVars, clockVars, algoVars,
                  primeVars, poolVars, pipelineVars, focus>>

Init ==
  /\ focus \in {"fanout", "redis", "ring", "fix", "bells", "timers", "beats", "algo", "prime", "pool", "pipeline"}
  /\ BusInit /\ RedisInit /\ FixInit /\ ClockInit /\ PrimeInit /\ PoolInit /\ PipelineInit
  /\ RingInit /\ (focus # "ring" => backend = "disruptor")
  /\ (focus # "bells" => quarter = 1) /\ (focus # "pipeline" => phase = "night")
  /\ AlgoInit /\ (focus # "algo" => algo = "twap" /\ total = 4)

OnlyBus == UNCHANGED <<redisVars, ringVars, fixVars, clockVars, algoVars, primeVars, poolVars, pipelineVars, focus>>
OnlyRedis == UNCHANGED <<busVars, ringVars, fixVars, clockVars, algoVars, primeVars, poolVars, pipelineVars, focus>>
OnlyRing == UNCHANGED <<busVars, redisVars, fixVars, clockVars, algoVars, primeVars, poolVars, pipelineVars, focus>>
OnlyFix == UNCHANGED <<busVars, redisVars, ringVars, clockVars, algoVars, primeVars, poolVars, pipelineVars, focus>>
OnlyClock == UNCHANGED <<busVars, redisVars, ringVars, fixVars, algoVars, primeVars, poolVars, pipelineVars, focus>>
OnlyAlgo == UNCHANGED <<busVars, redisVars, ringVars, fixVars, clockVars, primeVars, poolVars, pipelineVars, focus>>
OnlyPrime == UNCHANGED <<busVars, redisVars, ringVars, fixVars, clockVars, algoVars, poolVars, pipelineVars, focus>>
OnlyPool == UNCHANGED <<busVars, redisVars, ringVars, fixVars, clockVars, algoVars, primeVars, pipelineVars, focus>>
OnlyPipeline == UNCHANGED <<busVars, redisVars, ringVars, fixVars, clockVars, algoVars, primeVars, poolVars, focus>>

Next ==
  \/ focus = "fanout" /\ BusNext /\ OnlyBus
  \/ focus = "redis" /\ RedisNext /\ OnlyRedis
  \/ focus = "ring" /\ RingNext /\ OnlyRing
  \/ focus = "fix" /\ FixNext /\ OnlyFix
  \/ focus = "bells" /\ ClockNext /\ UNCHANGED <<registrations, beats>> /\ OnlyClock
  \/ focus = "timers" /\ ClockNext /\ quarter' <= ClockLimit /\ UNCHANGED beats /\ OnlyClock
  \/ focus = "beats" /\ ClockNext /\ quarter' <= ClockLimit /\ UNCHANGED registrations /\ OnlyClock
  \/ focus = "algo" /\ AlgoNext /\ OnlyAlgo
  \/ focus = "prime" /\ PrimeNext /\ OnlyPrime
  \/ focus = "pool" /\ PoolNext /\ OnlyPool
  \/ focus = "pipeline" /\ PipelineNext /\ OnlyPipeline

\* The event loop runs every task that can go on; handlers and callbacks
\* return or raise.
BusFairness ==
  /\ \A b \in Publishers : WF_platformVars(focus = "fanout" /\ PutInQueue(b) /\ OnlyBus)
  /\ \A p \in Pumps : WF_platformVars(focus = "fanout" /\ (Pump(p) \/ HandlerReturns(p)) /\ OnlyBus)
  /\ \A c \in Consumers :
       WF_platformVars(/\ focus = "redis"
                       /\ \/ ReadEntries(c) \/ LoopEnds(c)
                          \/ \E result \in Results : HandlerDone(c, result)
                       /\ OnlyRedis)

\* The caller of the algo engine asks on every tick or timer, and time passes.
AlgoFairness ==
  /\ WF_platformVars(focus = "algo" /\ WindowPasses /\ OnlyAlgo)
  /\ WF_platformVars(focus = "algo" /\ (NoChildLeft \/ NextChildOrder(FALSE)) /\ OnlyAlgo)

\* An exception ends a round of the clock, never its loop.
ClockFairness == WF_platformVars(focus = "beats" /\ RoundGoesOn /\ OnlyClock)

\* The tick loop of the session runs every ten seconds.
PipelineFairness ==
  WF_platformVars(/\ focus = "pipeline"
                  /\ TickGoesOn \/ LoopFindsShutdown \/ \E new \in PipelineStates : TickTo(new)
                  /\ OnlyPipeline)

Spec == Init /\ [][Next]_platformVars /\ BusFairness /\ AlgoFairness /\ ClockFairness /\ PipelineFairness
=============================================================================
