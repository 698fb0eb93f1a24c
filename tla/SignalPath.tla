----------------------------- MODULE SignalPath -----------------------------
(***************************************************************************)
(* From a candidate signal to a TRADE_PLAN: the signal validation agent    *)
(* (agents/agent_05_signal_validation.py), the decision of the risk gate   *)
(* (RiskGate has its rules) and the sizing agent (agents/agent_07_spa.py). *)
(*                                                                         *)
(* The three share nothing but messages.  What has been published stays in *)
(* a set: the queues of the bus (see FanOut) deliver a message late,       *)
(* several times, to two tasks of one agent at once, or not at all.  Both  *)
(* agents wait for a language model in the middle of a handler.            *)
(***************************************************************************)
EXTENDS Naturals, Sequences, FiniteSets

CONSTANTS
  Signals,      \* signal ids; each is also the symbol it is about
  Handlers,     \* the concurrent handler tasks of each agent
  Markets,      \* what the rules of validation may meet; see RuleFailures
  ModelReasons, \* ValidationFailReasons the model may add
  EventSetups,  \* _EVENT_COMPATIBLE_SETUPS
  MinBars,      \* _MIN_BARS_FOR_VOLUME
  Prices,       \* entry and stop prices
  Equities,     \* account equity when a plan is sized
  RiskPm,       \* per_trade_risk_pct, in thousandths
  SharePm,      \* max_symbol_concentration_pct, in thousandths
  Edges,        \* gross expectancy of the setup per share, 0 when not approved
  HalfSpreads,  \* half the spread, per share
  FeePm,        \* SEC_FEE_RATE + FINRA_TAF_RATE, in thousandths of the proceeds
  CacheSize,    \* capacity of _validated_signal_cache
  MaxReceived   \* bound: candidates handled by the validation agent

ASSUME SignalPathAssumption ==
  /\ Prices \subseteq Nat \ {0} /\ Equities \subseteq Nat
  /\ RiskPm \in Nat /\ SharePm \in Nat
  /\ Edges \subseteq Nat /\ HalfSpreads \subseteq Nat /\ FeePm \in Nat
  /\ CacheSize \in Nat \ {0} /\ MaxReceived \in Nat

VARIABLES
  candidates,  \* signal -> its prices, once published
  checking,    \* handler -> the validation that waits for the model
  stats,       \* _stats: received, passed, failed
  validated,   \* VALIDATED_SIGNALs published
  decisions,   \* RISK_DECISIONs published
  cache,       \* _validated_signal_cache, oldest first
  planning,    \* handler -> the plan that waits for the model
  openSyms,    \* symbols with an open position in the store
  plans        \* TRADE_PLANs published

validation == <<checking, stats, validated>>
sizing == <<cache, planning, plans>>
pathVars == <<candidates, validation, decisions, sizing, openSyms>>

-----------------------------------------------------------------------------
NoSignal == [sig |-> "none"]

PathInit ==
  /\ candidates = [g \in Signals |-> NoSignal]
  /\ checking = [h \in Handlers |-> NoSignal]
  /\ stats = [received |-> 0, passed |-> 0, failed |-> 0]
  /\ validated = {} /\ decisions = {}
  /\ cache = <<>>
  /\ planning = [h \in Handlers |-> NoSignal]
  /\ openSyms = {}
  /\ plans = {}

\* The micro-signal agent publishes a candidate.
PublishCandidate(g, entry, stop) ==
  /\ candidates[g] = NoSignal
  /\ candidates' = [candidates EXCEPT ![g] = [sig |-> g, entry |-> entry, stop |-> stop]]
  /\ UNCHANGED <<validation, decisions, sizing, openSyms>>

\* The positions of the store change under the agents' feet.
PositionChanges(g) ==
  /\ openSyms' = IF g \in openSyms THEN openSyms \ {g} ELSE openSyms \cup {g}
  /\ UNCHANGED <<candidates, validation, decisions, sizing>>

-----------------------------------------------------------------------------
(* The signal validation agent. *)

\* The five checks of _validate for a signal in the situation x: bars in the
\* history, trend and volume they show, spread of the signal's tick, catalyst
\* in the universe ("none" when the symbol is not there), and the setups the
\* regime allows ({} without a regime or in a no-trade regime).
RuleFailures(x) ==
  {r \in {"htf", "volume", "spread", "catalyst", "regime"} :
     CASE r = "htf"      -> x.bars < 3 \/ x.up # x.long
       [] r = "volume"   -> x.bars < MinBars \/ ~x.surge
       [] r = "spread"   -> x.wide
       [] r = "catalyst" -> \/ x.catalyst = "event" /\ x.setup \notin EventSetups
                            \/ x.catalyst = "other" /\ x.setup = "catalyst_mover"
       [] r = "regime"   -> x.setup \notin x.allowed}

\* What _llm_holistic_check may add; nothing when the call fails.  Its own
\* overall_pass is not read.
ModelFailures == SUBSET ModelReasons

\* process: the checks read the feed, the universe and the regime as they are
\* now; then the model is asked.
ReceiveCandidate(h, g, x) ==
  /\ checking[h] = NoSignal
  /\ candidates[g] # NoSignal
  /\ stats.received < MaxReceived
  /\ stats' = [stats EXCEPT !.received = @ + 1]
  /\ checking' = [checking EXCEPT ![h] = [sig |-> g, failed |-> RuleFailures(x)]]
  /\ UNCHANGED <<candidates, validated, decisions, sizing, openSyms>>

\* Mutant: the model's verdict replaces that of the rules.
VerdictOfModel(failed, extra) == IF extra = {} THEN "PASS" ELSE "FAIL"

\* "LLM can ADD fails but not remove them."
Verdict(failed, extra) == IF failed \cup extra = {} THEN "PASS" ELSE "FAIL"

\* Mutant: a failed signal is published and not counted.
CountedPassOnly(result) == [stats EXCEPT !.passed = @ + (IF result = "PASS" THEN 1 ELSE 0)]

Counted(result) ==
  IF result = "PASS" THEN [stats EXCEPT !.passed = @ + 1] ELSE [stats EXCEPT !.failed = @ + 1]

\* The model answers, or fails and adds nothing.
PublishValidated(h, extra) ==
  /\ checking[h] # NoSignal
  /\ LET result == Verdict(checking[h].failed, extra) IN
       /\ validated' = validated \cup {[sig |-> checking[h].sig, result |-> result,
                                        clean |-> checking[h].failed = {}]}
       /\ stats' = Counted(result)
  /\ checking' = [checking EXCEPT ![h] = NoSignal]
  /\ UNCHANGED <<candidates, decisions, sizing, openSyms>>

-----------------------------------------------------------------------------
\* _handle_validated_signal of agent 6: only signals that passed.
ToBeDecided == {v \in validated : v.result = "PASS"}

Decide(v, approved) ==
  /\ v \in ToBeDecided
  /\ decisions' = decisions \cup {[sig |-> v.sig, approved |-> approved]}
  /\ UNCHANGED <<candidates, validation, sizing, openSyms>>

-----------------------------------------------------------------------------
(* The sizing agent. *)

Cached == {cache[i] : i \in 1 .. Len(cache)}

\* Mutant: the oldest entry goes only once the cache is over its size.
RoomInCacheLate == IF Len(cache) > CacheSize THEN Tail(cache) ELSE cache

RoomInCache == IF Len(cache) >= CacheSize THEN Tail(cache) ELSE cache

\* _handle_validated_signal_cache: the oldest entry makes room even when the
\* signal is cached already; a key that is set again keeps its place.
CacheSignal(v) ==
  /\ v \in validated
  /\ cache' = IF \E i \in 1 .. Len(RoomInCache) : RoomInCache[i] = v.sig
              THEN RoomInCache ELSE Append(RoomInCache, v.sig)
  /\ UNCHANGED <<candidates, validation, decisions, planning, plans, openSyms>>

Distance(a, b) == IF a > b THEN a - b ELSE b - a
Least(a, b) == IF a < b THEN a ELSE b

\* Mutant: the larger of the two limits.
SharesLargest(equity, entry, stop) ==
  LET byRisk == (equity * RiskPm) \div (1000 * Distance(entry, stop))
      byConcentration == (equity * SharePm) \div (1000 * entry)
  IN  IF byRisk > byConcentration THEN byRisk ELSE byConcentration

\* Position sizing in _build_plan.
Shares(equity, entry, stop) ==
  LET byRisk == (equity * RiskPm) \div (1000 * Distance(entry, stop))
      byConcentration == (equity * SharePm) \div (1000 * entry)
  IN  Least(byRisk, byConcentration)

\* _compute_cost_model and total_cost_per_share: the fees of the whole sale
\* and the slippage of one share, half as much again when execution quality is
\* degraded.
CostPerShare(entry, shares, halfSpread, degraded) ==
  (FeePm * entry * shares) \div 1000 + (IF degraded THEN (3 * halfSpread) \div 2 ELSE halfSpread)

\* _handle_risk_decision acts on approvals of signals it finds in the cache.
Plannable == {d \in decisions : d.approved /\ d.sig \in Cached}

\* _build_plan up to the model's sentence.  edge is the expectancy of the
\* approved setup; 0 rejects the plan, as no setup does.
BuildPlan(h, d, equity, edge, cost) ==
  /\ planning[h] = NoSignal
  /\ d \in Plannable
  /\ d.sig \notin openSyms
  /\ equity > 0
  /\ LET c == candidates[d.sig] IN
       /\ c.entry # c.stop
       /\ Shares(equity, c.entry, c.stop) >= 1
       /\ edge > CostPerShare(c.entry, Shares(equity, c.entry, c.stop), cost.half, cost.degraded)
       /\ planning' = [planning EXCEPT ![h] =
            [sig |-> d.sig, entry |-> c.entry, risk |-> Distance(c.entry, c.stop),
             equity |-> equity, shares |-> Shares(equity, c.entry, c.stop)]]
  /\ UNCHANGED <<candidates, validation, decisions, cache, plans, openSyms>>

\* _llm_invalidation_reason comes back, with the model's sentence or with its
\* own: the plan is complete and published.
PublishPlan(h) ==
  /\ planning[h] # NoSignal
  /\ plans' = plans \cup {planning[h]}
  /\ planning' = [planning EXCEPT ![h] = NoSignal]
  /\ UNCHANGED <<candidates, validation, decisions, cache, openSyms>>

-----------------------------------------------------------------------------
PathNext ==
  \/ \E g \in Signals :
       \/ \E entry, stop \in Prices : PublishCandidate(g, entry, stop)
       \/ PositionChanges(g)
       \/ \E h \in Handlers, x \in Markets : ReceiveCandidate(h, g, x)
  \/ \E h \in Handlers, extra \in ModelFailures : PublishValidated(h, extra)
  \/ \E v \in validated : CacheSignal(v) \/ \E approved \in BOOLEAN : Decide(v, approved)
  \/ \E h \in Handlers, d \in decisions, equity \in Equities, edge \in Edges,
        cost \in [half : HalfSpreads, degraded : BOOLEAN] :
       BuildPlan(h, d, equity, edge, cost)
  \/ \E h \in Handlers : PublishPlan(h)

PathSpec == PathInit /\ [][PathNext]_pathVars

-----------------------------------------------------------------------------
(* Properties. *)

\* However late, doubled or reordered the messages are, a TRADE_PLAN exists
\* only for a signal that the risk gate approved and that a validation passed
\* with none of the five rules failing.
PlanIsVetted ==
  \A plan \in plans :
    /\ [sig |-> plan.sig, approved |-> TRUE] \in decisions
    /\ [sig |-> plan.sig, result |-> "PASS", clean |-> TRUE] \in validated

\* "Never exceed per-trade risk limit": a plan risks at most the per-trade
\* share of the equity it was sized for and holds at most the concentration
\* limit, and one more share would break one of the two.
RiskWithinBudget ==
  \A plan \in plans :
    LET fits(n) == /\ 1000 * n * plan.risk <= plan.equity * RiskPm
                   /\ 1000 * n * plan.entry <= plan.equity * SharePm
    IN  fits(plan.shares) /\ ~fits(plan.shares + 1)

\* The session statistics account for every candidate: those that are not
\* counted as passed or failed are in a handler.
StatsAddUp ==
  stats.received = stats.passed + stats.failed + Cardinality({h \in Handlers : checking[h] # NoSignal})

\* The cache stays within its capacity and holds a signal once.
CacheIsBounded ==
  Len(cache) <= CacheSize /\ Cardinality(Cached) = Len(cache)

\* Whatever the bus does to the messages and however handlers overlap, plans
\* are vetted and sized within both limits, and nothing is lost from the books.
PathIsSound == PlanIsVetted /\ RiskWithinBudget /\ StatsAddUp /\ CacheIsBounded

=============================================================================
