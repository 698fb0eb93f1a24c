----------------------------- MODULE Positions ------------------------------
(***************************************************************************)
(* The life of an open position: the micro-monitoring agent                *)
(* (agents/agent_11_micro_monitoring.py), which watches it every 100 ms    *)
(* and decides that it must go, and the exit agent                         *)
(* (agents/agent_12_exit_lockin.py), which closes it at the broker.        *)
(*                                                                         *)
(* An evaluation holds the position object it began with across the waits  *)
(* for a tick and for bars; a POSITION_UPDATE replaces the object in the   *)
(* table meanwhile.  Updates and triggers that were published stay in a    *)
(* set or a counter and are delivered in any order, again, or never.       *)
(* Each position has a symbol of its own.                                  *)
(***************************************************************************)
EXTENDS Naturals, Integers, FiniteSets

CONSTANTS
  Longs, Shorts,   \* positions by direction
  Entry, Risk,     \* entry price and distance of the planned stop, in ticks
  MidPrices,       \* mid prices the feed shows
  MaxClock,        \* bound: clock; the planned time stop
  MaxOpened,       \* bound: positions opened
  MaxMonitored,    \* bound: times a position is registered by a fill event
  ExitTasks,       \* handlers of EXIT_TRIGGERED, per position
  MaxCloses        \* bound: orders to close one position

ASSUME PositionsAssumption ==
  /\ Longs \cap Shorts = {}
  /\ Entry \in Nat /\ Risk \in Nat /\ Risk < Entry /\ Risk % 4 = 0
  /\ MidPrices \subseteq Nat /\ MaxClock \in Nat
  /\ IsFiniteSet(ExitTasks)

VARIABLES
  minute,     \* utcnow
  rows,       \* open positions in the store
  monitors,   \* _monitors
  evaluating, \* position -> the object an evaluation holds
  tightened,  \* _regime_tightened
  updates,    \* POSITION_UPDATEs published, with their position
  registered, \* history: fill events that put a position under watch
  triggered,  \* EXIT_TRIGGEREDs published, per position
  active,     \* _active_positions of the exit agent
  exiting,    \* position -> handler -> what it awaits behind the close
  noReentry,  \* _no_reentry_until
  tradesClosed, \* TRADE_CLOSEDs published, per position
  held,       \* positions the broker holds
  working,    \* positions an order to close works for
  closes,     \* orders to close the broker took from _execute_exit
  unfilled    \* positions an order to close ended for without a fill

watch == <<monitors, evaluating, tightened, registered>>
exits == <<active, exiting, noReentry, tradesClosed>>
broker == <<held, working, closes, unfilled>>
positionVars == <<minute, rows, watch, updates, triggered, exits, broker>>

Pids == Longs \cup Shorts
None == [stop |-> 0]
Idle == [stop |-> 1]
Same == [stop |-> 2]   \* the evaluation holds the object in the table

-----------------------------------------------------------------------------
Planned(p) == [stop |-> IF p \in Longs THEN Entry - Risk ELSE Entry + Risk,
               trail |-> 0, until |-> MaxClock]

PositionInit ==
  /\ minute = 0
  /\ rows = [p \in Pids |-> None]
  /\ monitors = [p \in Pids |-> None]
  /\ evaluating = [p \in Pids |-> Idle]
  /\ tightened = {} /\ updates = {}
  /\ registered = [p \in Pids |-> 0]
  /\ triggered = [p \in Pids |-> 0]
  /\ active = {} /\ noReentry = [p \in Pids |-> 0]
  /\ exiting = [p \in Pids |-> [k \in ExitTasks |-> "none"]]
  /\ tradesClosed = [p \in Pids |-> 0]
  /\ held = {} /\ working = {} /\ unfilled = {}
  /\ closes = [p \in Pids |-> 0]

\* A position of the plan is opened at the broker and its row is written.
\* (The repository leaves the writer of the row to its deployment.)
OpenPosition(p) ==
  /\ Cardinality({q \in Pids : rows[q] # None \/ registered[q] > 0 \/ q \in held}) < MaxOpened
  /\ rows[p] = None /\ registered[p] = 0 /\ p \notin held
  /\ rows' = [rows EXCEPT ![p] = Planned(p)]
  /\ held' = held \cup {p}
  /\ UNCHANGED <<minute, watch, updates, triggered, exits, working, closes, unfilled>>

MinutePasses ==
  /\ minute < MaxClock
  /\ minute' = minute + 1
  /\ UNCHANGED <<rows, watch, updates, triggered, exits, broker>>

-----------------------------------------------------------------------------
(* The micro-monitoring agent. *)

\* The object an evaluation in progress keeps when the table entry goes.
Detached(p) == IF evaluating[p] = Same THEN [evaluating EXCEPT ![p] = monitors[p]] ELSE evaluating

\* _handle_fill_event: the row of the store, unless it is watched already.
RegisterFill(p) ==
  /\ registered[p] < MaxMonitored
  /\ rows[p] # None /\ monitors[p] = None
  /\ monitors' = [monitors EXCEPT ![p] = rows[p]]
  /\ registered' = [registered EXCEPT ![p] = @ + 1]
  /\ UNCHANGED <<minute, rows, evaluating, tightened, updates, triggered, exits, broker>>

\* _handle_position_update: the published object replaces the one in the
\* table, be it the agent's own and older.
TakeUpdate(u) ==
  /\ monitors[u.pid] # None
  /\ evaluating' = Detached(u.pid)
  /\ monitors' = [monitors EXCEPT ![u.pid] = u.pos]
  /\ UNCHANGED <<minute, rows, tightened, registered, updates, triggered, exits, broker>>

\* _handle_position_update for a position closed elsewhere.
TakeClosed(p) ==
  /\ monitors[p] # None
  /\ evaluating' = Detached(p)
  /\ monitors' = [monitors EXCEPT ![p] = None]
  /\ tightened' = tightened \ {p}
  /\ UNCHANGED <<minute, rows, registered, updates, triggered, exits, broker>>

\* Mutant: the position leaves the table only when its close is reported.
MonitorsAfterTriggerLate(p) == monitors

\* "Remove from monitor set immediately to prevent double-trigger."
MonitorsAfterTrigger(p) == [monitors EXCEPT ![p] = None]

\* _trigger_exit.
TriggerExit(p) ==
  /\ monitors' = MonitorsAfterTrigger(p)
  /\ triggered' = [triggered EXCEPT ![p] = @ + 1]
  /\ tightened' = tightened \ {p}
  /\ evaluating' = [evaluating EXCEPT ![p] = Idle]
  /\ UNCHANGED <<minute, rows, registered, updates, exits, broker>>

\* Mutant: the time stop is looked at once a tick has come.
TimeStopDueLate(p) == FALSE

TimeStopDue(p) == minute >= monitors[p].until

\* _monitoring_loop takes up a position; the time stop comes before any wait.
BeginEvaluation(p) ==
  /\ monitors[p] # None /\ evaluating[p] = Idle
  /\ IF TimeStopDue(p)
     THEN TriggerExit(p)
     ELSE /\ evaluating' = [evaluating EXCEPT ![p] = Same]
          /\ UNCHANGED <<minute, rows, monitors, tightened, registered, updates, triggered, exits, broker>>

\* No tick, or an exception: the evaluation is given up.
NoTick(p) ==
  /\ evaluating[p] # Idle
  /\ evaluating' = [evaluating EXCEPT ![p] = Idle]
  /\ UNCHANGED <<minute, rows, monitors, tightened, registered, updates, triggered, exits, broker>>

Profit(p, price) == IF p \in Longs THEN price - Entry ELSE Entry - price
Better(p, a, b) == IF p \in Longs THEN a > b ELSE a < b
RiskOf(p, pos) == IF p \in Longs THEN Entry - pos.stop ELSE pos.stop - Entry
StopHit(p, pos, price) ==
  LET stop == IF pos.trail # 0 THEN pos.trail ELSE pos.stop
  IN  IF p \in Longs THEN price <= stop ELSE price >= stop

\* Mutant: the half risk is added for shorts as it is for longs.
TrailLevelUp(p, pos, price) ==
  IF 2 * Profit(p, price) >= 3 * RiskOf(p, pos)
  THEN Entry + RiskOf(p, pos) \div 2
  ELSE IF Profit(p, price) >= RiskOf(p, pos) THEN Entry ELSE 0

\* _update_trailing_stop: 0.5R above the entry from 1.5R of profit on,
\* breakeven from 1R on; 0 for no candidate.
TrailLevel(p, pos, price) ==
  IF 2 * Profit(p, price) >= 3 * RiskOf(p, pos)
  THEN IF p \in Longs THEN Entry + RiskOf(p, pos) \div 2 ELSE Entry - RiskOf(p, pos) \div 2
  ELSE IF Profit(p, price) >= RiskOf(p, pos) THEN Entry ELSE 0

\* _check_atr_expansion over the latest bars, which says no when there are none,
\* and the spread against that of the entry.
Tapes == {"calm", "expanded", "doubled"}
Shock(tape) == tape \in {"expanded", "doubled"}

\* _evaluate_position from the tick on.  The trailing stop is set on the object at hand, and
\* that object is saved and published.
FinishEvaluation(p, price, tape) ==
  /\ evaluating[p] # Idle
  /\ LET pos == IF evaluating[p] = Same THEN monitors[p] ELSE evaluating[p]
         level == TrailLevel(p, pos, price)
         moved == [pos EXCEPT !.trail = level]
     IN  IF StopHit(p, pos, price) \/ Shock(tape)
         THEN TriggerExit(p)
         ELSE /\ IF /\ RiskOf(p, pos) > 0 /\ level # 0
                    /\ pos.trail = 0 \/ Better(p, level, pos.trail)
                 THEN /\ monitors' = IF evaluating[p] = Same
                                     THEN [monitors EXCEPT ![p] = moved] ELSE monitors
                      /\ rows' = [rows EXCEPT ![p] = moved]
                      /\ updates' = updates \cup {[pid |-> p, pos |-> moved]}
                 ELSE UNCHANGED <<monitors, rows, updates>>
              /\ evaluating' = [evaluating EXCEPT ![p] = Idle]
              /\ UNCHANGED <<minute, tightened, registered, triggered, exits, broker>>

\* Half the risk; never wider than before.
TightStop(p, pos) ==
  IF p \in Longs THEN Entry - RiskOf(p, pos) \div 2 ELSE Entry + RiskOf(p, pos) \div 2

\* _handle_regime_update with a new label and
\* _apply_regime_flip_to_open_positions.
RegimeFlips ==
  LET flipped == {p \in Pids \ tightened : monitors[p] # None}
      tight(p) == [monitors[p] EXCEPT !.stop = TightStop(p, monitors[p]),
                                      !.until = IF @ < minute + 1 THEN @ ELSE minute + 1]
  IN  /\ flipped # {}
      /\ monitors' = [p \in Pids |-> IF p \in flipped THEN tight(p) ELSE monitors[p]]
      /\ rows' = [p \in Pids |-> IF p \in flipped THEN tight(p) ELSE rows[p]]
      /\ updates' = updates \cup {[pid |-> p, pos |-> tight(p)] : p \in flipped}
      /\ tightened' = tightened \cup flipped
      /\ UNCHANGED <<minute, evaluating, registered, triggered, exits, broker>>

-----------------------------------------------------------------------------
(* The exit agent. *)

\* _handle_fill with a position snapshot; a late copy brings back a position
\* that was closed since.
TrackPosition(p) ==
  /\ rows[p] # None \/ registered[p] > 0
  /\ active' = active \cup {p}
  /\ UNCHANGED <<minute, rows, watch, updates, triggered, exiting, noReentry, tradesClosed, broker>>

\* The broker takes an order to close a position it holds and that no other
\* order reserves.
Takes(p) == p \in held \ working

\* Mutant: close_position's answer is not looked at.
ConfirmedAlways(answered) == TRUE

\* "if broker_order": any answered order will do, be it just submitted; the
\* adapter turns every exception into None.
Confirmed(answered) == answered

\* _handle_exit_trigger and _execute_exit up to the first await that yields.
ExecuteExit(p, k) ==
  \E taken, answered \in BOOLEAN :
    /\ triggered[p] > 0 /\ p \in active /\ exiting[p][k] = "none"
    /\ closes[p] < MaxCloses
    /\ taken => Takes(p)
    /\ answered => taken
    /\ working' = IF taken THEN working \cup {p} ELSE working
    /\ closes' = IF taken THEN [closes EXCEPT ![p] = @ + 1] ELSE closes
    /\ exiting' = IF Confirmed(answered) THEN [exiting EXCEPT ![p][k] = "save"] ELSE exiting
    /\ UNCHANGED <<minute, rows, watch, updates, triggered, active, noReentry, tradesClosed, held, unfilled>>

\* save_closed_trade comes back.
TradeSaved(p, k) ==
  /\ exiting[p][k] = "save"
  /\ exiting' = [exiting EXCEPT ![p][k] = "delete"]
  /\ UNCHANGED <<minute, rows, watch, updates, triggered, active, noReentry, tradesClosed, broker>>

\* delete_position
RowDeleted(p, k) ==
  /\ exiting[p][k] = "delete"
  /\ rows' = [rows EXCEPT ![p] = None]
  /\ exiting' = [exiting EXCEPT ![p][k] = "publish"]
  /\ UNCHANGED <<minute, watch, updates, triggered, active, noReentry, tradesClosed, broker>>

\* TRADE_CLOSED reaches the bus; the publish may raise all the same.
ClosePublished(p, k, raises) ==
  /\ exiting[p][k] = "publish"
  /\ tradesClosed' = [tradesClosed EXCEPT ![p] = @ + 1]
  /\ exiting' = [exiting EXCEPT ![p][k] = IF raises THEN "none" ELSE "audit"]
  /\ UNCHANGED <<minute, rows, watch, updates, triggered, active, noReentry, broker>>

\* The close is audited; the position is forgotten and, after a time stop or a
\* volatility shock, its symbol closed to re-entry.
ExitDone(p, k, stopOut) ==
  /\ exiting[p][k] = "audit"
  /\ active' = active \ {p}
  /\ noReentry' = IF stopOut THEN [noReentry EXCEPT ![p] = minute + 1] ELSE noReentry
  /\ exiting' = [exiting EXCEPT ![p][k] = "none"]
  /\ UNCHANGED <<minute, rows, watch, updates, triggered, tradesClosed, broker>>

\* The store, the bus or the audit log raises: everything behind is skipped.
ExitFails(p, k) ==
  /\ exiting[p][k] # "none"
  /\ exiting' = [exiting EXCEPT ![p][k] = "none"]
  /\ UNCHANGED <<minute, rows, watch, updates, triggered, active, noReentry, tradesClosed, broker>>

\* An order to close, or a leg of the position's own bracket, is filled.
PositionGoes(p) ==
  /\ p \in held
  /\ held' = held \ {p} /\ working' = working \ {p}
  /\ UNCHANGED <<minute, rows, watch, updates, triggered, exits, closes, unfilled>>

\* An order to close is rejected, cancelled or expires.
CloseUnfilled(p) ==
  /\ p \in working
  /\ working' = working \ {p} /\ unfilled' = unfilled \cup {p}
  /\ UNCHANGED <<minute, rows, watch, updates, triggered, exits, held, closes>>

\* _emergency_flatten_all: orders are cancelled, those that close a position
\* too, and all positions are to be closed; the adapter swallows a failure of
\* either call, so that the table is emptied in any case.
EmergencyFlatten(cancelled, closing) ==
  /\ active # {}
  /\ active' = {}
  /\ unfilled' = IF cancelled \/ closing THEN unfilled \cup working ELSE unfilled
  /\ working' = IF closing THEN held ELSE IF cancelled THEN {} ELSE working
  /\ UNCHANGED <<minute, rows, watch, updates, triggered, exiting, noReentry, tradesClosed, held, closes>>

\* is_reentry_allowed forgets a window that is over.
ReentryAsked(p) ==
  /\ noReentry[p] # 0 /\ minute >= noReentry[p]
  /\ noReentry' = [noReentry EXCEPT ![p] = 0]
  /\ UNCHANGED <<minute, rows, watch, updates, triggered, active, exiting, tradesClosed, broker>>

-----------------------------------------------------------------------------
PositionNext ==
  \/ \E p \in Pids :
       \/ OpenPosition(p) \/ RegisterFill(p) \/ TakeClosed(p)
       \/ BeginEvaluation(p) \/ NoTick(p)
       \/ \E price \in MidPrices, tape \in Tapes : FinishEvaluation(p, price, tape)
       \/ TrackPosition(p) \/ ReentryAsked(p)
       \/ PositionGoes(p) \/ CloseUnfilled(p)
       \/ \E k \in ExitTasks :
            \/ ExecuteExit(p, k) \/ TradeSaved(p, k) \/ RowDeleted(p, k)
            \/ \E raises \in BOOLEAN : ClosePublished(p, k, raises)
            \/ \E stopOut \in BOOLEAN : ExitDone(p, k, stopOut)
            \/ ExitFails(p, k)
  \/ \E u \in updates : TakeUpdate(u)
  \/ RegimeFlips
  \/ \E cancelled, closing \in BOOLEAN : EmergencyFlatten(cancelled, closing)
  \/ MinutePasses

PositionSpec == PositionInit /\ [][PositionNext]_positionVars

\* The monitoring task runs every 100 ms and its calls come back or raise.
EvaluationDone(p) == NoTick(p) \/ \E price \in MidPrices, tape \in Tapes : FinishEvaluation(p, price, tape)

-----------------------------------------------------------------------------
(* Properties. *)

\* In whatever order ticks, regime flips and (stale) updates come, the planned
\* stop of a watched position stays on the losing side of its entry at no more
\* than the planned risk, and a trailing stop locks in breakeven or better.
StopProtects ==
  \A p \in Pids : monitors[p] # None =>
    LET pos == monitors[p] IN
    /\ 0 <= RiskOf(p, pos) /\ RiskOf(p, pos) <= Risk
    /\ pos.trail # 0 => Profit(p, pos.trail) >= 0

\* "Remove from monitor set immediately to prevent double-trigger": every
\* EXIT_TRIGGERED belongs to a fill event of its own that put the position
\* under watch, also when an evaluation outlives the object it began with.
OneTriggerPerWatch ==
  \A p \in Pids : triggered[p] + (IF monitors[p] # None THEN 1 ELSE 0) <= registered[p]

\* TRADE_CLOSED and the deletion of the row say that an order to close was
\* taken, never that it was filled: however often an exit is triggered and
\* whatever fails behind the broker's answer, there are no more reports than
\* orders taken, the row of a position that fills made known goes only after
\* one was taken, and a position reported closed that the broker still holds
\* is one whose closing order works or has ended without a fill.
ClosesAreBacked ==
  \A p \in Pids :
    /\ tradesClosed[p] <= closes[p]
    /\ rows[p] = None /\ (registered[p] > 0 \/ p \in active) => closes[p] > 0
    /\ tradesClosed[p] > 0 /\ p \in held => p \in working \cup unfilled

\* Time stop (HARD): a watched position whose time is over leaves the watch
\* list, even when the feed never shows another tick.
TimeStopFires ==
  \A p \in Pids : (monitors[p] # None /\ minute >= MaxClock) ~> monitors[p] = None

\* From fill to close, with stale objects, doubled triggers and refusing
\* brokers: the stop protects, a watch triggers once, a close is backed by an order.
PositionsAreSound == StopProtects /\ OneTriggerPerWatch /\ ClosesAreBacked

=============================================================================
