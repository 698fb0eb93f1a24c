-------------------------- MODULE ExecutionQuality --------------------------
(***************************************************************************)
(* The execution quality agent (agents/agent_10_execution_quality.py),     *)
(* whose verdict makes the sizing agent careful.  A handler enters the     *)
(* fill or rejection in the window, waits for the audit log and the bus,   *)
(* and judges the window as it is then; handlers interleave there.         *)
(***************************************************************************)
EXTENDS Naturals, Integers, Sequences, FiniteSets

CONSTANTS
  Orders,        \* order ids
  Slippages,     \* slippage of a fill, in bps
  SlipLimit,     \* slippage_pause_threshold_bps
  RejectPc,      \* rejection_rate_pause_threshold, in percent
  WindowSize     \* _ROLLING_WINDOW_SIZE

ASSUME QualityAssumption ==
  /\ Slippages \subseteq Nat /\ SlipLimit \in Nat /\ RejectPc \in Nat /\ WindowSize \in Nat \ {0}

VARIABLES
  pendingFills, \* _pending_fills
  measured,     \* history: orders with a fill or a rejection handled
  window,       \* _metrics_window
  judging,      \* handlers that appended and wait for audit log and bus
  degraded,     \* _quality_degraded
  told,         \* quality_degraded of the last summary published
  severe        \* a PSA_ALERT about severe degradation was published

qualityVars == <<pendingFills, measured, window, judging, degraded, told, severe>>

QualityInit ==
  /\ pendingFills = {} /\ measured = {} /\ window = <<>> /\ judging = 0
  /\ degraded = FALSE /\ told = FALSE /\ severe = FALSE

-----------------------------------------------------------------------------
\* _handle_order_submitted.
OrderSubmitted(o) ==
  /\ o \notin pendingFills
  /\ pendingFills' = pendingFills \cup {o}
  /\ UNCHANGED <<measured, window, judging, degraded, told, severe>>

Rolled(entry) ==
  IF Len(window) = WindowSize THEN Append(Tail(window), entry) ELSE Append(window, entry)

\* Mutant: a rejection is recorded and not judged.
AwaitsVerdictFills(entry) == entry.slip >= 0

\* Every entry is judged, behind the audit log and the bus.
AwaitsVerdict(entry) == TRUE

Measured(o, entry) ==
  /\ o \notin measured
  /\ measured' = measured \cup {o}
  /\ pendingFills' = pendingFills \ {o}
  /\ window' = Rolled(entry)
  /\ judging' = judging + (IF AwaitsVerdict(entry) THEN 1 ELSE 0)
  /\ UNCHANGED <<degraded, told, severe>>

\* _handle_fill_event: the fill of an order whose submission was not seen
\* counts in the window and in no average (slip = -1 for unknown).
FillMeasured(o, slip) ==
  Measured(o, [slip |-> IF o \in pendingFills THEN slip ELSE -1, rejected |-> FALSE])

\* _handle_order_update with status REJECTED.
OrderRejected(o) == Measured(o, [slip |-> -1, rejected |-> TRUE])

\* The places of the window with a measured fill, and with a rejection.
Fills == {i \in 1 .. Len(window) : ~window[i].rejected /\ window[i].slip >= 0}
Rejections == {i \in 1 .. Len(window) : window[i].rejected}

SlipSum ==
  LET sum[i \in 0 .. Len(window)] ==
        IF i = 0 THEN 0 ELSE sum[i - 1] + (IF i \in Fills THEN window[i].slip ELSE 0)
  IN  sum[Len(window)]
SlipsAbove(limit) == Fills # {} /\ SlipSum > limit * Cardinality(Fills)

\* _compute_session_summary and the condition of _check_quality_degradation.
Poor ==
  \/ SlipsAbove(SlipLimit)
  \/ 100 * Cardinality(Rejections) > RejectPc * Len(window)

\* A change in either direction publishes a summary.
Announced == IF Poor # degraded THEN Poor ELSE told

\* _check_quality_degradation at the end of a handler.
CheckDegradation ==
  /\ judging > 0
  /\ judging' = judging - 1
  /\ degraded' = Poor
  /\ told' = Announced
  /\ severe' = (severe \/ (Poor /\ ~degraded /\ SlipsAbove(2 * SlipLimit)))
  /\ UNCHANGED <<pendingFills, measured, window>>

\* _publish_session_summary every minute.
PublishSummary ==
  /\ told' = degraded
  /\ UNCHANGED <<pendingFills, measured, window, judging, degraded, severe>>

QualityNext ==
  \/ \E o \in Orders : OrderSubmitted(o) \/ OrderRejected(o) \/ \E slip \in Slippages : FillMeasured(o, slip)
  \/ CheckDegradation \/ PublishSummary

QualitySpec == QualityInit /\ [][QualityNext]_qualityVars

-----------------------------------------------------------------------------
(* Properties. *)

\* However the handlers of fills and rejections interleave and whatever left
\* the window: when none is in progress, the sizing agent was last told
\* exactly what the window says.
QualityIsCurrent ==
  judging = 0 => degraded = Poor /\ told = Poor
=============================================================================
