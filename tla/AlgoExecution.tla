--------------------------- MODULE AlgoExecution ----------------------------
(***************************************************************************)
(* One parent order in the algo engine (agents/agent_24_algo_execution.py):*)
(* its caller asks for the next child order again and again, sends it, and *)
(* records the fills, which come late, in part, out of order or never.     *)
(* Time is counted in steps of the execution window; Profile is the        *)
(* cumulative share of the day's volume, in tenths, and ISTimes are the    *)
(* times at which exp(-5 u e) > (1 - e) / 2 for the order's urgency u and  *)
(* the elapsed fraction e.                                                 *)
(***************************************************************************)
EXTENDS Naturals, Sequences, SequencesExt

CONSTANTS
  Totals,     \* total_qty of the order, one of these
  ChildSize,  \* child_size
  Duration,   \* length of the execution window
  Profile,    \* time -> cumulative volume in tenths
  ISTimes     \* times at which implementation shortfall sends

ASSUME AlgoAssumption ==
  /\ Totals \subseteq Nat \ {0} /\ {ChildSize, Duration} \subseteq Nat \ {0}
  /\ Profile \in [0 .. Duration -> 0 .. 10] /\ Profile[0] = 0 /\ Profile[Duration] = 10
  /\ \A t \in 1 .. Duration : Profile[t - 1] <= Profile[t]
  /\ ISTimes \subseteq 0 .. Duration /\ Duration \in ISTimes

VARIABLES
  algo,      \* algo_type
  total,     \* total_qty
  status,    \* status of the order
  filledQty, \* filled_qty
  slices,    \* slices_sent
  children,  \* child orders: quantity sent, and what of it was not filled
  elapsed    \* time since submit, Duration and later alike

algoVars == <<algo, total, status, filledQty, slices, children, elapsed>>

AlgoInit ==
  /\ algo \in {"twap", "vwap", "pov", "is"} /\ total \in Totals
  /\ status = "PENDING" /\ filledQty = 0 /\ slices = 0
  /\ children = <<>> /\ elapsed = 0

SubmitParent ==
  /\ status = "PENDING" /\ status' = "ACTIVE"
  /\ UNCHANGED <<algo, total, filledQty, slices, children, elapsed>>

CancelParent ==
  /\ status = "ACTIVE" /\ status' = "CANCELLED"
  /\ UNCHANGED <<algo, total, filledQty, slices, children, elapsed>>

WindowPasses ==
  /\ status # "PENDING" /\ elapsed < Duration
  /\ elapsed' = elapsed + 1
  /\ UNCHANGED <<algo, total, status, filledQty, slices, children>>

\* Mutant: rounded down, and one more for the rest.
NumSlicesPlusOne == total \div ChildSize + 1

NumSlices == (total + ChildSize - 1) \div ChildSize

Remaining == IF filledQty < total THEN total - filledQty ELSE 0

Due == (elapsed * NumSlices) \div Duration

\* Mutant: the slice after the one that is due.
TwapSendsEarly == slices <= Due + 1

TwapSends == slices <= Due

\* Mutant: only a whole child order below the target is sent.
VwapSendsWhole == (slices + 1) * ChildSize * 10 <= total * Profile[elapsed]

VwapSends == slices * ChildSize * 10 < total * Profile[elapsed] /\ Remaining > 0

\* _should_send; volume says whether the market traded enough for POV.
ShouldSend(volume) ==
  \/ algo = "twap" /\ TwapSends
  \/ algo = "vwap" /\ VwapSends
  \/ algo = "pov" /\ volume
  \/ algo = "is" /\ elapsed \in ISTimes

FullySent == Remaining = 0 \/ slices >= NumSlices

\* next_child_order finds that nothing is left to send.
NoChildLeft ==
  /\ status = "ACTIVE" /\ FullySent
  /\ status' = "COMPLETED"
  /\ UNCHANGED <<algo, total, filledQty, slices, children, elapsed>>

\* next_child_order returns a child; the last slice completes the order.
NextChildOrder(volume) ==
  /\ status = "ACTIVE" /\ ~FullySent /\ ShouldSend(volume)
  /\ LET qty == IF Remaining < ChildSize THEN Remaining ELSE ChildSize IN
       children' = Append(children, [qty |-> qty, open |-> qty])
  /\ slices' = slices + 1
  /\ status' = IF slices' >= NumSlices THEN "COMPLETED" ELSE "ACTIVE"
  /\ UNCHANGED <<algo, total, filledQty, elapsed>>

\* record_fill of a part of child k, at any time after it was sent.
RecordChildFill(k, qty) ==
  /\ qty \in 1 .. children[k].open
  /\ children' = [children EXCEPT ![k].open = @ - qty]
  /\ filledQty' = filledQty + qty
  /\ status' = IF filledQty' >= total THEN "COMPLETED" ELSE status
  /\ UNCHANGED <<algo, total, slices, elapsed>>

AlgoNext ==
  \/ SubmitParent \/ CancelParent \/ WindowPasses \/ NoChildLeft
  \/ \E volume \in BOOLEAN : NextChildOrder(volume)
  \/ \E k \in DOMAIN children : \E qty \in 1 .. children[k].open : RecordChildFill(k, qty)

AlgoSpec == AlgoInit /\ [][AlgoNext]_algoVars

-----------------------------------------------------------------------------
(* Properties. *)

\* A child's size does not depend on the children that are still out, so the
\* order may be overfilled, but by less than one child order.
OverfillIsBounded ==
  /\ FoldSeq(LAMBDA c, sum : c.qty + sum, 0, children) < total + ChildSize
  /\ filledQty < total + ChildSize

\* However often and late the caller asks, TWAP never sends a slice before its
\* time and VWAP is less than a child order ahead of the volume curve.
PaceIsKept ==
  /\ algo = "twap" /\ slices > 0 => slices <= Due + 1
  /\ algo = "vwap" => slices * ChildSize * 10 < total * Profile[elapsed] + ChildSize * 10

\* A caller that goes on asking ends every order that is paced by the clock,
\* whether its children are filled or not.
ParentEnds == (status = "ACTIVE" /\ algo # "pov") ~> status \in {"COMPLETED", "CANCELLED"}

\* A parent order is sliced within its size and pace, and comes to its end.
SlicingIsSound == [](OverfillIsBounded /\ PaceIsKept) /\ ParentEnds

=============================================================================
