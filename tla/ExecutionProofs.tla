-------------------------- MODULE ExecutionProofs --------------------------
(***************************************************************************)
(* Proofs about the execution agent and the reconciliation agent that      *)
(* gates it: the three kinds of task that share pending_orders (handlers,  *)
(* the poll loop, watchdogs) publish a fill once and never unfill a row,   *)
(* and no order goes out behind a report that is not CLEAN.                *)
(***************************************************************************)
EXTENDS Reconciliation, FiniteSetTheorems, TLAPS

\* An order is a positive number, which None is not.
LEMMA OrdersAreNumbers == Orders \subseteq Nat /\ None \notin Orders
<1>1. Cardinality(Pumps) \in Nat
  BY ExecutionAssumption, FS_CardinalityType
<1>2. MaxPlans \in Nat
  BY ExecutionAssumption
<1>3. MaxPlans * Cardinality(Pumps) \in Nat
  BY <1>1, <1>2
<1> QED
  BY <1>3 DEF Orders, None

-----------------------------------------------------------------------------
(* The gate. *)

\* What the gate shows is the newest report, or that report is still waiting
\* in a queue that only this agent reads.
GateIsInformed == gate => latest = "CLEAN" \/ unread \ Contested # {}

\* Where the feed cannot be awaited, no handler is suspended between the
\* gates and the order.
NoneBetween == \A p \in Pumps : frame[p].at # "tick"

GateInv ==
  /\ gate \in BOOLEAN
  /\ unread \subseteq Pumps
  /\ DOMAIN frame = Pumps
  /\ GateIsInformed
  /\ NoneBetween

\* The first states: the gate is shut.
LEMMA GateInit == Init => GateInv
<1> SUFFICES ASSUME Init PROVE GateInv
  OBVIOUS
<1>1. NoneBetween
  BY DEF Init, NoneBetween, Idle
<1> QED
  BY <1>1, Zenon DEF Init, GateInv, GateIsInformed

\* A step of a handler keeps what the gate shows.
LEMMA GateHandlers ==
  ASSUME ~AwaitableFeed, GateInv, Handlers PROVE GateInv'
<1> USE DEF GateInv, GateIsInformed, NoneBetween
<1> PICK p \in Pumps :
      \/ TakeReport(p) \/ SupervisorTakesReport(p)
      \/ \E funds \in BOOLEAN : PlanBlocked(p, funds)
      \/ AskForTick(p)
      \/ \E accepted \in BOOLEAN : Submit(p, accepted) \/ SubmitAfterTick(p, accepted)
      \/ Track(p) \/ TrackFails(p) \/ AnnounceFails(p)
  BY DEF Handlers
<1>1. CASE TakeReport(p)
  <2>1. gate' \in BOOLEAN /\ (gate' => latest' = "CLEAN")
    BY <1>1, Zenon DEF TakeReport, counts
  <2> QED
    BY <1>1, <2>1 DEF TakeReport
<1>2. CASE SupervisorTakesReport(p)
  BY <1>2 DEF SupervisorTakesReport, agent, counts
<1>3. CASE \E funds \in BOOLEAN : PlanBlocked(p, funds)
  BY <1>3 DEF PlanBlocked, agent, counts
<1>4. CASE AskForTick(p)
  BY <1>4 DEF AskForTick
<1>5. CASE \E accepted \in BOOLEAN : Submit(p, accepted) \/ SubmitAfterTick(p, accepted)
  <2>1. UNCHANGED <<gate, unread, latest>>
    BY <1>5, Zenon DEF Submit, SubmitAfterTick, queues, counts
  <2>2. \E f : f.at # "tick" /\ frame' = [frame EXCEPT ![p] = f]
    BY <1>5 DEF Submit, SubmitAfterTick, Place, Idle
  <2> QED
    BY <2>1, <2>2
<1>6. CASE Track(p)
  BY <1>6 DEF Track, queues, counts
<1>7. CASE TrackFails(p) \/ AnnounceFails(p)
  BY <1>7 DEF TrackFails, AnnounceFails, Idle, queues, counts
<1> QED
  BY <1>1, <1>2, <1>3, <1>4, <1>5, <1>6, <1>7

\* Any step keeps what the gate shows.
LEMMA GateStep ==
  ASSUME ~AwaitableFeed, GateInv, [Next]_vars PROVE GateInv'
<1> USE DEF GateInv, GateIsInformed, NoneBetween
<1>1. CASE Handlers
  BY <1>1, GateHandlers
<1>2. CASE Poll
  <2>1. UNCHANGED <<gate, frame, unread, latest>>
    BY <1>2, Zenon DEF Poll, PollStart, PollFilled, PollAudited, PollAborts, PollEnd, PollSkip,
                       PollChange, queues, counts
  <2> QED
    BY <2>1
<1>3. CASE Watchdogs
  BY <1>3 DEF Watchdogs, TimeoutLeaves, TimeoutForgets, TimeoutAborts, TimeoutCancels,
              queues, counts
<1>4. CASE \E p \in Pumps : Announce(p)
  BY <1>4 DEF Announce, Idle, queues, counts
<1>5. CASE PollSaved \/ \E o \in Orders : TimeoutAnnounces(o)
  BY <1>5 DEF PollSaved, TimeoutAnnounces, queues, counts
<1>6. CASE \E plan \in Plans : PublishPlan(plan)
  BY <1>6 DEF PublishPlan, agent
<1>7. CASE \E o \in Orders : BrokerPartlyFills(o) \/ \E end \in Outcomes : BrokerEnds(o, end)
  BY <1>7 DEF BrokerPartlyFills, BrokerEnds, agent, queues, counts
<1>8. CASE Restart
  BY <1>8 DEF Restart, Idle
<1>9. CASE \E result \in {"CLEAN", "MISMATCH"} : AnyReport(result)
  BY <1>9, ExecutionAssumption DEF AnyReport, Report, agent
<1>10. CASE UNCHANGED vars
  BY <1>10 DEF vars, agent, queues, counts
<1> QED
  BY <1>1, <1>2, <1>3, <1>4, <1>5, <1>6, <1>7, <1>8, <1>9, <1>10
     DEF Next, Agent, Silent, Outside

\* A step that gives the broker an order is taken behind an open gate.
LEMMA OrderNeedsGate ==
  ASSUME ~AwaitableFeed, GateInv, [Next]_vars, Used' # Used PROVE gate
<1> SUFFICES ASSUME ~gate PROVE Used' = Used
  OBVIOUS
<1>0. ASSUME UNCHANGED broker PROVE Used' = Used
  BY <1>0 DEF Used
<1>1. CASE Handlers
  <2>1. UNCHANGED broker
    BY <1>1 DEF Handlers, TakeReport, SupervisorTakesReport, PlanBlocked, AskForTick, Submit,
                Admitted, SubmitAfterTick, Track, TrackFails, AnnounceFails, market,
                GateInv, NoneBetween
  <2> QED
    BY <2>1, <1>0
<1>2. CASE Poll
  BY <1>0, <1>2 DEF Poll, PollStart, PollFilled, PollAudited, PollAborts, PollEnd, PollSkip,
              PollChange, market
<1>3. CASE Watchdogs
  <2> PICK o \in Orders :
         \/ TimeoutLeaves(o) \/ TimeoutForgets(o) \/ TimeoutAborts(o)
         \/ \E accepted, stored \in BOOLEAN : TimeoutCancels(o, accepted, stored)
    BY <1>3 DEF Watchdogs
  <2>1. CASE TimeoutLeaves(o) \/ TimeoutForgets(o) \/ TimeoutAborts(o)
    BY <2>1, <1>0 DEF TimeoutLeaves, TimeoutForgets, TimeoutAborts, market
  <2>2. CASE \E accepted, stored \in BOOLEAN : TimeoutCancels(o, accepted, stored)
    BY <2>2 DEF TimeoutCancels, CancelAsked, Used, Alive
  <2> QED
    BY <2>1, <2>2
<1>4. CASE \/ \E p \in Pumps : Announce(p)
           \/ PollSaved \/ \E o \in Orders : TimeoutAnnounces(o)
  BY <1>0, <1>4 DEF Announce, PollSaved, TimeoutAnnounces, market
<1>6. CASE \E plan \in Plans : PublishPlan(plan)
  BY <1>0, <1>6 DEF PublishPlan, market
<1>7. CASE \E o \in Orders : BrokerPartlyFills(o)
  BY <1>7 DEF BrokerPartlyFills, Used
<1>8. CASE \E o \in Orders : \E end \in Outcomes : BrokerEnds(o, end)
  BY <1>8, ExecutionAssumption DEF BrokerEnds, Used, Ended, Alive
<1>9. CASE Restart \/ \E result \in {"CLEAN", "MISMATCH"} : AnyReport(result)
  BY <1>0, <1>9 DEF AnyReport, Restart, market
<1>10. CASE UNCHANGED vars
  BY <1>0, <1>10 DEF vars, market
<1> QED
  BY <1>1, <1>2, <1>3, <1>4, <1>6, <1>7, <1>8, <1>9, <1>10
     DEF Next, Agent, Silent, Outside

\* "No execution if reconciliation dirty": with a feed that cannot be awaited
\* (a handler then goes from its gates to submit_bracket_order in one step),
\* an order reaches the broker only behind a CLEAN report or one that still
\* waits in a queue of the agent's own.
THEOREM OrdersWaitForReports ==
  ASSUME ~AwaitableFeed PROVE Spec => NoOrderWhileDirty
<1>1. Init => GateInv
  BY GateInit
<1>2. GateInv /\ [Next]_vars => GateInv'
  BY GateStep
<1>3. GateInv /\ [Next]_vars => [Used' # Used => latest = "CLEAN" \/ unread \ Contested # {}]_vars
  BY OrderNeedsGate DEF GateInv, GateIsInformed
<1> QED
  BY <1>1, <1>2, <1>3, PTL DEF Spec, NoOrderWhileDirty

-----------------------------------------------------------------------------
(* The books. *)

\* Between two orders the poll loop has none in hand; between two rounds it
\* remembers nothing.
PollShape ==
  /\ poll.at \in {"asleep", "scan"} => poll.cur = None
  /\ poll.at \notin {"asleep", "scan"} => poll.cur \in Orders /\ poll.cur \notin poll.todo
  /\ poll.at = "asleep" => poll.todo = {} /\ poll.gone = {}

\* What the agent has written of an order it has sent, and what it tracks it
\* has an Order object of.
OrdersAreSent ==
  /\ \A o \in Orders : broker[o] = "none" =>
       status[o] = "none" /\ row[o] = "none" /\ fills[o] = 0
  /\ \A s \in Symbols : pending[s] # None =>
       status[pending[s]] # "none" /\ symbolOf[pending[s]] = s
  /\ \A o \in Orders : o \in poll.todo \/ o = poll.cur => status[o] # "none"

\* A handler that has sent its order knows it.
FramesHold == \A p \in Pumps : frame[p].at \in {"storing", "auditing"} =>
  /\ frame[p].order \in Orders
  /\ status[frame[p].order] # "none"
  /\ symbolOf[frame[p].order] = frame[p].sym

\* Until upsert_order returns, an order is its handler's alone.
StoringIsAlone == \A p \in Pumps : frame[p].at = "storing" =>
  /\ row[frame[p].order] = "none" /\ fills[frame[p].order] = 0
  /\ \A s \in Symbols : pending[s] # frame[p].order
  /\ frame[p].order \notin poll.todo /\ frame[p].order # poll.cur
  /\ \A q \in Pumps \ {p} : frame[q].at = "storing" => frame[q].order # frame[p].order

\* Nothing is called filled that the broker did not fill.
FilledIsTrue ==
  /\ \A o \in Orders : status[o] = "filled" \/ row[o] = "filled" \/ fills[o] # 0 => broker[o] = "filled"
  /\ poll.cur \in Orders /\ poll.new = "filled" => broker[poll.cur] = "filled"

\* The poll loop is about to publish the first FILL_EVENT of its order.
FillIsFirst ==
  /\ poll.at \in {"saving", "filling"} /\ poll.new = "filled" /\ poll.was # "filled" => fills[poll.cur] = 0
  /\ poll.at = "filling" => poll.new = "filled" /\ poll.was # "filled"

\* While the broker answers, the object of a filled order says so for good:
\* the poll loop meets no change to act on.
ObjectRemembers == ~BrokerMayFail =>
  /\ \A o \in Orders : fills[o] # 0 /\ o \in poll.todo => status[o] = "filled"
  /\ \A s \in Symbols : pending[s] # None /\ fills[pending[s]] # 0 => status[pending[s]] = "filled"
  /\ poll.cur \in Orders /\ poll.new = "filled" => status[poll.cur] = "filled"

\* While the store works, an order whose fill is out is not met again: it is
\* among those the round removes, and the round reaches its end.
RoundRemembers == ~StoreMayFail =>
  /\ \A o \in Orders : fills[o] # 0 => o \notin poll.todo
  /\ \A s \in Symbols : pending[s] # None /\ fills[pending[s]] # 0 => s \in poll.gone

\* Not both of them fail: the broker's answers and the store.
OneSideWorks == ~BrokerMayFail \/ ~StoreMayFail

BooksInv ==
  /\ TypeOK
  /\ PollShape /\ OrdersAreSent /\ FramesHold /\ StoringIsAlone
  /\ FilledIsTrue /\ FillIsFirst /\ ObjectRemembers /\ RoundRemembers
  /\ FillPublishedOnce

\* The first states: no order yet.
LEMMA BooksInit == Init => BooksInv
<1> SUFFICES ASSUME Init PROVE BooksInv
  OBVIOUS
<1> USE OrdersAreNumbers, ExecutionAssumption
<1> DEFINE s0 == CHOOSE s \in Symbols : TRUE
<1>0. s0 \in Symbols
  BY Zenon
<1> HIDE DEF s0
<1>1. TypeOK
  <2>1. Idle \in [at : {"idle", "tick", "storing", "auditing"}, sym : Symbols,
                  kind : PlanKinds, order : Orders \cup {None}]
    BY <1>0 DEF Idle, s0, PlanKinds
  <2>2. Asleep \in [at : {"asleep", "scan", "saving", "failing", "filling", "auditing"},
               todo : SUBSET Orders, gone : SUBSET Symbols, cur : Orders \cup {None},
               was : Status, new : Status]
    BY DEF Asleep, Status
  <2>3. symbolOf \in [Orders -> Symbols]
    BY <1>0 DEF Init, s0
  <2>4. gate \in BOOLEAN
    BY Zenon DEF Init
  <2> QED
    BY <2>1, <2>2, <2>3, <2>4 DEF Init, TypeOK
<1>2. PollShape /\ OrdersAreSent /\ FramesHold /\ StoringIsAlone
  BY DEF Init, PollShape, OrdersAreSent, FramesHold, StoringIsAlone, Idle, Asleep
<1>3. FilledIsTrue /\ FillIsFirst /\ ObjectRemembers /\ RoundRemembers /\ FillPublishedOnce
  BY DEF Init, FilledIsTrue, FillIsFirst, ObjectRemembers, RoundRemembers, FillPublishedOnce,
         Asleep
<1> QED
  BY <1>1, <1>2, <1>3 DEF BooksInv

\* A step that leaves the orders alone leaves the books alone.
LEMMA BooksUntouched ==
  ASSUME BooksInv, TypeOK',
         UNCHANGED <<pending, status, frame, poll, symbolOf, row, broker, fills>>
  PROVE  BooksInv'
<1>1. PollShape' /\ OrdersAreSent' /\ FramesHold' /\ StoringIsAlone'
  BY DEF BooksInv, PollShape, OrdersAreSent, FramesHold, StoringIsAlone
<1>2. FilledIsTrue' /\ FillIsFirst' /\ ObjectRemembers' /\ RoundRemembers' /\ FillPublishedOnce'
  BY DEF BooksInv, FilledIsTrue, FillIsFirst, ObjectRemembers, RoundRemembers,
         FillPublishedOnce
<1> QED
  BY <1>1, <1>2 DEF BooksInv

\* A handler that returns, or waits for the tick, holds no order.
LEMMA BooksFrameLeaves ==
  ASSUME BooksInv, TypeOK', NEW p \in Pumps, NEW f, f.at \notin {"storing", "auditing"},
         frame' = [frame EXCEPT ![p] = f],
         UNCHANGED <<pending, status, poll, symbolOf, row, broker, fills>>
  PROVE  BooksInv'
<1>0. \A q \in Pumps : frame'[q] = IF q = p THEN f ELSE frame[q]
  BY DEF BooksInv, TypeOK
<1>1. PollShape' /\ OrdersAreSent' 
  BY DEF BooksInv, PollShape, OrdersAreSent
<1>2. FramesHold' /\ StoringIsAlone'
  BY <1>0 DEF BooksInv, FramesHold, StoringIsAlone
<1>3. FilledIsTrue' /\ FillIsFirst' /\ ObjectRemembers' /\ RoundRemembers' /\ FillPublishedOnce'
  BY DEF BooksInv, FilledIsTrue, FillIsFirst, ObjectRemembers, RoundRemembers,
         FillPublishedOnce
<1> QED
  BY <1>1, <1>2, <1>3 DEF BooksInv

\* The handlers keep the shape of the state.
LEMMA TypeHandlers ==
  ASSUME BooksInv, Handlers PROVE TypeOK'
<1> USE OrdersAreNumbers, ExecutionAssumption DEF BooksInv, TypeOK
<1> PICK p \in Pumps :
      \/ TakeReport(p) \/ SupervisorTakesReport(p)
      \/ \E funds \in BOOLEAN : PlanBlocked(p, funds)
      \/ AskForTick(p)
      \/ \E accepted \in BOOLEAN : Submit(p, accepted) \/ SubmitAfterTick(p, accepted)
      \/ Track(p) \/ TrackFails(p) \/ AnnounceFails(p)
  BY DEF Handlers
<1> DEFINE s0 == CHOOSE s \in Symbols : TRUE
<1>0. s0 \in Symbols
  BY Zenon
<1> HIDE DEF s0
<1>i. Idle \in [at : {"idle", "tick", "storing", "auditing"}, sym : Symbols,
                kind : PlanKinds, order : Orders \cup {None}]
  BY <1>0 DEF Idle, s0, PlanKinds
<1>q. ASSUME NextPlan(p) PROVE planQ' \in [Pumps -> Seq(Plans)] /\ Head(planQ[p]) \in Plans
  BY <1>q DEF NextPlan
<1>k. \A plan \in Plans : plan.sym \in Symbols /\ plan.kind \in PlanKinds
  BY DEF Plans
<1>1. CASE TakeReport(p)
  <2>1. gate' \in BOOLEAN
    BY <1>1, Zenon DEF TakeReport
  <2> QED
    BY <1>1, <2>1 DEF TakeReport, market, books, counts
<1>2. CASE SupervisorTakesReport(p)
  BY <1>2 DEF SupervisorTakesReport, agent, market, books, counts
<1>3. CASE \E funds \in BOOLEAN : PlanBlocked(p, funds)
  <2>1. NextPlan(p) /\ UNCHANGED <<agent, unread, market, books, counts>>
    BY <1>3 DEF PlanBlocked
  <2> QED
    BY <2>1, <1>q DEF agent, market, books, counts
<1>4. CASE AskForTick(p)
  <2> DEFINE plan == Head(planQ[p])
  <2>1. /\ NextPlan(p)
        /\ frame' = [frame EXCEPT ![p] =
             [at |-> "tick", sym |-> plan.sym, kind |-> plan.kind, order |-> None]]
        /\ UNCHANGED <<gate, pending, status, dog, poll, unread, market, books, counts>>
    BY <1>4 DEF AskForTick
  <2>2. plan.sym \in Symbols /\ plan.kind \in PlanKinds
    BY <2>1, <1>q, <1>k
  <2> HIDE DEF plan
  <2> QED
    BY <2>1, <2>2, <1>q DEF market, books, counts
<1>5. ASSUME NEW plan, plan.sym \in Symbols, plan.kind \in PlanKinds, NEW accepted \in BOOLEAN,
             Place(p, plan, accepted)
      PROVE  /\ frame' \in [Pumps -> [at : {"idle", "tick", "storing", "auditing"}, sym : Symbols,
                             kind : PlanKinds, order : Orders \cup {None}]]
             /\ status' \in [Orders -> Status \cup {"none"}]
             /\ symbolOf' \in [Orders -> Symbols]
             /\ broker' \in [Orders -> Alive \cup Ended \cup {"none"}]
  <2>1. CASE Refused(plan.kind) \/ ~accepted
    <3>1. frame' = [frame EXCEPT ![p] = Idle] /\ UNCHANGED <<status, symbolOf, broker>>
      BY <2>1, <1>5, Zenon DEF Place
    <3> QED
      BY <3>1, <1>i
  <2>2. CASE ~Refused(plan.kind) /\ accepted
    <3>1. PICK o \in Orders :
            /\ frame' = [frame EXCEPT ![p] =
                 [at |-> "storing", sym |-> plan.sym, kind |-> plan.kind, order |-> o]]
            /\ status' = [status EXCEPT ![o] = "submitted"]
            /\ symbolOf' = [symbolOf EXCEPT ![o] = plan.sym]
            /\ broker' = Placed(o)
      BY <2>2, <1>5, Zenon DEF Place
    <3> QED
      BY <3>1, <1>5 DEF Placed, Alive, Status
  <2> QED
    BY <2>1, <2>2
<1>6. CASE \E accepted \in BOOLEAN : Submit(p, accepted) \/ SubmitAfterTick(p, accepted)
  <2>1. PICK accepted \in BOOLEAN : Submit(p, accepted) \/ SubmitAfterTick(p, accepted)
    BY <1>6
  <2>2. CASE Submit(p, accepted)
    <3> DEFINE plan == Head(planQ[p])
    <3>1. NextPlan(p) /\ Place(p, plan, accepted)
          /\ UNCHANGED <<gate, pending, dog, poll, unread, part, row, fills, counts>>
      BY <2>2 DEF Submit
    <3>2. plan.sym \in Symbols /\ plan.kind \in PlanKinds
      BY <3>1, <1>q, <1>k
    <3> HIDE DEF plan
    <3> QED
      BY <3>1, <3>2, <1>q, <1>5 DEF counts
  <2>3. CASE SubmitAfterTick(p, accepted)
    <3>1. Place(p, frame[p], accepted)
          /\ UNCHANGED <<gate, pending, dog, poll, queues, part, row, fills, counts>>
      BY <2>3 DEF SubmitAfterTick
    <3>2. frame[p].sym \in Symbols /\ frame[p].kind \in PlanKinds
      OBVIOUS
    <3> QED
      BY <3>1, <3>2, <1>5 DEF counts, queues
  <2> QED
    BY <2>1, <2>2, <2>3
<1>7. CASE Track(p)
  <2>1. frame[p].order \in Orders /\ frame[p].sym \in Symbols
    BY <1>7 DEF Track, FramesHold
  <2>2. row' \in [Orders -> Status \cup {"none"}]
    BY <1>7, <2>1 DEF Track, Upserted, Status
  <2>3. pending' \in [Symbols -> Orders \cup {None}]
    BY <1>7, <2>1 DEF Track
  <2>4. frame' \in [Pumps -> [at : {"idle", "tick", "storing", "auditing"}, sym : Symbols,
                             kind : PlanKinds, order : Orders \cup {None}]]
    <3> DEFINE F == [at : {"idle", "tick", "storing", "auditing"}, sym : Symbols,
                     kind : PlanKinds, order : Orders \cup {None}]
               f == [frame[p] EXCEPT !.at = "auditing"]
    <3>1. frame[p] \in F
      OBVIOUS
    <3>2. f \in F
      BY <3>1
    <3>3. frame' = [frame EXCEPT ![p] = f] /\ frame \in [Pumps -> F]
      BY <1>7 DEF Track
    <3> HIDE DEF f, F
    <3>4. frame' \in [Pumps -> F]
      BY <3>2, <3>3
    <3> QED
      BY <3>4 DEF F
  <2> QED
    BY <1>7, <2>2, <2>3, <2>4 DEF Track, queues, market, counts
<1>8. CASE TrackFails(p) \/ AnnounceFails(p)
  <2>1. /\ frame' = [frame EXCEPT ![p] = Idle]
        /\ UNCHANGED <<gate, pending, status, dog, poll, queues, market, books, counts>>
    BY <1>8, Zenon DEF TrackFails, AnnounceFails
  <2> QED
    BY <2>1, <1>i DEF queues, market, books, counts
<1> QED
  BY <1>1, <1>2, <1>3, <1>4, <1>6, <1>7, <1>8

\* A step of the poll loop keeps the shape of the state.
LEMMA TypePoll ==
  ASSUME BooksInv, Poll \/ PollSaved PROVE TypeOK'
<1> USE OrdersAreNumbers DEF BooksInv, TypeOK
<1> DEFINE Rounds == [at : {"asleep", "scan", "saving", "failing", "filling", "auditing"},
                      todo : SUBSET Orders, gone : SUBSET Symbols, cur : Orders \cup {None},
                      was : Status, new : Status]
<1>a. Asleep \in Rounds
  BY DEF Asleep, Status
<1>n. ASSUME NEW gone \in SUBSET Symbols, NextOrder(gone) PROVE poll' \in Rounds
  BY <1>n DEF NextOrder, Asleep, Status
<1>c. poll.cur \in Orders => symbolOf[poll.cur] \in Symbols
  OBVIOUS
<1>g. poll.gone \in SUBSET Symbols
  OBVIOUS
<1>s. ASSUME NEW o \in Orders PROVE Settled(o) \in [Orders -> {"none", "asleep", "storing", "failing", "auditing", "done"}]
  BY DEF Settled
<1>1. CASE PollStart
  <2>1. Tracked \in SUBSET Orders
    BY DEF Tracked
  <2>2. poll' \in Rounds
    BY <1>1, <2>1 DEF PollStart, Asleep, Status
  <2> QED
    BY <1>1, <2>2 DEF PollStart, queues, market, books, counts
<1>2. CASE PollFilled
  <2>1. poll.cur \in Orders
    BY <1>2 DEF PollFilled, PollShape
  <2>2. fills' \in [Orders -> Nat]
    <3>1. fills' = [fills EXCEPT ![poll.cur] = fills[poll.cur] + 1] /\ fills \in [Orders -> Nat]
      BY <1>2 DEF PollFilled
    <3> HIDE DEF TypeOK, BooksInv
    <3>2. fills[poll.cur] \in Nat
      BY <2>1, <3>1, Zenon
    <3>3. fills[poll.cur] + 1 \in Nat
      BY <3>2
    <3> QED
      BY <2>1, <3>1, <3>3
  <2>3. poll' \in Rounds
    <3> DEFINE gone == poll.gone \cup {symbolOf[poll.cur]}
    <3>1. gone \in SUBSET Symbols
      BY <2>1, <1>c, <1>g
    <3>2. NextOrder(gone)
      BY <1>2 DEF PollFilled
    <3> HIDE DEF gone, Rounds
    <3> QED
      BY <1>n, <3>1, <3>2, Zenon
  <2>4. dog' \in [Orders -> {"none", "asleep", "storing", "failing", "auditing", "done"}]
    BY <1>2, <1>s, <2>1 DEF PollFilled
  <2> QED
    BY <1>2, <2>2, <2>3, <2>4 DEF PollFilled, queues, market, counts
<1>3. CASE PollAudited
  <2>1. poll' \in Rounds
    BY <1>3, <1>n DEF PollAudited
  <2> QED
    BY <1>3, <2>1 DEF PollAudited, queues, market, books, counts
<1>4. CASE PollAborts
  BY <1>4, <1>a DEF PollAborts, queues, market, books, counts
<1>5. CASE PollEnd
  <2>1. pending' \in [Symbols -> Orders \cup {None}]
    BY <1>5 DEF PollEnd
  <2> QED
    BY <1>5, <1>a, <2>1 DEF PollEnd, queues, market, books, counts
<1>6. CASE \E o \in Orders : PollSkip(o)
  <2>1. PICK o \in Orders : PollSkip(o)
    BY <1>6
  <2>2. poll' \in Rounds
    BY <2>1 DEF PollSkip
  <2> QED
    BY <2>1, <2>2 DEF PollSkip, queues, market, books, counts
<1>7. CASE \E o \in Orders, new \in Status, stored \in BOOLEAN : PollChange(o, new, stored)
  <2>1. PICK o \in Orders, new \in Status, stored \in BOOLEAN : PollChange(o, new, stored)
    BY <1>7
  <2>2. status[o] \in Status
    BY <2>1 DEF PollChange, OrdersAreSent
  <2>3. poll' \in Rounds
    BY <2>1, <2>2 DEF PollChange
  <2>4. status' \in [Orders -> Status \cup {"none"}] /\ row' \in [Orders -> Status \cup {"none"}]
    BY <2>1 DEF PollChange, Upserted
  <2>5. part' \in [Orders -> {"none", "unseen", "seen"}]
    BY <2>1 DEF PollChange
  <2> QED
    BY <2>1, <2>3, <2>4, <2>5 DEF PollChange, queues, counts
<1>8. CASE PollSaved
  <2>1. poll.cur \in Orders
    BY <1>8 DEF PollSaved, PollShape
  <2>2. poll' \in Rounds
    <3>1. CASE poll' = [poll EXCEPT !.at = "filling"]
      BY <3>1
    <3>2. CASE poll' = [poll EXCEPT !.at = "auditing", !.gone = @ \cup {symbolOf[poll.cur]}]
      <4> DEFINE gone == poll.gone \cup {symbolOf[poll.cur]}
      <4>1. gone \in SUBSET Symbols
        BY <2>1, <1>c, <1>g
      <4>2. poll' = [poll EXCEPT !.at = "auditing", !.gone = gone]
        BY <3>2
      <4> HIDE DEF gone
      <4> QED
        BY <4>1, <4>2
    <3>3. CASE NextOrder(poll.gone)
      <4>1. poll.gone \in SUBSET Symbols
        BY <1>g
      <4> HIDE DEF Rounds
      <4> QED
        BY <1>n, <3>3, <4>1, Zenon
    <3> QED
      BY <1>8, <3>1, <3>2, <3>3 DEF PollSaved
  <2>3. dog' \in [Orders -> {"none", "asleep", "storing", "failing", "auditing", "done"}]
    BY <1>8, <1>s, <2>1 DEF PollSaved
  <2> QED
    BY <1>8, <2>2, <2>3 DEF PollSaved, queues, market, books, counts
<1> QED
  BY <1>1, <1>2, <1>3, <1>4, <1>5, <1>6, <1>7, <1>8 DEF Poll

\* A watchdog's step, a step outside the agent and a restart keep the shape.
LEMMA TypeOthers ==
  ASSUME BooksInv,
         \/ Watchdogs \/ Outside \/ Restart \/ UNCHANGED vars
         \/ \E p \in Pumps : Announce(p)
         \/ \E o \in Orders : TimeoutAnnounces(o)
         \/ \E result \in {"CLEAN", "MISMATCH"} : AnyReport(result)
  PROVE  TypeOK'
<1> USE OrdersAreNumbers, ExecutionAssumption DEF BooksInv, TypeOK
<1> DEFINE s0 == CHOOSE s \in Symbols : TRUE
<1>0. s0 \in Symbols
  BY Zenon
<1> HIDE DEF s0
<1>i. Idle \in [at : {"idle", "tick", "storing", "auditing"}, sym : Symbols,
                kind : PlanKinds, order : Orders \cup {None}]
  BY <1>0 DEF Idle, s0, PlanKinds
<1>d. ASSUME NEW o \in Orders, NEW d \in {"asleep", "storing", "failing", "auditing", "done"},
             dog' = [dog EXCEPT ![o] = d]
      PROVE  dog' \in [Orders -> {"none", "asleep", "storing", "failing", "auditing", "done"}]
  BY <1>d
<1>1. CASE \E o \in Orders : TimeoutLeaves(o) \/ TimeoutAborts(o) \/ TimeoutAnnounces(o)
  <2>1. PICK o \in Orders : /\ dog' = [dog EXCEPT ![o] = "done"]
                            /\ UNCHANGED <<gate, pending, status, frame, poll, queues, market, books, counts>>
    BY <1>1, Zenon DEF TimeoutLeaves, TimeoutAborts, TimeoutAnnounces
  <2> QED
    BY <2>1, <1>d DEF queues, market, books, counts
<1>2. CASE \E o \in Orders : TimeoutForgets(o)
  <2>1. PICK o \in Orders : TimeoutForgets(o)
    BY <1>2
  <2>2. pending' \in [Symbols -> Orders \cup {None}]
    BY <2>1 DEF TimeoutForgets
  <2> QED
    BY <2>1, <2>2, <1>d DEF TimeoutForgets, queues, market, books, counts
<1>3. CASE \E o \in Orders : \E accepted, stored \in BOOLEAN : TimeoutCancels(o, accepted, stored)
  <2>1. PICK o \in Orders, accepted \in BOOLEAN, stored \in BOOLEAN : TimeoutCancels(o, accepted, stored)
    BY <1>3
  <2>2. broker' \in [Orders -> Alive \cup Ended \cup {"none"}]
    BY <2>1 DEF TimeoutCancels, CancelAsked, Alive
  <2>3. status' \in [Orders -> Status \cup {"none"}] /\ row' \in [Orders -> Status \cup {"none"}]
    BY <2>1 DEF TimeoutCancels, Upserted, Status, Ended
  <2> QED
    BY <2>1, <2>2, <2>3, <1>d DEF TimeoutCancels, queues, counts
<1>4. CASE \E p \in Pumps : Announce(p)
  <2>1. PICK p \in Pumps : Announce(p)
    BY <1>4
  <2>2. frame[p].order \in Orders
    BY <2>1 DEF Announce, FramesHold
  <2>3. dog' \in [Orders -> {"none", "asleep", "storing", "failing", "auditing", "done"}]
    BY <2>1, <2>2 DEF Announce
  <2> QED
    BY <2>1, <2>3, <1>i DEF Announce, queues, market, books, counts
<1>5. CASE \E plan \in Plans : PublishPlan(plan)
  BY <1>5 DEF PublishPlan, agent, market, books
<1>6. CASE \E o \in Orders : BrokerPartlyFills(o)
  BY <1>6 DEF BrokerPartlyFills, agent, queues, books, counts, Alive
<1>7. CASE \E o \in Orders : \E end \in Outcomes : BrokerEnds(o, end)
  BY <1>7 DEF BrokerEnds, agent, queues, books, counts
<1>8. CASE Restart
  <2>1. Asleep \in [at : {"asleep", "scan", "saving", "failing", "filling", "auditing"},
               todo : SUBSET Orders, gone : SUBSET Symbols, cur : Orders \cup {None},
               was : Status, new : Status]
    BY DEF Asleep, Status
  <2>2. row' \in [Orders -> Status \cup {"none"}]
    BY <1>8 DEF Restart, Status
  <2>3. gate' \in BOOLEAN
    BY <1>8, Zenon DEF Restart
  <2> QED
    BY <1>8, <1>i, <2>1, <2>2, <2>3 DEF Restart, market
<1>9. CASE \E result \in {"CLEAN", "MISMATCH"} : AnyReport(result)
  BY <1>9 DEF AnyReport, Report, agent, market, books
<1>10. CASE UNCHANGED vars
  BY <1>10 DEF vars, agent, queues, market, books, counts
<1> QED
  BY <1>1, <1>2, <1>3, <1>4, <1>5, <1>6, <1>7, <1>8, <1>9, <1>10 DEF Watchdogs, Outside

\* The order a handler places is new to the agent.
LEMMA BooksPlace ==
  ASSUME BooksInv, TypeOK', NEW p \in Pumps, NEW plan, NEW accepted, Place(p, plan, accepted),
         UNCHANGED <<pending, poll, row, fills>>
  PROVE  BooksInv'
<1>1. CASE Refused(plan.kind) \/ ~accepted
  <2>1. frame' = [frame EXCEPT ![p] = Idle] /\ UNCHANGED <<status, symbolOf, broker>>
    BY <1>1, Zenon DEF Place
  <2>2. Idle.at \notin {"storing", "auditing"}
    BY DEF Idle
  <2> QED
    BY <2>1, <2>2, BooksFrameLeaves
<1>2. CASE ~Refused(plan.kind) /\ accepted
  <2>1. PICK o \in Orders :
            /\ Fresh(o)
            /\ frame' = [frame EXCEPT ![p] =
                 [at |-> "storing", sym |-> plan.sym, kind |-> plan.kind, order |-> o]]
            /\ status' = [status EXCEPT ![o] = "submitted"]
            /\ symbolOf' = [symbolOf EXCEPT ![o] = plan.sym]
            /\ broker' = Placed(o)
    BY <1>2, Zenon DEF Place
  <2>2. broker[o] = "none" /\ status[o] = "none" /\ row[o] = "none" /\ fills[o] = 0
    BY <2>1 DEF Fresh, Used, BooksInv, OrdersAreSent
  <2>3. \A n \in Orders : /\ status'[n] = IF n = o THEN "submitted" ELSE status[n]
                          /\ symbolOf'[n] = IF n = o THEN plan.sym ELSE symbolOf[n]
                          /\ broker'[n] = IF n = o THEN "new" ELSE broker[n]
    BY <2>1 DEF Placed, BooksInv, TypeOK
  <2>4. /\ frame'[p].at = "storing" /\ frame'[p].sym = plan.sym /\ frame'[p].order = o
        /\ \A q \in Pumps \ {p} : frame'[q] = frame[q]
    BY <2>1 DEF BooksInv, TypeOK
  <2>5. /\ o \notin poll.todo /\ o # poll.cur
        /\ \A s \in Symbols : pending[s] # o
    BY <2>2, OrdersAreNumbers DEF BooksInv, OrdersAreSent
  <2>6. \A q \in Pumps : frame[q].at \in {"storing", "auditing"} => frame[q].order # o
    BY <2>2 DEF BooksInv, FramesHold
  <2>7. \A s \in Symbols : pending[s] # None => pending[s] \in Orders
    BY DEF BooksInv, TypeOK
  <2>8. PollShape' /\ FillIsFirst' /\ FillPublishedOnce' /\ RoundRemembers'
    BY <2>2, <2>3 DEF BooksInv, PollShape, FillIsFirst, FillPublishedOnce, RoundRemembers
  <2>9. OrdersAreSent'
    BY <2>2, <2>3, <2>5, <2>7 DEF BooksInv, OrdersAreSent
  <2>10. FramesHold'
    BY <2>3, <2>4, <2>6 DEF BooksInv, FramesHold
  <2>11. StoringIsAlone'
    BY <2>2, <2>4, <2>5, <2>6 DEF BooksInv, StoringIsAlone
  <2>12. FilledIsTrue'
    BY <2>2, <2>3 DEF BooksInv, FilledIsTrue
  <2>13. ObjectRemembers'
    BY <2>2, <2>3, <2>5, <2>7 DEF BooksInv, ObjectRemembers
  <2> QED
    BY <2>8, <2>9, <2>10, <2>11, <2>12, <2>13 DEF BooksInv
<1> QED
  BY <1>1, <1>2

\* An order is tracked before its first poll.
LEMMA BooksTrack ==
  ASSUME BooksInv, TypeOK', NEW p \in Pumps, Track(p) PROVE BooksInv'
<1> DEFINE o == frame[p].order
<1>1. /\ o \in Orders /\ status[o] # "none" /\ symbolOf[o] = frame[p].sym
      /\ row[o] = "none" /\ fills[o] = 0 /\ frame[p].sym \in Symbols
  BY DEF Track, BooksInv, FramesHold, StoringIsAlone, TypeOK
<1>2. /\ \A n \in Orders : row'[n] = IF n = o THEN "submitted" ELSE row[n]
      /\ \A s \in Symbols : pending'[s] = IF s = frame[p].sym THEN o ELSE pending[s]
  BY DEF Track, Upserted, BooksInv, TypeOK
<1>3. /\ frame'[p].at = "auditing" /\ frame'[p].sym = frame[p].sym /\ frame'[p].order = o
      /\ \A q \in Pumps \ {p} : frame'[q] = frame[q]
  BY DEF Track, BooksInv, TypeOK
<1>4. UNCHANGED <<status, poll, broker, fills, symbolOf>>
  BY Zenon DEF Track, market
<1>5. broker[o] # "none" /\ o \notin poll.todo /\ o # poll.cur
  BY <1>1 DEF Track, BooksInv, OrdersAreSent, StoringIsAlone
<1>6. \A q \in Pumps \ {p} : frame[q].at = "storing" => frame[q].order # o
  BY DEF Track, BooksInv, StoringIsAlone
<1>7. PollShape' /\ FillIsFirst' /\ FillPublishedOnce'
  BY <1>4 DEF BooksInv, PollShape, FillIsFirst, FillPublishedOnce
<1> HIDE DEF o
<1>8. OrdersAreSent'
  BY <1>1, <1>2, <1>4, <1>5 DEF BooksInv, OrdersAreSent
<1>9. FramesHold'
  BY <1>1, <1>3, <1>4 DEF BooksInv, FramesHold
<1>10. StoringIsAlone'
  BY <1>2, <1>3, <1>4, <1>6, <1>9 DEF BooksInv, StoringIsAlone, FramesHold
<1>11. FilledIsTrue'
  BY <1>2, <1>4 DEF BooksInv, FilledIsTrue
<1>12. ObjectRemembers' /\ RoundRemembers'
  BY <1>1, <1>2, <1>4 DEF BooksInv, ObjectRemembers, RoundRemembers
<1> QED
  BY <1>7, <1>8, <1>9, <1>10, <1>11, <1>12 DEF BooksInv

\* The handlers keep the books.
LEMMA BooksHandlers ==
  ASSUME BooksInv, Handlers \/ \E p \in Pumps : Announce(p) PROVE BooksInv'
<1>1. TypeOK'
  BY TypeHandlers, TypeOthers
<1>i. Idle.at \notin {"storing", "auditing"}
  BY DEF Idle
<1>2. ASSUME NEW p \in Pumps,
             \/ TakeReport(p) \/ SupervisorTakesReport(p)
             \/ \E funds \in BOOLEAN : PlanBlocked(p, funds)
      PROVE  BooksInv'
  <2>1. UNCHANGED <<pending, status, frame, poll, symbolOf, row, broker, fills>>
    BY <1>2, Zenon DEF TakeReport, SupervisorTakesReport, PlanBlocked, agent, market, books
  <2> QED
    BY <1>1, <2>1, BooksUntouched
<1>3. ASSUME NEW p \in Pumps, AskForTick(p) PROVE BooksInv'
  <2>1. PICK f : f.at = "tick" /\ frame' = [frame EXCEPT ![p] = f]
    BY <1>3 DEF AskForTick
  <2>2. UNCHANGED <<pending, status, poll, symbolOf, row, broker, fills>>
    BY <1>3, Zenon DEF AskForTick, market, books
  <2> QED
    BY <1>1, <2>1, <2>2, BooksFrameLeaves
<1>4. ASSUME NEW p \in Pumps, NEW accepted \in BOOLEAN,
             Submit(p, accepted) \/ SubmitAfterTick(p, accepted)
      PROVE  BooksInv'
  <2>1. /\ UNCHANGED <<pending, poll, row, fills>>
        /\ \E plan : Place(p, plan, accepted)
    BY <1>4, Zenon DEF Submit, SubmitAfterTick
  <2> QED
    BY <1>1, <2>1, BooksPlace
<1>5. ASSUME NEW p \in Pumps, Track(p) PROVE BooksInv'
  BY <1>1, <1>5, BooksTrack
<1>6. ASSUME NEW p \in Pumps, TrackFails(p) \/ AnnounceFails(p) \/ Announce(p) PROVE BooksInv'
  <2>1. /\ frame' = [frame EXCEPT ![p] = Idle]
        /\ UNCHANGED <<pending, status, poll, symbolOf, row, broker, fills>>
    BY <1>6, Zenon DEF TrackFails, AnnounceFails, Announce, market, books
  <2> QED
    BY <1>1, <1>i, <2>1, BooksFrameLeaves
<1> QED
  BY <1>2, <1>3, <1>4, <1>5, <1>6, Zenon DEF Handlers

\* A round of the poll loop starts with what is tracked.
LEMMA BooksPollStart ==
  ASSUME BooksInv, TypeOK', PollStart PROVE BooksInv'
<1>1. /\ poll'.at = "scan" /\ poll'.cur = None /\ poll'.gone = {}
      /\ poll'.todo = Tracked
      /\ poll.at = "asleep" /\ poll.gone = {}
  BY DEF PollStart, Asleep, BooksInv, PollShape
<1>2. UNCHANGED <<pending, status, frame, symbolOf, row, broker, fills>>
  BY Zenon DEF PollStart, market, books
<1>3. \A o \in poll'.todo : \E s \in Symbols : pending[s] = o /\ pending[s] # None
  BY <1>1 DEF Tracked
<1>4. PollShape' /\ FillIsFirst' /\ FillPublishedOnce' /\ FramesHold' /\ FilledIsTrue'
  BY <1>1, <1>2, OrdersAreNumbers
     DEF BooksInv, PollShape, FillIsFirst, FillPublishedOnce, FramesHold, FilledIsTrue
<1>5. OrdersAreSent'
  BY <1>1, <1>2, <1>3, OrdersAreNumbers DEF BooksInv, OrdersAreSent
<1>6. StoringIsAlone'
  BY <1>1, <1>2, <1>3, OrdersAreNumbers DEF BooksInv, StoringIsAlone, FramesHold
<1>7. ObjectRemembers'
  BY <1>1, <1>2, <1>3, OrdersAreNumbers DEF BooksInv, ObjectRemembers
<1>8. RoundRemembers'
  BY <1>1, <1>2, <1>3, OrdersAreNumbers DEF BooksInv, RoundRemembers
<1> QED
  BY <1>4, <1>5, <1>6, <1>7, <1>8 DEF BooksInv

\* The loop lays an order aside: it has less to do, and the round goes on.
LEMMA BooksPollGoesOn ==
  ASSUME BooksInv, TypeOK',
         poll'.at = "scan", poll'.cur = None, poll'.todo \subseteq poll.todo,
         poll.gone \subseteq poll'.gone,
         UNCHANGED <<pending, status, frame, symbolOf, row, broker, fills>>
  PROVE  BooksInv'
<1>1. PollShape' /\ FillIsFirst' /\ FillPublishedOnce' /\ FramesHold' /\ FilledIsTrue'
  BY OrdersAreNumbers
     DEF BooksInv, PollShape, FillIsFirst, FillPublishedOnce, FramesHold, FilledIsTrue
<1>2. OrdersAreSent'
  BY OrdersAreNumbers DEF BooksInv, OrdersAreSent
<1>3. StoringIsAlone'
  BY OrdersAreNumbers DEF BooksInv, StoringIsAlone, FramesHold
<1>4. ObjectRemembers' /\ RoundRemembers'
  BY OrdersAreNumbers DEF BooksInv, ObjectRemembers, RoundRemembers
<1> QED
  BY <1>1, <1>2, <1>3, <1>4 DEF BooksInv

\* The loop takes a new status over.
LEMMA BooksPollChange ==
  ASSUME OneSideWorks, BooksInv, TypeOK',
         NEW o \in Orders, NEW new \in Status, NEW stored \in BOOLEAN, PollChange(o, new, stored)
  PROVE  BooksInv'
<1>1. /\ poll'.at \in {"saving", "failing"} /\ poll'.cur = o /\ poll'.gone = poll.gone
      /\ poll'.todo = poll.todo \ {o} /\ poll'.was = status[o] /\ poll'.new = new
      /\ o \in poll.todo
  BY DEF PollChange, BooksInv, TypeOK
<1>2. /\ \A n \in Orders : status'[n] = IF n = o THEN new ELSE status[n]
      /\ \A n \in Orders : row'[n] = row[n] \/ (n = o /\ row'[n] = new)
  BY DEF PollChange, Upserted, BooksInv, TypeOK
<1>3. UNCHANGED <<pending, frame, broker, fills, symbolOf>>
  BY Zenon DEF PollChange
<1>4. broker[o] # "none" /\ status[o] # "none" /\ new # "none"
  BY <1>1 DEF BooksInv, OrdersAreSent, Status, Ended
<1>5. new = "filled" => broker[o] = "filled"
  BY DEF PollChange, Mapped, BooksInv, FilledIsTrue
<1>6. broker[o] = "filled" => new = "filled"
  BY DEF PollChange, Mapped
<1>7. fills[o] # 0 => broker[o] = "filled"
  BY DEF BooksInv, FilledIsTrue
<1>p. \A s \in Symbols : pending[s] # None => pending[s] \in Orders
  BY DEF BooksInv, TypeOK
<1>8. PollShape' /\ FillPublishedOnce'
  BY <1>1, <1>3 DEF BooksInv, PollShape, FillPublishedOnce
<1>9. OrdersAreSent'
  BY <1>1, <1>2, <1>3, <1>4, <1>p DEF BooksInv, OrdersAreSent
<1>10. FramesHold'
  BY <1>2, <1>3, <1>4 DEF BooksInv, FramesHold
<1>11. StoringIsAlone'
  BY <1>1, <1>2, <1>3 DEF BooksInv, StoringIsAlone, FramesHold
<1>12. FilledIsTrue'
  BY <1>1, <1>2, <1>3, <1>5 DEF BooksInv, FilledIsTrue
<1>13. ObjectRemembers'
  BY <1>1, <1>2, <1>3, <1>6, <1>7, <1>p DEF BooksInv, ObjectRemembers
<1>14. RoundRemembers'
  BY <1>1, <1>3 DEF BooksInv, RoundRemembers
<1>15. FillIsFirst'
  BY <1>1, <1>3 DEF OneSideWorks, BooksInv, FillIsFirst, ObjectRemembers, RoundRemembers
<1> QED
  BY <1>8, <1>9, <1>10, <1>11, <1>12, <1>13, <1>14, <1>15 DEF BooksInv

\* An exception ends the round: what was in hand is met again, with the
\* object as it is by then.
LEMMA BooksPollAborts ==
  ASSUME BooksInv, TypeOK', PollAborts PROVE BooksInv'
<1>1. /\ poll'.at = "asleep" /\ poll'.cur = None /\ poll'.todo = {} /\ poll'.gone = {}
      /\ StoreMayFail
  BY DEF PollAborts, Asleep
<1>2. UNCHANGED <<pending, status, frame, symbolOf, row, broker, fills>>
  BY Zenon DEF PollAborts, market, books
<1>3. PollShape' /\ FillIsFirst' /\ FillPublishedOnce' /\ FramesHold' /\ FilledIsTrue'
  BY <1>1, <1>2, OrdersAreNumbers
     DEF BooksInv, PollShape, FillIsFirst, FillPublishedOnce, FramesHold, FilledIsTrue
<1>4. OrdersAreSent'
  BY <1>1, <1>2, OrdersAreNumbers DEF BooksInv, OrdersAreSent
<1>5. StoringIsAlone'
  BY <1>1, <1>2, OrdersAreNumbers DEF BooksInv, StoringIsAlone, FramesHold
<1>6. ObjectRemembers' /\ RoundRemembers'
  BY <1>1, <1>2, OrdersAreNumbers DEF BooksInv, ObjectRemembers, RoundRemembers
<1> QED
  BY <1>3, <1>4, <1>5, <1>6 DEF BooksInv

\* upsert_order returns: the loop goes on with the order or with the next.
LEMMA BooksPollSaved ==
  ASSUME BooksInv, TypeOK', PollSaved PROVE BooksInv'
<1>1. UNCHANGED <<pending, status, frame, symbolOf, row, broker, fills>>
  BY Zenon DEF PollSaved, market, books
<1>2. poll.at = "saving" /\ poll.cur \in Orders /\ poll.cur \notin poll.todo
  BY DEF PollSaved, BooksInv, PollShape
<1>3. CASE NextOrder(poll.gone)
  <2>1. poll'.at = "scan" /\ poll'.cur = None /\ poll'.todo = poll.todo /\ poll'.gone = poll.gone
    BY <1>3 DEF NextOrder, Asleep
  <2> QED
    BY <1>1, <2>1, BooksPollGoesOn
<1>4. CASE ~NextOrder(poll.gone)
  <2>1. /\ \/ poll'.at = "filling" /\ poll.new = "filled" /\ poll.was # "filled"
           \/ poll'.at = "auditing"
        /\ poll'.cur = poll.cur /\ poll'.todo = poll.todo
        /\ poll'.was = poll.was /\ poll'.new = poll.new
        /\ poll.gone \subseteq poll'.gone
    <3>1. poll \in [at : {"asleep", "scan", "saving", "failing", "filling", "auditing"},
                    todo : SUBSET Orders, gone : SUBSET Symbols, cur : Orders \cup {None},
                    was : Status, new : Status]
      BY DEF BooksInv, TypeOK
    <3>2. \/ /\ poll.new = "filled" /\ poll.was # "filled"
             /\ poll' = [poll EXCEPT !.at = "filling"]
          \/ poll' = [poll EXCEPT !.at = "auditing", !.gone = @ \cup {symbolOf[poll.cur]}]
      BY <1>4, Zenon DEF PollSaved
    <3> QED
      BY <3>1, <3>2
  <2>2. PollShape' /\ FillIsFirst' /\ FillPublishedOnce' /\ FramesHold' /\ FilledIsTrue'
    BY <1>1, <1>2, <2>1
       DEF BooksInv, PollShape, FillIsFirst, FillPublishedOnce, FramesHold, FilledIsTrue
  <2>3. OrdersAreSent' /\ StoringIsAlone'
    BY <1>1, <2>1 DEF BooksInv, OrdersAreSent, StoringIsAlone
  <2>4. ObjectRemembers' /\ RoundRemembers'
    BY <1>1, <2>1 DEF BooksInv, ObjectRemembers, RoundRemembers
  <2> QED
    BY <2>2, <2>3, <2>4 DEF BooksInv
<1> QED
  BY <1>3, <1>4

\* The FILL_EVENT goes out: it is the order's first, and the order is among
\* those the round removes.
LEMMA BooksPollFilled ==
  ASSUME BooksInv, TypeOK', PollFilled PROVE BooksInv'
<1> DEFINE o == poll.cur
<1>1. /\ o \in Orders /\ o \notin poll.todo
      /\ poll.new = "filled" /\ fills[o] = 0 /\ broker[o] = "filled"
  BY DEF PollFilled, BooksInv, PollShape, FillIsFirst, FilledIsTrue
<1>2. /\ poll'.at = "scan" /\ poll'.cur = None /\ poll'.todo = poll.todo
      /\ poll'.gone = poll.gone \cup {symbolOf[o]}
  BY DEF PollFilled, NextOrder, Asleep
<1>3. \A n \in Orders : fills'[n] = IF n = o THEN 1 ELSE fills[n]
  <2>1. fills' = [fills EXCEPT ![o] = fills[o] + 1] /\ DOMAIN fills = Orders
    BY DEF PollFilled, BooksInv, TypeOK
  <2>2. fills[o] + 1 = 1
    BY <1>1
  <2> HIDE DEF o
  <2> QED
    BY <2>1, <2>2, Zenon
<1>4. UNCHANGED <<pending, status, frame, symbolOf, row, broker>>
  BY Zenon DEF PollFilled, market
<1>5. \A p \in Pumps : frame[p].at = "storing" => frame[p].order # o
  BY DEF BooksInv, StoringIsAlone
<1>6. \A s \in Symbols : pending[s] = o => s = symbolOf[o]
  BY <1>1, OrdersAreNumbers DEF BooksInv, OrdersAreSent
<1>7. ~BrokerMayFail => status[o] = "filled"
  BY <1>1 DEF BooksInv, ObjectRemembers
<1>8. o # None
  BY <1>1, OrdersAreNumbers
<1>p. \A s \in Symbols : pending[s] # None => pending[s] \in Orders
  BY DEF BooksInv, TypeOK
<1>9. PollShape' /\ FillIsFirst' /\ FramesHold'
  BY <1>2, <1>4 DEF BooksInv, PollShape, FillIsFirst, FramesHold
<1> HIDE DEF o
<1>10. FillPublishedOnce'
  BY <1>1, <1>3, <1>4 DEF BooksInv, FillPublishedOnce
<1>11. OrdersAreSent'
  BY <1>1, <1>2, <1>3, <1>4, OrdersAreNumbers DEF BooksInv, OrdersAreSent
<1>12. StoringIsAlone'
  BY <1>2, <1>3, <1>4, <1>5, OrdersAreNumbers DEF BooksInv, StoringIsAlone, FramesHold
<1>13. FilledIsTrue'
  BY <1>1, <1>2, <1>3, <1>4, OrdersAreNumbers DEF BooksInv, FilledIsTrue
<1>14. ObjectRemembers'
  BY <1>2, <1>3, <1>4, <1>7, <1>p, OrdersAreNumbers DEF BooksInv, ObjectRemembers
<1>15. RoundRemembers'
  BY <1>1, <1>2, <1>3, <1>4, <1>6, <1>p DEF BooksInv, RoundRemembers
<1> QED
  BY <1>9, <1>10, <1>11, <1>12, <1>13, <1>14, <1>15 DEF BooksInv

\* Removing symbols from pending_orders, with nothing of the round left to do
\* or to remember but what is removed, keeps the books.
LEMMA BooksForget ==
  ASSUME BooksInv, TypeOK',
         \A s \in Symbols : pending'[s] = pending[s] \/ pending'[s] = None,
         UNCHANGED <<status, frame, symbolOf, row, broker, fills>>,
         \/ UNCHANGED poll
         \/ /\ poll' = Asleep
            /\ \A s \in poll.gone : pending'[s] = None
  PROVE  BooksInv'
<1>1. \/ UNCHANGED poll
      \/ /\ poll'.at = "asleep" /\ poll'.cur = None /\ poll'.todo = {} /\ poll'.gone = {}
         /\ \A s \in poll.gone : pending'[s] = None
  BY DEF Asleep
<1>2. PollShape' /\ FillIsFirst' /\ FillPublishedOnce' /\ FramesHold' /\ FilledIsTrue'
  BY <1>1, OrdersAreNumbers
     DEF BooksInv, PollShape, FillIsFirst, FillPublishedOnce, FramesHold, FilledIsTrue
<1>3. OrdersAreSent'
  BY <1>1, OrdersAreNumbers DEF BooksInv, OrdersAreSent
<1>4. StoringIsAlone'
  BY <1>1, OrdersAreNumbers DEF BooksInv, StoringIsAlone, FramesHold
<1>5. ObjectRemembers'
  BY <1>1, OrdersAreNumbers DEF BooksInv, ObjectRemembers
<1>6. RoundRemembers'
  BY <1>1, OrdersAreNumbers DEF BooksInv, RoundRemembers
<1> QED
  BY <1>2, <1>3, <1>4, <1>5, <1>6 DEF BooksInv

\* The poll loop keeps the books.
LEMMA BooksPoll ==
  ASSUME OneSideWorks, BooksInv, Poll \/ PollSaved PROVE BooksInv'
<1>1. TypeOK'
  BY TypePoll
<1>2. CASE PollStart
  BY <1>1, <1>2, BooksPollStart
<1>3. CASE PollFilled
  BY <1>1, <1>3, BooksPollFilled
<1>4. CASE PollAudited
  <2>1. poll'.at = "scan" /\ poll'.cur = None /\ poll'.todo = poll.todo /\ poll'.gone = poll.gone
    BY <1>4 DEF PollAudited, NextOrder, Asleep
  <2>2. UNCHANGED <<pending, status, frame, symbolOf, row, broker, fills>>
    BY <1>4, Zenon DEF PollAudited, market, books
  <2> QED
    BY <1>1, <2>1, <2>2, BooksPollGoesOn
<1>5. CASE PollAborts
  BY <1>1, <1>5, BooksPollAborts
<1>6. CASE PollEnd
  <2>1. /\ poll' = Asleep
        /\ \A s \in Symbols : pending'[s] = IF s \in poll.gone THEN None ELSE pending[s]
    BY <1>6 DEF PollEnd
  <2>2. UNCHANGED <<status, frame, symbolOf, row, broker, fills>>
    BY <1>6, Zenon DEF PollEnd, market, books
  <2>3. poll.gone \subseteq Symbols
    BY DEF BooksInv, TypeOK
  <2> QED
    BY <1>1, <2>1, <2>2, <2>3, BooksForget
<1>7. CASE \E o \in Orders : PollSkip(o)
  <2>1. PICK o \in Orders : PollSkip(o)
    BY <1>7
  <2>2. /\ poll.at = "scan" /\ poll'.at = "scan" /\ poll'.cur = poll.cur
        /\ poll'.todo \subseteq poll.todo /\ poll'.gone = poll.gone
    BY <2>1 DEF PollSkip, BooksInv, TypeOK
  <2>3. poll'.cur = None
    BY <2>2 DEF BooksInv, PollShape
  <2>4. UNCHANGED <<pending, status, frame, symbolOf, row, broker, fills>>
    BY <2>1, Zenon DEF PollSkip, market, books
  <2> QED
    BY <1>1, <2>2, <2>3, <2>4, BooksPollGoesOn
<1>8. CASE \E o \in Orders, new \in Status, stored \in BOOLEAN : PollChange(o, new, stored)
  BY <1>1, <1>8, BooksPollChange
<1>9. CASE PollSaved
  BY <1>1, <1>9, BooksPollSaved
<1> QED
  BY <1>2, <1>3, <1>4, <1>5, <1>6, <1>7, <1>8, <1>9, Zenon DEF Poll

\* The watchdog cancels: while the broker answers, not what is filled.
LEMMA BooksTimeoutCancels ==
  ASSUME BooksInv, TypeOK', NEW o \in Orders, NEW accepted \in BOOLEAN, NEW stored \in BOOLEAN,
         TimeoutCancels(o, accepted, stored)
  PROVE  BooksInv'
<1>1. /\ \A n \in Orders : status'[n] = IF n = o THEN "cancelled" ELSE status[n]
      /\ \A n \in Orders : row'[n] = row[n] \/ (n = o /\ row'[n] = "cancelled")
      /\ \A n \in Orders : broker'[n] = broker[n]
                             \/ (broker[n] \in Alive /\ broker'[n] = "pending_cancel")
  BY DEF TimeoutCancels, Upserted, CancelAsked, BooksInv, TypeOK
<1>2. UNCHANGED <<pending, frame, poll, fills, symbolOf>>
  BY Zenon DEF TimeoutCancels
<1>3. \A n \in Orders : /\ broker[n] = "filled" => broker'[n] = "filled"
                        /\ broker'[n] = "none" => broker[n] = "none"
  BY <1>1 DEF Alive
<1>4. symbolOf[o] \in Symbols /\ pending[symbolOf[o]] = o /\ o # None
  BY OrdersAreNumbers DEF TimeoutCancels, BooksInv, TypeOK
<1>5. ~BrokerMayFail => broker[o] # "filled"
  BY DEF TimeoutCancels, WatchdogKnows
<1>p. \A s \in Symbols : pending[s] # None => pending[s] \in Orders
  BY DEF BooksInv, TypeOK
<1>6. broker[o] # "none"
  BY <1>4 DEF BooksInv, OrdersAreSent
<1>7. PollShape' /\ FillIsFirst' /\ RoundRemembers'
  BY <1>2 DEF BooksInv, PollShape, FillIsFirst, RoundRemembers
<1>8. FillPublishedOnce' /\ FilledIsTrue'
  BY <1>1, <1>2, <1>3 DEF BooksInv, FillPublishedOnce, FilledIsTrue
<1>9. OrdersAreSent'
  BY <1>1, <1>2, <1>3, <1>6, <1>p DEF BooksInv, OrdersAreSent
<1>10. FramesHold'
  BY <1>1, <1>2 DEF BooksInv, FramesHold
<1>11. StoringIsAlone'
  BY <1>1, <1>2, <1>4 DEF BooksInv, StoringIsAlone, FramesHold
<1>12. ObjectRemembers'
  BY <1>1, <1>2, <1>5, <1>p DEF BooksInv, ObjectRemembers, FilledIsTrue
<1> QED
  BY <1>7, <1>8, <1>9, <1>10, <1>11, <1>12 DEF BooksInv

\* The broker goes on with an order, and does not take a fill back.
LEMMA BooksBroker ==
  ASSUME BooksInv, TypeOK',
         \A n \in Orders : /\ broker[n] = "filled" => broker'[n] = "filled"
                           /\ broker'[n] = "none" => broker[n] = "none",
         UNCHANGED <<pending, status, frame, poll, symbolOf, row, fills>>
  PROVE  BooksInv'
<1>1. PollShape' /\ FramesHold' /\ StoringIsAlone'
  BY DEF BooksInv, PollShape, FramesHold, StoringIsAlone
<1>2. OrdersAreSent'
  BY DEF BooksInv, OrdersAreSent
<1>3. FilledIsTrue' /\ FillIsFirst' /\ ObjectRemembers' /\ RoundRemembers' /\ FillPublishedOnce'
  BY DEF BooksInv, FilledIsTrue, FillIsFirst, ObjectRemembers, RoundRemembers,
         FillPublishedOnce
<1> QED
  BY <1>1, <1>2, <1>3 DEF BooksInv

\* After a restart the agent knows none of its orders.
LEMMA BooksRestart ==
  ASSUME BooksInv, TypeOK', Restart PROVE BooksInv'
<1>1. /\ poll'.at = "asleep" /\ poll'.cur = None /\ poll'.todo = {} /\ poll'.gone = {}
      /\ \A s \in Symbols : pending'[s] = None
      /\ \A p \in Pumps : frame'[p].at = "idle"
      /\ \A o \in Orders : status'[o] = "none"
  BY DEF Restart, Asleep, Idle
<1>2. UNCHANGED <<broker, fills, symbolOf>>
  BY Zenon DEF Restart, market
<1>3. \A o \in Orders :
        row'[o] = row[o] \/ (row'[o] = "submitted" /\ broker[o] # "none")
  <2>1. PICK written \in SUBSET {frame[p].order : p \in {q \in Pumps : frame[q].at = "storing"}} :
          row' = [o \in Orders |-> IF o \in written THEN "submitted" ELSE row[o]]
    BY DEF Restart
  <2>2. \A o \in written : o \in Orders => broker[o] # "none"
    BY DEF BooksInv, FramesHold, OrdersAreSent
  <2> QED
    BY <2>1, <2>2
<1>4. PollShape' /\ FramesHold' /\ StoringIsAlone' /\ OrdersAreSent'
  BY <1>1, <1>2, <1>3, OrdersAreNumbers
     DEF BooksInv, PollShape, FramesHold, StoringIsAlone, OrdersAreSent
<1>5. FilledIsTrue' /\ FillIsFirst' /\ ObjectRemembers' /\ RoundRemembers' /\ FillPublishedOnce'
  BY <1>1, <1>2, <1>3, OrdersAreNumbers
     DEF BooksInv, FilledIsTrue, FillIsFirst, ObjectRemembers, RoundRemembers,
         FillPublishedOnce
<1> QED
  BY <1>4, <1>5 DEF BooksInv

\* Any step keeps the books.
LEMMA BooksStep ==
  ASSUME OneSideWorks, BooksInv, [Next]_vars PROVE BooksInv'
<1>1. CASE Handlers \/ \E p \in Pumps : Announce(p)
  BY <1>1, BooksHandlers
<1>2. CASE Poll \/ PollSaved
  BY <1>2, BooksPoll
<1>3. CASE \E o \in Orders : TimeoutLeaves(o) \/ TimeoutAborts(o) \/ TimeoutAnnounces(o)
  <2>1. TypeOK'
    BY <1>3, TypeOthers, Zenon DEF Watchdogs
  <2>2. UNCHANGED <<pending, status, frame, poll, symbolOf, row, broker, fills>>
    BY <1>3, Zenon DEF TimeoutLeaves, TimeoutAborts, TimeoutAnnounces, market, books
  <2> QED
    BY <2>1, <2>2, BooksUntouched
<1>4. CASE \E o \in Orders : TimeoutForgets(o)
  <2>1. TypeOK'
    BY <1>4, TypeOthers, Zenon DEF Watchdogs
  <2>2. \A s \in Symbols : pending'[s] = pending[s] \/ pending'[s] = None
    BY <1>4 DEF TimeoutForgets, BooksInv, TypeOK
  <2>3. UNCHANGED <<status, frame, poll, symbolOf, row, broker, fills>>
    BY <1>4, Zenon DEF TimeoutForgets, market, books
  <2> QED
    BY <2>1, <2>2, <2>3, BooksForget
<1>5. CASE \E o \in Orders : \E accepted, stored \in BOOLEAN : TimeoutCancels(o, accepted, stored)
  <2>1. TypeOK'
    BY <1>5, TypeOthers, Zenon DEF Watchdogs
  <2> QED
    BY <1>5, <2>1, BooksTimeoutCancels
<1>6. CASE Outside
  <2>1. TypeOK'
    BY <1>6, TypeOthers
  <2>2. UNCHANGED <<pending, status, frame, poll, symbolOf, row, fills>>
    BY <1>6, Zenon DEF Outside, PublishPlan, BrokerPartlyFills, BrokerEnds, agent, books
  <2>3. \A n \in Orders : /\ broker[n] = "filled" => broker'[n] = "filled"
                          /\ broker'[n] = "none" => broker[n] = "none"
    <3>1. CASE \E plan \in Plans : PublishPlan(plan)
      BY <3>1 DEF PublishPlan, market
    <3>2. CASE \E o \in Orders : BrokerPartlyFills(o)
      BY <3>2 DEF BrokerPartlyFills, BooksInv, TypeOK
    <3>3. CASE \E o \in Orders : \E end \in Outcomes : BrokerEnds(o, end)
      BY <3>3, ExecutionAssumption DEF BrokerEnds, Alive, Ended, BooksInv, TypeOK
    <3> QED
      BY <1>6, <3>1, <3>2, <3>3 DEF Outside
  <2> QED
    BY <2>1, <2>2, <2>3, BooksBroker
<1>7. CASE Restart
  <2>1. TypeOK'
    BY <1>7, TypeOthers
  <2> QED
    BY <1>7, <2>1, BooksRestart
<1>8. CASE UNCHANGED vars \/ \E result \in {"CLEAN", "MISMATCH"} : AnyReport(result)
  <2>1. TypeOK'
    BY <1>8, TypeOthers
  <2>2. UNCHANGED <<pending, status, frame, poll, symbolOf, row, broker, fills>>
    BY <1>8, Zenon DEF AnyReport, vars, agent, market, books
  <2> QED
    BY <2>1, <2>2, BooksUntouched
<1> QED
  BY <1>1, <1>2, <1>3, <1>4, <1>5, <1>6, <1>7, <1>8, Zenon
     DEF Next, Agent, Silent, Watchdogs

\* However the handlers, the poll loop, the watchdogs, the broker and restarts
\* interleave, an order gets at most one FILL_EVENT, and only for a fill, as
\* long as the broker's answers and the store do not both fail.
THEOREM FillsGoOutOnce ==
  ASSUME OneSideWorks PROVE Spec => []BooksAreSound
<1>1. Init => BooksInv
  BY BooksInit
<1>2. BooksInv /\ [Next]_vars => BooksInv'
  BY BooksStep
<1>3. BooksInv => BooksAreSound
  BY DEF BooksInv, BooksAreSound
<1> QED
  BY <1>1, <1>2, <1>3, PTL DEF Spec

\* While the broker answers, no step takes a filled row back: a handler's
\* insert is the row's first, the watchdog looks before it cancels, and the
\* poll loop only repeats the fill.
LEMMA RowStep ==
  ASSUME ~BrokerMayFail, BooksInv, [Next]_vars, NEW o \in Orders, row[o] = "filled"
  PROVE  row'[o] = "filled"
<1>0. broker[o] = "filled" /\ DOMAIN row = Orders
  BY DEF BooksInv, FilledIsTrue, TypeOK
<1>1. CASE \E p \in Pumps : Track(p)
  <2>1. PICK p \in Pumps : Track(p)
    BY <1>1
  <2>2. frame[p].order # o
    BY <2>1 DEF Track, BooksInv, StoringIsAlone
  <2> QED
    BY <1>0, <2>1, <2>2 DEF Track, Upserted
<1>2. CASE Handlers /\ ~\E p \in Pumps : Track(p)
  BY <1>2, Zenon DEF Handlers, TakeReport, SupervisorTakesReport, PlanBlocked, AskForTick, Submit,
                     SubmitAfterTick, TrackFails, AnnounceFails, books
<1>3. CASE \E n \in Orders, new \in Status, stored \in BOOLEAN : PollChange(n, new, stored)
  <2>1. PICK n \in Orders, new \in Status, stored \in BOOLEAN : PollChange(n, new, stored)
    BY <1>3
  <2>2. n = o => new = "filled"
    BY <2>1, <1>0 DEF PollChange, Mapped
  <2> QED
    BY <1>0, <2>1, <2>2 DEF PollChange, Upserted
<1>4. CASE PollStart \/ PollFilled \/ PollAudited \/ PollAborts \/ PollEnd \/ PollSaved
           \/ \E n \in Orders : PollSkip(n)
  BY <1>4, Zenon DEF PollStart, PollFilled, PollAudited, PollAborts, PollEnd, PollSaved, PollSkip, books
<1>5. CASE \E n \in Orders : \E accepted, stored \in BOOLEAN : TimeoutCancels(n, accepted, stored)
  <2>1. PICK n \in Orders, accepted \in BOOLEAN, stored \in BOOLEAN : TimeoutCancels(n, accepted, stored)
    BY <1>5
  <2>2. n # o
    BY <2>1, <1>0 DEF TimeoutCancels, WatchdogKnows
  <2> QED
    BY <1>0, <2>1, <2>2 DEF TimeoutCancels, Upserted
<1>6. CASE \E n \in Orders : TimeoutLeaves(n) \/ TimeoutForgets(n) \/ TimeoutAborts(n) \/ TimeoutAnnounces(n)
  BY <1>6, Zenon DEF TimeoutLeaves, TimeoutForgets, TimeoutAborts, TimeoutAnnounces, books
<1>7. CASE Outside \/ UNCHANGED vars \/ (\E p \in Pumps : Announce(p))
           \/ \E result \in {"CLEAN", "MISMATCH"} : AnyReport(result)
  BY <1>7, Zenon DEF Outside, PublishPlan, BrokerPartlyFills, BrokerEnds, Announce, AnyReport, vars, books
<1>8. CASE Restart
  <2>1. PICK written \in SUBSET {frame[p].order : p \in {q \in Pumps : frame[q].at = "storing"}} :
          row' = [n \in Orders |-> IF n \in written THEN "submitted" ELSE row[n]]
    BY <1>8 DEF Restart
  <2>2. o \notin written
    BY DEF BooksInv, StoringIsAlone
  <2> QED
    BY <2>1, <2>2
<1> QED
  BY <1>1, <1>2, <1>3, <1>4, <1>5, <1>6, <1>7, <1>8, Zenon
     DEF Next, Agent, Silent, Poll, Watchdogs

\* While the broker answers, the orders table never takes a fill back.
THEOREM FilledRowsStay ==
  ASSUME ~BrokerMayFail PROVE Spec => FilledRowIsFinal
<1>1. Init => BooksInv
  BY BooksInit
<1>2. BooksInv /\ [Next]_vars => BooksInv'
  BY BooksStep DEF OneSideWorks
<1>3. BooksInv /\ [Next]_vars => [\A o \in Orders : row[o] = "filled" => row'[o] = "filled"]_vars
  BY RowStep
<1> QED
  BY <1>1, <1>2, <1>3, PTL DEF Spec, FilledRowIsFinal

-----------------------------------------------------------------------------
(* The two agents together. *)

\* A step of the two agents is one of the execution agent, or one that it
\* does not see; a report of the reconciliation agent is one of any report.
LEMMA ComposedStep == ASSUME [RNext]_all PROVE [Next]_vars
<1>1. CASE SilentStep
  BY <1>1, Zenon DEF SilentStep, Next, Agent
<1>2. CASE \E p \in Pumps : SubmittedPublished(p)
  BY <1>2, Zenon DEF SubmittedPublished, Next, Agent
<1>3. CASE PollPublishes
  BY <1>3, Zenon DEF PollPublishes, Next, Agent
<1>4. CASE \E o \in Orders : TimeoutPublishes(o)
  BY <1>4, Zenon DEF TimeoutPublishes, Next, Agent
<1>5. CASE \E plan \in Plans : PlanArrives(plan)
  BY <1>5, Zenon DEF PlanArrives, Next, Outside
<1>6. CASE \E o \in Orders : EntryPartlyFills(o) \/ \E end \in Outcomes : EntryEnds(o, end)
  BY <1>6, Zenon DEF EntryPartlyFills, EntryEnds, Next, Outside
<1>7. CASE (\E s \in Symbols : BracketExits(s)) \/ TakeSubmitted \/ TakeUpdate \/ TakenByOther
           \/ (\E m \in PositionUpdates : TakePositionUpdate(m))
           \/ \E seesPositions, seesOrders, funded \in BOOLEAN : Fetch(seesPositions, seesOrders, funded)
  BY <1>7, Zenon DEF BracketExits, TakeSubmitted, TakeUpdate, TakenByOther, TakePositionUpdate, Fetch
<1>8. CASE FetchFails
  <2>1. AnyReport("MISMATCH")
    BY <1>8, Zenon DEF FetchFails, AnyReport
  <2> QED
    BY <2>1 DEF Next
<1>9. CASE \E storeRead \in BOOLEAN : Compare(storeRead)
  <2>1. PICK storeRead \in BOOLEAN : Compare(storeRead)
    BY <1>9
  <2>2. AnyReport(IF Agreed(storeRead) THEN "CLEAN" ELSE "MISMATCH")
    BY <2>1, Zenon DEF Compare, AnyReport
  <2> QED
    BY <2>2 DEF Next
<1>10. CASE RestartBoth
  BY <1>10, Zenon DEF RestartBoth, Next
<1>11. CASE UNCHANGED all
  BY <1>11, Zenon DEF all
<1> QED
  BY <1>1, <1>2, <1>3, <1>4, <1>5, <1>6, <1>7, <1>8, <1>9, <1>10, <1>11, Zenon DEF RNext

\* The composition implements the execution agent's specification: what
\* agent 9 reports is one of the reports Execution allows for.
THEOREM ComposedRefines == RSpec => Spec
<1>1. RInit => Init
  BY DEF RInit
<1>2. [RNext]_all => [Next]_vars
  BY ComposedStep
<1> QED
  BY <1>1, <1>2, PTL DEF RSpec, Spec

\* With the real reconciliation agent at the gate: fills go out once, and
\* while the broker answers the rows stay filled.
THEOREM ComposedBooks ==
  ASSUME ~BrokerMayFail PROVE RSpec => []BooksAreSound /\ FilledRowIsFinal
<1>1. OneSideWorks
  BY DEF OneSideWorks
<1>2. Spec => []BooksAreSound
  BY <1>1, FillsGoOutOnce
<1>3. Spec => FilledRowIsFinal
  BY FilledRowsStay
<1> QED
  BY <1>2, <1>3, ComposedRefines, PTL

=============================================================================
