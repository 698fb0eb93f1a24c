----------------------------- MODULE Execution -----------------------------
(***************************************************************************)
(* The execution agent (agents/agent_08_execution.py) and the broker it    *)
(* trades with (brokers/alpaca.py, seen from the agent's calls).           *)
(*                                                                         *)
(* Three kinds of asyncio task share pending_orders: the handlers of the   *)
(* TRADE_PLAN messages, one poll loop, one timeout watchdog per order.     *)
(* A step of the model is what a task does between two awaits that really  *)
(* suspend.  AlpacaBroker wraps a synchronous client, so its calls do not  *)
(* suspend and never raise here, except submit_bracket_order; the store,   *)
(* the audit log and (when AwaitableFeed) the market data feed do suspend. *)
(*                                                                         *)
(* MessageBus.start_consuming gives every topic a fresh queue, with a task *)
(* per handler, each time one of the agents starts: the agent that started *)
(* k-th of n is fed from n - k + 1 queues for each of its topics.  Pumps   *)
(* is that set; every message is put in each of these queues.  The tasks   *)
(* of one queue compete for its messages: only this agent subscribes to    *)
(* TRADE_PLAN, but the supervisor's task takes its share of the reports    *)
(* from the queues made after its own start (Contested).                   *)
(***************************************************************************)
EXTENDS Naturals, Sequences, FiniteSets

CONSTANTS
  Symbols,
  Pumps,          \* the queues the bus feeds this agent from
  Contested,      \* the ones whose reports the supervisor may take instead
  Kinds,          \* what gates 4-6 find in a plan: a subset of PlanKinds
  Outcomes,       \* how the broker may end an order: a subset of Ended
  AwaitableFeed,  \* whether the data feed's get_latest_tick can be awaited
  BrokerMayFail,  \* whether get_order and cancel_order may fail
  StoreMayFail,   \* whether upsert_order and audit.record may raise
  MaxPlans,       \* bound: TRADE_PLAN messages
  MaxPartials,    \* bound: orders that are filled in two parts
  MaxRestarts     \* bound: restarts of the process

PlanKinds == {"good", "wide", "chased", "nostop"}
Ended == {"filled", "cancelled", "rejected", "expired"}
Status == Ended \cup {"submitted", "partially_filled"}

ASSUME ExecutionAssumption ==
  /\ IsFiniteSet(Symbols) /\ Symbols # {} /\ IsFiniteSet(Pumps)
  /\ Contested \subseteq Pumps /\ Contested # Pumps
  /\ Kinds \subseteq PlanKinds /\ Outcomes \subseteq Ended
  /\ {AwaitableFeed, BrokerMayFail, StoreMayFail} \subseteq BOOLEAN
  /\ {MaxPlans, MaxPartials, MaxRestarts} \subseteq Nat

Plans == [sym : Symbols, kind : Kinds]

\* Every delivery of a plan can become an order.
Orders == 1 .. MaxPlans * Cardinality(Pumps)
None == 0

VARIABLES
  gate,      \* reconciliation_clean
  pending,   \* pending_orders: symbol -> order, or None
  status,    \* Order.status of the in-memory Order object
  dog,       \* the order's timeout watchdog
  frame,     \* pump -> the TRADE_PLAN handler it is running
  poll,      \* the local variables of _poll_open_orders
  planQ,     \* pump -> undelivered TRADE_PLANs
  unread,    \* the pumps whose queue still holds the last RECONCILIATION_STATUS
  symbolOf,  \* Order.symbol
  row,       \* the status column of the store's orders table
  broker,    \* the entry order's status at the broker
  part,      \* a partial fill at the broker: none, unseen by the poll, seen
  fills,     \* how many FILL_EVENTs an order has been given
  latest,    \* the last RECONCILIATION_STATUS published
  plans,     \* TRADE_PLANs published
  restarts

agent == <<gate, pending, status, dog, frame, poll>>
queues == <<planQ, unread>>
books == <<row, fills, symbolOf>>
counts == <<latest, plans, restarts>>
market == <<broker, part>>
vars == <<agent, queues, market, books, counts>>

-----------------------------------------------------------------------------
Idle == [at |-> "idle", sym |-> CHOOSE s \in Symbols : TRUE, kind |-> "good", order |-> None]
Asleep == [at |-> "asleep", todo |-> {}, gone |-> {}, cur |-> None, was |-> "submitted", new |-> "submitted"]

Alive == {"new", "partially_filled", "pending_cancel"}
Live == {o \in Orders : broker[o] \in Alive}
Used == {o \in Orders : broker[o] # "none"}
Fresh(o) == o \notin Used /\ \A n \in Orders \ Used : o <= n   \* the next uuid
Tracked == {pending[s] : s \in Symbols} \ {None}

Init ==
  /\ gate = FALSE
  /\ pending = [s \in Symbols |-> None]
  /\ status = [o \in Orders |-> "none"]
  /\ dog = [o \in Orders |-> "none"]
  /\ frame = [p \in Pumps |-> Idle]
  /\ poll = Asleep
  /\ planQ = [p \in Pumps |-> <<>>]
  /\ unread = {}
  /\ symbolOf \in [Orders -> {CHOOSE s \in Symbols : TRUE}]
  /\ row = [o \in Orders |-> "none"]
  /\ broker = [o \in Orders |-> "none"]
  /\ part = [o \in Orders |-> "none"]
  /\ fills = [o \in Orders |-> 0]
  /\ latest = "NONE" /\ plans = 0 /\ restarts = 0

-----------------------------------------------------------------------------
(* The bus, and the agents at its other end. *)

PublishPlan(plan) ==
  /\ plans < MaxPlans
  /\ plans' = plans + 1
  /\ planQ' = [p \in Pumps |-> Append(planQ[p], plan)]
  /\ UNCHANGED <<agent, unread, market, books, latest, restarts>>

\* Taking a report does not suspend this agent before the gate is set, and
\* agent 9 sleeps between two reports: one is delivered before the next.
Report(result) ==
  /\ unread = {}
  /\ latest' = result
  /\ unread' = Pumps

\* _handle_reconciliation_status
TakeReport(p) ==
  /\ p \in unread
  /\ gate' = (latest = "CLEAN")
  /\ unread' = unread \ {p}
  /\ UNCHANGED <<pending, status, dog, frame, poll, planQ, market, books, counts>>

SupervisorTakesReport(p) ==
  /\ p \in unread \cap Contested
  /\ unread' = unread \ {p}
  /\ UNCHANGED <<agent, planQ, market, books, counts>>

-----------------------------------------------------------------------------
(* _handle_trade_plan.  Gates 1 to 3 are read when the message arrives;    *)
(* funds stands for gate 3, which asks the broker for the buying power.    *)

DuplicateAtStart(s) == pending[s] # None

\* Mutant: gate 1 is missing.
AdmittedUngated(plan, funds) == ~DuplicateAtStart(plan.sym) /\ funds

Admitted(plan, funds) == gate /\ ~DuplicateAtStart(plan.sym) /\ funds

NextPlan(p) ==
  /\ frame[p].at = "idle"
  /\ planQ[p] # <<>>
  /\ planQ' = [planQ EXCEPT ![p] = Tail(@)]

PlanBlocked(p, funds) ==
  /\ NextPlan(p)
  /\ ~Admitted(Head(planQ[p]), funds)
  /\ UNCHANGED <<agent, unread, market, books, counts>>

\* Awaiting the tick suspends the handler with the gates already passed.
AskForTick(p) ==
  /\ AwaitableFeed
  /\ NextPlan(p)
  /\ LET plan == Head(planQ[p]) IN
       /\ Admitted(plan, TRUE)
       /\ frame' = [frame EXCEPT ![p] =
            [at |-> "tick", sym |-> plan.sym, kind |-> plan.kind, order |-> None]]
  /\ UNCHANGED <<gate, pending, status, dog, poll, unread, market, books, counts>>

\* Gates 4 and 5 need a tick.  Awaiting a feed that returns a plain value
\* raises, and the handler goes on without one.
Refused(kind) == kind = "nostop" \/ (AwaitableFeed /\ kind \in {"wide", "chased"})

\* submit_bracket_order of the adapter: the broker has the order.
Placed(o) == [broker EXCEPT ![o] = "new"]

\* cancel_order of the adapter: what is accepted is carried out later.
CancelAsked(o, accepted) ==
  [broker EXCEPT ![o] = IF accepted /\ @ \in Alive THEN "pending_cancel" ELSE @]

\* upsert_order of the store, which may raise.
Upserted(o, new, stored) == [row EXCEPT ![o] = IF stored THEN new ELSE @]

\* Gates 4 to 6 and submit_bracket_order, which may raise; the handler then
\* waits for upsert_order.
Place(p, plan, accepted) ==
  \/ /\ Refused(plan.kind) \/ ~accepted
     /\ frame' = [frame EXCEPT ![p] = Idle]
     /\ UNCHANGED <<status, symbolOf, broker>>
  \/ /\ ~Refused(plan.kind) /\ accepted
     /\ \E o \in Orders :
          /\ Fresh(o)
          /\ frame' = [frame EXCEPT ![p] =
               [at |-> "storing", sym |-> plan.sym, kind |-> plan.kind, order |-> o]]
          /\ status' = [status EXCEPT ![o] = "submitted"]
          /\ symbolOf' = [symbolOf EXCEPT ![o] = plan.sym]
          /\ broker' = Placed(o)

Submit(p, accepted) ==
  /\ ~AwaitableFeed
  /\ NextPlan(p)
  /\ Admitted(Head(planQ[p]), TRUE)
  /\ Place(p, Head(planQ[p]), accepted)
  /\ UNCHANGED <<gate, pending, dog, poll, unread, part, row, fills, counts>>

SubmitAfterTick(p, accepted) ==
  /\ frame[p].at = "tick"
  /\ Place(p, frame[p], accepted)
  /\ UNCHANGED <<gate, pending, dog, poll, queues, part, row, fills, counts>>

\* upsert_order returns: the order is tracked; order_submitted_event waits.
Track(p) ==
  /\ frame[p].at = "storing"
  /\ row' = Upserted(frame[p].order, "submitted", TRUE)
  /\ pending' = [pending EXCEPT ![frame[p].sym] = frame[p].order]
  /\ frame' = [frame EXCEPT ![p].at = "auditing"]
  /\ UNCHANGED <<gate, status, dog, poll, queues, market, fills, symbolOf, counts>>

TrackFails(p) ==
  /\ StoreMayFail
  /\ frame[p].at = "storing"
  /\ frame' = [frame EXCEPT ![p] = Idle]
  /\ UNCHANGED <<gate, pending, status, dog, poll, queues, market, books, counts>>

\* The audit log refuses: the order is tracked, unannounced and unwatched.
AnnounceFails(p) ==
  /\ StoreMayFail
  /\ frame[p].at = "auditing"
  /\ frame' = [frame EXCEPT ![p] = Idle]
  /\ UNCHANGED <<gate, pending, status, dog, poll, queues, market, books, counts>>

\* Mutant: no watchdog is started.
AnnounceNoWatchdog(p) ==
  /\ frame[p].at = "auditing"
  /\ dog' = dog
  /\ frame' = [frame EXCEPT ![p] = Idle]
  /\ UNCHANGED <<gate, pending, status, poll, queues, market, books, counts>>

\* ORDER_SUBMITTED is published and the watchdog starts its sleep.
Announce(p) ==
  /\ frame[p].at = "auditing"
  /\ dog' = [dog EXCEPT ![frame[p].order] = "asleep"]
  /\ frame' = [frame EXCEPT ![p] = Idle]
  /\ UNCHANGED <<gate, pending, status, poll, queues, market, books, counts>>

-----------------------------------------------------------------------------
(* _poll_open_orders: a snapshot of pending_orders, one order at a time,   *)
(* and the removals at the end, by symbol.                                 *)

PollStart ==
  /\ poll.at = "asleep"
  /\ Tracked # {}
  /\ poll' = [Asleep EXCEPT !.at = "scan", !.todo = Tracked]
  /\ UNCHANGED <<gate, pending, status, dog, frame, queues, market, books, counts>>

\* Mutant: a partial fill is a fill.
MappedPartialAsFilled(o) ==
  CASE broker[o] = "new"              -> {"submitted", status[o]}
    [] broker[o] = "pending_cancel"   -> {status[o]}
    [] broker[o] = "partially_filled" -> {"filled"}
    [] OTHER                          -> {broker[o]}

\* status_map: a live order is "accepted" or "new" on the wire, and a word
\* that is not listed leaves the order's own status.
Mapped(o) ==
  CASE broker[o] = "new"            -> {"submitted", status[o]}
    [] broker[o] = "pending_cancel" -> {status[o]}
    [] OTHER                        -> {broker[o]}

PollSkip(o) ==
  /\ poll.at = "scan"
  /\ o \in poll.todo
  /\ BrokerMayFail \/ (status[o] \in Mapped(o) /\ part[o] # "unseen")
  /\ poll' = [poll EXCEPT !.todo = @ \ {o}]
  /\ UNCHANGED <<gate, pending, status, dog, frame, queues, market, books, counts>>

\* A new status, or only a new filled quantity: the order object takes it and
\* upsert_order is called; the store executes its calls in order, or raises.
PollChange(o, new, stored) ==
  /\ poll.at = "scan"
  /\ o \in poll.todo
  /\ new \in Mapped(o)
  /\ new # status[o] \/ part[o] = "unseen"
  /\ stored \/ StoreMayFail
  /\ status' = [status EXCEPT ![o] = new]
  /\ row' = Upserted(o, new, stored)
  /\ poll' = [poll EXCEPT !.at = IF stored THEN "saving" ELSE "failing", !.todo = @ \ {o},
                          !.cur = o, !.was = status[o], !.new = new]
  /\ part' = [part EXCEPT ![o] = IF @ = "unseen" THEN "seen" ELSE @]
  /\ UNCHANGED <<gate, pending, dog, frame, queues, broker, fills, symbolOf, counts>>

\* An exception of the store or of the audit log ends the round: nothing is
\* removed from pending_orders.
PollAborts ==
  /\ StoreMayFail
  /\ poll.at \in {"failing", "filling", "auditing"}
  /\ poll' = Asleep
  /\ UNCHANGED <<gate, pending, status, dog, frame, queues, market, books, counts>>

\* The next iteration of the loop.
NextOrder(gone) == poll' = [Asleep EXCEPT !.at = "scan", !.todo = poll.todo, !.gone = gone]

Settled(o) == [dog EXCEPT ![o] = IF @ = "none" THEN @ ELSE "done"]

\* upsert_order returns: ORDER_UPDATE, then one of three continuations.
PollSaved ==
  /\ poll.at = "saving"
  /\ \/ /\ poll.new = "filled" /\ poll.was # "filled"
        /\ poll' = [poll EXCEPT !.at = "filling"]
        /\ UNCHANGED dog
     \/ /\ poll.new \in {"cancelled", "rejected", "expired"}
        /\ poll' = [poll EXCEPT !.at = "auditing", !.gone = @ \cup {symbolOf[poll.cur]}]
        /\ dog' = Settled(poll.cur)
     \/ /\ poll.new \in {"submitted", "partially_filled"}
        /\ NextOrder(poll.gone)
        /\ UNCHANGED dog
  /\ UNCHANGED <<gate, pending, status, frame, queues, market, books, counts>>

\* _handle_fill, once its audit record is written, and what follows it.
PollFilled ==
  /\ poll.at = "filling"
  /\ fills' = [fills EXCEPT ![poll.cur] = @ + 1]
  /\ NextOrder(poll.gone \cup {symbolOf[poll.cur]})
  /\ dog' = Settled(poll.cur)
  /\ UNCHANGED <<gate, pending, status, frame, queues, market, row, symbolOf, counts>>

PollAudited ==
  /\ poll.at = "auditing"
  /\ NextOrder(poll.gone)
  /\ UNCHANGED <<gate, pending, status, dog, frame, queues, market, books, counts>>

\* Mutant: the removals are forgotten.
PollEndKeeps ==
  /\ poll.at = "scan"
  /\ poll.todo = {}
  /\ poll' = Asleep
  /\ UNCHANGED <<gate, pending, status, dog, frame, queues, market, books, counts>>

PollEnd ==
  /\ poll.at = "scan"
  /\ poll.todo = {}
  /\ pending' = [s \in Symbols |-> IF s \in poll.gone THEN None ELSE pending[s]]
  /\ poll' = Asleep
  /\ UNCHANGED <<gate, status, dog, frame, queues, market, books, counts>>

-----------------------------------------------------------------------------
(* _order_timeout_watchdog. *)

\* Mutant: a filled order is cancelled like any other.
WatchdogKnowsNoFill == {"cancelled", "rejected"}

\* The terminal statuses the watchdog leaves to the poll loop.
WatchdogKnows == {"filled", "cancelled", "rejected"}

\* get_order, cancel_order and the order's new status are one block.  The
\* answer of get_order may be missing; a cancel may be refused, and one that
\* is accepted is carried out later.
TimeoutLeaves(o) ==
  /\ dog[o] = "asleep"
  /\ pending[symbolOf[o]] # o \/ broker[o] \in WatchdogKnows
  /\ dog' = [dog EXCEPT ![o] = "done"]
  /\ UNCHANGED <<gate, pending, status, frame, poll, queues, market, books, counts>>

TimeoutCancels(o, accepted, stored) ==
  /\ dog[o] = "asleep"
  /\ pending[symbolOf[o]] = o
  /\ BrokerMayFail \/ broker[o] \notin WatchdogKnows
  /\ accepted \/ BrokerMayFail \/ broker[o] \notin Alive
  /\ broker' = CancelAsked(o, accepted)
  /\ stored \/ StoreMayFail
  /\ status' = [status EXCEPT ![o] = "cancelled"]
  /\ row' = Upserted(o, "cancelled", stored)
  /\ dog' = [dog EXCEPT ![o] = IF stored THEN "storing" ELSE "failing"]
  /\ UNCHANGED <<gate, pending, frame, poll, queues, part, fills, symbolOf, counts>>

TimeoutForgets(o) ==
  /\ dog[o] = "storing"
  /\ pending' = [pending EXCEPT ![symbolOf[o]] = None]
  /\ dog' = [dog EXCEPT ![o] = "auditing"]
  /\ UNCHANGED <<gate, status, frame, poll, queues, market, books, counts>>

TimeoutAnnounces(o) ==
  /\ dog[o] = "auditing"
  /\ dog' = [dog EXCEPT ![o] = "done"]
  /\ UNCHANGED <<gate, pending, status, frame, poll, queues, market, books, counts>>

\* An exception ends the watchdog; after a failed upsert_order the order is
\* still in pending_orders.
TimeoutAborts(o) ==
  /\ StoreMayFail
  /\ dog[o] \in {"failing", "auditing"}
  /\ dog' = [dog EXCEPT ![o] = "done"]
  /\ UNCHANGED <<gate, pending, status, frame, poll, queues, market, books, counts>>

-----------------------------------------------------------------------------
(* The broker and the market (external), and a restart of the process.     *)

BrokerEnds(o, end) ==
  /\ broker[o] \in Alive
  /\ broker[o] = "pending_cancel" => end \in {"cancelled", "filled"}
  /\ broker' = [broker EXCEPT ![o] = end]
  /\ UNCHANGED <<agent, queues, part, books, counts>>

\* One partial fill per order.
BrokerPartlyFills(o) ==
  /\ broker[o] \in {"new", "pending_cancel"} /\ part[o] = "none"
  /\ Cardinality({n \in Orders : part[n] # "none"}) < MaxPartials
  /\ broker' = [broker EXCEPT ![o] = IF @ = "new" THEN "partially_filled" ELSE @]
  /\ part' = [part EXCEPT ![o] = "unseen"]
  /\ UNCHANGED <<agent, queues, books, counts>>

\* Memory and the in-process queues are lost; on_startup loads nothing.
\* The insert a handler was waiting for may or may not have been committed.
Restart ==
  /\ restarts < MaxRestarts
  /\ restarts' = restarts + 1
  /\ gate' = FALSE
  /\ pending' = [s \in Symbols |-> None]
  /\ status' = [o \in Orders |-> "none"]
  /\ dog' = [o \in Orders |-> "none"]
  /\ frame' = [p \in Pumps |-> Idle]
  /\ poll' = Asleep
  /\ planQ' = [p \in Pumps |-> <<>>]
  /\ unread' = {}
  /\ latest' = "NONE"
  /\ \E written \in SUBSET {frame[p].order : p \in {q \in Pumps : frame[q].at = "storing"}} :
        row' = [o \in Orders |-> IF o \in written THEN "submitted" ELSE row[o]]
  /\ UNCHANGED <<market, fills, symbolOf, plans>>

-----------------------------------------------------------------------------
\* The steps that publish nothing but a FILL_EVENT; the others publish
\* ORDER_SUBMITTED or ORDER_UPDATE, for which see Reconciliation.
Handlers == \E p \in Pumps :
  \/ TakeReport(p) \/ SupervisorTakesReport(p)
  \/ \E funds \in BOOLEAN : PlanBlocked(p, funds)
  \/ AskForTick(p)
  \/ \E accepted \in BOOLEAN : Submit(p, accepted) \/ SubmitAfterTick(p, accepted)
  \/ Track(p) \/ TrackFails(p) \/ AnnounceFails(p)

Poll ==
  \/ PollStart \/ PollFilled \/ PollAudited \/ PollAborts \/ PollEnd
  \/ \E o \in Orders : PollSkip(o)
  \/ \E o \in Orders, new \in Status, stored \in BOOLEAN : PollChange(o, new, stored)

Watchdogs == \E o \in Orders :
  \/ TimeoutLeaves(o) \/ TimeoutForgets(o) \/ TimeoutAborts(o)
  \/ \E accepted, stored \in BOOLEAN : TimeoutCancels(o, accepted, stored)

Silent == Handlers \/ Poll \/ Watchdogs

Agent ==
  \/ Silent
  \/ \E p \in Pumps : Announce(p)
  \/ PollSaved
  \/ \E o \in Orders : TimeoutAnnounces(o)

Outside ==
  \/ \E plan \in Plans : PublishPlan(plan)
  \/ \E o \in Orders : BrokerPartlyFills(o) \/ \E end \in Outcomes : BrokerEnds(o, end)

\* The reconciliation agent as this one sees it: any report may come.
AnyReport(result) ==
  /\ Report(result)
  /\ UNCHANGED <<agent, planQ, market, books, plans, restarts>>

Next ==
  \/ Agent \/ Outside \/ Restart
  \/ \E result \in {"CLEAN", "MISMATCH"} : AnyReport(result)

Spec == Init /\ [][Next]_vars

\* Every task of the event loop that can run is run: handlers, the poll loop
\* (a request to the broker that keeps being made is answered at last) and
\* the watchdogs.  Nothing is assumed of the broker, the market, the other
\* agents or a restart.
Fairness ==
  /\ \A p \in Pumps :
       /\ WF_vars(TakeReport(p))
       /\ WF_vars(Track(p)) /\ WF_vars(Announce(p))
       /\ WF_vars(\E accepted \in BOOLEAN : SubmitAfterTick(p, accepted))
  /\ WF_vars(PollStart) /\ WF_vars(PollSaved) /\ WF_vars(PollFilled)
  /\ WF_vars(PollAudited) /\ WF_vars(PollAborts) /\ WF_vars(PollEnd)
  /\ \A o \in Orders :
       /\ WF_vars(PollSkip(o))
       /\ SF_vars(\E new \in Status, stored \in BOOLEAN : PollChange(o, new, stored))
       /\ WF_vars(TimeoutLeaves(o)
                    \/ \E accepted, stored \in BOOLEAN : TimeoutCancels(o, accepted, stored))
       /\ WF_vars(TimeoutForgets(o)) /\ WF_vars(TimeoutAnnounces(o)) /\ WF_vars(TimeoutAborts(o))

FairSpec == Spec /\ Fairness

-----------------------------------------------------------------------------
(* Properties. *)

\* The shape of the state: what the agent's fields, its tasks' frames, the
\* queues, the orders table and the broker may hold.
TypeOK ==
  /\ gate \in BOOLEAN
  /\ pending \in [Symbols -> Orders \cup {None}]
  /\ status \in [Orders -> Status \cup {"none"}]
  /\ dog \in [Orders -> {"none", "asleep", "storing", "failing", "auditing", "done"}]
  /\ frame \in [Pumps -> [at : {"idle", "tick", "storing", "auditing"}, sym : Symbols,
                         kind : PlanKinds, order : Orders \cup {None}]]
  /\ poll \in [at : {"asleep", "scan", "saving", "failing", "filling", "auditing"},
               todo : SUBSET Orders, gone : SUBSET Symbols, cur : Orders \cup {None},
               was : Status, new : Status]
  /\ planQ \in [Pumps -> Seq(Plans)] /\ unread \subseteq Pumps
  /\ symbolOf \in [Orders -> Symbols]
  /\ row \in [Orders -> Status \cup {"none"}]
  /\ broker \in [Orders -> Alive \cup Ended \cup {"none"}]
  /\ part \in [Orders -> {"none", "unseen", "seen"}]
  /\ fills \in [Orders -> Nat]
  /\ latest \in {"NONE", "CLEAN", "MISMATCH"} /\ plans \in 0 .. MaxPlans /\ restarts \in 0 .. MaxRestarts

\* FILL_EVENT is what opens a position monitor, counts a day trade and feeds
\* the latency statistics: however the poll loop, the watchdogs and restarts
\* interleave, an order gets at most one, and only when the broker filled it,
\* unless the broker's answers and the store both fail.
FillPublishedOnce ==
  \A o \in Orders : fills[o] <= 1 /\ (fills[o] = 1 => broker[o] = "filled")

\* What the agent's books may show: one FILL_EVENT per order at most, for a
\* fill only, in a state of the right shape.
BooksAreSound == TypeOK /\ FillPublishedOnce

\* "No execution if reconciliation dirty": unless the newest report is CLEAN,
\* an order reaches the broker only while that report is still in a queue of
\* which no other agent can take it; before the first report after a start
\* there is none at all.
NoOrderWhileDirty ==
  [][Used' # Used => latest = "CLEAN" \/ unread \ Contested # {}]_vars

\* While the broker answers, the orders table never takes a fill back: the
\* poll loop and the watchdog both write the row, each after waits of its own.
FilledRowIsFinal ==
  [][\A o \in Orders : row[o] = "filled" => row'[o] = "filled"]_vars

\* The watchdog is there so that an order does not stay open in the agent's
\* books: each order that reached the store is filled there or ended.
OrdersSettle ==
  \A o \in Orders : (row[o] = "submitted") ~> (row[o] \in Ended)

\* "Already terminal -- let the poll loop clean it up": an order that ended at
\* the broker does not block its symbol for ever.
SymbolFreed ==
  \A s \in Symbols, o \in Orders :
    (pending[s] = o /\ broker[o] \in Ended) ~> (pending[s] # o)

\* Poll loop and watchdog race for every order, and together they leave
\* neither an unsettled row nor a blocked symbol behind.
OrdersEnd == OrdersSettle /\ SymbolFreed

=============================================================================
