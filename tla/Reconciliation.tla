-------------------------- MODULE Reconciliation --------------------------
(***************************************************************************)
(* The broker reconciliation agent (agents/agent_09_broker_reconciliation  *)
(* .py), composed with the execution agent it gates.  It shadows the       *)
(* execution agent's orders from ORDER_SUBMITTED and ORDER_UPDATE, which   *)
(* are two topics and so two queues, compares with the broker on a timer   *)
(* and publishes the RECONCILIATION_STATUS that opens or shuts the gate.   *)
(* The execution quality agent has subscribed to both topics before this   *)
(* one (which first waits for the store): it competes for every message.   *)
(***************************************************************************)
EXTENDS Execution

CONSTANT
  ClosedFlags  \* what "closed" may say in the POSITION_UPDATEs that come

ASSUME ClosedFlagsAssumption == ClosedFlags \subseteq BOOLEAN

PositionUpdates == [symbol : Symbols, closed : ClosedFlags]

VARIABLES
  held,      \* symbols in which the broker holds a position
  subQ,      \* undelivered ORDER_SUBMITTED messages
  updQ,      \* undelivered ORDER_UPDATE messages: <<order, status>>
  known,     \* internal_orders
  ledger,    \* internal_positions
  fetch      \* what the running reconciliation read from the broker

shadow == <<known, ledger>>
topics == <<subQ, updQ>>
all == <<vars, held, topics, shadow, fetch>>

-----------------------------------------------------------------------------
NoFetch == [at |-> "asleep", positions |-> {}, orders |-> [s \in Symbols |-> 0],
            funded |-> TRUE]

\* No agent inserts a position in the store, so the seed is the open orders:
\* none, at the very first start.
RInit ==
  /\ Init
  /\ held = {} /\ subQ = <<>> /\ updQ = <<>>
  /\ known = {} /\ ledger = {}
  /\ fetch = NoFetch

-----------------------------------------------------------------------------
(* The execution agent, with the messages its steps send. *)

SilentStep ==
  /\ Silent
  /\ UNCHANGED <<held, topics, shadow, fetch>>

SubmittedPublished(p) ==
  /\ Announce(p)
  /\ subQ' = Append(subQ, frame[p].order)
  /\ UNCHANGED <<held, updQ, shadow, fetch>>

PollPublishes ==
  /\ PollSaved
  /\ updQ' = Append(updQ, <<poll.cur, status[poll.cur]>>)
  /\ UNCHANGED <<held, subQ, shadow, fetch>>

TimeoutPublishes(o) ==
  /\ TimeoutAnnounces(o)
  /\ updQ' = Append(updQ, <<o, status[o]>>)
  /\ UNCHANGED <<held, subQ, shadow, fetch>>

PlanArrives(plan) ==
  /\ PublishPlan(plan)
  /\ UNCHANGED <<held, topics, shadow, fetch>>

-----------------------------------------------------------------------------
(* The broker (external): fills open a position, a bracket leg closes it.  *)

EntryEnds(o, end) ==
  /\ BrokerEnds(o, end)
  /\ held' = IF end = "filled" THEN held \cup {symbolOf[o]} ELSE held
  /\ UNCHANGED <<topics, shadow, fetch>>

EntryPartlyFills(o) ==
  /\ BrokerPartlyFills(o)
  /\ held' = held \cup {symbolOf[o]}
  /\ UNCHANGED <<topics, shadow, fetch>>

BracketExits(s) ==
  /\ s \in held
  /\ held' = held \ {s}
  /\ UNCHANGED <<vars, topics, shadow, fetch>>

\* Open orders the broker lists for a symbol: a live bracket is three orders,
\* and the two exit legs remain while the position does.
LiveOf(s) == {o \in Live : symbolOf[o] = s}
Listed(s) ==
  IF LiveOf(s) # {} THEN 3 * Cardinality(LiveOf(s))
  ELSE IF s \in held THEN 2 ELSE 0

-----------------------------------------------------------------------------
(* The reconciliation agent's handlers. *)

TakeSubmitted ==
  /\ subQ # <<>>
  /\ known' = known \cup {Head(subQ)}
  /\ subQ' = Tail(subQ)
  /\ UNCHANGED <<vars, held, updQ, ledger, fetch>>

TakeUpdate ==
  /\ updQ # <<>>
  /\ known' = IF Head(updQ)[2] \in Ended THEN known \ {Head(updQ)[1]} ELSE known
  /\ updQ' = Tail(updQ)
  /\ UNCHANGED <<vars, held, subQ, ledger, fetch>>

\* The execution quality agent's task is the one that gets the message.
TakenByOther ==
  /\ \/ subQ # <<>> /\ subQ' = Tail(subQ) /\ UNCHANGED updQ
     \/ updQ # <<>> /\ updQ' = Tail(updQ) /\ UNCHANGED subQ
  /\ UNCHANGED <<vars, held, shadow, fetch>>

TakePositionUpdate(m) ==
  /\ ledger' = IF m.closed THEN ledger \ {m.symbol} ELSE ledger \cup {m.symbol}
  /\ UNCHANGED <<vars, held, topics, known, fetch>>

-----------------------------------------------------------------------------
(* _run_reconciliation: the broker is read, the store is waited for, and   *)
(* the shadow sets are compared as they are by then.                       *)

\* get_positions and get_open_orders of the adapter answer [] when the request
\* fails.
PositionsSeen(ok) == IF ok THEN held ELSE {}
OrdersSeen(ok) == [s \in Symbols |-> IF ok THEN Listed(s) ELSE 0]

Fetch(seesPositions, seesOrders, funded) ==
  /\ fetch.at = "asleep"
  /\ BrokerMayFail \/ (seesPositions /\ seesOrders)
  /\ fetch' = [at        |-> "compare",
               positions |-> PositionsSeen(seesPositions),
               orders    |-> OrdersSeen(seesOrders),
               funded    |-> funded]
  /\ UNCHANGED <<vars, held, topics, shadow>>

\* get_account raises: the report is a MISMATCH at once.
FetchFails ==
  /\ fetch.at = "asleep"
  /\ BrokerMayFail
  /\ Report("MISMATCH")
  /\ UNCHANGED <<agent, planQ, market, books, plans, restarts, held, topics, shadow, fetch>>

Ghosts == fetch.positions \ ledger
Missing == ledger \ fetch.positions
OrdersVanished == known # {} /\ \A s \in Symbols : fetch.orders[s] = 0
KnownTwice == \E o1, o2 \in known : o1 # o2 /\ symbolOf[o1] = symbolOf[o2]
ListedTwice == \E s \in Symbols : fetch.orders[s] > 3

\* Mutant: positions that nobody recorded are left out.
AgreedWithGhosts(storeRead) ==
  storeRead /\ Missing = {} /\ ~OrdersVanished /\ fetch.funded /\ ~KnownTwice /\ ~ListedTwice

\* No discrepancy.
Agreed(storeRead) ==
  /\ storeRead
  /\ Ghosts = {} /\ Missing = {}
  /\ ~OrdersVanished
  /\ fetch.funded
  /\ ~KnownTwice /\ ~ListedTwice

\* The comparison and _publish_and_persist_report.
Compare(storeRead) ==
  /\ fetch.at = "compare"
  /\ storeRead \/ StoreMayFail
  /\ Report(IF Agreed(storeRead) THEN "CLEAN" ELSE "MISMATCH")
  /\ fetch' = NoFetch
  /\ UNCHANGED <<agent, planQ, market, books, plans, restarts, held, topics, shadow>>

-----------------------------------------------------------------------------
\* Both agents live in one process.  _seed_internal_state_from_store loads
\* the orders the store has as open.
RestartBoth ==
  /\ Restart
  /\ subQ' = <<>> /\ updQ' = <<>>
  /\ known' = {o \in Orders : row'[o] \notin Ended \cup {"none"}}
  /\ ledger' = {}
  /\ fetch' = NoFetch
  /\ UNCHANGED held

RNext ==
  \/ SilentStep
  \/ \E p \in Pumps : SubmittedPublished(p)
  \/ PollPublishes
  \/ \E o \in Orders : TimeoutPublishes(o)
  \/ \E plan \in Plans : PlanArrives(plan)
  \/ \E o \in Orders : EntryPartlyFills(o) \/ \E end \in Outcomes : EntryEnds(o, end)
  \/ \E s \in Symbols : BracketExits(s)
  \/ TakeSubmitted \/ TakeUpdate \/ TakenByOther
  \/ \E m \in PositionUpdates : TakePositionUpdate(m)
  \/ \E seesPositions, seesOrders, funded \in BOOLEAN : Fetch(seesPositions, seesOrders, funded)
  \/ FetchFails
  \/ \E storeRead \in BOOLEAN : Compare(storeRead)
  \/ RestartBoth

RSpec == RInit /\ [][RNext]_all

\* The reconciliation loop keeps running, the bus keeps delivering its reports
\* and a broker that is asked again and again answers at last; nothing else is
\* assumed.
RFairness ==
  /\ SF_all(\E funded \in BOOLEAN : Fetch(TRUE, TRUE, funded))
  /\ WF_all(\E storeRead \in BOOLEAN : Compare(storeRead))
  /\ \A p \in Pumps : WF_all(TakeReport(p) /\ UNCHANGED <<held, topics, shadow, fetch>>)

RFairSpec == RSpec /\ RFairness

-----------------------------------------------------------------------------
(* Properties. *)

\* A position nobody in the system recorded (and nobody records one: a fill
\* that was lost, published or partial is a ghost alike) shuts the gate, or
\* is closed by its bracket: the system cannot go on trading beside it.
GhostStopsTrading ==
  \A s \in Symbols : (s \in held) ~> (~gate \/ s \notin held)
=============================================================================
