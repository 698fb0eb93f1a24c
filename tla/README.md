# A verification of nexus-trading

nexus-trading is a day-trading system of some 27 cooperating agents that run as
asyncio tasks of one Python process, talk over a message bus (Redis Streams, or
in-memory queues when Redis is absent) and keep what must survive a restart in
an SQLite store. This directory holds TLA+ models of the parts that decide
whether the system may trade and whether its orders are accounted for, the TLC
runs that check them on small instances, and theorems that TLAPS proves for
every instance. `PROJECT.json` maps every definition to the lines it models.

    tlc -workers 2 -config MCSupervisor.cfg MCSupervisor
    tlapm SupervisorProofs.tla

## 1. The system

### Components, their state and their operations

| Component | State | Operations | What makes it correct |
|---|---|---|---|
| Session machine (`infrastructure/session_state_machine.py`) | the session state, its history | `transition_to` along a fixed table, cooldown timer | only permitted moves; out of a halt only with an approver |
| Portfolio supervisor, PSA (agent 13) | system state, halt reason, anomaly hold, pause end, P/L sums | halt, pause, resume, auto-resume, alerts, breakers, start-up | halted means no trading; only humans end halts; a halt that was stored survives restarts; pauses whose timer was started end |
| Raft cluster, RaftPSA (`infrastructure/raft.py`) | role, term, vote, log, commit and apply index of three nodes | election, heartbeat, propose, append, apply | one leader; nothing acknowledged is rolled back; a command has effect only with a quorum behind it |
| Kill switch API (`infrastructure/kill_switch.py`) | switch state, error list, background flattens | trigger, retry, acknowledge, restart | a stop that reports no error reached every order it found; every dispatched flatten reports; a restart is informed |
| Execution (agent 8) | the reconciliation gate, pending orders, watchdogs | plan handler, poll loop, timeout watchdogs | no order while books disagree; each fill published once; each order settled |
| Reconciliation (agent 9) | shadow orders and positions | fetch, compare, report | CLEAN only when the books agree; a ghost position stops trading |
| Universe, regime, feed, scan (agents 1-4) | snapshot, assessment, feed gate, cached messages | rebuild, classify, check round, scan | a candidate fits its regime; the feed gate is earned; the universe is full |
| Validation, risk, sizing (agents 5-7) | statistics, counters, pauses, signal cache | validate, ten rules, plan | a plan is validated, approved and within its risk; pauses bind |
| Monitoring and exit (agents 11, 12) | watch list, stops, active positions | evaluation, trailing, flips, exits, flatten | stops protect; one trigger per watch; every report of a close is backed by an order that the broker took; time stops fire |
| Quality and tax (agents 10, 15) | rolling window; flags, day trades | judge, summarise; flag, count | the verdict told is the current one; the day-trade limit is reported; a wash-sale flag goes in the known ways only |
| Change control (agents 0, 14, 16) | proposals, setup list | propose, approve, validate, retire | nothing is traded that no human approved; the retired stay retired |
| Clock, session pipeline, health, replay (agents 17, 19, 18, `pipeline/state_machine.py`) | flags, timers, heartbeats; phase; samples; recorded events | ticks, timers, commands, recording, replay | bells once a day; timers once; no halt ended by the clock of a trading week; exact replays |
| Transports (`message_bus.py`, `disruptor.py`, `shared_memory_bus.py`, `fix_connector.py`) | queues, streams, rings, sequence numbers | publish, consume, connect, send | who sees what, how often and in which order |
| Order engines (agent 24, `prime_broker.py`, agent 25) | parent orders, credit lines, inventory | slice, select, consume, cross | bounded overfill, pace, credit within its limit, no crossing beyond inventory |
| Sandbox, tick warehouse (`quant_sandbox.py`, `tick_warehouse.py`, `clickhouse_store.py`) | registry, symbol index; files, bars, batches | start, stop, reload, ticks; write, flush, crash, reopen | active strategies see their ticks, breaches of what is compared end activity; ticks read back in order and within the rounding |
| State store, audit log, watchdog, broker adapter | tables; health flag; the broker's orders | save; record; check; submit, list | rows in the order of the calls; an error is not an answer |

### How they interact

* Messages: CANDIDATE_SIGNAL (4 to 5), VALIDATED_SIGNAL (5 to 6, 7),
  RISK_DECISION (6 to 7), TRADE_PLAN (7 to 8), ORDER_SUBMITTED / ORDER_UPDATE /
  FILL_EVENT (8 to 9, 10, 11), EXIT_TRIGGERED (11 to 12), TRADE_CLOSED (12 to 6,
  13, 15), RECONCILIATION_STATUS (9 to 8 and 13), EXECUTION_QUALITY (10 to 7),
  REGIME_UPDATE, FEED_STATUS, APPROVED_SETUPS (2, 3, 0 to 4 and others),
  CHANGE_PROPOSAL (14 to 16, 16 to 0), PSA_ALERT (3, 2, 9, 10, 15, 19 to 13),
  SYSTEM_STATE (16 to 13 and 13 to all), SESSION_START (17), KILL_SWITCH.
* Calls: the kill switch and the execution agent call the broker directly; the
  bus watchdog halts the PSA through a coordinator callback; RaftPSA calls
  `PSA._halt` from a node's `on_commit`.
* Shared state: `pending_orders` is shared by the handlers, the poll loop and a
  watchdog per order of agent 8; the store's `orders` table is written by 8 and
  read by 9; the `system_state` row is written by the PSA and read at start-up;
  `change_proposals` is written by 14, 16 and 0.

### What is hard

Everything runs on one event loop, so the races are between awaits: a decision
is made, the task suspends in the store, the audit log or the bus, and another
task changes what was decided on. Only awaits that really suspend matter: the
Alpaca client is synchronous, so its calls do not (and the `wait_for` timeouts
around them cannot fire early). To this come timers that outlive their reason,
a bus that raises in the middle of a handler, broker errors that are answered
like an empty book, and restarts that reload less than was there. The list with
its lines is under `hazards` in `PROJECT.json`, the gravest of each component;
smaller ones are among the remarks of section 5.

## 2. The modules

### SessionFSM and Supervisor

`SessionFSM` is the abstract specification: the nine states, the table, the
approval rule, and the named transitions. `Supervisor` is the PSA with its own
instance of that machine, its timers, the store's queue and row, the bus and its
watchdog, and process restarts. A handler is a task whose remaining work is a
sequence of *blocks*, a block being the straight-line code up to the next await
(`todo[t]`). Awaits of the audit log after a store write are merged with it. A
store write is queued with the values read at the call, and the task waits for
it. A publish on a dead bus raises and drops the rest of the task.

The P/L sums, stop-out window and equity only decide whether a check trips, so
each check may trip or not. `Tick` counts down the ticks left on `_pause_until`
and on every timer.

### RaftCluster

Nodes call each other's coroutines directly; a coroutine that does not suspend
runs to its end. Elections and heartbeats are therefore single steps, and a
proposal can be interrupted in its retry sleep and inside `on_commit`, when
`PSA._halt` has something to do. `loop` names the proposal that has the event
loop. A follower may time out whenever the loop is free.

### KillSwitch

The API's state, the `trigger` coroutine with its publish and audit steps, and
any number of concurrent flatten tasks. Acknowledgements and restarts come from
operators at any time. The agents never read the switch and its publish may fail
unnoticed, so orders are sent and filled in every state of it; `early` remembers
those the broker held at the trigger. What the broker accepts, a cancel or a
close, is not done yet: the order may fill first, the closing order may be
rejected (`ExposureSlips`). Tokens that fail validation change nothing and are
left out. `positions_closed` is not modelled (`close_all_positions` returns a
list, so the counter stays 0).

### Execution and Reconciliation

`Execution` models the three kinds of task of agent 8. `Pumps` are the queues it
is fed from: `MessageBus.start_consuming` gives every topic a fresh queue each
time an agent starts, so the agent that starts k-th of n is fed by n-k+1 queues.
The broker is a status per order that moves by itself. `AwaitableFeed` says
whether `get_latest_tick` can be awaited: `AlpacaDataFeed` returns a plain value
(FALSE), the agent's code and its tests expect an awaitable (TRUE).

`Reconciliation` EXTENDS it with agent 9: the queues of ORDER_SUBMITTED and
ORDER_UPDATE, the shadow sets, the broker's positions, the fetch (whose parts
may fail unseen), the comparison, and the report that `Execution` consumes. Each
of its actions is an action of `Execution` together with what it publishes.

In the code no agent ever inserts a row for a new position (`upsert_position` is
called in agents 11 and 12 on rows that exist already) and nobody sends
POSITION_UPDATE for a fill, so every fill is a ghost position for agent 9. The
model says the same.

### The trading path: MarketIntake, SignalPath, RiskGate, Positions

`MarketIntake` has agents 1 to 4. REGIME_UPDATEs that were published stay in a
set, so that they are delivered late, again or never; FEED_STATUS is a queue
from which other subscribers may take. A scan tests feed and regime once, then
goes from symbol to symbol and waits for the language model at each.
`SignalPath` takes a candidate through agents 5 and 7, again with sets of
messages, and with the decision of agent 6 left open; `RiskGate` has that
decision: `FirstFailure` is `_evaluate_all_rules`, and `Evaluate` includes the
pauses that two of the rules start. Its time is counted in ticks, amounts in
small integers. The language models are inputs: any answer the code can parse,
or the fallback it has for an exception.

`Positions` has agents 11 and 12 with positions of either direction. Prices are
integers around an entry; the tape says whether the bars show a shock. An
evaluation holds the object it began with (`Detached` when an update has
replaced it). An exit asks the broker, which answers with an order that it took
(`working`) and that fills later or ends without a fill (`unfilled`); the agent
looks at neither, and behind the answer waits for the store, the row, the bus
and the audit log, a step each (`TradeSaved`, `RowDeleted`, `ClosePublished`,
`ExitDone`), any of which may raise (`ExitFails`). The row of a new position,
and the `position` key of a FILL_EVENT, come from an external writer: no code of
the repository produces them.

### After the trade: ExecutionQuality, TaxRecords

A handler of agent 10 enters its fill, waits, and judges the window it then
finds. `TaxRecords` has the two calls of `get_wash_sale_flag`, the read and the
delete by symbol, as separate steps between which other handlers write.

### Beside it: ChangeControl, ReplayLog, SystemHealth, QuantSandbox, TickWarehouse

`ChangeControl` keeps a decision in two steps around the store write, with
operators who share one proposal object (`shared`). `ReplayLog` records with
doubled and late events while replays run. `QuantSandbox` treats every call as a
coroutine (`call[c]`) that is suspended in `on_start`, `on_stop` or `on_tick`.
Of a book it keeps the limits it is beyond (`over`); `Enforced` are the three
that `_check_risk_limits` compares.
`TickWarehouse` is one symbol and one day: records as deltas, a buffer that a
crash loses, bars, the manifest, and the batches on their way to ClickHouse.
Time is finer than the file: a record's delta is the distance to the tick before
it, as it was, rounded to whole milliseconds of `Ms` units, so what is read back
drifts. A tick may have no volume, and `close` drops a last bar of such ticks.

### Platform: FanOut, RedisBus, RingBus, FixSession, GlobalClock, SessionPipeline, AlgoExecution, PrimeBroker, DarkPool

`FanOut` is the general form of the queues that `Execution` and `Reconciliation`
use: a queue per agent start, with one pump per handler subscribed so far. The
agent that starts first has the first queue for itself, later ones compete.
`RingBus` is both ring buffers. Every agent that starts calls
`start_consuming`, so each start adds a consumer: in the Disruptor a processor
with its own sequence, in shared memory a poll loop on the one `_consumer_seq`,
to which each adds one behind its pass. A processor that was lapped looks again
without yielding (`StandStill`: the event loop has no other step left); a poll
loop times out and asks again.

In `RedisBus` a publish trims the stream, a read or an acknowledgement may raise,
and the process may restart with its group left behind. In `FixSession` a send
takes its number and writes in one step and then waits in `drain`, which may
raise or be cancelled; when the read loop ends, the writer stays, and what is
written to it is heard by nobody (`socket = "deaf"`). In `GlobalClock` calendar
time is quarters of a day, and each publish may raise before or behind its
delivery; in `SessionPipeline` it is the phase of the day, or the weekend, that
the tick reads.

## 3. The runs

| Run | Instance | Shows |
|---|---|---|
| supervisor | 2 tasks, bus failures and watchdog, 1 restart | HaltBlocksTrading, HaltIsDurable (unless the bus cut a handler off), and that the PSA implements SessionFSM (SessionPolicy) |
| supervisor_pause | 2 tasks, 1 breaker trip, both timers, a bus that may go down and stay down | SessionHaltIsSystemHalt, HaltEndsByHuman; PausesEnd (PauseEnds, CooldownEnds), but for the pauses whose handler a publish that raised cut off before it started the timer |
| execution | 1 plan in 2 queues, store and audit failures, 1 restart | NoOrderWhileDirty, FilledRowIsFinal |
| execution_settle | 1 plan of any kind, all outcomes, awaitable feed | BooksAreSound (FillPublishedOnce), OrdersEnd (OrdersSettle, SymbolFreed) |
| reconciliation | 1 plan, 1 partial fill, broker failures, 1 restart | GhostStopsTrading |
| signals | agents 1-7 | IntakeIsSound (UniverseIsFull, CandidateFitsRegime), CleanIsEarned; PathIsSound (PlanIsVetted, RiskWithinBudget, StatsAddUp, CacheIsBounded); ApprovalIsSafe (BurstStopsApprovals, StreakNeedsWin, DayTradesOutliveSession) |
| trade_life | agents 10, 11, 12, 15, kill switch | PositionsAreSound (StopProtects, OneTriggerPerWatch, ClosesAreBacked), TimeStopFires; QualityIsCurrent; TaxRecordsAreSound (PdtLimitIsReported, WashWindowIsKept); StopIsTrue (StopReachesOrders, NoErrorsIsTrue), RestartIsInformed, FlattenReports |
| oversight | change control, replay, health, sandbox, warehouse, Raft | SetupHasApproval; ReplayIsFaithful (ReplayIsExact, FileMatchesDatabase); SpikeDoesNotHalt; SandboxIsSound (ActiveSeesItsTicks, BreachEndsActivity); WarehouseIsSound (TicksReadBack, ManifestIsExact, BarsCountEveryTrade, RowsOnce); ElectionSafety, NeverRolledBack, QuorumBeforeEffect |
| platform | transports, clocks, order engines | DeliveryIsSound (OneTakerPerQueue, FirstSeesAll); EntriesAreHandled (NothingAckedUnhandled, EntryIsDelivered); RingIsSound (NoSilentGap, SkippedForDoubled); FixIsSound (NumbersAreConsecutive, PendingIsAwaited); ClockIsSound (SessionBells, TimerFiresOnce, StallIsNoticed); PipelineIsSound (HaltOutlivesTheDay, DayIsEnded); SlicingIsSound (OverfillIsBounded, PaceIsKept, ParentEnds); CreditIsSound; CrossesWhatItHolds |
| change_control | 2 proposals, 1 operator, 1 validator | **violated**: RetiredForGood. A setup that was retired is active again when a modification or addition approved for it is validated later in the session, although agent 0 promises that there is "no intraday un-retirement" |
| sandbox_limits | 1 strategy, a book beyond `max_position_usd` | **violated**: EveryHardLimitStops. `_check_risk_limits` compares the daily loss, the drawdown and the open positions; the notional limit ends nothing, although `StrategyLimits` says that "exceeding any hard limit causes automatic quarantine" |
| weekend_halt | a halt, a weekend | **violated**: HaltNeedsSignOff. The weekend tick leaves HALTED for INITIALIZING and the clock of the next weekday leads to TRADING, although the table of `pipeline/state_machine.py` has "[HGL sign-off required]" between HALTED and TRADING |

A name followed by others in parentheses is the conjunction of these parts, each
defined, commented and mutated on its own: a component states one promise to its
callers. The shapes of Supervisor and RaftCluster are proved (TypeCorrect,
section 4); those of KillSwitch and Execution are conjuncts of StopIsTrue and
BooksAreSound.

The runs signals, trade_life, oversight and platform put several models side by
side: a variable `focus` is chosen at the start, and only that model moves. This
is one search per model with common reporting, not a composition; the models in
them share no state. The composition of components that do interact is
`Reconciliation` (agents 8, 9, queues, broker), `Supervisor` (session machine,
PSA, store, bus, watchdog) and `SignalPath` (5, 6, 7).

### Bounds

* Two tasks of the PSA give every pair of handlers, and a task runs one handler
  after another; the proofs lift the number. One breaker trip suffices for a
  pause racing a halt.
* Three nodes are the code's own number. Two proposals and two elections reach
  a deposed leader in mid-replication; a committed entry that no node applies
  needs three proposals.
* trade_life, kill switch: two flattens are a first one and a retry, which may
  overlap, beside one order that is sent before or after the trigger; the proof
  lifts both numbers.
* Two queues reproduce overtaking and duplicate delivery; the second one is
  contested by another agent. An order has at most one partial fill before its
  end.
* FillPublishedOnce is checked with a reliable store and broker. With both
  failing and two symbols it fails (a round that has published the fill is
  aborted by the next order before its removals, the watchdog gets no answer
  from the broker and marks the order cancelled, the next round sees the fill
  again).
* NoOrderWhileDirty is about the feed the system has. With a feed that can be
  awaited the gate is read before the await and the order is sent after it.
* OrdersSettle and SymbolFreed need a store that works and one order per symbol,
  see section 5.
* signals: two signals and two handlers per agent, a cache of one; three closed
  trades in five ticks with a streak of two, so that windows, pauses and
  cooldowns begin, overlap and end; equities and prices chosen so that either
  cap decides and one leaves no share.
* trade_life: a long or a short position, opened once and registered twice, so
  that an evaluation of the first watch meets the second, and two exits that
  overlap with two closing orders; three orders in a window of
  two; three trades over three days with a wash window of one day, so that a
  flag expires and is replaced.
* oversight: two proposals (with two operators), three events of which two have
  the same time, two replay requests, a smoothing window of three with the
  thresholds of memory and of the event loop's lag, two
  strategies of which one replaces the other under two concurrent calls with a
  limit that is compared and one that is not, three ticks of two units to the
  millisecond with two openings and a crash.
* platform: queues of one with two publishers, rings of two slots with six
  messages (a consumer is lapped twice) and two consumers, a stream of two
  entries with four published, a batch of two, two consumers and one failure or
  restart, two connections. The bells ring through a working day, a day off and
  the next working day's evening, so that flags meet a second opening and a loop
  that slept over it, with one publish that raises; timers and heartbeats run a
  day and a night. One parent of two and a half children.
* weekend_halt and sandbox_limits are the smallest instances that show their
  disagreement.
* Every action of every module fires in the passing runs.
* Deadlock is not checked: every system comes to rest when its bounded inputs
  are used up and everything is done.

### Fairness

* Supervisor: started tasks run on, queued store calls are executed, time
  passes, start-up completes. A due timer is strongly fair because the model
  lends it a task, which handlers may keep occupying; in the code it has its
  own. Messages, operators, failures and restarts owe nothing.
* KillSwitch: `trigger` and the flattens run on; a broker call ends, by
  returning or raising.
* Execution: handlers, the poll loop and the watchdogs run on, and a request to
  the broker that keeps being made is answered at last. The broker need not
  fill, end or cancel anything.
* Reconciliation: the loop runs again and again, a broker that is asked for ever
  answers at last (strong fairness), reports are delivered.
* Redis: consumers read and handlers return or raise while they are alive;
  nothing starts an ended one.
* Positions: the monitoring task visits every watched position and its calls
  return or raise. Ticks, fills and triggers owe nothing.
* Platform: publishers and pumps that can go on do, handlers return or raise,
  the caller of the slicing engine keeps asking and time passes, the rounds of
  the clock go on, the session's tick task runs every ten seconds. Connections
  may fail for ever.

## 4. The proofs

Eight modules hold the theorems. Each proves the safety properties of its
components for every number of tasks, handlers, queues, orders, positions,
events and every value of the durations, windows and limits; liveness is the
business of TLC.

| Module | Theorems (the property proved) |
|---|---|
| `SupervisorProofs` | TypeCorrect, HaltedIsSafe (HaltBlocksTrading), MachinesAgree (SessionHaltIsSystemHalt), OnlyHumansEndHalts (HaltEndsByHuman), ImplementsSession (SessionPolicy), HaltsReachTheStore (HaltIsDurable) |
| `RaftProofs` | TypeCorrect, AtMostOneLeader (ElectionSafety), RollbackIsDead (NeverRolledBack), QuorumFirst (QuorumBeforeEffect) |
| `KillSwitchProofs` | StopTells (StopIsTrue), RestartInformed (RestartIsInformed) |
| `ExecutionProofs` | OrdersWaitForReports (NoOrderWhileDirty), FillsGoOutOnce (BooksAreSound), FilledRowsStay (FilledRowIsFinal), ComposedRefines (Reconciliation implements Execution), ComposedBooks |
| `TradingProofs` | IntakeHolds (IntakeIsSound), GateIsEarned (CleanIsEarned), PathIsVetted (PathIsSound), ApprovalsAreSafe (ApprovalIsSafe), PositionsAreProtected (PositionsAreSound), QualityVerdictIsCurrent (QualityIsCurrent), TaxRecordsAreKept (TaxRecordsAreSound) |
| `OversightProofs` | ActiveMeansApproved (SetupHasApproval), ReplayIsDeterministic (ReplayIsFaithful), SpikeIsSmoothed (SpikeDoesNotHalt), SandboxServesAndStops (SandboxIsSound), WarehouseKeepsTicks (WarehouseIsSound) |
| `PlatformProofs` | RingHasNoGap (NoSilentGap, a part of RingIsSound), PoolCrossesWhatItHolds (CrossesWhatItHolds), FixKeepsItsBooks (FixIsSound), CreditIsGivenBack (CreditIsSound); the safety parts of DeliveryIsSound (QueueHasOneTaker), EntriesAreHandled (StreamIsAccountedFor), PipelineIsSound (HaltOutlivesTheWeek), ClockIsSound (ClockKeepsTime) and SlicingIsSound (ParentsAreSliced) |
| `DataLemmas` | no theorem: sums, counts and ranks for the others |

### Along which argument

* **Supervisor.** HaltBlocksTrading is not inductive: the session machine may be
  active in a halted system, and what blocks trading then is the hold. The
  invariant is `Plain` (types), `Memory` (halted implies hold, and every queued
  write and the committed row say halted exactly with a reason, and then also
  hold: a restart may load any of them), SessionHaltIsSystemHalt and
  HaltHasReason. HaltIsDurable needs `HaltIsOnItsWay`: while the system is
  halted the newest write, queued or stored, says so, or some task has the
  block that persists still ahead.
* **Raft.** Elections are single steps, so the three terms move together
  (`TermsAgree`) and a new leader deposes the old one (`OneLeader`). `FirstAck`:
  the first follower is reached before the proposal can be suspended, in the
  leader's own term, so it acknowledges, and with the leader's own vote that is
  a majority. For the effects, `QInv` says where every proposal in flight has
  its entry (`FlightInv`), that no log keeps an entry for itself except until
  the first follower is reached (`LogInv`), and that what was applied is held
  twice (`AppliedInv`).
* **Kill switch.** Nothing is under way before the first trigger; only the end
  of a flatten leads out of "triggered"; a retry that empties the error list
  adds a task that has met no error (`ErrorOrClean`). What a close that met no
  error has reached stays reached: an order moves on from there only to its end,
  or back to a position, and is then among those that slipped.
* **Execution.** `GateInv`: the gate shows the newest report, or that report
  waits in a queue that only this agent reads; and nobody is suspended between
  the gate and the order. `BooksInv` follows a fill through the tasks: an order
  is its handler's alone until it is stored (`StoringIsAlone`), nothing is called
  filled that the broker did not fill (`FilledIsTrue`), the poll loop is about to
  publish the first event (`FillIsFirst`), and a second one is prevented by the
  order object while the broker answers (`ObjectRemembers`), or by the removals
  of the round while the store works (`RoundRemembers`).
* **Trading path.** `PathInv`: what has been published and is no failure passed
  every rule, and a plan under way is good already. `RiskInv`: from the beginning
  of the window on the log has lost what the trades lost, and the streak counts
  the losses behind the last gain. `PositionInv`: every object of a position
  protects it, in the store, in the table, at hand in an evaluation and in late
  messages; every watch has a registration that no trigger has used up; the
  reports of a close, and the handlers that still owe one (`Owing`), are no more
  than the orders the broker took, and a position with such an order is not held
  unless the order works or ended unfilled (`ClosesAreKept`). `TaxInv`: the list
  holds all trades of the window; a symbol's flag has the window of its newest
  loss, or that window is over, or the flag went in one of the two ways that
  `lost` records.
* **Oversight.** The setup list and the shared proposal objects are related
  through the approvals; the sandbox through who holds the symbol index. A
  replay is `Tallied`: the context is the sum, the highest point and the
  deepest fall of the first events, which after the last one are the values the
  property defines. The smoothed average is bounded by the sum of a window with
  one sample of full scale and the others below the warning threshold. Of a tick
  file, what is on disk and what is buffered are together the ticks written
  (`StreamIsWritten`), and each record of the first writer is the rounded
  distance to the tick before it (`DeltasAreKept`), so that every record adds at
  most half a millisecond to the drift and a clamped delta only ever makes later
  times late; the volume of the running bar and of those completed is what was
  traded (`BarsInv`); a tick on its way to ClickHouse is in one place (`CopyInv`).
* **Platform.** What a consumer of a ring dispatched is behind its sequence, or
  it works on it; the sequence never goes back, and where nobody else moves it
  the message at work is the next one. What is on the wire is the numbers below
  the next one, heard from some message of the connection on; a pending entry is
  that of a caller who sends or waits, or of a send that raised. A message
  passes a queue once; no two consumers have read the same entry, and what the
  group has not is what was trimmed or published before it (`LostBehind`). The
  flags of the clock know the last bell and the last morning seen
  (`FlagsKnowToday`), and a timer on its way was heard only as often as its
  publish raised (`ShotsAreFresh`). A credit line is used by the
  sum of the orders open at it (`CreditInv`), so a release always finds at least
  its own order on the line and the floor at zero is never needed. Of a parent
  order, what is filled and what is open add up to what was sent, which is at most
  a child order for every slice (`AlgoInv`).

Sums and ranks over sequences and sets of every size need an induction over the
data. `DataLemmas` does it without an operator parameter, by a least
counterexample (`LeastNumber`, from the well-foundedness of the naturals): the
partial sums exist (`SumsExist`), split and bound (`TotalSplit`, `TotalGrows`),
the sum over a finite set depends on no order of adding (`SetSumsRemove`), and
every place in a total order of a finite set has exactly one element
(`RankIsExact`), which makes a definition by CHOOSE of the i-th element a
sequence.

### From which assumptions

The named ASSUMEs of the modules, which TLC evaluates on its instances: bounds
are naturals, durations and limits positive, and the sets are what the code's
types say. Those that say more:

* `ThresholdAssumption` (SystemHealth): one sample of 100 % among warnings is not
  critical on average. The code's thresholds (70/90, 75/90 and 80/95) and its
  window of three satisfy it; lag and latency have no largest value and are
  excepted in the property. Two samples of 100 % and one below the warning do
  halt on memory (100 + 100 + 74 over 3 is above 90).
* `ListingAssumption` (MarketIntake): the ranking of symbols is a total order.
* `"none"` is no proposal (ChangeControl), there is a symbol (Execution), and the
  desks are finitely many (PrimeBroker).
* `AlgoAssumption` (AlgoExecution): the volume curve never falls, as a running sum
  of the buckets of `_build_volume_profile`, which are all positive.

Three theorems have hypotheses on the environment:

* OrdersWaitForReports assumes `~AwaitableFeed`, as in the run: this is the feed
  the system has.
* FillsGoOutOnce assumes `OneSideWorks`, that not both the broker and the store
  fail. This is the exact boundary: when both do, TLC finds a second FILL_EVENT
  with two symbols. A watchdog whose `get_order` failed marks a filled order
  cancelled; the round that published the fill is cut off by the store failing
  for another order, and the next round finds the status changed.
* FilledRowsStay and ComposedBooks assume `~BrokerMayFail`, for the same watchdog
  overwrites the row.

### Only model-checked

Every invariant and every action property of the passing runs is a theorem, but
for one part of an invariant. What is left to TLC is

* SkippedForDoubled, the part of RingIsSound that counts what poll loops with a
  shared sequence skip: it compares the sizes of sets over all loops;
* liveness (PauseEnds, CooldownEnds, FlattenReports, OrdersSettle, SymbolFreed,
  GhostStopsTrading, TimeStopFires, FirstSeesAll, EntryIsDelivered,
  StallIsNoticed, ParentEnds, DayIsEnded): the proof system reasons neither
  about fairness nor about ENABLED.

## 5. Remarks on the code

Behaviours that the models show and no run is kept for:

* `_handle_psa_alert` compares with lower-case words that nobody sends: the
  types sent are FEED_ANOMALY (agent 3), RECONCILIATION_MISMATCH (9),
  EXTREME_VIX (2), SEVERE_EXECUTION_DEGRADATION (10), HEALTH_WARNING (19),
  wash_sale_risk and pdt_limit (15). A feed anomaly holds nothing.
* A hold set outside a halt cannot be cleared: `_handle_resume` returns unless
  the system is halted.
* With the bus down, the transition callback raises inside `_halt`, which ends
  before `_persist_state` (this is what `lost` excludes from HaltIsDurable). A
  pause whose callback or publish raises never starts the timer that would end
  it, nor does the session machine's when its callback raises (`lost` again, in
  PauseEnds and CooldownEnds), although `session_state_machine.py:21` promises
  that it auto-resumes. A restart that loads a row older than the halt comes up
  in no halt.
* A restart in PAUSED loads the state without its timer; only a halt and a
  resume end that pause.
* A follower appends at its own end and commits at the leader's index, so after
  elections an entry may be committed and applied by no node.
* `propose_resume` looks for `_resume` or `_unpause`, which the PSA lacks, and
  the PSA's own checks halt without any log entry.
* Nothing but the kill switch itself reads its state: agents 5 to 8 go on, and an
  order that is sent behind `close_all_positions`, or fills while its cancel is on
  the way, or whose closing order is rejected, leaves exposure behind FLATTENED,
  which `kill_switch.py:54` calls "all positions closed". A publish of KILL_SWITCH
  that fails is only logged.
* When `audit.record` raises in `trigger`, the switch is TRIGGERED with no
  flatten until an operator retries. After a restart request the switch stays in
  RESTARTING, where `trigger` does nothing.
* `AlpacaBroker.close_all_positions`, `get_positions` and `get_open_orders`
  answer an empty list for an error: a failed close is reported as FLATTENED,
  and a failed request compares as CLEAN with an empty ledger. GhostStopsTrading
  holds because a broker that is asked for ever answers at last; it says nothing
  of the rounds that met a swallowed error.
* Two handlers of one plan, or a plan after a timeout whose cancel is still
  pending, pass the duplicate check of agent 8. Agent 9 notices when the broker
  lists both.
* The poll loop removes by symbol; a newer order of the symbol registered during
  the round is dropped from `pending_orders`, and its watchdog then returns.
* `order.status` is assigned before `upsert_order` and `audit.record`; when one
  of them raises, later rounds find the status unchanged, no FILL_EVENT is sent
  and the symbol stays blocked.
* `AlpacaDataFeed.get_latest_tick` is a plain function: awaiting it raises, the
  handler goes on without a tick, and the spread and chase gates are skipped.
* An ORDER_UPDATE handled before its ORDER_SUBMITTED leaves the order in the
  shadow set of agent 9 for good.
* A pause that a halt and a resume ended leaves its timer behind; it ends the
  next pause before its cooldown, although `session_state_machine.py` says
  "paused_cooldown auto-resumes to active after cooldown_sec".
* After an interrupted replication and a new election two Raft nodes hold, and
  apply, different entries at the same index (`raft.py:182`); DESIGN.md calls
  the answer of any node consistent with the committed state.
* A retry-flatten that outlives acknowledgement and restart reports FLATTENED
  over positions that were opened since.
* An order that fills after the watchdog asked to cancel it gets no FILL_EVENT:
  the watchdog forgets it at once.

The trading path:

* Agent 4 tests the feed only before the language model answers, so a candidate
  may be emitted while the feed is dirty. Agent 3's heartbeat reports a HALTED
  feed as DEGRADED.
* Agent 2's early VIX overrides read `market_data["vix"]`, which is never set.
  Agent 1 counts rebuilds as "consecutive sessions" of starvation.
* Agent 5 ignores the model's own `overall_pass`; an answer whose
  `additional_fail_reasons` is null raises at `agent_05_signal_validation.py:252`
  and ends the handler (not modelled). Agent 7 tests for an open
  position before it awaits the model. `total_cost_per_share` adds total
  regulatory fees as if they were per share.
* The streak rule of agent 6 starts a new cooldown at every evaluation until a
  trade wins, and no trade is approved meanwhile: a streak of losses ends
  trading unless an open position closes with a gain. A DAILY_PNL computed
  before a close overwrites the sum that includes it. `increment_pdt_counter`,
  `clear_anomaly_hold` and `reset_for_new_session` have no caller.
* Agent 11: an older POSITION_UPDATE brings an older stop back (StopProtects
  says how far); an evaluation may write a row that was deleted. Agent 12's
  emergency flatten forgets its positions also when the adapter swallowed the
  failure; a store that fails behind the broker's close leaves the trade
  unreported.
* Agent 12 takes the answer of `close_position` for the close. The adapter
  returns the order it has just submitted, mostly pending and with nothing
  filled, so TRADE_CLOSED gives the current price as the exit, the row goes, and
  the watch has ended at the trigger: a closing order that ends without a fill
  leaves a position that nobody watches, and two triggers may report two closes,
  one for each order taken.
* Agent 10 leaves a fill unjudged when the audit log or the bus raises between
  its entry and the check (not modelled; the next fill is judged with it). It
  sends single fills and summaries on one topic, and agent 7 cannot parse the
  former; the entry of an order whose fill came first stays pending.
* Agent 15 loses the wash-sale flag of the newest loss in two ways: an older loss
  that is handled later writes its shorter window over it, and a reader of an
  expired flag has the store delete the symbol's row, which by then is the newer
  one's. So the window that the agent's documentation gives every loss is not
  kept; WashWindowIsKept says that there is no third way. The re-entry alert is
  raised by the exit itself.

Oversight and platform:

* Agent 0 saves its list with a status that `load_pending_proposals` leaves out,
  so it starts empty; lists take effect at once although the proposal names the
  next session; two concurrent additions append the setup twice and a retirement
  marks one of them; a proposal that passed may be approved again.
* Agent 17 sets a bell's flag before the publish: one that raises loses the bell
  for the day (SESSION_END has no second try), and a timer whose publish raised
  after the delivery is fired again. A loop that sleeps over a whole morning
  leaves the flag of the day before and may end a day that has no start; a
  restart between the bells forgets the start and rings no end, one within 9:30
  rings a second start.
* Agent 17 converts a naive UTC time as if it were local; a timer registered
  under the name of one being published is deleted unfired; bells are skipped
  when the loop sleeps over the minute; a heartbeat that arrives while the stall
  of its agent is published is deleted.
* Agent 19 holds the last bus latency when ticks stop, and one latency sample
  may halt in spite of the smoothing, as may the first samples of any dimension
  while its window fills. Agent 18's candidate pass ignores `config_override`; a
  crash or error between its commit and its file write (lines 264 to 278) leaves
  file and database apart (not modelled).
* `pipeline/state_machine.py` leaves POST_SESSION only at the weekend although
  its documentation leads to INITIALIZING the next day; the weekend tick leaves
  HALTED without sign-off (run weekend_halt); a restart of the process forgets a
  halt; a halt may leave SHUTDOWN before the loop sees it.
* Redis: an entry whose handler raised is never delivered again; a connection
  error ends the consumers for good, although a ping later reports health; any
  other error of the read (a TimeoutError) ends its consumer while `_healthy`
  stays TRUE. A publish
  trims the stream to `max_len` entries, read or not: a group that is as far
  behind loses entries, without any error.
* Disruptor: a consumer that was lapped spins without yielding, and so stops the
  event loop; a processor that is started when the first message is overwritten
  already does so at once. `disruptor.py:143` speaks of "a single EventProcessor";
  there is one for each agent started, and every one of them passes each message
  to the handlers. Shared memory: poll loops of several agents may handle one
  message twice and then skip another, since each adds one to the sequence they
  share; a lapped consumer never advances; payloads beyond 8192 bytes are cut.
* FIX: the logon asks for a reset of the numbers (`ResetOnLogon`), `_seq_num_out`
  goes on, so the venue's first message after a reconnect is not number 1; a
  second report for an order whose caller has not woken up yet ends the read
  loop. `new_order` sends before its `try`: a `drain` that raises or is cancelled
  leaves the future in the table, for an order that may be out. The writer is kept
  when the read loop ends, and until the reconnect what is sent to it takes
  numbers that the venue never sees.
* Sandbox: no code compares `max_position_usd` (run sandbox_limits); `on_start`
  returning after a quarantine makes the strategy ACTIVE
  again; an `on_tick` that raises skips the risk check; overlapping reloads leave
  symbols of a replaced strategy in the index.
* Warehouse: every delta is rounded against the unrounded time before it, so the
  times read back drift by up to half a millisecond per tick; times after a
  reopening are shifted; a last bar whose ticks had no volume is dropped by
  `flush`. `resample` is "always accurate" (`tick_warehouse.py:389`) but throws
  away what `update` returns, the completed bars, and keeps the last one. Rows
  of a failed insert are lost; the copy reads `timestamp_ns`, which ticks do not
  have.
* Slicing: children are sized by fills, not by what is out, so the parent can be
  overfilled by less than a child; it is COMPLETED once all slices are sent; a
  fill after a cancel turns CANCELLED into COMPLETED. A fill that is reported
  twice counts twice; the model bounds fills by what is open in the child.
* Prime broker: a broker with room up to its limit is selected and then refuses
  beyond 95 %, while another one has room; a double release under-counts.
* Dark pool: sells of clients reduce the long inventory as buys do, and a report
  overwrites what was crossed since it was made.


Facts met while reading:

* No production code calls `data_integrity_cleared`, so the session machine does
  not leave WAITING_FOR_DATA_INTEGRITY, and none reads `is_trading_allowed`. The
  model has the call, as the machine's documentation does.
* The README says that a reconciliation discrepancy leads to
  HALTED_RECONCILIATION; the PSA only sets the hold. RESUME_COMMAND has no
  subscriber.
* The coordinator passes `agent_id` and `agent_name` to constructors of agents 8
  and 9 that do not take them.
* Agent 9 loads the store's open orders in each round and does not use them;
  agent 20's POSITION_UPDATE adds symbols to its ledger.
* With Redis all agents share one consumer group, so a message reaches one of
  the handlers of its topic (RedisBus). The agents' models describe the
  in-memory bus.
* The coordinator imports `TradeEligibilityRiskAgent` and `SizingPlanAgent`;
  the modules define `TERAAgent` and `SPAAgent`. Agents 20 to 23 await
  `bus.subscribe`, which returns None.

## 6. Not modelled, and the plan

Not modelled because there is nothing for a model checker in it: floating-point
statistics and pricing (`core/statistics.py`, `lob_model.py`,
`microstructure.py`, `multi_asset.py`, agent 26, learners, back-tests, PTP
filter), network and byte-level I/O (`data/feed.py`, SBE codec, kernel bypass),
simulated hardware and venues, dashboards and the UI. Agents 20 to 23 raise in
`start()`, so none of their handlers is reached. The P/L sums of agent 13 are
left nondeterministic; prices, fees and texts are left out throughout. The
market-by-order book is a sequential data structure and would be a module of
operators against a reference book.

What comes next:

1. DailyPnl: the sums, windows and limits of agent 13, composed with RiskGate.
2. The composition of SignalPath with Execution over FanOut's queues.
3. The market-by-order book.
