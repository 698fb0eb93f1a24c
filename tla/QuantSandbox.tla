---------------------------- MODULE QuantSandbox ----------------------------
(***************************************************************************)
(* The strategy sandbox (infrastructure/quant_sandbox.py).  Its calls are  *)
(* coroutines: on_start, on_stop and on_tick of a strategy are awaited, and*)
(* other calls run meanwhile.  A strategy is registered under its own id;  *)
(* hot_reload puts another strategy under that id, with the P/L book of the*)
(* first one.  Which of its hard limits a book is beyond is all that is     *)
(* kept of it.  A strategy that was deregistered is not registered again.  *)
(***************************************************************************)
EXTENDS Naturals, FiniteSets

CONSTANTS
  Strategies,     \* strategy objects; the first one under an id is the id
  Offered,        \* those that are registered, the others come by hot_reload
  Symbols,        \* symbols they may watch
  Watches,        \* strategy -> the symbols it watches
  ErrorLimit,     \* errors at which a strategy is quarantined (3)
  MaxStrategies,  \* active strategies at which register refuses
  Breaches,       \* the limits that books may cross
  Calls           \* coroutines that run at a time

ASSUME SandboxAssumption ==
  /\ Offered \subseteq Strategies /\ Watches \in [Strategies -> SUBSET Symbols]
  /\ ErrorLimit \in Nat \ {0} /\ MaxStrategies \in Nat
  /\ Breaches \subseteq {"max_position_usd", "max_daily_loss_usd", "max_drawdown_pct", "max_open_positions"}

VARIABLES
  life,       \* strategy -> its _state
  registry,   \* ids that are registered
  runs,       \* id -> the strategy of its entry
  index,      \* _symbol_index: symbol -> ids
  errors,     \* id -> error_count of its entry
  book,       \* strategy -> the strategy whose P/L book it has
  over,       \* book -> the limits it is beyond
  call,       \* coroutine -> what it waits for
  restarted   \* history: ids started or resumed since their last tick was over

sandboxVars == <<life, registry, runs, index, errors, book, over, call, restarted>>

Idle == [at |-> "idle"]

SandboxInit ==
  /\ life = [s \in Strategies |-> "REGISTERED"]
  /\ registry = {}
  /\ runs = [s \in Strategies |-> s]
  /\ index = [y \in Symbols |-> {}]
  /\ errors = [s \in Strategies |-> 0]
  /\ book = [s \in Strategies |-> s] /\ over = [s \in Strategies |-> {}]
  /\ call = [c \in Calls |-> Idle]
  /\ restarted = {}

\* Strategies nobody has handed to the sandbox yet.
Fresh == {s \in Strategies : /\ s \notin registry /\ life[s] = "REGISTERED" /\ book[s] = s
                             /\ \A y \in Symbols : s \notin index[y]
                             /\ \A i \in Strategies : i # s => runs[i] # s
                             /\ \A c \in Calls : call[c].at = "stop_of_reload" => call[c].new # s}

ActiveCount == Cardinality({i \in registry : life[runs[i]] = "ACTIVE"})

Register(s) ==
  /\ s \in Fresh \cap Offered /\ runs[s] = s /\ ActiveCount < MaxStrategies
  /\ registry' = registry \cup {s}
  /\ index' = [y \in Symbols |-> IF y \in Watches[s] THEN index[y] \cup {s} ELSE index[y]]
  /\ UNCHANGED <<life, runs, errors, book, over, call, restarted>>

\* The entry is gone; life REMOVED stands for a strategy nobody holds.
Deregister(i) ==
  /\ i \in registry /\ life[runs[i]] # "ACTIVE"
  /\ registry' = registry \ {i}
  /\ index' = [y \in Symbols |-> IF y \in Watches[runs[i]] THEN index[y] \ {i} ELSE index[y]]
  /\ life' = [life EXCEPT ![runs[i]] = IF @ = "REGISTERED" THEN "REMOVED" ELSE @]
  /\ UNCHANGED <<runs, errors, book, over, call, restarted>>

\* start_strategy up to on_start.
StartStrategy(c, i) ==
  /\ call[c] = Idle /\ i \in registry
  /\ life[runs[i]] \in {"REGISTERED", "STOPPED", "PAUSED"}
  /\ life' = [life EXCEPT ![runs[i]] = "STARTING"]
  /\ call' = [call EXCEPT ![c] = [at |-> "start", id |-> i, of |-> runs[i]]]
  /\ UNCHANGED <<registry, runs, index, errors, book, over, restarted>>

\* error_count += 1; beyond the limit all counts are alike.
OneMore(i) == IF errors[i] < ErrorLimit THEN errors[i] + 1 ELSE errors[i]

OnStartDone(c, ok) ==
  /\ call[c].at = "start"
  /\ life' = [life EXCEPT ![call[c].of] = IF ok THEN "ACTIVE" ELSE "ERROR"]
  /\ errors' = [errors EXCEPT ![call[c].id] = IF ok THEN @ ELSE OneMore(call[c].id)]
  /\ restarted' = restarted \cup {call[c].id}
  /\ call' = [call EXCEPT ![c] = Idle]
  /\ UNCHANGED <<registry, runs, index, book, over>>

Stoppable == {"ACTIVE", "PAUSED", "QUARANTINED"}

\* stop_strategy up to on_stop.
StopStrategy(c, i) ==
  /\ call[c] = Idle /\ i \in registry /\ life[runs[i]] \in Stoppable
  /\ life' = [life EXCEPT ![runs[i]] = "STOPPING"]
  /\ call' = [call EXCEPT ![c] = [at |-> "stop", of |-> runs[i]]]
  /\ UNCHANGED <<registry, runs, index, errors, book, over, restarted>>

\* on_stop returned or raised.
OnStopDone(c) ==
  /\ call[c].at = "stop"
  /\ life' = [life EXCEPT ![call[c].of] = "STOPPED"]
  /\ call' = [call EXCEPT ![c] = Idle]
  /\ UNCHANGED <<registry, runs, index, errors, book, over, restarted>>

PauseStrategy(i) ==
  /\ i \in registry /\ life[runs[i]] = "ACTIVE"
  /\ life' = [life EXCEPT ![runs[i]] = "PAUSED"]
  /\ UNCHANGED <<registry, runs, index, errors, book, over, call, restarted>>

ResumeStrategy(i) ==
  /\ i \in registry /\ life[runs[i]] = "PAUSED"
  /\ life' = [life EXCEPT ![runs[i]] = "ACTIVE"]
  /\ restarted' = restarted \cup {i}
  /\ UNCHANGED <<registry, runs, index, errors, book, over, call>>

\* hot_reload up to on_stop; a strategy that cannot be stopped is not waited
\* for, and the swap follows in the same step.
HotReload(c, i, new) ==
  /\ call[c] = Idle /\ i \in registry /\ new \in Fresh
  /\ life[runs[i]] \in Stoppable
  /\ life' = [life EXCEPT ![runs[i]] = "STOPPING"]
  /\ call' = [call EXCEPT ![c] = [at |-> "stop_of_reload", id |-> i, of |-> runs[i], new |-> new]]
  /\ UNCHANGED <<registry, runs, index, errors, book, over, restarted>>

\* Mutant: the new symbols are entered first, then the old ones removed.
IndexAfterSwapReversed(i, old, new) ==
  [y \in Symbols |-> IF y \in Watches[old] THEN index[y] \ {i}
                     ELSE IF y \in Watches[new] THEN index[y] \cup {i} ELSE index[y]]

\* The old strategy's symbols are removed, then the new one's entered.
IndexAfterSwap(i, old, new) ==
  [y \in Symbols |-> IF y \in Watches[new] THEN index[y] \cup {i}
                     ELSE IF y \in Watches[old] THEN index[y] \ {i} ELSE index[y]]

\* The swap and start_strategy up to on_start.  Without the entry, which was
\* deregistered during on_stop, start_strategy raises KeyError.
Swap(c, i, old, new, stopped) ==
  /\ book' = [book EXCEPT ![new] = book[old]]
  /\ runs' = [runs EXCEPT ![i] = new]
  /\ errors' = [errors EXCEPT ![i] = 0]
  /\ index' = IndexAfterSwap(i, old, new)
  /\ IF i \in registry
     THEN /\ life' = [stopped EXCEPT ![new] = "STARTING"]
          /\ call' = [call EXCEPT ![c] = [at |-> "start", id |-> i, of |-> new]]
     ELSE /\ life' = stopped
          /\ call' = [call EXCEPT ![c] = Idle]
  /\ UNCHANGED <<registry, over, restarted>>

HotReloadUnstoppable(c, i, new) ==
  /\ call[c] = Idle /\ i \in registry /\ new \in Fresh \ {i}
  /\ life[runs[i]] \notin Stoppable
  /\ Swap(c, i, runs[i], new, life)

SwapAfterStop(c) ==
  /\ call[c].at = "stop_of_reload"
  /\ Swap(c, call[c].id, call[c].of, call[c].new, [life EXCEPT ![call[c].of] = "STOPPED"])

\* feed_tick: a tick of the symbol goes to one id after the other.
FeedTick(c, y) ==
  /\ call[c] = Idle /\ index[y] # {}
  /\ call' = [call EXCEPT ![c] = [at |-> "route", todo |-> index[y]]]
  /\ UNCHANGED <<life, registry, runs, index, errors, book, over, restarted>>

Routed(todo) == IF todo = {} THEN Idle ELSE [at |-> "route", todo |-> todo]

RouteTick(c, i) ==
  /\ call[c].at = "route" /\ i \in call[c].todo
  /\ call' = [call EXCEPT ![c] =
       IF i \in registry /\ life[runs[i]] = "ACTIVE"
       THEN [at |-> "tick", id |-> i, of |-> runs[i], todo |-> call[c].todo \ {i}]
       ELSE Routed(call[c].todo \ {i})]
  /\ UNCHANGED <<life, registry, runs, index, errors, book, over, restarted>>

\* on_tick records a fill or marks the positions: the book may cross a limit
\* one way or the other.
RecordFill(c) ==
  /\ call[c].at = "tick"
  /\ \E limit \in Breaches :
       over' = [over EXCEPT ![book[call[c].of]] = IF limit \in @ THEN @ \ {limit} ELSE @ \cup {limit}]
  /\ UNCHANGED <<life, registry, runs, index, errors, book, call, restarted>>

\* _check_risk_limits compares three of the four limits; the notional of a
\* position is compared with nothing.
Enforced == {"max_daily_loss_usd", "max_drawdown_pct", "max_open_positions"}
Breached(b) == over[b] \cap Enforced # {}

\* Mutant: only a strategy that raised before is checked.
QuarantinedByRiskLate(i) == i \in registry /\ life[runs[i]] = "ACTIVE" /\ Breached(book[runs[i]]) /\ errors[i] > 0

\* It looks at the strategy the entry has now.
QuarantinedByRisk(i) == i \in registry /\ life[runs[i]] = "ACTIVE" /\ Breached(book[runs[i]])

OnTickReturns(c) ==
  /\ call[c].at = "tick"
  /\ LET i == call[c].id IN
       /\ life' = IF QuarantinedByRisk(i) THEN [life EXCEPT ![runs[i]] = "QUARANTINED"] ELSE life
       /\ restarted' = restarted \ {i}
  /\ call' = [call EXCEPT ![c] = Routed(call[c].todo)]
  /\ UNCHANGED <<registry, runs, index, errors, book, over>>

\* The last error allowed quarantines the strategy the entry has now; when the
\* entry is gone that raises KeyError and the remaining ids get no tick.
OnTickRaises(c) ==
  /\ call[c].at = "tick"
  /\ LET i == call[c].id
         last == OneMore(i) >= ErrorLimit IN
       /\ errors' = [errors EXCEPT ![i] = OneMore(i)]
       /\ life' = IF last /\ i \in registry THEN [life EXCEPT ![runs[i]] = "QUARANTINED"] ELSE life
       /\ restarted' = restarted \ {i}
       /\ call' = [call EXCEPT ![c] = IF last /\ i \notin registry THEN Idle ELSE Routed(call[c].todo)]
  /\ UNCHANGED <<registry, runs, index, book, over>>

SandboxNext ==
  \/ \E i \in Strategies : Register(i) \/ Deregister(i) \/ PauseStrategy(i) \/ ResumeStrategy(i)
  \/ \E c \in Calls :
       \/ \E i \in Strategies : StartStrategy(c, i) \/ StopStrategy(c, i) \/ RouteTick(c, i)
       \/ \E i, new \in Strategies : HotReload(c, i, new) \/ HotReloadUnstoppable(c, i, new)
       \/ \E ok \in BOOLEAN : OnStartDone(c, ok)
       \/ \E y \in Symbols : FeedTick(c, y)
       \/ OnStopDone(c) \/ SwapAfterStop(c) \/ RecordFill(c) \/ OnTickReturns(c) \/ OnTickRaises(c)

SandboxSpec == SandboxInit /\ [][SandboxNext]_sandboxVars

-----------------------------------------------------------------------------
(* Properties. *)

\* Reloads, stops and removals may overlap in any way: a strategy that is
\* active under its id is in the index for every symbol it watches, so that
\* feed_tick does not pass it over.
ActiveSeesItsTicks ==
  \A i \in registry : life[runs[i]] = "ACTIVE" => \A y \in Watches[runs[i]] : i \in index[y]

\* A strategy goes on beyond a limit that is compared only while a tick is in
\* its hands or in those of another strategy with its book, after an error of
\* its own (the check is skipped then), or until its first tick after a start or
\* resume.
BreachEndsActivity ==
  \A i \in registry :
    life[runs[i]] = "ACTIVE" /\ Breached(book[runs[i]]) /\ i \notin restarted =>
      \/ errors[i] > 0
      \/ \E c \in Calls : call[c].at = "tick" /\ book[call[c].of] = book[runs[i]]

\* However the calls overlap, an active strategy is served and one beyond a
\* limit that is compared is stopped.
SandboxIsSound == ActiveSeesItsTicks /\ BreachEndsActivity

\* What StrategyLimits says of all its hard limits: exceeding any of them
\* causes quarantine (the exceptions are those of BreachEndsActivity).
EveryHardLimitStops ==
  \A i \in registry :
    life[runs[i]] = "ACTIVE" /\ over[book[runs[i]]] # {} /\ i \notin restarted =>
      \/ errors[i] > 0
      \/ \E c \in Calls : call[c].at = "tick" /\ book[call[c].of] = book[runs[i]]

=============================================================================
