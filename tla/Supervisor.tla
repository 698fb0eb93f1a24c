----------------------------- MODULE Supervisor -----------------------------
(***************************************************************************)
(* Agent 13, the Portfolio Supervisor Agent (PSA): halts, cooldown pauses, *)
(* human resumes, their timers, the persisted system state and restarts    *)
(* (agents/agent_13_portfolio_supervisor.py), together with the session    *)
(* machine it owns (infrastructure/session_state_machine.py), the store    *)
(* row it persists to (infrastructure/state_store.py) and the watchdog     *)
(* that halts it (infrastructure/watchdog.py, pipeline/coordinator.py).    *)
(*                                                                         *)
(* Handlers are asyncio tasks: they interleave at every await.  The        *)
(* remaining work of a task is a sequence of blocks; a block is the        *)
(* straight-line code up to the next await.  A publish raises when the bus *)
(* is down and the exception drops the rest of the task; a store write is  *)
(* queued with the values read at the call and the task waits for it.      *)
(*                                                                         *)
(* P/L, stop-outs and equity only decide WHETHER a breaker trips; here     *)
(* each check may or may not trip.                                         *)
(* Time is abstracted to the ticks left on each timer.                     *)
(***************************************************************************)
EXTENDS Integers, Sequences

CONSTANTS
  Tasks,        \* concurrent handler activations
  Long,         \* circuit_breaker_pause_sec, in ticks
  Short,        \* the drawdown-velocity pause of 300 s, in ticks
  Checks,       \* checks of _handle_trade_closed that can trip in this instance
  Alerts,       \* alert_type values that arrive on PSA_ALERT or RECONCILIATION
  RaftBreaches, \* breach types proposed through the Raft log
  MaxPauses,    \* bound: pauses in one behaviour
  MaxRestarts,  \* bound: process crashes in one behaviour
  BusMayFail    \* whether the Redis bus can go down

ASSUME DurationAssumption == Short \in Nat \ {0} /\ Long \in Nat \ {0}
ASSUME CheckAssumption == Checks \subseteq {"loss", "stopouts", "velocity", "pdt"}
ASSUME BreachAssumption == RaftBreaches \subseteq {"risk", "anomaly", "recon"}
ASSUME BoundAssumption ==
  MaxPauses \in Nat /\ MaxRestarts \in Nat /\ BusMayFail \in BOOLEAN

VARIABLES
  sysState,     \* _system_state
  haltReason,   \* _halt_reason, abstracted to the kind of breach
  hold,         \* _anomaly_hold
  pauseLeft,    \* ticks until _pause_until; 0 once it is past or None
  fsm,          \* _session_fsm._state
  fsmLast,      \* newest entry of _session_fsm._history
  sysTimers,    \* pending PortfolioSupervisorAgent._auto_resume tasks
  fsmTimers,    \* pending SessionStateMachine._auto_resume tasks
  todo,         \* remaining blocks of every task
  writes,       \* save_system_state calls queued in the store's thread
  disk,         \* the committed system_state row
  busUp,        \* whether publish succeeds
  busWasHealthy,\* BusWatchdog._bus_was_healthy
  lost,         \* history: what this process was to do and never will
  pauses,       \* breaker trips so far
  restarts      \* crashes so far

ctl     == <<sysState, haltReason, hold, pauseLeft>>
session == <<fsm, fsmLast>>
timers  == <<sysTimers, fsmTimers>>
store   == <<writes, disk>>
bus     == <<busUp, busWasHealthy, lost>>
aux     == <<pauses, restarts>>
vars    == <<ctl, session, timers, todo, store, bus, aux>>

Fsm == INSTANCE SessionFSM WITH state <- fsm, last <- fsmLast

-----------------------------------------------------------------------------
(* Data. *)

Breach   == {"risk", "anomaly", "recon"}
NoReason == "none"

\* The members of SystemState that the PSA assigns.
SystemState == {"initializing", "trading", "paused", "halted"}

Row == [state : SystemState, reason : Breach \cup {NoReason}, hold : BOOLEAN]

\* load_system_state when the table has no row
NoRow == [state |-> "initializing", reason |-> NoReason, hold |-> FALSE]

\* Which halted state _halt drives the session machine to.
HaltTarget(breach) ==
  CASE breach = "recon"   -> "halted_reconciliation"
    [] breach = "anomaly" -> "halted_anomaly"
    [] OTHER              -> "halted_risk"

\* The alert types _handle_psa_alert compares with (the comparison is exact).
HoldAlerts == {"feed_anomaly", "reconciliation_mismatch", "bus_failure"}

\* is_trading_allowed
TradingAllowed == fsm = "active" /\ ~hold /\ pauseLeft = 0

Ops == {"halt", "pause", "fsmTimer", "sysTimer", "persist", "publish"}

\* d: ticks to pause for; n: which pause a timer belongs to
Block == [op : Ops, breach : Breach \cup {NoReason}, d : {0, Short, Long}, n : 0..MaxPauses]

Do(op)          == [op |-> op, breach |-> NoReason, d |-> 0, n |-> 0]
DoHalt(breach)  == [op |-> "halt", breach |-> breach, d |-> 0, n |-> 0]
DoFor(op, d, n) == [op |-> op, breach |-> NoReason, d |-> d, n |-> n]

-----------------------------------------------------------------------------
(* Task plumbing. *)

Idle(t) == todo[t] = <<>>

\* Handlers are subscribed once on_startup has run.
Ready(t) == Idle(t) /\ fsm # "booting"

Waiting(t) == \E i \in DOMAIN writes : writes[i].task = t

\* Task t resumes at a block of kind op.
At(t, op) == todo[t] # <<>> /\ Head(todo[t]).op = op /\ ~Waiting(t)

Goto(t, blocks) == todo' = [todo EXCEPT ![t] = blocks]

\* _persist_state: the arguments are read now, the row changes later.
EnqueueWrite(t, s, r, h) ==
  writes' = Append(writes, [task |-> t, row |-> [state |-> s, reason |-> r, hold |-> h]])

\* Mutant: transition_to without its permission check.
TryMoveUnchecked(to, approved) ==
  /\ fsm' = to
  /\ fsmLast' = [from |-> fsm, to |-> to, approved |-> approved]

\* Move the session machine when the table permits it; a no-op or a
\* SessionTransitionError (logged) leaves it alone.
TryMove(to, approved) ==
  IF Fsm!CanMove(fsm, to, approved) THEN Fsm!Move(to, approved) ELSE UNCHANGED session

\* The callback block that a successful move awaits.
Callback(to, approved) ==
  IF Fsm!CanMove(fsm, to, approved) THEN <<Do("publish")>> ELSE <<>>

-----------------------------------------------------------------------------
(* Bus handlers, each up to its first await. *)

\* _check_daily_loss_cap: halt when it trips.
CheckLoss(trips) == IF trips THEN <<DoHalt("risk")>> ELSE <<>>

\* _check_pdt_limit: below the minimum it halts once, and once more when the
\* day trades are used up too.
CheckPdt(below, usedUp) == CheckLoss(below) \o CheckLoss(below /\ usedUp)

\* _check_circuit_breaker: stop-outs pause for Long, velocity for Short.  The
\* bound on pauses counts the trips; every trip has its number.
CheckBreaker(stopouts, velocity) ==
  (IF stopouts THEN <<DoFor("pause", Long, pauses + 1)>> ELSE <<>>) \o
  (IF velocity THEN <<DoFor("pause", Short, pauses + (IF stopouts THEN 2 ELSE 1))>> ELSE <<>>)

\* _handle_trade_closed: the checks in order, then DAILY_PNL is published.
\* Which of them trip is decided by P/L and clock readings.
MayTrip(check) == {FALSE} \cup {TRUE : c \in Checks \cap {check}}

HandleTradeClosed(t) ==
  \E cap \in MayTrip("loss"), stopouts \in MayTrip("stopouts"),
    velocity \in MayTrip("velocity"), below, usedUp \in MayTrip("pdt") :
    /\ Ready(t)
    /\ pauses' = pauses + (IF stopouts THEN 1 ELSE 0) + (IF velocity THEN 1 ELSE 0)
    /\ pauses' <= MaxPauses
    /\ Goto(t, CheckLoss(cap) \o CheckBreaker(stopouts, velocity)
                 \o CheckPdt(below, usedUp) \o <<Do("publish")>>)
    /\ UNCHANGED <<ctl, session, timers, store, bus, restarts>>

\* process(), topic DAILY_PNL: only the loss cap is checked.
HandleDailyPnl(t) ==
  /\ Ready(t)
  /\ Goto(t, CheckLoss(TRUE))
  /\ UNCHANGED <<ctl, session, timers, store, bus, aux>>

\* The hold branch of _handle_psa_alert, shared with _handle_reconciliation.
EngageHold(t, alert) ==
  /\ hold' = TRUE
  /\ EnqueueWrite(t, sysState, haltReason, TRUE)
  /\ Goto(t, <<Do("publish")>> \o
             (IF alert = "bus_failure" THEN <<DoHalt("anomaly")>> ELSE <<>>))
  /\ UNCHANGED <<sysState, haltReason, pauseLeft, session, timers, disk, bus, aux>>

HandlePsaAlert(t, alert) ==
  /\ Ready(t)
  /\ IF alert \in HoldAlerts THEN EngageHold(t, alert) ELSE UNCHANGED vars

\* _handle_reconciliation on a MISMATCH report calls the alert handler.
HandleReconciliation(t) ==
  /\ Ready(t)
  /\ "reconciliation_mismatch" \in Alerts
  /\ EngageHold(t, "reconciliation_mismatch")

\* _on_kill_switch
OnKillSwitch(t) ==
  /\ Ready(t)
  /\ Goto(t, <<DoHalt("risk")>>)
  /\ UNCHANGED <<ctl, session, timers, store, bus, aux>>

\* RaftPSA._on_commit for a committed halt entry.
OnRaftHalt(t, breach) ==
  /\ Ready(t)
  /\ Goto(t, <<DoHalt(breach)>>)
  /\ UNCHANGED <<ctl, session, timers, store, bus, aux>>

\* _on_session_start
OnSessionStart(t) ==
  /\ Ready(t)
  /\ fsm = "waiting_for_regime"
  /\ Fsm!RegimeReady
  /\ Goto(t, <<Do("publish")>>)
  /\ UNCHANGED <<ctl, timers, store, bus, aux>>

\* session_fsm.data_integrity_cleared(), called by whoever bootstraps the session.
DataIntegrityCleared(t) ==
  /\ Ready(t)
  /\ fsm = "waiting_for_data_integrity"
  /\ Fsm!DataIntegrityCleared
  /\ Goto(t, <<Do("publish")>>)
  /\ UNCHANGED <<ctl, timers, store, bus, aux>>

\* The assignments of _handle_resume.
ClearHalt == sysState' = "trading" /\ haltReason' = NoReason /\ hold' = FALSE

\* _handle_resume: the SYSTEM_STATE command "resume" with an approver; it
\* returns at once unless the system is halted.
HandleResume(t) ==
  /\ Ready(t)
  /\ sysState = "halted"
  /\ ClearHalt
  /\ TryMove("active", TRUE)
  /\ Goto(t, Callback("active", TRUE) \o <<Do("persist"), Do("publish")>>)
  /\ UNCHANGED <<pauseLeft, timers, store, bus, aux>>

-----------------------------------------------------------------------------
(* Blocks. *)

\* Mutant: a halt that relies on the session machine alone.
RecordHaltNoHold(breach) ==
  sysState' = "halted" /\ haltReason' = breach /\ UNCHANGED hold

\* The assignments of _halt.
RecordHalt(breach) == sysState' = "halted" /\ haltReason' = breach /\ hold' = TRUE

\* _halt up to the callback's publish.
Halt(t) ==
  /\ At(t, "halt")
  /\ IF sysState = "halted"
     THEN /\ Goto(t, Tail(todo[t]))
          /\ UNCHANGED <<ctl, session>>
     ELSE LET breach == Head(todo[t]).breach
          IN  /\ RecordHalt(breach)
              /\ TryMove(HaltTarget(breach), FALSE)
              /\ Goto(t, Callback(HaltTarget(breach), FALSE)
                           \o <<Do("persist"), Do("publish")>> \o Tail(todo[t]))
              /\ UNCHANGED pauseLeft
  /\ UNCHANGED <<timers, store, bus, aux>>

\* pause_cooldown schedules its timer also when the move was a no-op.
FsmPauses == fsm \in {"active", "paused_cooldown"}

\* Mutant: a breaker that trips during a halt pauses the system.
IgnoresPauseOnlyPaused == sysState = "paused"

\* The early return of _pause.
IgnoresPause == sysState \in {"halted", "paused"}

\* _pause up to the callback's publish.
Pause(t) ==
  /\ At(t, "pause")
  /\ IF IgnoresPause
     THEN /\ Goto(t, Tail(todo[t]))
          /\ UNCHANGED <<ctl, session>>
     ELSE LET d == Head(todo[t]).d
              n == Head(todo[t]).n
          IN  /\ sysState' = "paused" /\ pauseLeft' = d
              /\ TryMove("paused_cooldown", FALSE)
              /\ Goto(t, Callback("paused_cooldown", FALSE)
                           \o (IF FsmPauses THEN <<DoFor("fsmTimer", d, n)>> ELSE <<>>)
                           \o <<Do("persist"), Do("publish"), DoFor("sysTimer", d, n)>>
                           \o Tail(todo[t]))
              /\ UNCHANGED <<haltReason, hold>>
  /\ UNCHANGED <<timers, store, bus, aux>>

\* Mutant: the timers are never started.
StartTimerNever(t) ==
  /\ At(t, "fsmTimer") \/ At(t, "sysTimer")
  /\ Goto(t, Tail(todo[t]))
  /\ UNCHANGED <<ctl, session, timers, store, bus, aux>>

\* create_task(_auto_resume) of the session machine, and of the PSA itself
StartTimer(t) ==
  /\ \/ /\ At(t, "fsmTimer")
        /\ fsmTimers' = fsmTimers \cup {[n |-> Head(todo[t]).n, left |-> Head(todo[t]).d]}
        /\ UNCHANGED sysTimers
     \/ /\ At(t, "sysTimer")
        /\ sysTimers' = sysTimers \cup {[n |-> Head(todo[t]).n, left |-> Head(todo[t]).d]}
        /\ UNCHANGED fsmTimers
  /\ Goto(t, Tail(todo[t]))
  /\ UNCHANGED <<ctl, session, store, bus, aux>>

\* _persist_state
Persist(t) ==
  /\ At(t, "persist")
  /\ EnqueueWrite(t, sysState, haltReason, hold)
  /\ Goto(t, Tail(todo[t]))
  /\ UNCHANGED <<ctl, session, timers, disk, bus, aux>>

\* What a handler owes the rest of the system: its row and its timers.
Owed == {"persist", "fsmTimer", "sysTimer"}

OwedBy(blocks) == {blocks[i].op : i \in DOMAIN blocks} \cap Owed

\* await publish(...): an exception unwinds the whole handler.
Publish(t) ==
  /\ At(t, "publish")
  /\ Goto(t, IF busUp THEN Tail(todo[t]) ELSE <<>>)
  /\ lost' = IF busUp THEN lost ELSE lost \cup OwedBy(Tail(todo[t]))
  /\ UNCHANGED <<ctl, session, timers, store, busUp, busWasHealthy, aux>>

-----------------------------------------------------------------------------
(* Timers, store thread, bus, watchdog, process. *)

\* SessionStateMachine._auto_resume after its sleep
FsmAutoResume(t) ==
  \E x \in fsmTimers :
    /\ Ready(t)
    /\ x.left = 0
    /\ fsmTimers' = fsmTimers \ {x}
    /\ IF fsm = "paused_cooldown"
       THEN Fsm!AutoResume /\ Goto(t, <<Do("publish")>>)
       ELSE UNCHANGED <<session, todo>>
    /\ UNCHANGED <<ctl, sysTimers, store, bus, aux>>

\* Mutant: the timer resumes whatever is not trading.
TimerResumesAny == sysState # "trading"

\* The condition _auto_resume checks when it wakes up.
TimerResumes == sysState = "paused"

\* PortfolioSupervisorAgent._auto_resume after its sleep
AutoResume(t) ==
  \E x \in sysTimers :
    /\ Ready(t)
    /\ x.left = 0
    /\ sysTimers' = sysTimers \ {x}
    /\ IF TimerResumes
       THEN /\ sysState' = "trading" /\ pauseLeft' = 0
            /\ EnqueueWrite(t, "trading", haltReason, hold)
            /\ Goto(t, <<Do("publish")>>)
            /\ UNCHANGED <<haltReason, hold>>
       ELSE UNCHANGED <<ctl, writes, todo>>
    /\ UNCHANGED <<session, fsmTimers, disk, bus, aux>>

Running(ts) == {x \in ts : x.left > 0}

Elapse(ts) == {[x EXCEPT !.left = IF @ > 0 THEN @ - 1 ELSE 0] : x \in ts}

\* Time passes while some timer runs.
Tick ==
  /\ pauseLeft > 0 \/ Running(sysTimers) # {} \/ Running(fsmTimers) # {}
  /\ pauseLeft' = IF pauseLeft > 0 THEN pauseLeft - 1 ELSE 0
  /\ sysTimers' = Elapse(sysTimers)
  /\ fsmTimers' = Elapse(fsmTimers)
  /\ UNCHANGED <<sysState, haltReason, hold, session, todo, store, bus, aux>>

\* Mutant: store calls that overtake each other.
CommitAnyOrder ==
  \E i \in DOMAIN writes :
    /\ disk' = writes[i].row
    /\ writes' = SubSeq(writes, 1, i - 1) \o SubSeq(writes, i + 1, Len(writes))
    /\ UNCHANGED <<ctl, session, timers, todo, bus, aux>>

\* The store's thread executes and commits calls in the order they were made.
Commit ==
  /\ writes # <<>>
  /\ disk' = Head(writes).row
  /\ writes' = Tail(writes)
  /\ UNCHANGED <<ctl, session, timers, todo, bus, aux>>

BusDown ==
  /\ BusMayFail /\ busUp
  /\ busUp' = FALSE
  /\ UNCHANGED <<ctl, session, timers, todo, store, busWasHealthy, lost, aux>>

BusRestored ==
  /\ ~busUp
  /\ busUp' = TRUE
  /\ UNCHANGED <<ctl, session, timers, todo, store, busWasHealthy, lost, aux>>

\* BusWatchdog._check_bus_health with the coordinator's callbacks: a failure
\* halts through the PSA, a recovery changes nothing but the watchdog.
WatchdogCheck(t) ==
  /\ busUp # busWasHealthy
  /\ busWasHealthy' = busUp
  /\ IF busUp THEN UNCHANGED todo ELSE Ready(t) /\ Goto(t, <<DoHalt("anomaly")>>)
  /\ UNCHANGED <<ctl, session, timers, store, busUp, lost, aux>>

\* on_startup reloads a pause but starts no timer for it.
LostWith(state) == IF state = "paused" THEN {"sysTimer"} ELSE {}

\* The process dies at any point; a new one reloads the row (on_startup) and
\* connects to the bus or falls back to the in-memory one.
Restart ==
  /\ restarts < MaxRestarts
  /\ restarts' = restarts + 1
  /\ sysState' = disk.state /\ haltReason' = disk.reason /\ hold' = disk.hold
  /\ pauseLeft' = 0
  /\ Fsm!NewProcess
  /\ sysTimers' = {} /\ fsmTimers' = {}
  /\ todo' = [t \in Tasks |-> <<>>]
  /\ writes' = <<>>
  /\ busUp' = TRUE /\ busWasHealthy' = TRUE
  /\ lost' = LostWith(disk.state)
  /\ UNCHANGED <<disk, pauses>>

\* on_startup: boot_complete, then the state is persisted again.
Boot(t) ==
  /\ Idle(t)
  /\ fsm = "booting"
  /\ Fsm!BootComplete
  /\ Goto(t, <<Do("publish"), Do("persist")>>)
  /\ UNCHANGED <<ctl, timers, store, bus, aux>>

-----------------------------------------------------------------------------
Init ==
  /\ sysState = "initializing" /\ haltReason = NoReason /\ hold = FALSE /\ pauseLeft = 0
  /\ Fsm!Init
  /\ sysTimers = {} /\ fsmTimers = {}
  /\ todo = [t \in Tasks |-> <<>>]
  /\ writes = <<>> /\ disk = NoRow
  /\ busUp = TRUE /\ busWasHealthy = TRUE /\ lost = {}
  /\ pauses = 0 /\ restarts = 0

\* What a task does by itself once started.
Run(t) ==
  \/ Halt(t) \/ Pause(t) \/ StartTimer(t) \/ Persist(t) \/ Publish(t)

Handler(t) ==
  \/ HandleTradeClosed(t) \/ HandleDailyPnl(t)
  \/ \E a \in Alerts : HandlePsaAlert(t, a)
  \/ HandleReconciliation(t)
  \/ OnKillSwitch(t)
  \/ \E b \in RaftBreaches : OnRaftHalt(t, b)
  \/ OnSessionStart(t) \/ DataIntegrityCleared(t)
  \/ HandleResume(t)

Next ==
  \/ \E t \in Tasks : Run(t) \/ Handler(t)
  \/ \E t \in Tasks : FsmAutoResume(t) \/ AutoResume(t)
  \/ \E t \in Tasks : WatchdogCheck(t) \/ Boot(t)
  \/ Tick \/ Commit \/ BusDown \/ BusRestored \/ Restart

Spec == Init /\ [][Next]_vars

\* The event loop runs every runnable task, the store's thread every queued
\* call, and time passes; messages, operators and failures owe nothing.
\* A due timer is due until it runs, but a model task may be busy with a
\* handler again and again: strong fairness for the wake-ups.
Fairness ==
  /\ \A t \in Tasks : WF_vars(Run(t))
  /\ SF_vars(\E t \in Tasks : FsmAutoResume(t)) /\ SF_vars(\E t \in Tasks : AutoResume(t))
  /\ WF_vars(Commit) /\ WF_vars(Tick)
  /\ WF_vars(\E t \in Tasks : Boot(t))

FairSpec == Spec /\ Fairness

-----------------------------------------------------------------------------
(* Properties. *)

Timer == [n : 0..MaxPauses, left : Nat]

\* The shape of the PSA's fields, its session machine, its timers and tasks,
\* the queued store writes and the committed row; a timer is never overdue by
\* less than nothing.
TypeOK ==
  /\ sysState \in SystemState /\ haltReason \in Breach \cup {NoReason}
  /\ hold \in BOOLEAN /\ pauseLeft \in Nat
  /\ fsm \in Fsm!SessionState /\ fsmLast \in Fsm!Entry
  /\ sysTimers \subseteq Timer /\ fsmTimers \subseteq Timer
  /\ todo \in [Tasks -> Seq(Block)]
  /\ writes \in Seq([task : Tasks, row : Row]) /\ disk \in Row
  /\ busUp \in BOOLEAN /\ busWasHealthy \in BOOLEAN /\ lost \subseteq Owed
  /\ pauses \in 0..MaxPauses /\ restarts \in 0..MaxRestarts

\* A halted PSA never allows trading, whatever the session machine does
\* meanwhile (a halt during start-up is skipped by the transition table and
\* SESSION_START or a stale cooldown timer can still make it active), before
\* and after a restart.
HaltBlocksTrading == sysState = "halted" => ~TradingAllowed

\* The two machines never disagree in the dangerous direction: a session
\* machine in a halted state means the PSA itself is halted.
SessionHaltIsSystemHalt == fsm \in Fsm!Halted => sysState = "halted"

\* A reason is on record exactly while the system is halted.
HaltHasReason == (sysState = "halted") <=> (haltReason # NoReason)

\* Only _handle_resume, or a crash that finds an older row, ends a halt.
HaltEndsByHuman ==
  [][sysState = "halted" /\ sysState' # "halted"
       => (\E t \in Tasks : HandleResume(t)) \/ Restart]_vars

\* The PSA moves its session machine only along the permitted table, and out
\* of a halted state only with an approver.
SessionPolicy == Fsm!Spec

Quiet == writes = <<>> /\ \A t \in Tasks : Idle(t)

\* Once the handlers are done a halt is on disk, so a restart keeps it, in
\* whatever order halts, resumes, pauses and timers wrote the row; unless a
\* publish that failed cut a handler off before its own write.
HaltIsDurable ==
  Quiet /\ "persist" \notin lost /\ sysState = "halted" => disk.state = "halted"

\* A pause is temporary: it ends by itself, by a halt or by a resume.  The two
\* pauses that do not are those whose handler a failed publish cut off before
\* it started the timer, and those a restart finds in the row.
PauseEnds ==
  sysState = "paused" ~> sysState # "paused" \/ "sysTimer" \in lost

\* The session machine's cooldown is temporary too, with the same exception: its
\* own timer is started after the callback that publishes the move.
CooldownEnds ==
  fsm = "paused_cooldown" ~> fsm # "paused_cooldown" \/ "fsmTimer" \in lost

\* Neither of the two machines that _pause puts to rest, the supervisor and the
\* session, waits for ever: their timers are started after different awaits,
\* and a machine whose timer was started is resumed whatever the bus does then.
PausesEnd == PauseEnds /\ CooldownEnds

=============================================================================
