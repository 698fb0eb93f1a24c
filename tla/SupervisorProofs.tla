-------------------------- MODULE SupervisorProofs --------------------------
(***************************************************************************)
(* Proofs about module Supervisor for every set of tasks, every pause      *)
(* length and every bound: type correctness, the safety invariants, and    *)
(* that the supervisor drives its session machine as SessionFSM allows.    *)
(***************************************************************************)
EXTENDS Supervisor, SequenceTheorems, TLAPS

\* A queued halt always carries its breach.
GoodBlock == {b \in Block : b.op = "halt" => b.breach \in Breach}

\* A row says halted exactly when it has a reason, and then it also holds.
GoodRow ==
  {r \in Row : /\ r.state = "halted" <=> r.reason # NoReason
               /\ r.state = "halted" => r.hold}

Write == [task : Tasks, row : GoodRow]

\* Halts raise the hold, and rows written earlier keep saying so: a restart
\* may load any of them.
Memory ==
  /\ sysState = "halted" => hold
  /\ todo \in [Tasks -> Seq(GoodBlock)]
  /\ writes \in Seq(Write)
  /\ disk \in GoodRow

\* TypeOK without the queues and the row, which Memory types more strongly.
Plain ==
  /\ sysState \in SystemState /\ haltReason \in Breach \cup {NoReason}
  /\ hold \in BOOLEAN /\ pauseLeft \in Nat
  /\ fsm \in Fsm!SessionState /\ fsmLast \in Fsm!Entry
  /\ sysTimers \subseteq Timer /\ fsmTimers \subseteq Timer
  /\ busUp \in BOOLEAN /\ busWasHealthy \in BOOLEAN /\ lost \subseteq Owed
  /\ pauses \in 0..MaxPauses /\ restarts \in 0..MaxRestarts

\* The inductive invariant.
IInv == Plain /\ Memory /\ SessionHaltIsSystemHalt /\ HaltHasReason

-----------------------------------------------------------------------------
\* The blocks handlers queue are well formed.
LEMMA BlockTypes ==
  /\ \A op \in Ops \ {"halt"} : Do(op) \in GoodBlock
  /\ \A b \in Breach : DoHalt(b) \in GoodBlock
  /\ \A op \in Ops \ {"halt"}, d \in {0, Short, Long}, n \in 0..MaxPauses :
       DoFor(op, d, n) \in GoodBlock
BY BoundAssumption DEF Do, DoHalt, DoFor, GoodBlock, Block, Ops, Breach, NoReason

\* Blocks in sequence stay blocks.
LEMMA ConcatType ==
  ASSUME NEW S, NEW a \in Seq(S), NEW b \in Seq(S)
  PROVE  a \o b \in Seq(S)
OBVIOUS

\* A task that was given well-formed blocks keeps the queues well formed.
LEMMA GotoType ==
  ASSUME NEW t \in Tasks, NEW blocks \in Seq(GoodBlock),
         todo \in [Tasks -> Seq(GoodBlock)], Goto(t, blocks)
  PROVE  todo' \in [Tasks -> Seq(GoodBlock)]
BY DEF Goto

\* A sequence over a set is one over any larger set.
LEMMA SeqMonotone ==
  ASSUME NEW S, NEW T, S \subseteq T, NEW s \in Seq(S)
  PROVE  s \in Seq(T)
OBVIOUS

\* The types of TypeOK follow from the strengthened ones.
LEMMA Weaken ==
  /\ \A f : f \in [Tasks -> Seq(GoodBlock)] => f \in [Tasks -> Seq(Block)]
  /\ \A s : s \in Seq(Write) => s \in Seq([task : Tasks, row : Row])
  /\ GoodRow \subseteq Row
<1>1. GoodBlock \subseteq Block
  BY DEF GoodBlock
<1>2. \A s : s \in Seq(GoodBlock) => s \in Seq(Block)
  BY <1>1, SeqMonotone
<1>3. Write \subseteq [task : Tasks, row : Row]
  BY DEF Write, GoodRow
<1>4. \A s : s \in Seq(Write) => s \in Seq([task : Tasks, row : Row])
  BY <1>3, SeqMonotone
<1> QED BY <1>2, <1>4 DEF GoodRow

\* The tail of a non-empty queue is a queue.
LEMMA TailType ==
  ASSUME NEW S, NEW s \in Seq(S), s # <<>>
  PROVE  Head(s) \in S /\ Tail(s) \in Seq(S)
OBVIOUS

-----------------------------------------------------------------------------
\* What every action leaves alone is what IInv speaks of.
LEMMA StutterStep ==
  ASSUME IInv, UNCHANGED vars
  PROVE  IInv'
BY DEF IInv, Plain, Memory, SessionHaltIsSystemHalt, HaltHasReason, vars, ctl,
       session, timers, store, bus, aux

\* A step that only queues well-formed work for a task preserves IInv.
LEMMA QueueStep ==
  ASSUME IInv, NEW t \in Tasks, NEW blocks \in Seq(GoodBlock), Goto(t, blocks),
         UNCHANGED <<ctl, session, store>>,
         sysTimers' \subseteq Timer, fsmTimers' \subseteq Timer,
         busUp' \in BOOLEAN, busWasHealthy' \in BOOLEAN, lost' \subseteq Owed,
         pauses' \in 0..MaxPauses, restarts' \in 0..MaxRestarts
  PROVE  IInv'
<1>1. todo' \in [Tasks -> Seq(GoodBlock)]
  BY GotoType DEF IInv, Memory
<1> QED
  BY <1>1 DEF IInv, Plain, Memory, SessionHaltIsSystemHalt, HaltHasReason, ctl, session, store

\* The rest of a task's blocks is well formed.
LEMMA RestType ==
  ASSUME IInv, NEW t \in Tasks, todo[t] # <<>>
  PROVE  Head(todo[t]) \in GoodBlock /\ Tail(todo[t]) \in Seq(GoodBlock)
<1>1. todo[t] \in Seq(GoodBlock)
  BY DEF IInv, Memory
<1> QED BY <1>1, TailType

\* The blocks of the loss and day-trade checks.
LEMMA CheckTypes ==
  /\ \A trips \in BOOLEAN : CheckLoss(trips) \in Seq(GoodBlock)
  /\ \A below, usedUp \in BOOLEAN : CheckPdt(below, usedUp) \in Seq(GoodBlock)
<1>1. DoHalt("risk") \in GoodBlock
  BY BlockTypes DEF Breach
<1>2. \A trips \in BOOLEAN : CheckLoss(trips) \in Seq(GoodBlock)
  BY <1>1 DEF CheckLoss
<1>3. ASSUME NEW below \in BOOLEAN, NEW usedUp \in BOOLEAN
      PROVE  CheckPdt(below, usedUp) \in Seq(GoodBlock)
  <2>1. CheckLoss(below) \in Seq(GoodBlock) /\ CheckLoss(below /\ usedUp) \in Seq(GoodBlock)
    BY <1>2
  <2> QED BY <2>1, ConcatType DEF CheckPdt
<1> QED BY <1>2, <1>3

\* The blocks of the circuit breakers, as long as the trips are within bounds.
LEMMA BreakerType ==
  ASSUME NEW stopouts \in BOOLEAN, NEW velocity \in BOOLEAN, pauses \in Nat,
         pauses + (IF stopouts THEN 1 ELSE 0) + (IF velocity THEN 1 ELSE 0) <= MaxPauses
  PROVE  CheckBreaker(stopouts, velocity) \in Seq(GoodBlock)
<1> DEFINE a == IF stopouts THEN <<DoFor("pause", Long, pauses + 1)>> ELSE <<>>
           m == pauses + (IF stopouts THEN 2 ELSE 1)
           b == IF velocity THEN <<DoFor("pause", Short, m)>> ELSE <<>>
<1>1. a \in Seq(GoodBlock)
  <2>1. CASE stopouts
    <3>1. pauses + 1 \in 0..MaxPauses
      BY <2>1, BoundAssumption
    <3>2. DoFor("pause", Long, pauses + 1) \in GoodBlock
      BY <3>1, BlockTypes DEF Ops
    <3> QED BY <2>1, <3>2
  <2>2. CASE ~stopouts
    BY <2>2
  <2> QED BY <2>1, <2>2
<1>2. b \in Seq(GoodBlock)
  <2>1. CASE velocity
    <3>1. m \in 0..MaxPauses
      BY <2>1, BoundAssumption
    <3> HIDE DEF m
    <3>2. DoFor("pause", Short, m) \in GoodBlock
      BY <3>1, BlockTypes DEF Ops
    <3> QED BY <2>1, <3>2
  <2>2. CASE ~velocity
    BY <2>2
  <2> QED BY <2>1, <2>2
<1>3. CheckBreaker(stopouts, velocity) = a \o b
  BY DEF CheckBreaker
<1> HIDE DEF a, b
<1> QED BY <1>1, <1>2, <1>3, ConcatType

-----------------------------------------------------------------------------
(* One lemma per group of actions. *)

\* HandleTradeClosed queues the checks' blocks.
LEMMA TradeClosedStep ==
  ASSUME IInv, NEW t \in Tasks, HandleTradeClosed(t)
  PROVE  IInv'
<1>0. \A check : MayTrip(check) \subseteq BOOLEAN
  BY DEF MayTrip
<1>1. PICK cap \in MayTrip("loss"), stopouts \in MayTrip("stopouts"),
           velocity \in MayTrip("velocity"), below \in MayTrip("pdt"),
           usedUp \in MayTrip("pdt") :
        /\ pauses' = pauses + (IF stopouts THEN 1 ELSE 0) + (IF velocity THEN 1 ELSE 0)
        /\ pauses' <= MaxPauses
        /\ Goto(t, CheckLoss(cap) \o CheckBreaker(stopouts, velocity)
                     \o CheckPdt(below, usedUp) \o <<Do("publish")>>)
        /\ UNCHANGED <<ctl, session, timers, store, bus, restarts>>
  BY Zenon DEF HandleTradeClosed
<1>8. /\ cap \in BOOLEAN /\ stopouts \in BOOLEAN /\ velocity \in BOOLEAN
      /\ below \in BOOLEAN /\ usedUp \in BOOLEAN
  BY <1>0
<1>2. pauses \in Nat /\ pauses' \in 0..MaxPauses
  BY <1>1, BoundAssumption DEF IInv, Plain
<1>3. CheckBreaker(stopouts, velocity) \in Seq(GoodBlock)
  BY <1>1, <1>2, <1>8, BreakerType
<1>4. CheckLoss(cap) \in Seq(GoodBlock) /\ CheckPdt(below, usedUp) \in Seq(GoodBlock)
  BY <1>8, CheckTypes
<1>5. <<Do("publish")>> \in Seq(GoodBlock)
  <2>1. Do("publish") \in GoodBlock
    BY BlockTypes DEF Ops
  <2> QED BY <2>1
<1>6. CheckLoss(cap) \o CheckBreaker(stopouts, velocity)
        \o CheckPdt(below, usedUp) \o <<Do("publish")>> \in Seq(GoodBlock)
  BY <1>3, <1>4, <1>5, ConcatType
<1>7. /\ UNCHANGED <<ctl, session, store>>
      /\ sysTimers' \subseteq Timer /\ fsmTimers' \subseteq Timer
      /\ busUp' \in BOOLEAN /\ busWasHealthy' \in BOOLEAN /\ lost' \subseteq Owed
      /\ restarts' \in 0..MaxRestarts
  BY <1>1 DEF IInv, Plain, timers, bus
<1> QED BY <1>1, <1>2, <1>6, <1>7, QueueStep

\* Handlers that only queue a halt.
LEMMA QueueHaltStep ==
  ASSUME IInv, NEW t \in Tasks, NEW breach \in Breach, Goto(t, <<DoHalt(breach)>>),
         UNCHANGED <<ctl, session, timers, store, aux>>,
         busUp' = busUp, busWasHealthy' \in BOOLEAN, lost' = lost
  PROVE  IInv'
<1>1. <<DoHalt(breach)>> \in Seq(GoodBlock)
  <2>1. DoHalt(breach) \in GoodBlock
    BY BlockTypes
  <2> QED BY <2>1
<1>2. /\ UNCHANGED <<ctl, session, store>>
      /\ sysTimers' \subseteq Timer /\ fsmTimers' \subseteq Timer
      /\ busUp' \in BOOLEAN /\ busWasHealthy' \in BOOLEAN /\ lost' \subseteq Owed
      /\ pauses' \in 0..MaxPauses /\ restarts' \in 0..MaxRestarts
  BY DEF IInv, Plain, timers, aux
<1> QED BY <1>1, <1>2, QueueStep

\* HandleDailyPnl, OnKillSwitch and OnRaftHalt.
LEMMA HaltRequestStep ==
  ASSUME IInv, NEW t \in Tasks,
         \/ HandleDailyPnl(t) \/ OnKillSwitch(t)
         \/ \E b \in RaftBreaches : OnRaftHalt(t, b)
  PROVE  IInv'
<1>1. PICK breach \in Breach :
        /\ Goto(t, <<DoHalt(breach)>>)
        /\ UNCHANGED <<ctl, session, timers, store, bus, aux>>
  BY BreachAssumption
  DEF HandleDailyPnl, OnKillSwitch, OnRaftHalt, CheckLoss, Breach
<1>2. busUp' = busUp /\ busWasHealthy' \in BOOLEAN /\ lost' = lost
  BY <1>1 DEF bus, IInv, Plain
<1> QED BY <1>1, <1>2, QueueHaltStep

\* The store call a handler makes now is a good row.
LEMMA EnqueueType ==
  ASSUME IInv, NEW t \in Tasks, NEW st, NEW re, NEW h,
         [state |-> st, reason |-> re, hold |-> h] \in GoodRow,
         EnqueueWrite(t, st, re, h)
  PROVE  writes' \in Seq(Write)
<1>1. writes \in Seq(Write)
  BY DEF IInv, Memory
<1>2. [task |-> t, row |-> [state |-> st, reason |-> re, hold |-> h]] \in Write
  BY DEF Write
<1> QED BY <1>1, <1>2 DEF EnqueueWrite

\* The row for the current state is good.
LEMMA CurrentRow ==
  ASSUME IInv
  PROVE  /\ [state |-> sysState, reason |-> haltReason, hold |-> hold] \in GoodRow
         /\ [state |-> sysState, reason |-> haltReason, hold |-> TRUE] \in GoodRow
BY DEF IInv, Plain, Memory, HaltHasReason, GoodRow, Row

\* Alerts and reconciliation mismatches raise the hold.
LEMMA HoldStep ==
  ASSUME IInv, NEW t \in Tasks, NEW alert, EngageHold(t, alert)
  PROVE  IInv'
<1>1. Do("publish") \in GoodBlock /\ DoHalt("anomaly") \in GoodBlock
  BY BlockTypes DEF Ops, Breach
<1>2. <<Do("publish")>> \o (IF alert = "bus_failure" THEN <<DoHalt("anomaly")>> ELSE <<>>)
        \in Seq(GoodBlock)
  BY <1>1
<1>3. todo' \in [Tasks -> Seq(GoodBlock)]
  BY <1>2, GotoType DEF EngageHold, IInv, Memory
<1>4. writes' \in Seq(Write)
  BY CurrentRow, EnqueueType DEF EngageHold
<1> QED
  BY <1>3, <1>4 DEF EngageHold, IInv, Plain, Memory, SessionHaltIsSystemHalt,
     HaltHasReason, session, timers, bus, aux

\* HandlePsaAlert and HandleReconciliation.
LEMMA AlertStep ==
  ASSUME IInv, NEW t \in Tasks,
         (\E a \in Alerts : HandlePsaAlert(t, a)) \/ HandleReconciliation(t)
  PROVE  IInv'
<1>1. CASE HandleReconciliation(t)
  BY <1>1, HoldStep DEF HandleReconciliation
<1>2. CASE \E a \in Alerts : HandlePsaAlert(t, a)
  <2>1. PICK a \in Alerts : HandlePsaAlert(t, a)
    BY <1>2
  <2>2. CASE a \in HoldAlerts
    BY <2>1, <2>2, HoldStep DEF HandlePsaAlert
  <2>3. CASE a \notin HoldAlerts
    BY <2>1, <2>3, StutterStep DEF HandlePsaAlert
  <2> QED BY <2>2, <2>3
<1> QED BY <1>1, <1>2

\* A move keeps the session machine's types; only Halted states are halted.
LEMMA MoveType ==
  ASSUME IInv, NEW to \in Fsm!SessionState, NEW approved \in BOOLEAN, TryMove(to, approved)
  PROVE  /\ fsm' \in Fsm!SessionState /\ fsmLast' \in Fsm!Entry
         /\ fsm' = to \/ fsm' = fsm
BY DEF TryMove, IInv, Plain, Fsm!Move, Fsm!Entry, session

\* The callback of a move is a publish or nothing.
LEMMA CallbackType ==
  ASSUME NEW to, NEW approved
  PROVE  Callback(to, approved) \in Seq(GoodBlock)
<1>1. Do("publish") \in GoodBlock
  BY BlockTypes DEF Ops
<1> QED BY <1>1 DEF Callback

\* What a halt or a resume does after the callback.
LEMMA TailBlocks ==
  <<Do("persist"), Do("publish")>> \in Seq(GoodBlock)
<1>1. Do("persist") \in GoodBlock /\ Do("publish") \in GoodBlock
  BY BlockTypes DEF Ops
<1> QED BY <1>1

\* A human resume takes a halted session machine back to active.
LEMMA ResumeStep ==
  ASSUME IInv, NEW t \in Tasks, HandleResume(t)
  PROVE  IInv'
<1>1. Callback("active", TRUE) \o <<Do("persist"), Do("publish")>> \in Seq(GoodBlock)
  BY CallbackType, TailBlocks, ConcatType
<1>2. todo' \in [Tasks -> Seq(GoodBlock)]
  BY <1>1, GotoType DEF HandleResume, IInv, Memory
<1>3. fsm' \in Fsm!SessionState /\ fsmLast' \in Fsm!Entry
  BY MoveType DEF HandleResume, Fsm!SessionState
<1>4. fsm' \notin Fsm!Halted
  <2>1. CASE fsm \in Fsm!Halted
    <3>1. Fsm!CanMove(fsm, "active", TRUE)
      BY <2>1 DEF Fsm!CanMove, Fsm!Permitted, Fsm!Halted
    <3> QED BY <3>1 DEF HandleResume, TryMove, Fsm!Move, Fsm!Halted
  <2>2. CASE fsm \notin Fsm!Halted
    BY <2>2 DEF HandleResume, TryMove, Fsm!Move, Fsm!Halted, session
  <2> QED BY <2>1, <2>2
<1> QED
  BY <1>2, <1>3, <1>4 DEF HandleResume, ClearHalt, IInv, Plain, Memory,
     SessionHaltIsSystemHalt, HaltHasReason, SystemState, NoReason, timers, store, bus,
     aux

\* Session start, data clearance and boot only advance the session machine.
LEMMA AdvanceStep ==
  ASSUME IInv, NEW t \in Tasks, OnSessionStart(t) \/ DataIntegrityCleared(t) \/ Boot(t)
  PROVE  IInv'
<1>1. Do("persist") \in GoodBlock /\ Do("publish") \in GoodBlock
  BY BlockTypes DEF Ops
<1>2. <<Do("publish")>> \in Seq(GoodBlock) /\ <<Do("publish"), Do("persist")>> \in Seq(GoodBlock)
  BY <1>1
<1>3. todo' \in [Tasks -> Seq(GoodBlock)]
  BY <1>2, GotoType DEF OnSessionStart, DataIntegrityCleared, Boot, IInv, Memory
<1>4. fsm' \in Fsm!SessionState \ Fsm!Halted /\ fsmLast' \in Fsm!Entry
  <2>1. PICK to \in {"active", "waiting_for_regime", "waiting_for_data_integrity"} :
          Fsm!Move(to, FALSE)
    BY DEF OnSessionStart, DataIntegrityCleared, Boot, Fsm!RegimeReady,
       Fsm!DataIntegrityCleared, Fsm!BootComplete
  <2>2. to \in Fsm!SessionState /\ to \notin Fsm!Halted
    BY DEF Fsm!SessionState, Fsm!Halted
  <2>3. fsm \in Fsm!SessionState
    BY DEF IInv, Plain
  <2> QED BY <2>1, <2>2, <2>3 DEF Fsm!Move, Fsm!Entry
<1>5. UNCHANGED <<ctl, timers, store, bus, aux>>
  BY DEF OnSessionStart, DataIntegrityCleared, Boot
<1> QED
  BY <1>3, <1>4, <1>5 DEF IInv, Plain, Memory, SessionHaltIsSystemHalt, HaltHasReason,
     ctl, timers, store, bus, aux

\* _halt: hold and reason are set together with the state.
LEMMA HaltStep ==
  ASSUME IInv, NEW t \in Tasks, Halt(t)
  PROVE  IInv'
<1>1. Head(todo[t]) \in GoodBlock /\ Tail(todo[t]) \in Seq(GoodBlock)
  BY RestType DEF Halt, At
<1>2. CASE sysState = "halted"
  <2>1. todo' \in [Tasks -> Seq(GoodBlock)]
    BY <1>1, <1>2, GotoType DEF Halt, IInv, Memory
  <2> QED
    BY <1>2, <2>1 DEF Halt, IInv, Plain, Memory, SessionHaltIsSystemHalt, HaltHasReason,
       ctl, session, timers, store, bus, aux
<1>3. CASE sysState # "halted"
  <2> DEFINE breach == Head(todo[t]).breach
  <2>1. breach \in Breach
    BY <1>1 DEF Halt, At, GoodBlock
  <2>2. /\ RecordHalt(breach)
        /\ TryMove(HaltTarget(breach), FALSE)
        /\ Goto(t, Callback(HaltTarget(breach), FALSE)
                     \o <<Do("persist"), Do("publish")>> \o Tail(todo[t]))
        /\ UNCHANGED pauseLeft
        /\ UNCHANGED <<timers, store, bus, aux>>
    BY <1>3 DEF Halt
  <2> HIDE DEF breach
  <2>3. Callback(HaltTarget(breach), FALSE) \o <<Do("persist"), Do("publish")>>
          \o Tail(todo[t]) \in Seq(GoodBlock)
    BY <1>1, CallbackType, TailBlocks, ConcatType
  <2>4. todo' \in [Tasks -> Seq(GoodBlock)]
    BY <2>2, <2>3, GotoType DEF IInv, Memory
  <2>5. HaltTarget(breach) \in Fsm!SessionState
    BY DEF HaltTarget, Fsm!SessionState, Fsm!Halted
  <2>6. fsm' \in Fsm!SessionState /\ fsmLast' \in Fsm!Entry
    BY <2>2, <2>5, MoveType
  <2> QED
    BY <2>1, <2>2, <2>4, <2>6 DEF RecordHalt, IInv, Plain, Memory, SessionHaltIsSystemHalt,
       HaltHasReason, SystemState, Breach, NoReason, timers, store, bus, aux
<1> QED BY <1>2, <1>3

\* _pause: never out of a halt.
LEMMA PauseStep ==
  ASSUME IInv, NEW t \in Tasks, Pause(t)
  PROVE  IInv'
<1>1. Head(todo[t]) \in GoodBlock /\ Tail(todo[t]) \in Seq(GoodBlock)
  BY RestType DEF Pause, At
<1>2. CASE IgnoresPause
  <2>1. todo' \in [Tasks -> Seq(GoodBlock)]
    BY <1>1, <1>2, GotoType DEF Pause, IInv, Memory
  <2> QED
    BY <1>2, <2>1 DEF Pause, IInv, Plain, Memory, SessionHaltIsSystemHalt, HaltHasReason,
       ctl, session, timers, store, bus, aux
<1>3. CASE ~IgnoresPause
  <2> DEFINE d == Head(todo[t]).d
             n == Head(todo[t]).n
             mid == IF FsmPauses THEN <<DoFor("fsmTimer", d, n)>> ELSE <<>>
             end == <<Do("persist"), Do("publish"), DoFor("sysTimer", d, n)>>
  <2>1. d \in {0, Short, Long} /\ n \in 0..MaxPauses
    BY <1>1 DEF GoodBlock, Block
  <2>2. /\ sysState' = "paused" /\ pauseLeft' = d
        /\ TryMove("paused_cooldown", FALSE)
        /\ Goto(t, Callback("paused_cooldown", FALSE) \o mid \o end \o Tail(todo[t]))
        /\ UNCHANGED <<haltReason, hold, timers, store, bus, aux>>
    BY <1>3 DEF Pause
  <2> HIDE DEF d, n
  <2>3. mid \in Seq(GoodBlock) /\ end \in Seq(GoodBlock)
    <3>1. /\ DoFor("fsmTimer", d, n) \in GoodBlock /\ DoFor("sysTimer", d, n) \in GoodBlock
          /\ Do("persist") \in GoodBlock /\ Do("publish") \in GoodBlock
      BY <2>1, BlockTypes DEF Ops
    <3> QED BY <3>1
  <2> HIDE DEF mid, end
  <2>4. Callback("paused_cooldown", FALSE) \o mid \o end \o Tail(todo[t]) \in Seq(GoodBlock)
    BY <1>1, <2>3, CallbackType, ConcatType
  <2>5. todo' \in [Tasks -> Seq(GoodBlock)]
    BY <2>2, <2>4, GotoType DEF IInv, Memory
  <2>6. /\ fsm' \in Fsm!SessionState /\ fsmLast' \in Fsm!Entry
        /\ fsm' = "paused_cooldown" \/ fsm' = fsm
    BY <2>2, MoveType DEF Fsm!SessionState
  <2>7. sysState # "halted" /\ pauseLeft' \in Nat
    BY <1>3, <2>1, <2>2, DurationAssumption DEF IgnoresPause
  <2> QED
    BY <2>2, <2>5, <2>6, <2>7 DEF IInv, Plain, Memory, SessionHaltIsSystemHalt,
       HaltHasReason, SystemState, Fsm!Halted, timers, store, bus, aux
<1> QED BY <1>2, <1>3

\* A timer carries the pause it was started for.
LEMMA TimerStep ==
  ASSUME IInv, NEW t \in Tasks, StartTimer(t)
  PROVE  IInv'
<1>1. Head(todo[t]) \in GoodBlock /\ Tail(todo[t]) \in Seq(GoodBlock)
  BY RestType DEF StartTimer, At
<1>2. [n |-> Head(todo[t]).n, left |-> Head(todo[t]).d] \in Timer
  <2>1. Head(todo[t]).n \in 0..MaxPauses /\ Head(todo[t]).d \in Nat
    BY <1>1, DurationAssumption DEF GoodBlock, Block
  <2> QED BY <2>1 DEF Timer
<1>3. sysTimers' \subseteq Timer /\ fsmTimers' \subseteq Timer
  BY <1>2 DEF StartTimer, IInv, Plain
<1>4. /\ Goto(t, Tail(todo[t])) /\ UNCHANGED <<ctl, session, store>>
      /\ busUp' \in BOOLEAN /\ busWasHealthy' \in BOOLEAN /\ lost' \subseteq Owed
      /\ pauses' \in 0..MaxPauses /\ restarts' \in 0..MaxRestarts
  BY DEF StartTimer, IInv, Plain, bus, aux
<1> QED BY <1>1, <1>3, <1>4, QueueStep

\* _persist_state queues the row of the current state.
LEMMA PersistStep ==
  ASSUME IInv, NEW t \in Tasks, Persist(t)
  PROVE  IInv'
<1>1. Tail(todo[t]) \in Seq(GoodBlock)
  BY RestType DEF Persist, At
<1>2. todo' \in [Tasks -> Seq(GoodBlock)]
  BY <1>1, GotoType DEF Persist, IInv, Memory
<1>3. writes' \in Seq(Write)
  BY CurrentRow, EnqueueType DEF Persist
<1> QED
  BY <1>2, <1>3 DEF Persist, IInv, Plain, Memory, SessionHaltIsSystemHalt, HaltHasReason,
     ctl, session, timers, bus, aux

\* A publish advances the task or drops it.
LEMMA PublishStep ==
  ASSUME IInv, NEW t \in Tasks, Publish(t)
  PROVE  IInv'
<1>1. (IF busUp THEN Tail(todo[t]) ELSE <<>>) \in Seq(GoodBlock)
  BY RestType DEF Publish, At
<1>2. /\ UNCHANGED <<ctl, session, store>>
      /\ sysTimers' \subseteq Timer /\ fsmTimers' \subseteq Timer
      /\ busUp' \in BOOLEAN /\ busWasHealthy' \in BOOLEAN /\ lost' \subseteq Owed
      /\ pauses' \in 0..MaxPauses /\ restarts' \in 0..MaxRestarts
  BY DEF Publish, OwedBy, IInv, Plain, timers, bus, aux
<1>3. Goto(t, IF busUp THEN Tail(todo[t]) ELSE <<>>)
  BY DEF Publish
<1> QED BY <1>1, <1>2, <1>3, QueueStep

\* The session machine's own timer leaves halted states alone.
LEMMA FsmTimerStep ==
  ASSUME IInv, NEW t \in Tasks, FsmAutoResume(t)
  PROVE  IInv'
<1>1. <<Do("publish")>> \in Seq(GoodBlock)
  <2>1. Do("publish") \in GoodBlock
    BY BlockTypes DEF Ops
  <2> QED BY <2>1
<1>2. todo' \in [Tasks -> Seq(GoodBlock)]
  BY <1>1, GotoType DEF FsmAutoResume, IInv, Memory
<1>3. /\ fsm' \in Fsm!SessionState /\ fsmLast' \in Fsm!Entry
      /\ fsm' = "active" \/ fsm' = fsm
  <2>1. CASE fsm = "paused_cooldown"
    <3>1. Fsm!Move("active", FALSE)
      BY <2>1 DEF FsmAutoResume, Fsm!AutoResume
    <3> QED BY <2>1, <3>1 DEF Fsm!Move, Fsm!Entry, Fsm!SessionState
  <2>2. CASE fsm # "paused_cooldown"
    BY <2>2 DEF FsmAutoResume, IInv, Plain, session
  <2> QED BY <2>1, <2>2
<1>4. fsmTimers' \subseteq Timer /\ UNCHANGED <<ctl, sysTimers, store, bus, aux>>
  BY DEF FsmAutoResume, IInv, Plain
<1> QED
  BY <1>2, <1>3, <1>4 DEF IInv, Plain, Memory, SessionHaltIsSystemHalt, HaltHasReason,
     Fsm!Halted, ctl, store, bus, aux

\* The PSA's timer resumes only a pause, so it writes a row without a reason.
LEMMA SysTimerStep ==
  ASSUME IInv, NEW t \in Tasks, AutoResume(t)
  PROVE  IInv'
<1>1. sysTimers' \subseteq Timer /\ UNCHANGED <<session, fsmTimers, disk, bus, aux>>
  BY DEF AutoResume, IInv, Plain
<1>2. CASE TimerResumes
  <2>1. /\ sysState' = "trading" /\ pauseLeft' = 0
        /\ EnqueueWrite(t, "trading", haltReason, hold)
        /\ Goto(t, <<Do("publish")>>)
        /\ UNCHANGED <<haltReason, hold>>
    BY <1>2 DEF AutoResume
  <2>2. <<Do("publish")>> \in Seq(GoodBlock)
    <3>1. Do("publish") \in GoodBlock
      BY BlockTypes DEF Ops
    <3> QED BY <3>1
  <2>3. todo' \in [Tasks -> Seq(GoodBlock)]
    BY <2>1, <2>2, GotoType DEF IInv, Memory
  <2>4. haltReason = NoReason /\ fsm \notin Fsm!Halted
    BY <1>2 DEF TimerResumes, IInv, HaltHasReason, SessionHaltIsSystemHalt
  <2>5. [state |-> "trading", reason |-> haltReason, hold |-> hold] \in GoodRow
    BY <2>4 DEF GoodRow, Row, SystemState, IInv, Plain
  <2>6. writes' \in Seq(Write)
    BY <2>1, <2>5, EnqueueType
  <2> QED
    BY <1>1, <2>1, <2>3, <2>4, <2>6 DEF IInv, Plain, Memory, SessionHaltIsSystemHalt,
       HaltHasReason, SystemState, session, bus, aux
<1>3. CASE ~TimerResumes
  BY <1>1, <1>3 DEF AutoResume, IInv, Plain, Memory, SessionHaltIsSystemHalt,
     HaltHasReason, ctl, session, bus, aux
<1> QED BY <1>2, <1>3

\* Time only counts timers down.
LEMMA TickStep ==
  ASSUME IInv, Tick
  PROVE  IInv'
<1>1. \A ts : ts \subseteq Timer => Elapse(ts) \subseteq Timer
  BY DEF Elapse, Timer
<1>2. sysTimers' \subseteq Timer /\ fsmTimers' \subseteq Timer /\ pauseLeft' \in Nat
  BY <1>1 DEF Tick, IInv, Plain
<1> QED
  BY <1>2 DEF Tick, IInv, Plain, Memory, SessionHaltIsSystemHalt, HaltHasReason,
     session, store, bus, aux

\* The row on disk is one a handler wrote.
LEMMA CommitStep ==
  ASSUME IInv, Commit
  PROVE  IInv'
<1>1. Head(writes) \in Write /\ Tail(writes) \in Seq(Write)
  BY TailType DEF Commit, IInv, Memory
<1>2. disk' \in GoodRow /\ writes' \in Seq(Write)
  BY <1>1 DEF Commit, Write
<1> QED
  BY <1>2 DEF Commit, IInv, Plain, Memory, SessionHaltIsSystemHalt, HaltHasReason,
     ctl, session, timers, bus, aux

\* Bus failures, and the watchdog that turns them into a halt.
LEMMA BusStep ==
  ASSUME IInv, BusDown \/ BusRestored \/ \E t \in Tasks : WatchdogCheck(t)
  PROVE  IInv'
<1>1. CASE BusDown \/ BusRestored
  BY <1>1 DEF BusDown, BusRestored, IInv, Plain, Memory, SessionHaltIsSystemHalt,
     HaltHasReason, ctl, session, timers, store, aux
<1>2. ASSUME NEW t \in Tasks, WatchdogCheck(t)
      PROVE  IInv'
  <2>1. UNCHANGED <<ctl, session, timers, store, busUp, lost, aux>> /\ busWasHealthy' \in BOOLEAN
    BY <1>2 DEF WatchdogCheck, IInv, Plain
  <2>2. CASE busUp
    BY <1>2, <2>1, <2>2 DEF WatchdogCheck, IInv, Plain, Memory, SessionHaltIsSystemHalt,
       HaltHasReason, ctl, session, timers, store, aux
  <2>3. CASE ~busUp
    <3>1. Goto(t, <<DoHalt("anomaly")>>)
      BY <1>2, <2>3 DEF WatchdogCheck
    <3> QED BY <2>1, <3>1, QueueHaltStep DEF Breach
  <2> QED BY <2>2, <2>3
<1> QED BY <1>1, <1>2

\* A new process starts from a good row and a booting session machine.
LEMMA RestartStep ==
  ASSUME IInv, Restart
  PROVE  IInv'
<1>1. disk \in GoodRow /\ disk' \in GoodRow
  BY DEF Restart, IInv, Memory
<1>2. /\ sysState' \in SystemState /\ haltReason' \in Breach \cup {NoReason}
      /\ hold' \in BOOLEAN
      /\ sysState' = "halted" => hold'
      /\ sysState' = "halted" <=> haltReason' # NoReason
  BY <1>1 DEF Restart, GoodRow, Row
<1>3. fsm' \in Fsm!SessionState \ Fsm!Halted /\ fsmLast' \in Fsm!Entry
  BY DEF Restart, Fsm!NewProcess, Fsm!NoEntry, Fsm!SessionState, Fsm!Halted, Fsm!Entry
<1>4. todo' \in [Tasks -> Seq(GoodBlock)] /\ writes' \in Seq(Write)
  BY DEF Restart
<1>5. restarts' \in 0..MaxRestarts
  BY BoundAssumption DEF Restart, IInv, Plain
<1>6. lost' \subseteq Owed
  BY DEF Restart, LostWith, Owed
<1> QED
  BY <1>1, <1>2, <1>3, <1>4, <1>5, <1>6 DEF Restart, IInv, Plain, Memory,
     SessionHaltIsSystemHalt, HaltHasReason

-----------------------------------------------------------------------------
(* The invariant is inductive. *)

\* The first process starts with an empty store and a booting session.
LEMMA InitInv == Init => IInv
<1> SUFFICES ASSUME Init PROVE IInv
  OBVIOUS
<1>1. fsm \in Fsm!SessionState \ Fsm!Halted /\ fsmLast \in Fsm!Entry
  BY DEF Init, Fsm!Init, Fsm!NoEntry, Fsm!SessionState, Fsm!Halted, Fsm!Entry
<1>2. disk \in GoodRow
  BY DEF Init, NoRow, GoodRow, Row, SystemState
<1>3. todo \in [Tasks -> Seq(GoodBlock)] /\ writes \in Seq(Write)
  BY DEF Init
<1>4. Plain
  <2>1. hold \in BOOLEAN /\ busUp \in BOOLEAN /\ busWasHealthy \in BOOLEAN /\ lost \subseteq Owed
    BY Zenon DEF Init
  <2>2. sysState \in SystemState /\ haltReason \in Breach \cup {NoReason}
    BY DEF Init, SystemState
  <2>3. /\ pauseLeft \in Nat /\ pauses \in 0..MaxPauses /\ restarts \in 0..MaxRestarts
        /\ sysTimers \subseteq Timer /\ fsmTimers \subseteq Timer
    BY BoundAssumption DEF Init
  <2> QED BY <1>1, <2>1, <2>2, <2>3, Zenon DEF Plain
<1>5. Memory
  BY <1>2, <1>3 DEF Init, Memory
<1>6. SessionHaltIsSystemHalt /\ HaltHasReason
  BY <1>1 DEF Init, SessionHaltIsSystemHalt, HaltHasReason
<1> QED BY <1>4, <1>5, <1>6 DEF IInv

\* Every step preserves the invariant.
LEMMA NextInv == IInv /\ [Next]_vars => IInv'
<1> SUFFICES ASSUME IInv, [Next]_vars PROVE IInv'
  OBVIOUS
<1>1. ASSUME NEW t \in Tasks, Run(t)
      PROVE  IInv'
  BY <1>1, HaltStep, PauseStep, TimerStep, PersistStep, PublishStep DEF Run
<1>2. ASSUME NEW t \in Tasks, Handler(t)
      PROVE  IInv'
  BY <1>2, TradeClosedStep, HaltRequestStep, AlertStep, AdvanceStep, ResumeStep DEF Handler
<1>3. ASSUME NEW t \in Tasks, FsmAutoResume(t) \/ AutoResume(t) \/ WatchdogCheck(t) \/ Boot(t)
      PROVE  IInv'
  BY <1>3, FsmTimerStep, SysTimerStep, BusStep, AdvanceStep
<1>4. CASE Tick \/ Commit \/ BusDown \/ BusRestored \/ Restart
  BY <1>4, TickStep, CommitStep, BusStep, RestartStep
<1>5. CASE UNCHANGED vars
  BY <1>5, StutterStep
<1> QED BY <1>1, <1>2, <1>3, <1>4, <1>5 DEF Next

\* In every behaviour the invariant holds.
THEOREM Invariance == Spec => []IInv
BY InitInv, NextInv, PTL DEF Spec

\* The supervisor's variables keep their types, whatever interleaving of
\* handlers, timers, store writes, bus failures and crashes happens.
THEOREM TypeCorrect == Spec => []TypeOK
<1>1. IInv => TypeOK
  BY Weaken DEF IInv, Plain, Memory, TypeOK
<1> QED BY <1>1, Invariance, PTL

\* A halted PSA never allows trading: is_trading_allowed is false even when
\* the session machine skipped the halt, and after a restart from any row.
THEOREM HaltedIsSafe == Spec => []HaltBlocksTrading
<1>1. IInv => HaltBlocksTrading
  BY DEF IInv, Memory, HaltBlocksTrading, TradingAllowed
<1> QED BY <1>1, Invariance, PTL

\* _session_fsm is in a halted state only while _system_state is HALTED, and
\* _halt_reason is set exactly while it is.
THEOREM MachinesAgree == Spec => [](SessionHaltIsSystemHalt /\ HaltHasReason)
<1>1. IInv => SessionHaltIsSystemHalt /\ HaltHasReason
  BY DEF IInv
<1> QED BY <1>1, Invariance, PTL

-----------------------------------------------------------------------------
\* No timer, breaker, alert or watchdog ends a halt: only _handle_resume does,
\* or a crash before the halt reached the store.
THEOREM OnlyHumansEndHalts == Spec => HaltEndsByHuman
<1> DEFINE Goal == sysState = "halted" /\ sysState' # "halted"
                     => (\E t \in Tasks : HandleResume(t)) \/ Restart
<1>1. [Next]_vars => [Goal]_vars
  <2> SUFFICES ASSUME Next PROVE Goal
    OBVIOUS
  <2>1. ASSUME NEW t \in Tasks, Run(t) PROVE Goal
    BY <2>1 DEF Run, Halt, RecordHalt, Pause, IgnoresPause, StartTimer, Persist, Publish, ctl
  <2>2. ASSUME NEW t \in Tasks, Handler(t) PROVE Goal
    BY <2>2 DEF Handler, HandleTradeClosed, HandleDailyPnl, HandlePsaAlert, EngageHold,
       HandleReconciliation, OnKillSwitch, OnRaftHalt, OnSessionStart, DataIntegrityCleared, ctl, vars
  <2>3. ASSUME NEW t \in Tasks, FsmAutoResume(t) \/ AutoResume(t) \/ WatchdogCheck(t) \/ Boot(t)
        PROVE Goal
    BY <2>3 DEF FsmAutoResume, AutoResume, TimerResumes, WatchdogCheck, Boot, ctl
  <2>4. CASE Tick \/ Commit \/ BusDown \/ BusRestored \/ Restart
    BY <2>4 DEF Tick, Commit, BusDown, BusRestored, ctl
  <2> QED BY <2>1, <2>2, <2>3, <2>4 DEF Next
<1> QED BY <1>1, PTL DEF Spec, HaltEndsByHuman

\* The supervisor implements the session machine: it moves only along
\* SESSION_STATE_TRANSITIONS, and out of a halted state only with an approver.
THEOREM ImplementsSession == Spec => SessionPolicy
<1>1. Init => Fsm!Init
  BY DEF Init
<1>2. [Next]_vars => [Fsm!Next]_<<fsm, fsmLast>>
  <2> SUFFICES ASSUME Next, ~UNCHANGED <<fsm, fsmLast>> PROVE Fsm!Next
    BY DEF vars, session
  <2>1. ASSUME NEW t \in Tasks, Run(t) PROVE Fsm!Next
    <3>1. CASE Halt(t)
      <4>1. PICK b : TryMove(HaltTarget(b), FALSE)
        BY <3>1 DEF Halt, session
      <4>2. HaltTarget(b) \in Fsm!Halted /\ Fsm!Move(HaltTarget(b), FALSE)
        BY <4>1 DEF TryMove, HaltTarget, Fsm!Halted, session
      <4> QED BY <4>2 DEF Fsm!Next, Fsm!Halt
    <3>2. CASE Pause(t)
      BY <3>2 DEF Pause, TryMove, session, Fsm!Next, Fsm!PauseCooldown
    <3>3. CASE StartTimer(t) \/ Persist(t) \/ Publish(t)
      BY <3>3 DEF StartTimer, Persist, Publish, session
    <3> QED BY <2>1, <3>1, <3>2, <3>3 DEF Run
  <2>2. ASSUME NEW t \in Tasks, Handler(t) PROVE Fsm!Next
    <3>1. CASE HandleResume(t)
      BY <3>1 DEF HandleResume, TryMove, session, Fsm!Next, Fsm!HumanResume
    <3>2. CASE OnSessionStart(t) \/ DataIntegrityCleared(t)
      BY <3>2 DEF OnSessionStart, DataIntegrityCleared, Fsm!Next
    <3>3. CASE \/ HandleTradeClosed(t) \/ HandleDailyPnl(t) \/ HandleReconciliation(t)
               \/ (\E a \in Alerts : HandlePsaAlert(t, a)) \/ OnKillSwitch(t)
               \/ \E b \in RaftBreaches : OnRaftHalt(t, b)
      BY <3>3 DEF HandleTradeClosed, HandleDailyPnl, HandlePsaAlert, EngageHold,
         HandleReconciliation, OnKillSwitch, OnRaftHalt, session, vars
    <3> QED BY <2>2, <3>1, <3>2, <3>3 DEF Handler
  <2>3. ASSUME NEW t \in Tasks, FsmAutoResume(t) \/ AutoResume(t) \/ WatchdogCheck(t) \/ Boot(t)
        PROVE Fsm!Next
    BY <2>3 DEF FsmAutoResume, AutoResume, WatchdogCheck, Boot, session, Fsm!Next
  <2>4. CASE Tick \/ Commit \/ BusDown \/ BusRestored \/ Restart
    BY <2>4 DEF Tick, Commit, BusDown, BusRestored, Restart, session, Fsm!Next
  <2> QED BY <2>1, <2>2, <2>3, <2>4 DEF Next
<1> QED BY <1>1, <1>2, PTL DEF Spec, SessionPolicy, Fsm!Spec, Fsm!fsmVars

-----------------------------------------------------------------------------
(* A halt reaches the store. *)

\* Task t still has a _persist_state before it.
PersistAhead(t) == \E i \in DOMAIN todo[t] : todo[t][i].op = "persist"

\* The row the store will have when the calls queued by now are executed.
Newest == IF writes = <<>> THEN disk ELSE writes[Len(writes)].row

\* A halt is on disk, in the newest queued call, or a task is about to write
\* the state it finds then.
HaltIsOnItsWay ==
  "persist" \notin lost /\ sysState = "halted" =>
    (\E t \in Tasks : PersistAhead(t)) \/ Newest.state = "halted"

\* New work for an idle task takes no write from any.
LEMMA AheadIdle ==
  ASSUME IInv, NEW t \in Tasks, Idle(t), NEW blocks, Goto(t, blocks),
         NEW u \in Tasks, PersistAhead(u)
  PROVE  PersistAhead(u)'
<1>1. u # t
  BY DEF Idle, PersistAhead
<1>2. todo'[u] = todo[u]
  BY <1>1 DEF Goto, IInv, Memory
<1> QED
  BY <1>2 DEF PersistAhead

\* Past a block that is not a write, the writes ahead are still ahead.
LEMMA AheadTail ==
  ASSUME IInv, NEW t \in Tasks, todo[t] # <<>>, Head(todo[t]).op # "persist",
         Goto(t, Tail(todo[t])), NEW u \in Tasks, PersistAhead(u)
  PROVE  PersistAhead(u)'
<1>1. todo \in [Tasks -> Seq(GoodBlock)]
  BY DEF IInv, Memory
<1>2. CASE u # t
  <2>1. todo'[u] = todo[u]
    BY <1>1, <1>2 DEF Goto
  <2> QED
    BY <2>1 DEF PersistAhead
<1>3. CASE u = t
  <2> DEFINE s == todo[t]
  <2>1. s \in Seq(GoodBlock) /\ s # <<>> /\ todo'[u] = Tail(s)
    BY <1>1, <1>3 DEF Goto
  <2>2. PICK i \in DOMAIN s : s[i].op = "persist"
    BY <1>3 DEF PersistAhead
  <2> HIDE DEF s
  <2>3. Head(s).op # "persist"
    BY DEF s
  <2>4. i # 1 /\ i \in 1 .. Len(s)
    BY <2>1, <2>2, <2>3
  <2>5. i - 1 \in DOMAIN Tail(s) /\ Tail(s)[i - 1] = s[i]
    BY <2>1, <2>4
  <2> QED
    BY <2>1, <2>2, <2>5 DEF PersistAhead
<1> QED
  BY <1>2, <1>3

\* A step that changes neither the state nor the store and takes no write
\* from a task.
LEMMA WayKept ==
  ASSUME HaltIsOnItsWay, UNCHANGED <<sysState, store>>, lost \subseteq lost',
         \A u \in Tasks : PersistAhead(u) => PersistAhead(u)'
  PROVE  HaltIsOnItsWay'
BY DEF HaltIsOnItsWay, Newest, store

\* A call that writes the state of the moment.
LEMMA WayWritten ==
  ASSUME IInv, NEW t \in Tasks, NEW r, NEW h, EnqueueWrite(t, sysState, r, h),
         UNCHANGED sysState
  PROVE  HaltIsOnItsWay'
<1> DEFINE w == [task |-> t, row |-> [state |-> sysState, reason |-> r, hold |-> h]]
<1>1. writes' = Append(writes, w) /\ w.row.state = sysState
  BY DEF EnqueueWrite
<1>2. writes \in Seq(Write)
  BY DEF IInv, Memory
<1> HIDE DEF w
<1>3. writes' # <<>> /\ writes'[Len(writes')] = w
  BY <1>1, <1>2
<1>4. Newest' = w.row
  BY <1>3 DEF Newest
<1> QED
  BY <1>1, <1>4 DEF HaltIsOnItsWay

\* What is in the first of two sequences is there in both together.
LEMMA InFirst ==
  ASSUME NEW S, NEW a \in Seq(S), NEW b \in Seq(S), NEW i \in 1 .. Len(a)
  PROVE  i \in DOMAIN (a \o b) /\ (a \o b)[i] = a[i]
<1>1. Len(a \o b) = Len(a) + Len(b) /\ a \o b \in Seq(S)
  OBVIOUS
<1>2. i \in 1 .. Len(a \o b)
  BY <1>1
<1> QED
  BY <1>1, <1>2

\* _halt leaves its own write ahead.
LEMMA WayHalt ==
  ASSUME IInv, HaltIsOnItsWay, NEW t \in Tasks, Halt(t)
  PROVE  HaltIsOnItsWay'
<1>1. todo \in [Tasks -> Seq(GoodBlock)] /\ Tail(todo[t]) \in Seq(GoodBlock)
  BY RestType DEF Halt, At, IInv, Memory
<1>2. CASE sysState = "halted"
  <2>1. Goto(t, Tail(todo[t])) /\ UNCHANGED <<sysState, store, lost>>
    BY <1>2, Zenon DEF Halt, ctl, bus
  <2>2. todo[t] # <<>> /\ Head(todo[t]).op # "persist"
    BY DEF Halt, At
  <2> QED
    BY <2>1, <2>2, AheadTail, WayKept
<1>3. CASE sysState # "halted"
  <2> DEFINE breach == Head(todo[t]).breach
             c == Callback(HaltTarget(breach), FALSE)
             r == Tail(todo[t])
             s == c \o <<Do("persist"), Do("publish")>> \o r
  <2>1. Goto(t, s)
    BY <1>3 DEF Halt
  <2>2. c \in Seq(GoodBlock) /\ r \in Seq(GoodBlock)
    BY <1>1, CallbackType
  <2>3. todo'[t] = s
    BY <1>1, <2>1 DEF Goto
  <2> HIDE DEF c, r
  <2>4. <<Do("persist"), Do("publish")>> \in Seq(GoodBlock)
    BY TailBlocks
  <2>5. Len(c) + 1 \in DOMAIN s /\ s[Len(c) + 1] = Do("persist")
    <3> DEFINE m == <<Do("persist"), Do("publish")>>
    <3>1. m \in Seq(GoodBlock) /\ Len(m) = 2 /\ m[1] = Do("persist")
      BY <2>4
    <3> HIDE DEF m
    <3>2. s = (c \o m) \o r
      BY DEF m
    <3> HIDE DEF s
    <3> DEFINE cm == c \o m
    <3>3. cm \in Seq(GoodBlock) /\ Len(cm) = Len(c) + 2 /\ cm[Len(c) + 1] = m[1]
      <4>1. /\ cm \in Seq(GoodBlock) /\ Len(cm) = Len(c) + Len(m)
            /\ \A i \in 1 .. Len(c) + Len(m) :
                 cm[i] = IF i <= Len(c) THEN c[i] ELSE m[i - Len(c)]
        BY <2>2, <3>1, ConcatProperties
      <4>2. Len(c) \in Nat
        BY <2>2, LenProperties
      <4>3. /\ Len(c) + 1 \in 1 .. Len(c) + 2 /\ ~(Len(c) + 1 <= Len(c))
            /\ (Len(c) + 1) - Len(c) = 1
        BY <4>2
      <4> HIDE DEF cm
      <4> QED
        BY <3>1, <4>1, <4>3
    <3>4. Len(c) + 1 \in 1 .. Len(cm)
      BY <2>2, <3>3
    <3> HIDE DEF cm
    <3>5. Len(c) + 1 \in DOMAIN (cm \o r) /\ (cm \o r)[Len(c) + 1] = cm[Len(c) + 1]
      BY <2>2, <3>3, <3>4, InFirst
    <3> QED
      BY <3>1, <3>2, <3>3, <3>5 DEF cm
  <2>6. PersistAhead(t)'
    BY <2>3, <2>5 DEF PersistAhead, Do
  <2> QED
    BY <2>6 DEF HaltIsOnItsWay
<1> QED
  BY <1>2, <1>3

\* A handler that the bus cuts off before its write is on record in lost; one
\* that had no write ahead takes none with it.
LEMMA WayCutOff ==
  ASSUME IInv, HaltIsOnItsWay, NEW t \in Tasks, Publish(t), ~busUp
  PROVE  HaltIsOnItsWay'
<1>1. /\ todo \in [Tasks -> Seq(GoodBlock)] /\ UNCHANGED <<sysState, store>>
      /\ Goto(t, <<>>) /\ lost' = lost \cup OwedBy(Tail(todo[t]))
      /\ todo[t] # <<>> /\ Head(todo[t]).op # "persist"
  BY DEF Publish, At, ctl, IInv, Memory
<1>2. CASE "persist" \in lost'
  BY <1>2 DEF HaltIsOnItsWay
<1>3. CASE "persist" \notin lost'
  <2>1. "persist" \notin OwedBy(Tail(todo[t]))
    BY <1>1, <1>3
  <2>2. ~PersistAhead(t)
    <3> DEFINE s == todo[t]
    <3>1. s \in Seq(GoodBlock) /\ s # <<>> /\ Head(s).op # "persist"
      BY <1>1
    <3>2. \A j \in DOMAIN Tail(s) : Tail(s)[j].op # "persist"
      BY <2>1 DEF OwedBy, Owed
    <3>3. SUFFICES ASSUME NEW i \in DOMAIN s, s[i].op = "persist" PROVE FALSE
      BY DEF PersistAhead
    <3> HIDE DEF s
    <3>4. i # 1 /\ i \in 1 .. Len(s)
      BY <3>1, <3>3
    <3>5. i - 1 \in DOMAIN Tail(s) /\ Tail(s)[i - 1] = s[i]
      BY <3>1, <3>4
    <3> QED
      BY <3>2, <3>3, <3>5
  <2>3. ASSUME NEW u \in Tasks, PersistAhead(u) PROVE PersistAhead(u)'
    <3>1. u # t
      BY <2>2, <2>3
    <3>2. todo'[u] = todo[u]
      BY <1>1, <3>1 DEF Goto
    <3> QED
      BY <2>3, <3>2 DEF PersistAhead
  <2>4. lost \subseteq lost'
    BY <1>1
  <2> QED
    BY <1>1, <2>3, <2>4, WayKept
<1> QED
  BY <1>2, <1>3

\* The other blocks of a task.
LEMMA WayRun ==
  ASSUME IInv, HaltIsOnItsWay, NEW t \in Tasks, Run(t)
  PROVE  HaltIsOnItsWay'
<1>1. CASE Halt(t)
  BY <1>1, WayHalt
<1>2. CASE Pause(t)
  <2>1. CASE IgnoresPause
    <3>1. Goto(t, Tail(todo[t])) /\ UNCHANGED <<sysState, store, lost>>
      BY <1>2, <2>1, Zenon DEF Pause, ctl, bus
    <3>2. todo[t] # <<>> /\ Head(todo[t]).op # "persist"
      BY <1>2 DEF Pause, At
    <3> QED
      BY <3>1, <3>2, AheadTail, WayKept
  <2>2. CASE ~IgnoresPause
    BY <1>2, <2>2 DEF Pause, HaltIsOnItsWay
  <2> QED
    BY <2>1, <2>2
<1>3. CASE StartTimer(t)
  <2>1. Goto(t, Tail(todo[t])) /\ UNCHANGED <<sysState, store, lost>>
    BY <1>3, Zenon DEF StartTimer, ctl, bus
  <2>2. todo[t] # <<>> /\ Head(todo[t]).op # "persist"
    BY <1>3 DEF StartTimer, At
  <2> QED
    BY <2>1, <2>2, AheadTail, WayKept
<1>4. CASE Persist(t)
  BY <1>4, WayWritten DEF Persist, ctl
<1>5. CASE Publish(t)
  <2>1. CASE busUp
    <3>1. Goto(t, Tail(todo[t])) /\ UNCHANGED <<sysState, store>>
      BY <1>5, <2>1, Zenon DEF Publish, ctl
    <3>2. lost' = lost
      BY <1>5, <2>1 DEF Publish, IInv, Plain
    <3>3. todo[t] # <<>> /\ Head(todo[t]).op # "persist"
      BY <1>5 DEF Publish, At
    <3> QED
      BY <3>1, <3>2, <3>3, AheadTail, WayKept
  <2>2. CASE ~busUp
    BY <1>5, <2>2, WayCutOff
  <2> QED
    BY <2>1, <2>2
<1> QED
  BY <1>1, <1>2, <1>3, <1>4, <1>5 DEF Run

\* Handlers start on idle tasks.
LEMMA WayHandler ==
  ASSUME IInv, HaltIsOnItsWay, NEW t \in Tasks, Handler(t)
  PROVE  HaltIsOnItsWay'
<1>1. CASE HandleTradeClosed(t) \/ HandleDailyPnl(t) \/ OnKillSwitch(t)
           \/ (\E b \in RaftBreaches : OnRaftHalt(t, b))
           \/ OnSessionStart(t) \/ DataIntegrityCleared(t)
  <2>1. Idle(t) /\ UNCHANGED <<sysState, store, lost>> /\ \E blocks : Goto(t, blocks)
    BY <1>1, Zenon DEF HandleTradeClosed, HandleDailyPnl, OnKillSwitch, OnRaftHalt, OnSessionStart,
       DataIntegrityCleared, Ready, ctl, bus
  <2> QED
    BY <2>1, AheadIdle, WayKept
<1>2. ASSUME NEW a, EngageHold(t, a) PROVE HaltIsOnItsWay'
  BY <1>2, WayWritten DEF EngageHold
<1>3. CASE HandleReconciliation(t)
  BY <1>3, <1>2 DEF HandleReconciliation
<1>4. CASE \E a \in Alerts : HandlePsaAlert(t, a)
  <2>1. PICK a \in Alerts : HandlePsaAlert(t, a)
    BY <1>4
  <2>2. CASE a \in HoldAlerts
    BY <1>2, <2>1, <2>2 DEF HandlePsaAlert
  <2>3. CASE a \notin HoldAlerts
    <3>1. UNCHANGED <<sysState, store, lost, todo>>
      BY <2>1, <2>3, Zenon DEF HandlePsaAlert, vars, ctl, bus
    <3> QED
      BY <3>1, WayKept DEF PersistAhead
  <2> QED
    BY <2>2, <2>3
<1>5. CASE HandleResume(t)
  BY <1>5 DEF HandleResume, ClearHalt, HaltIsOnItsWay
<1> QED
  BY <1>1, <1>3, <1>4, <1>5 DEF Handler

\* The store's thread executes the oldest call.
LEMMA WayCommit ==
  ASSUME IInv, HaltIsOnItsWay, Commit
  PROVE  HaltIsOnItsWay'
<1>1. writes \in Seq(Write) /\ writes # <<>> /\ writes' = Tail(writes) /\ disk' = Head(writes).row
  BY DEF Commit, IInv, Memory
<1>2. UNCHANGED <<sysState, todo, lost>>
  BY Zenon DEF Commit, ctl, bus
<1>3. Newest' = Newest
  <2>1. CASE Len(writes) = 1
    <3>1. writes' = <<>> /\ Head(writes) = writes[Len(writes)]
      BY <1>1, <2>1
    <3> QED
      BY <1>1, <3>1 DEF Newest
  <2>2. CASE Len(writes) # 1
    <3>1. Len(writes) \in Nat /\ Len(writes) > 1
      <4>1. Len(writes) \in Nat /\ Len(writes) # 0
        BY <1>1, EmptySeq, LenProperties
      <4> QED
        BY <2>2, <4>1
    <3>2. /\ writes' \in Seq(Write) /\ Len(writes') = Len(writes) - 1
          /\ \A k \in 1 .. Len(writes) - 1 : writes'[k] = writes[k + 1]
      BY <1>1, <3>1
    <3>3. /\ Len(writes) - 1 \in 1 .. Len(writes) - 1
          /\ (Len(writes) - 1) + 1 = Len(writes)
      BY <3>1
    <3>4. writes'[Len(writes')] = writes[Len(writes)]
      BY <3>2, <3>3
    <3>5. writes' # <<>>
      BY <3>1, <3>2
    <3> QED
      BY <1>1, <3>4, <3>5 DEF Newest
  <2> QED
    BY <2>1, <2>2
<1> QED
  BY <1>2, <1>3 DEF HaltIsOnItsWay, PersistAhead

\* Every step keeps a halt on its way to the store.
LEMMA WayStep ==
  ASSUME IInv, HaltIsOnItsWay, [Next]_vars
  PROVE  HaltIsOnItsWay'
<1>1. ASSUME NEW t \in Tasks, FsmAutoResume(t) PROVE HaltIsOnItsWay'
  <2>1. Idle(t) /\ UNCHANGED <<sysState, store, lost>> /\ ((\E blocks : Goto(t, blocks)) \/ UNCHANGED todo)
    BY <1>1, Zenon DEF FsmAutoResume, Ready, ctl, bus
  <2> QED
    BY <2>1, AheadIdle, WayKept DEF PersistAhead
<1>2. ASSUME NEW t \in Tasks, AutoResume(t) PROVE HaltIsOnItsWay'
  <2>1. CASE TimerResumes
    BY <1>2, <2>1 DEF AutoResume, HaltIsOnItsWay
  <2>2. CASE ~TimerResumes
    <3>1. UNCHANGED <<sysState, store, lost, todo>>
      BY <1>2, <2>2, Zenon DEF AutoResume, store, ctl, bus
    <3> QED
      BY <3>1, WayKept DEF PersistAhead
  <2> QED
    BY <2>1, <2>2
<1>3. ASSUME NEW t \in Tasks, WatchdogCheck(t) \/ Boot(t) PROVE HaltIsOnItsWay'
  <2>1. /\ UNCHANGED <<sysState, store, lost>>
        /\ UNCHANGED todo \/ (Idle(t) /\ \E blocks : Goto(t, blocks))
    BY <1>3, Zenon DEF WatchdogCheck, Boot, Ready, ctl, bus
  <2> QED
    BY <2>1, AheadIdle, WayKept DEF PersistAhead
<1>4. CASE Tick \/ BusDown \/ BusRestored \/ UNCHANGED vars
  <2>1. UNCHANGED <<sysState, store, lost, todo>>
    BY <1>4, Zenon DEF Tick, BusDown, BusRestored, vars, ctl, bus
  <2> QED
    BY <2>1, WayKept DEF PersistAhead
<1>5. CASE Restart
  BY <1>5 DEF Restart, HaltIsOnItsWay, Newest
<1> QED
  BY <1>1, <1>2, <1>3, <1>4, <1>5, WayRun, WayHandler, WayCommit DEF Next

\* Once the handlers are done a halt is on disk and a restart keeps it: in
\* whatever order halts, resumes, pauses and timers wrote the row, the newest
\* write speaks of the state there is, unless the bus cut a handler off.
THEOREM HaltsReachTheStore == Spec => []HaltIsDurable
<1>1. Init => HaltIsOnItsWay
  BY DEF Init, HaltIsOnItsWay
<1>2. IInv /\ HaltIsOnItsWay /\ [Next]_vars => HaltIsOnItsWay'
  BY WayStep
<1>3. IInv /\ HaltIsOnItsWay => HaltIsDurable
  BY DEF HaltIsOnItsWay, HaltIsDurable, Quiet, Idle, PersistAhead, Newest
<1> QED
  BY <1>1, <1>2, <1>3, Invariance, PTL DEF Spec

=============================================================================
