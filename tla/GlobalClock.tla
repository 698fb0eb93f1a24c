---------------------------- MODULE GlobalClock -----------------------------
(***************************************************************************)
(* The global clock (agents/agent_17_global_clock.py).                     *)
(*                                                                         *)
(* A round of the clock's loop works with the time at which it began and   *)
(* waits for the bus between its steps; a slow bus makes rounds skip       *)
(* hours, one that raises ends the round or the firing of one timer, and   *)
(* timers and heartbeats come and go during a round.                       *)
(* Time counts quarters of a day: before the open, the opening minute,     *)
(* the trading day, and the evening.                                       *)
(***************************************************************************)
EXTENDS Naturals, Sequences, FiniteSets

CONSTANTS
  Timers,       \* timer names
  Repeat,       \* timer -> repeat_sec, 0 for a single shot
  Watched,      \* agents whose heartbeats are watched
  StallLimit,   \* stall_threshold_sec
  Weekend,      \* days on which the market is closed
  MaxQuarter,   \* bound: time
  MaxRegistered,\* bound: registrations of timers
  MaxRaised     \* bound: publishes that raise

ASSUME ClockAssumption ==
  /\ Repeat \in [Timers -> Nat]
  /\ {StallLimit, MaxQuarter, MaxRegistered, MaxRaised} \subseteq Nat

VARIABLES
  quarter,     \* utcnow
  round,       \* what the loop does now, and the time the last round began with
  openFired,   \* _session_open_fired
  closeFired,  \* _session_close_fired
  bells,       \* history: SESSION_STARTs and SESSION_ENDs published, [bell, day, heard]
  mornings,    \* history: days on which a round fell before the open
  timers,      \* _timers: name -> registration, expiry; 0 for none
  firing,      \* the timers of this round that are still to fire
  registrations, \* history: registrations so far
  shots,       \* history: registrations without repeat_sec
  fired,       \* history: registration -> times it was heard to expire
  doubtful,    \* history: registration -> times its publish raised although it was heard
  beats,       \* _last_heartbeat; 0 for no entry
  silent,      \* the agents of this round that are still to be alerted on
  busRaised    \* history: publishes that raised

clockLoop == <<round, openFired, closeFired, bells, mornings>>
timerVars == <<timers, firing, registrations, shots, fired, doubtful>>
beatVars == <<beats, silent>>
clockVars == <<quarter, clockLoop, timerVars, beatVars, busRaised>>

NoTimer == [id |-> 0, at |-> 0]
Part(t) == t % 4
DayOf(t) == t \div 4

ClockInit ==
  /\ quarter \in 0 .. 3
  /\ round = [step |-> "sleep", now |-> quarter]
  /\ openFired = FALSE /\ closeFired = FALSE
  /\ bells = <<>> /\ mornings = {}
  /\ timers = [n \in Timers |-> NoTimer] /\ firing = {}
  /\ registrations = 0 /\ shots = {}
  /\ fired = [i \in 1 .. MaxRegistered |-> 0] /\ doubtful = [i \in 1 .. MaxRegistered |-> 0]
  /\ beats = [a \in Watched |-> 0] /\ silent = {} /\ busRaised = 0

\* A publish returns, raises without being heard, or raises although it was heard.
BusResults == {"sent", "lost", "doubtful"}
BusAnswers(result) ==
  \/ result = "sent" /\ UNCHANGED busRaised
  \/ result # "sent" /\ busRaised < MaxRaised /\ busRaised' = busRaised + 1

TimePasses ==
  /\ quarter < MaxQuarter
  /\ quarter' = quarter + 1
  /\ UNCHANGED <<clockLoop, timerVars, beatVars, busRaised>>

-----------------------------------------------------------------------------
(* The loop of the clock. *)

FlagDown(t) == Part(t) = 0
Weekday(t) == DayOf(t) \notin Weekend

\* Mutant: the end needs no start.
EndDueAnyway(opened, closed) == ~closed

EndDue(opened, closed) == opened /\ ~closed

\* The CLOCK_TICK raises: the round does nothing else.
TickRaises ==
  /\ round.step = "sleep"
  /\ \E result \in BusResults \ {"sent"} : BusAnswers(result)
  /\ UNCHANGED <<quarter, clockLoop, timerVars, beatVars>>

\* _publish_tick and _check_session_boundaries.  The flag is set before the bell
\* is published; when the publish or its record raises, the round ends.
BeginRound(result) ==
  LET t == quarter
      opens == Part(t) = 1 /\ Weekday(t) /\ ~openFired
      opened == opens \/ (openFired /\ ~FlagDown(t))
      closedBefore == closeFired /\ ~opens
      ends == Part(t) = 3 /\ Weekday(t) /\ EndDue(opened, closedBefore)
      Rung(name) == Append(bells, [bell |-> name, day |-> DayOf(t), heard |-> result # "lost"])
  IN  /\ round.step = "sleep"
      /\ opens \/ ends \/ result = "sent"
      /\ BusAnswers(result)
      /\ round' = [step |-> IF result = "sent" THEN "due" ELSE "sleep", now |-> t]
      /\ openFired' = opened
      /\ closeFired' = (closedBefore \/ ends)
      /\ bells' = IF opens THEN Rung("start") ELSE IF ends THEN Rung("end") ELSE bells
      /\ mornings' = IF FlagDown(t) THEN mornings \cup {DayOf(t)} ELSE mornings
      /\ UNCHANGED <<quarter, timerVars, beatVars>>

\* _fire_expired_timers: the timers that have expired by the time of the round.
CollectTimers ==
  /\ round.step = "due"
  /\ round' = [round EXCEPT !.step = "timers"]
  /\ firing' = {[name |-> n, id |-> timers[n].id, out |-> FALSE] :
                  n \in {m \in Timers : timers[m] # NoTimer /\ timers[m].at <= round.now}}
  /\ UNCHANGED <<quarter, openFired, closeFired, bells, mornings, timers, registrations, shots, fired,
                 doubtful, beatVars, busRaised>>

\* TIMER_EXPIRED for one of them is on its way.
FireTimer(f) ==
  /\ f \in firing /\ \A g \in firing : ~g.out
  /\ firing' = (firing \ {f}) \cup {[f EXCEPT !.out = TRUE]}
  /\ UNCHANGED <<quarter, clockLoop, timers, registrations, shots, fired, doubtful, beatVars, busRaised>>

\* Mutant: a single shot stays registered.
AfterShotKept(f) == timers

\* Behind the wait: a repeating timer object moves on, be it registered still
\* or not; a single shot is deleted by name, be it another by now.
AfterShot(f) ==
  IF Repeat[f.name] = 0 THEN [timers EXCEPT ![f.name] = NoTimer]
  ELSE IF timers[f.name].id = f.id THEN [timers EXCEPT ![f.name].at = @ + Repeat[f.name]]
       ELSE timers

\* When the publish raises, the timer stays as it is and fires in the next round
\* again.
FinishTimer(f, result) ==
  /\ f \in firing /\ f.out
  /\ BusAnswers(result)
  /\ fired' = IF result = "lost" THEN fired ELSE [fired EXCEPT ![f.id] = @ + 1]
  /\ doubtful' = IF result = "doubtful" THEN [doubtful EXCEPT ![f.id] = @ + 1] ELSE doubtful
  /\ timers' = IF result = "sent" THEN AfterShot(f) ELSE timers
  /\ firing' = firing \ {f}
  /\ UNCHANGED <<quarter, clockLoop, registrations, shots, beatVars>>

\* Mutant: only a gap of exactly the limit is a stall.
StalledExactly(a, now) == beats[a] # 0 /\ now = beats[a] + StallLimit

Stalled(a, now) == beats[a] # 0 /\ now > beats[a] + StallLimit

\* _check_stalled_agents looks at a copy of the table.
CheckStalled ==
  /\ round.step = "timers" /\ firing = {}
  /\ round' = [round EXCEPT !.step = "alerts"]
  /\ silent' = {a \in Watched : Stalled(a, round.now)}
  /\ UNCHANGED <<quarter, openFired, closeFired, bells, mornings, timerVars, beats, busRaised>>

\* The STARVATION_ALERT forgets the agent, be it heard of meanwhile; when its
\* publish raises, the round ends.
Alert(a, result) ==
  /\ a \in silent
  /\ BusAnswers(result)
  /\ beats' = IF result = "sent" THEN [beats EXCEPT ![a] = 0] ELSE beats
  /\ silent' = IF result = "sent" THEN silent \ {a} ELSE {}
  /\ round' = IF result = "sent" THEN round ELSE [round EXCEPT !.step = "sleep"]
  /\ UNCHANGED <<quarter, openFired, closeFired, bells, mornings, timerVars>>

EndRound ==
  /\ round.step = "alerts" /\ silent = {}
  /\ round' = [round EXCEPT !.step = "sleep"]
  /\ UNCHANGED <<quarter, openFired, closeFired, bells, mornings, timerVars, beatVars, busRaised>>

\* _on_heartbeat.
Heartbeat(a) ==
  /\ beats[a] # quarter
  /\ beats' = [beats EXCEPT ![a] = quarter]
  /\ UNCHANGED <<quarter, clockLoop, timerVars, silent, busRaised>>

RegisterTimer(n, at) ==
  /\ registrations < MaxRegistered
  /\ registrations' = registrations + 1
  /\ timers' = [timers EXCEPT ![n] = [id |-> registrations', at |-> at]]
  /\ shots' = IF Repeat[n] = 0 THEN shots \cup {registrations'} ELSE shots
  /\ UNCHANGED <<quarter, clockLoop, firing, fired, doubtful, beatVars, busRaised>>

CancelTimer(n) ==
  /\ timers[n] # NoTimer
  /\ timers' = [timers EXCEPT ![n] = NoTimer]
  /\ UNCHANGED <<quarter, clockLoop, firing, registrations, shots, fired, doubtful, beatVars, busRaised>>

\* The loop is never given up: an exception ends a round, not the loop.
RoundGoesOn ==
  \/ CollectTimers \/ CheckStalled \/ EndRound
  \/ \E f \in firing : FireTimer(f)
  \/ \E result \in BusResults :
       \/ BeginRound(result)
       \/ \E f \in firing : FinishTimer(f, result)
       \/ \E a \in silent : Alert(a, result)

ClockNext ==
  \/ TimePasses \/ TickRaises \/ RoundGoesOn
  \/ \E a \in Watched : Heartbeat(a)
  \/ \E n \in Timers : CancelTimer(n) \/ \E at \in quarter .. quarter + 1 : RegisterTimer(n, at)

ClockSpec == ClockInit /\ [][ClockNext]_clockVars

-----------------------------------------------------------------------------
(* Properties. *)

\* However many quarters the loop sleeps over, and whichever publish raises: a day
\* has at most one SESSION_START and behind it at most one SESSION_END, never on a
\* weekend; starts and ends alternate, but for starts whose end was slept over; the
\* start that an end ends is the same day's, unless the loop slept over the whole
\* morning of the day that ends; a round in the evening has ended the session that
\* started that day; and a bell that nobody heard is one whose publish raised.  It
\* is not rung again.
SessionBells ==
  /\ \A i, j \in 1 .. Len(bells) : i < j =>
       \/ bells[i].day < bells[j].day
       \/ bells[i].day = bells[j].day /\ bells[i].bell = "start" /\ bells[j].bell = "end"
  /\ \A i \in 1 .. Len(bells) : bells[i].bell = "end" =>
       /\ i > 1 /\ bells[i - 1].bell = "start"
       /\ bells[i - 1].day = bells[i].day \/ bells[i].day \notin mornings
  /\ \A i \in 1 .. Len(bells) :
       /\ bells[i].day \notin Weekend
       /\ bells[i].heard \/ busRaised > 0
  /\ Part(round.now) = 3 =>
       \A i \in 1 .. Len(bells) : bells[i].day = DayOf(round.now) =>
         \E j \in 1 .. Len(bells) : bells[j].day = DayOf(round.now) /\ bells[j].bell = "end"

\* A registration of a single-shot timer expires at most once, and once more for
\* each time its publish raised although it was heard; although it is deleted only
\* behind the wait for the bus and other registrations, and cancellations, of the
\* name come in between.
TimerFiresOnce == \A i \in shots : fired[i] <= 1 + doubtful[i]

\* An agent that falls silent is noticed: its entry leaves the table with an
\* alert, unless it is heard of again.
StallIsNoticed ==
  \A a \in Watched :
    (beats[a] # 0 /\ quarter > beats[a] + StallLimit) ~> (beats[a] = 0 \/ quarter <= beats[a] + StallLimit)

\* The promises of the clock in spite of slow rounds and a bus that raises: bells,
\* timers and the notice of stalled agents.
ClockIsSound == [](SessionBells /\ TimerFiresOnce) /\ StallIsNoticed

=============================================================================
