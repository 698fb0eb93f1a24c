-------------------------- MODULE SessionPipeline ---------------------------
(***************************************************************************)
(* The session life cycle of the coordinator (pipeline/state_machine.py).  *)
(* The tick task reads the wall clock, which is a phase of the day; the    *)
(* commands come from other tasks.  A transition sets the state and then   *)
(* waits for the callbacks, and while the tick waits the commands and the  *)
(* clock go on.                                                            *)
(***************************************************************************)
EXTENDS Naturals, Sequences

CONSTANT MaxCommands   \* bound: commands

ASSUME PipelineAssumption == MaxCommands \in Nat

VARIABLES
  phase,     \* phase of the day, or of the weekend
  state,     \* _state
  inTick,    \* the tick waits for the callbacks of market opened
  stopped,   \* the tick loop has ended
  commands,  \* commands given
  halt       \* history: no halt since the last resume, one without a sign-off, or one
             \* over which a weekend has passed

pipelineVars == <<phase, state, inTick, stopped, commands, halt>>

Phases == {"night", "pre", "open", "closing", "post", "weekend"}

PipelineInit ==
  /\ phase \in Phases /\ state = "INITIALIZING"
  /\ inTick = FALSE /\ stopped = FALSE /\ commands = 0
  /\ halt = "none"

\* Closing is 16:00 to 16:05; a night ends in a weekday or in the weekend.
PhaseAfter(p) ==
  CASE p = "night" -> {"pre", "weekend"}
    [] p = "pre" -> {"open"}
    [] p = "open" -> {"closing"}
    [] p = "closing" -> {"post"}
    [] p = "post" -> {"night"}
    [] p = "weekend" -> {"night"}

ClockMoves(p) ==
  /\ p \in PhaseAfter(phase) /\ phase' = p
  /\ UNCHANGED <<state, inTick, stopped, commands, halt>>

\* Mutant: only a day that is trading is ended.
EndsAtCloseTrading == {"TRADING", "SESSION_OPEN"}

EndsAtClose == {"TRADING", "PAUSED", "SESSION_OPEN"}

\* Mutant: the day may also begin from a halt.
OpensFromHalted == {"PRE_SESSION", "INITIALIZING", "HALTED"}

OpensFrom == {"PRE_SESSION", "INITIALIZING"}

\* _tick up to its first transition, _transition to the state included.
TickTo(new) ==
  /\ ~inTick /\ ~stopped /\ state # "SHUTDOWN"
  /\ \/ /\ phase = "weekend" /\ state # "INITIALIZING" /\ new = "INITIALIZING"
     \/ /\ phase = "pre" /\ state = "INITIALIZING" /\ new = "PRE_SESSION"
     \/ /\ phase = "open" /\ state \in OpensFrom /\ new = "SESSION_OPEN"
     \/ /\ phase = "open" /\ state = "SESSION_OPEN" /\ new = "TRADING"
     \/ /\ phase = "post" /\ state \in EndsAtClose /\ new = "POST_SESSION"
  /\ state' = new
  /\ inTick' = (new = "SESSION_OPEN")
  /\ halt' = IF phase = "weekend" /\ halt = "unsigned" THEN "weekend" ELSE halt
  /\ UNCHANGED <<phase, stopped, commands>>

\* The callbacks of market opened are done: the same tick looks again.
TickGoesOn ==
  /\ inTick /\ inTick' = FALSE
  /\ state' = IF state = "SESSION_OPEN" THEN "TRADING" ELSE state
  /\ UNCHANGED <<phase, stopped, commands, halt>>

\* run ends when it finds SHUTDOWN; nothing starts it again.
LoopFindsShutdown ==
  /\ ~inTick /\ ~stopped /\ state = "SHUTDOWN"
  /\ stopped' = TRUE
  /\ UNCHANGED <<phase, state, inTick, commands, halt>>

\* halt, enter_post_session and shutdown act in any state; resume is the sign-off.
CommandTo(new) ==
  /\ commands < MaxCommands /\ commands' = commands + 1
  /\ \/ new \in {"HALTED", "POST_SESSION", "SHUTDOWN"}
     \/ new = "PAUSED" /\ state = "TRADING"
     \/ new = "TRADING" /\ state \in {"HALTED", "PAUSED"}
  /\ state' = new
  /\ halt' = IF new = "HALTED" THEN "unsigned" ELSE IF new = "TRADING" THEN "none" ELSE halt
  /\ UNCHANGED <<phase, inTick, stopped>>

PipelineStates == {"INITIALIZING", "PRE_SESSION", "SESSION_OPEN", "TRADING", "PAUSED", "HALTED",
                   "POST_SESSION", "SHUTDOWN"}

PipelineNext ==
  \/ \E p \in Phases : ClockMoves(p)
  \/ \E new \in PipelineStates : TickTo(new) \/ CommandTo(new)
  \/ TickGoesOn \/ LoopFindsShutdown

PipelineSpec == PipelineInit /\ [][PipelineNext]_pipelineVars

-----------------------------------------------------------------------------
(* Properties. *)

\* A halt is ended by its sign-off only, until a weekend comes: neither the clock of
\* a trading day, nor a tick that waited for its callbacks when the halt came, nor any
\* other command leads from it to a state of the open market or one that opens into
\* it.  Over a weekend the tick does end a halt (HaltNeedsSignOff).
HaltOutlivesTheDay == halt = "unsigned" => state \in {"HALTED", "POST_SESSION", "SHUTDOWN"}

\* What state_machine.py:7 says, weekends included: trading behind a halt needs a
\* sign-off.
HaltNeedsSignOff == state = "TRADING" => halt = "none"

\* When the day is over and nobody commands otherwise the machine does not
\* stay in a state of the open market; one that was shut down stays as it is.
DayIsEnded ==
  [](phase = "post" => <>(phase # "post" \/ stopped \/ state \notin {"TRADING", "PAUSED", "SESSION_OPEN"}))

\* The clock ends the day, and no halt of a trading week.
PipelineIsSound == []HaltOutlivesTheDay /\ DayIsEnded

=============================================================================
