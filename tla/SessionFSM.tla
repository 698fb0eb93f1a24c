----------------------------- MODULE SessionFSM -----------------------------
(***************************************************************************)
(* The formal nine-state session machine of                                *)
(* infrastructure/session_state_machine.py with the permitted-transition   *)
(* table of core/enums.py.  It is the abstract specification that the      *)
(* Portfolio Supervisor (module Supervisor) implements: the supervisor may *)
(* move the session only along the table, and from a halted state back to  *)
(* active only with a human approver.                                      *)
(***************************************************************************)

VARIABLES
  state,    \* SessionStateMachine._state
  last      \* the newest entry of SessionStateMachine._history

fsmVars == <<state, last>>

\* HUMAN_APPROVAL_REQUIRED
Halted == {"halted_risk", "halted_anomaly", "halted_reconciliation"}

SessionState ==
  {"booting", "waiting_for_data_integrity", "waiting_for_regime", "active",
   "paused_cooldown", "shutdown"} \cup Halted

\* SESSION_STATE_TRANSITIONS
Permitted(s) ==
  CASE s = "booting"                    -> {"waiting_for_data_integrity"}
    [] s = "waiting_for_data_integrity" -> {"waiting_for_regime", "halted_anomaly"}
    [] s = "waiting_for_regime"         -> {"active", "halted_anomaly"}
    [] s = "active"                     -> {"paused_cooldown"} \cup Halted
    [] s = "paused_cooldown"            -> {"active", "halted_risk", "halted_anomaly"}
    [] s \in Halted                     -> {"active"}
    [] OTHER                            -> {}

\* One history entry; the approver's identity is abstracted to its presence.
Entry == [from : SessionState, to : SessionState, approved : BOOLEAN]

NoEntry == [from |-> "booting", to |-> "booting", approved |-> FALSE]

\* The conditions under which transition_to neither returns False (same
\* state) nor raises SessionTransitionError.
CanMove(from, to, approved) ==
  /\ to # from
  /\ to \in Permitted(from) \/ (to = "shutdown" /\ from # "shutdown")
  /\ from \in Halted /\ to = "active" => approved

\* transition_to(new_state, reason, approved_by)
Move(to, approved) ==
  /\ CanMove(state, to, approved)
  /\ state' = to
  /\ last'  = [from |-> state, to |-> to, approved |-> approved]

BootComplete         == Move("waiting_for_data_integrity", FALSE)
DataIntegrityCleared == Move("waiting_for_regime", FALSE)
RegimeReady          == Move("active", FALSE)
PauseCooldown        == Move("paused_cooldown", FALSE)
AutoResume           == state = "paused_cooldown" /\ Move("active", FALSE)
Halt                 == \E h \in Halted : Move(h, FALSE)
HumanResume          == Move("active", TRUE)
Shutdown             == Move("shutdown", FALSE)

\* A new process builds a new machine.
NewProcess == state' = "booting" /\ last' = NoEntry

Init == state = "booting" /\ last = NoEntry

Next ==
  \/ BootComplete \/ DataIntegrityCleared \/ RegimeReady
  \/ PauseCooldown \/ AutoResume \/ Halt \/ HumanResume \/ Shutdown
  \/ NewProcess

Spec == Init /\ [][Next]_fsmVars

=============================================================================
