----------------------------- MODULE KillSwitch -----------------------------
(***************************************************************************)
(* The kill switch API (infrastructure/kill_switch.py) with the broker it  *)
(* drives directly (brokers/alpaca.py).                                    *)
(*                                                                         *)
(* Requests are coroutines of one event loop.  The asyncio lock is never   *)
(* held across an await, so its sections are single steps.  A flatten is a *)
(* background task: cancel all orders, close all positions, report.        *)
(* retry-flatten starts further ones, which run side by side.  MFA tokens  *)
(* that fail validation change nothing and are left out.                   *)
(*                                                                         *)
(* The switch does not stop the agents that send orders: they never read   *)
(* it.  Orders are sent and filled in every state of the switch, and what  *)
(* the broker accepts (a cancel, a close) it may still fail to carry out.  *)
(***************************************************************************)
EXTENDS Naturals, FiniteSets

CONSTANTS
  Flattens,      \* identities of flatten tasks; their number bounds the retries
  Exposures,     \* orders, each with the position it fills into
  AuditMayFail,  \* whether the audit database may refuse the trigger record
  Swallows       \* whether the broker answers a failed call like a served one

ASSUME SwitchAssumption == AuditMayFail \in BOOLEAN /\ Swallows \in BOOLEAN

VARIABLES
  ks,        \* _state
  request,   \* the trigger() coroutine: idle, publish, audit
  errors,    \* _flatten_errors: the calls that failed
  flatten,   \* the step every flatten task is at
  exposure,  \* broker: what has become of every order
  early,     \* history: orders the broker held when the switch was triggered
  slipped,   \* history: orders or positions whose accepted end did not come
  clean,     \* history: flatten tasks that met no exception so far
  unseen,    \* history: a flatten ended since the last acknowledgement
  missed     \* history: a failed close was answered like a served one

control    == <<ks, request, errors>>
market     == <<exposure, early, slipped>>
verdicts   == <<clean, unseen, missed>>
switchVars == <<control, flatten, market, verdicts>>

KillSwitchState == {"armed", "triggered", "flattened", "acknowledged", "restarting"}

FlattenStep == {"none", "cancel", "close", "report", "done"}

\* cancelling and closing: the broker has accepted to end the order, or has
\* an order of its own out that closes the position.
ExposureState == {"none", "working", "filled", "cancelling", "closing", "ended"}

Active(f)  == flatten[f] \in {"cancel", "close", "report"}
Started(f) == flatten[f] # "none"

\* create_task(_execute_flatten())
Launch(f) ==
  /\ ~Started(f)
  /\ flatten' = [flatten EXCEPT ![f] = "cancel"]
  /\ clean' = clean \cup {f}

-----------------------------------------------------------------------------
(* trigger *)

\* The idempotence check of trigger.
Accepted == ks = "armed"

\* trigger up to the publish; in any other state it only answers its status.
Trigger ==
  /\ request = "idle"
  /\ IF Accepted
     THEN ks' = "triggered" /\ request' = "publish"
     ELSE UNCHANGED <<ks, request>>
  /\ UNCHANGED <<errors, flatten, market, verdicts>>

\* publish_raw of KILL_SWITCH: served or not, the flatten goes on.
PublishTrigger ==
  /\ request = "publish"
  /\ request' = "audit"
  /\ UNCHANGED <<ks, errors, flatten, market, verdicts>>

\* audit.record, then the flatten is dispatched; an exception of the database
\* ends the coroutine before that.
AuditTrigger ==
  /\ request = "audit"
  /\ request' = "idle"
  /\ \/ (\E f \in Flattens : Launch(f)) /\ UNCHANGED <<unseen, missed>>
     \/ AuditMayFail /\ UNCHANGED <<flatten, verdicts>>
  /\ UNCHANGED <<ks, errors, market>>

-----------------------------------------------------------------------------
(* _execute_flatten *)

\* cancel_orders at the broker: every working order is to be cancelled.
AllCancelled == [x \in Exposures |-> IF exposure[x] = "working" THEN "cancelling" ELSE exposure[x]]

\* Mutant: the positions are closed and the orders left as they are.
AllClosedOrdersKept ==
  [x \in Exposures |-> IF exposure[x] = "filled" THEN "closing" ELSE exposure[x]]

\* close_all_positions(cancel_orders=True) at the broker.
AllClosed == [x \in Exposures |-> IF exposure[x] = "filled" THEN "closing" ELSE AllCancelled[x]]

\* Mutant: an exception of cancel_all_orders is recorded and raised again.
CancelOrdersRaises(f) ==
  /\ flatten[f] = "cancel"
  /\ \/ flatten' = [flatten EXCEPT ![f] = "close"] /\ UNCHANGED <<errors, clean>>
     \/ /\ flatten' = [flatten EXCEPT ![f] = "done"]
        /\ errors' = errors \cup {"cancel"} /\ clean' = clean \ {f}
  /\ UNCHANGED <<ks, request, market, unseen, missed>>

\* cancel_all_orders within 3 s: done, a failure that is swallowed, or an
\* exception (a timeout included), behind which the request may have been served.
CancelOrders(f) ==
  /\ flatten[f] = "cancel"
  /\ flatten' = [flatten EXCEPT ![f] = "close"]
  /\ exposure' \in {exposure, AllCancelled}
  /\ \/ (exposure' = AllCancelled \/ Swallows) /\ UNCHANGED <<errors, clean>>
     \/ errors' = errors \cup {"cancel"} /\ clean' = clean \ {f}
  /\ UNCHANGED <<ks, request, early, slipped, unseen, missed>>

\* Mutant: an exception of close_all_positions is only logged.
CloseErrorLogged(f) == clean' = clean \ {f} /\ UNCHANGED errors

\* The exception (or timeout) of close_all_positions is put on record.
CloseError(f) == errors' = errors \cup {"close"} /\ clean' = clean \ {f}

\* close_all_positions within 7 s: accepted, an exception, or (Swallows) a
\* failure that the broker answers with an empty list.
ClosePositions(f) ==
  /\ flatten[f] = "close"
  /\ flatten' = [flatten EXCEPT ![f] = "report"]
  /\ \/ exposure' = AllClosed /\ UNCHANGED <<errors, clean, missed>>
     \/ exposure' \in {exposure, AllClosed} /\ CloseError(f) /\ UNCHANGED missed
     \/ Swallows /\ missed' = TRUE /\ UNCHANGED <<errors, clean, exposure>>
  /\ UNCHANGED <<ks, request, early, slipped, unseen>>

\* Mutant: the end of a flatten keeps a state the operator has set.
ReportedStateKept == IF ks = "triggered" THEN "flattened" ELSE ks

\* The state a flatten leaves, whatever it was.
ReportedState == "flattened"

\* The end of _execute_flatten.
ReportFlatten(f) ==
  /\ flatten[f] = "report"
  /\ flatten' = [flatten EXCEPT ![f] = "done"]
  /\ ks' = ReportedState
  /\ unseen' = TRUE
  /\ UNCHANGED <<request, errors, market, clean, missed>>

-----------------------------------------------------------------------------
(* Operator requests. *)

\* retry_flatten: the errors are forgotten and one more flatten starts.
RetryFlatten ==
  /\ ks \in {"flattened", "triggered"}
  /\ errors' = {}
  /\ \E f \in Flattens : Launch(f)
  /\ UNCHANGED <<ks, request, market, unseen, missed>>

\* acknowledge
Acknowledge ==
  /\ ks' = IF ks = "flattened" THEN "acknowledged" ELSE ks
  /\ unseen' = IF ks = "flattened" THEN FALSE ELSE unseen
  /\ UNCHANGED <<request, errors, flatten, market, clean, missed>>

\* restart_request: check and assignment are one step, the lock is free.
RestartRequest ==
  /\ ks = "acknowledged"
  /\ ks' = "restarting"
  /\ UNCHANGED <<request, errors, flatten, market, verdicts>>

-----------------------------------------------------------------------------
(* The agents and the market, in every state of the switch. *)

Moves(x, from, to) == exposure[x] \in from /\ exposure' = [exposure EXCEPT ![x] = to]

\* An agent's order reaches the broker.
SendOrder(x) ==
  /\ Moves(x, {"none"}, "working")
  /\ early' = IF ks = "armed" THEN early \cup {x} ELSE early
  /\ UNCHANGED <<control, flatten, slipped, verdicts>>

\* The market fills an order.
OrderFills(x) ==
  /\ Moves(x, {"working"}, "filled")
  /\ UNCHANGED <<control, flatten, early, slipped, verdicts>>

\* An order or a position comes to its end.
ExposureEnds(x) ==
  /\ Moves(x, {"working", "filled", "cancelling", "closing"}, "ended")
  /\ UNCHANGED <<control, flatten, early, slipped, verdicts>>

\* A fill outruns the cancel, or the closing order is rejected.
ExposureSlips(x) ==
  /\ Moves(x, {"cancelling", "closing"}, "filled")
  /\ slipped' = slipped \cup {x}
  /\ UNCHANGED <<control, flatten, early, verdicts>>

-----------------------------------------------------------------------------
SwitchInit ==
  /\ ks = "armed" /\ request = "idle" /\ errors = {}
  /\ flatten = [f \in Flattens |-> "none"]
  /\ exposure = [x \in Exposures |-> "none"] /\ early = {} /\ slipped = {}
  /\ clean = {} /\ unseen = FALSE /\ missed = FALSE

FlattenTask(f) == CancelOrders(f) \/ ClosePositions(f) \/ ReportFlatten(f)

Market(x) == SendOrder(x) \/ OrderFills(x) \/ ExposureEnds(x) \/ ExposureSlips(x)

SwitchNext ==
  \/ Trigger \/ PublishTrigger \/ AuditTrigger
  \/ \E f \in Flattens : FlattenTask(f)
  \/ RetryFlatten \/ Acknowledge \/ RestartRequest
  \/ \E x \in Exposures : Market(x)

SwitchSpec == SwitchInit /\ [][SwitchNext]_switchVars

-----------------------------------------------------------------------------
(* Properties. *)

\* The shape of the API's state: _state stays a KillSwitchState and every flatten
\* task is at one of its steps.
SwitchTypeOK ==
  /\ ks \in KillSwitchState /\ request \in {"idle", "publish", "audit"}
  /\ errors \subseteq {"cancel", "close"}
  /\ flatten \in [Flattens -> FlattenStep]
  /\ exposure \in [Exposures -> ExposureState]
  /\ early \subseteq Exposures /\ slipped \subseteq Exposures
  /\ clean \subseteq Flattens /\ unseen \in BOOLEAN /\ missed \in BOOLEAN

\* Every flatten that was started has ended and no trigger is under way.
Settled == request = "idle" /\ \A f \in Flattens : ~Active(f)

\* An error list that is empty once everything has ended is to be believed,
\* although retries empty it while older flattens are running.
NoErrorsIsTrue ==
  Settled /\ ks \in {"flattened", "acknowledged"} /\ errors = {}
    => \E f \in clean : flatten[f] = "done"

\* The order is ended or its end was accepted by the broker, which may have
\* failed to carry it out.
Reached(x) == exposure[x] \in {"cancelling", "closing", "ended"} \/ x \in slipped

\* A stop reaches what was there when it was triggered: once everything has
\* ended without errors, no order the broker held then is still working or has
\* become a position that nobody asked it to close, if the broker reported its
\* failures.  (Of orders sent later nothing is said: the agents do not read the
\* switch, and their order may come behind the last close.)
StopReachesOrders ==
  Settled /\ ks \in {"flattened", "acknowledged", "restarting"} /\ errors = {} /\ ~missed
    => \A x \in early : Reached(x)

\* The restart that an operator obtains rests on an acknowledgement of the
\* newest flatten result: a late flatten asks for a new one.
RestartIsInformed ==
  [][ks # "restarting" /\ ks' = "restarting" => ~unseen]_switchVars

\* A flatten that was dispatched comes to its report, whatever the broker
\* answers and however many retries run beside it.
FlattenReports == \A f \in Flattens : Active(f) ~> (flatten[f] = "done" /\ ks # "triggered")

\* What a stop reports is true, whatever retries overlap: an empty error list
\* means that some flatten met no error, and that the stop reached every order
\* it found (_execute_flatten, retry_flatten).  With the shape of the state, so
\* that the run checks that too.
StopIsTrue == SwitchTypeOK /\ StopReachesOrders /\ NoErrorsIsTrue

=============================================================================
