-------------------------- MODULE KillSwitchProofs --------------------------
(***************************************************************************)
(* Proofs about module KillSwitch for every number of flatten tasks and of *)
(* orders and both answers of the broker and of the audit database: what a *)
(* stop reports is true, and a restart is informed.                        *)
(***************************************************************************)
EXTENDS KillSwitch, TLAPS

\* Before the first trigger nothing is under way.
ArmedIsIdle ==
  ks = "armed" => request = "idle" /\ errors = {} /\ \A f \in Flattens : ~Started(f)

\* Only the end of a flatten leads out of "triggered".
StopHasFlatten ==
  ks \in {"flattened", "acknowledged", "restarting"} => \E f \in Flattens : Started(f)

\* A retry that empties the error list adds a task that has met no error; a task
\* that meets one puts it on the list.
ErrorOrClean ==
  (\E f \in Flattens : Started(f)) => errors # {} \/ \E f \in clean : Started(f)

\* The orders of the first moment were sent.
EarlyWasSent == \A x \in early : exposure[x] # "none"

\* What a clean task has passed stays reached, whatever the market does.
ReachedStaysReached ==
  ~missed => \A f \in clean : flatten[f] \in {"report", "done"} => \A x \in early : Reached(x)

\* An acknowledgement that still stands has seen every result.
AcknowledgedIsSeen == ks = "acknowledged" => ~unseen

\* The inductive invariant.
SwitchInv ==
  /\ SwitchTypeOK /\ ArmedIsIdle /\ StopHasFlatten /\ ErrorOrClean
  /\ EarlyWasSent /\ ReachedStaysReached /\ AcknowledgedIsSeen

-----------------------------------------------------------------------------
\* The state a process starts in: armed, with no task and no order.
LEMMA SwitchInitInv == SwitchInit => SwitchInv
<1> SUFFICES ASSUME SwitchInit PROVE SwitchInv
  OBVIOUS
<1>1. unseen \in BOOLEAN /\ missed \in BOOLEAN
  BY Zenon DEF SwitchInit
<1>2. flatten \in [Flattens -> FlattenStep] /\ \A f \in Flattens : ~Started(f)
  BY DEF SwitchInit, FlattenStep, Started
<1>3. exposure \in [Exposures -> ExposureState]
  BY DEF SwitchInit, ExposureState
<1>4. SwitchTypeOK
  BY <1>1, <1>2, <1>3 DEF SwitchInit, SwitchTypeOK, KillSwitchState
<1>5. ArmedIsIdle /\ StopHasFlatten /\ ErrorOrClean /\ AcknowledgedIsSeen
  BY <1>2 DEF SwitchInit, ArmedIsIdle, StopHasFlatten, ErrorOrClean, AcknowledgedIsSeen
<1>6. EarlyWasSent /\ ReachedStaysReached
  BY DEF SwitchInit, EarlyWasSent, ReachedStaysReached
<1> QED BY <1>4, <1>5, <1>6 DEF SwitchInv

\* A step that moves no task and no order: trigger and its publish, an audit that fails, an
\* acknowledgement, a restart.
LEMMA OperatorStep ==
  ASSUME SwitchInv, UNCHANGED <<errors, flatten, market, clean, missed>>,
         \/ Trigger
         \/ /\ request # "idle" /\ request' \in {"idle", "audit"} /\ UNCHANGED <<ks, unseen>>
         \/ Acknowledge
         \/ RestartRequest
  PROVE  SwitchInv'
<1>1. SwitchTypeOK'
  <2>1. ks' \in KillSwitchState /\ request' \in {"idle", "publish", "audit"}
    BY DEF SwitchInv, SwitchTypeOK, Trigger, Acknowledge, RestartRequest, KillSwitchState
  <2>2. unseen' \in BOOLEAN /\ missed' \in BOOLEAN
    BY Zenon DEF SwitchInv, SwitchTypeOK, Trigger, Acknowledge, RestartRequest, verdicts
  <2>3. /\ errors' \subseteq {"cancel", "close"} /\ flatten' \in [Flattens -> FlattenStep]
        /\ clean' \subseteq Flattens /\ exposure' \in [Exposures -> ExposureState]
        /\ early' \subseteq Exposures /\ slipped' \subseteq Exposures
    BY DEF SwitchInv, SwitchTypeOK, market
  <2> QED BY <2>1, <2>2, <2>3 DEF SwitchTypeOK
<1>2. ArmedIsIdle'
  BY DEF SwitchInv, ArmedIsIdle, Trigger, Accepted, Acknowledge, RestartRequest, control, Started
<1>3. StopHasFlatten'
  BY DEF SwitchInv, StopHasFlatten, Trigger, Accepted, Acknowledge, RestartRequest, control, Started
<1>4. ErrorOrClean'
  BY DEF SwitchInv, ErrorOrClean, Started
<1>5. EarlyWasSent' /\ ReachedStaysReached'
  BY DEF SwitchInv, EarlyWasSent, ReachedStaysReached, Reached, market
<1>6. AcknowledgedIsSeen'
  <2>1. CASE Acknowledge /\ ks = "flattened"
    BY <2>1 DEF Acknowledge, AcknowledgedIsSeen
  <2>2. CASE Acknowledge /\ ks # "flattened"
    BY <2>2 DEF Acknowledge, AcknowledgedIsSeen, SwitchInv
  <2>3. CASE Trigger
    BY <2>3 DEF Trigger, verdicts, AcknowledgedIsSeen, SwitchInv
  <2> QED BY <2>1, <2>2, <2>3 DEF SwitchInv, AcknowledgedIsSeen, RestartRequest
<1> QED BY <1>1, <1>2, <1>3, <1>4, <1>5, <1>6 DEF SwitchInv

\* A task that starts has met no error yet, so the error list may be emptied.
LEMMA LaunchStep ==
  ASSUME SwitchInv, ks # "armed", NEW g \in Flattens, Launch(g),
         request' \in {"idle", "publish", "audit"}, errors' \in {errors, {}},
         UNCHANGED <<ks, market, unseen, missed>>
  PROVE  SwitchInv'
<1>1. /\ flatten' \in [Flattens -> FlattenStep] /\ flatten'[g] = "cancel"
      /\ \A f \in Flattens : f # g => flatten'[f] = flatten[f]
      /\ clean' = clean \cup {g}
  BY DEF Launch, SwitchInv, SwitchTypeOK, FlattenStep
<1>2. SwitchTypeOK'
  <2>1. /\ ks' \in KillSwitchState /\ exposure' \in [Exposures -> ExposureState]
        /\ errors' \subseteq {"cancel", "close"} /\ clean' \subseteq Flattens
        /\ early' \subseteq Exposures /\ slipped' \subseteq Exposures
    BY <1>1 DEF SwitchInv, SwitchTypeOK, market
  <2>2. unseen' \in BOOLEAN /\ missed' \in BOOLEAN
    BY Zenon DEF SwitchInv, SwitchTypeOK
  <2> QED BY <1>1, <2>1, <2>2 DEF SwitchTypeOK
<1>3. ArmedIsIdle' /\ StopHasFlatten' /\ ErrorOrClean'
  BY <1>1 DEF ArmedIsIdle, StopHasFlatten, ErrorOrClean, Started
<1>4. EarlyWasSent' /\ AcknowledgedIsSeen'
  BY DEF SwitchInv, EarlyWasSent, AcknowledgedIsSeen, market
<1>5. ReachedStaysReached'
  BY <1>1 DEF SwitchInv, SwitchTypeOK, ReachedStaysReached, Reached, market
<1> QED BY <1>2, <1>3, <1>4, <1>5 DEF SwitchInv

\* What the broker's two requests do to the orders: none is lost, none that was reached is
\* unreached, and behind a close every order that was sent is reached.
LEMMA BrokerRequests ==
  ASSUME SwitchInv, exposure' \in {exposure, AllCancelled, AllClosed}, UNCHANGED slipped
  PROVE  /\ exposure' \in [Exposures -> ExposureState]
         /\ \A x \in Exposures : exposure[x] # "none" => exposure'[x] # "none"
         /\ \A x \in Exposures : Reached(x) => Reached(x)'
         /\ exposure' = AllClosed =>
              \A x \in Exposures : exposure[x] # "none" => Reached(x)'
<1>1. exposure \in [Exposures -> ExposureState]
  BY DEF SwitchInv, SwitchTypeOK
<1> QED BY <1>1 DEF AllCancelled, AllClosed, ExposureState, Reached

\* A started flatten goes on from one step to the next; if it fails, its error is on
\* record in the same step.
LEMMA TaskStep ==
  ASSUME SwitchInv, NEW g \in Flattens, FlattenTask(g)
  PROVE  SwitchInv'
<1> DEFINE next == IF flatten[g] = "cancel" THEN "close"
                   ELSE IF flatten[g] = "close" THEN "report" ELSE "done"
<1>1. flatten' = [flatten EXCEPT ![g] = next] /\ Started(g) /\ UNCHANGED <<request, early, slipped>>
  BY DEF FlattenTask, CancelOrders, ClosePositions, ReportFlatten, Started, market
<1>2. next \in FlattenStep /\ next # "none"
  BY DEF FlattenStep
<1>3. /\ flatten' \in [Flattens -> FlattenStep] /\ flatten'[g] = next
      /\ \A f \in Flattens : f # g => flatten'[f] = flatten[f]
  BY <1>1, <1>2 DEF SwitchInv, SwitchTypeOK
<1>4. \A f \in Flattens : Started(f)' <=> Started(f)
  BY <1>1, <1>2, <1>3 DEF Started
<1>5. \/ UNCHANGED <<errors, clean>>
      \/ errors' # {} /\ errors' \subseteq {"cancel", "close"} /\ clean' = clean \ {g}
  BY DEF FlattenTask, CancelOrders, ClosePositions, CloseError, ReportFlatten, SwitchInv, SwitchTypeOK
<1>6. /\ ks # "armed" /\ (UNCHANGED <<ks, unseen>> \/ (ks' = "flattened" /\ unseen' = TRUE))
  <2>1. ks # "armed"
    BY <1>1 DEF SwitchInv, ArmedIsIdle
  <2>2. UNCHANGED <<ks, unseen>> \/ (ks' = "flattened" /\ unseen' = TRUE)
    BY DEF FlattenTask, CancelOrders, ClosePositions, ReportFlatten, ReportedState
  <2> QED BY <2>1, <2>2
<1>7. /\ missed => missed'
      /\ exposure' \in {exposure, AllCancelled, AllClosed}
      /\ flatten[g] = "close" /\ ~missed' => g \notin clean' \/ exposure' = AllClosed
  BY DEF FlattenTask, CancelOrders, ClosePositions, CloseError, ReportFlatten, market
<1>8. /\ exposure' \in [Exposures -> ExposureState]
      /\ \A x \in Exposures : exposure[x] # "none" => exposure'[x] # "none"
      /\ \A x \in Exposures : Reached(x) => Reached(x)'
      /\ exposure' = AllClosed => \A x \in Exposures : exposure[x] # "none" => Reached(x)'
  BY <1>1, <1>7, BrokerRequests
<1>9. SwitchTypeOK'
  <2>1. ks' \in KillSwitchState /\ errors' \subseteq {"cancel", "close"} /\ clean' \subseteq Flattens
    BY <1>5, <1>6 DEF SwitchInv, SwitchTypeOK, KillSwitchState
  <2>2. missed' \in BOOLEAN
    BY Zenon DEF FlattenTask, CancelOrders, ClosePositions, CloseError, ReportFlatten, SwitchInv, SwitchTypeOK
  <2>3. unseen' \in BOOLEAN
    BY <1>6, Zenon DEF SwitchInv, SwitchTypeOK
  <2>4. /\ request' \in {"idle", "publish", "audit"}
        /\ early' \subseteq Exposures /\ slipped' \subseteq Exposures
    BY <1>1 DEF SwitchInv, SwitchTypeOK
  <2> QED BY <1>3, <1>8, <2>1, <2>2, <2>3, <2>4 DEF SwitchTypeOK
<1>10. ArmedIsIdle' /\ StopHasFlatten'
  BY <1>1, <1>4, <1>6 DEF ArmedIsIdle, StopHasFlatten
<1>11. ErrorOrClean'
  BY <1>4, <1>5 DEF SwitchInv, SwitchTypeOK, ErrorOrClean
<1>12. EarlyWasSent'
  BY <1>1, <1>8 DEF SwitchInv, SwitchTypeOK, EarlyWasSent
<1>13. ReachedStaysReached'
  <2> SUFFICES ASSUME ~missed', NEW f \in clean', flatten'[f] \in {"report", "done"}, NEW x \in early'
               PROVE  Reached(x)'
    BY DEF ReachedStaysReached
  <2>1. f \in clean /\ f \in Flattens /\ x \in early /\ x \in Exposures /\ ~missed
    BY <1>1, <1>5, <1>7 DEF SwitchInv, SwitchTypeOK
  <2>2. CASE flatten[f] \in {"report", "done"}
    BY <1>8, <2>1, <2>2 DEF SwitchInv, ReachedStaysReached
  <2>3. CASE flatten[f] \notin {"report", "done"}
    <3>1. f = g
      BY <1>3, <2>1, <2>3
    <3>2. flatten[g] = "close"
      BY <1>1, <1>3, <2>3, <3>1 DEF FlattenTask, CancelOrders, ClosePositions, ReportFlatten
    <3>3. exposure' = AllClosed
      BY <1>7, <3>1, <3>2
    <3>4. exposure[x] # "none"
      BY <2>1 DEF SwitchInv, EarlyWasSent
    <3> QED BY <1>8, <2>1, <3>3, <3>4
  <2> QED BY <2>2, <2>3
<1>14. AcknowledgedIsSeen'
  BY <1>6 DEF SwitchInv, AcknowledgedIsSeen
<1> QED BY <1>9, <1>10, <1>11, <1>12, <1>13, <1>14 DEF SwitchInv

\* The market unreaches nothing, and adds to the orders of the first moment only while no
\* task exists.
LEMMA MarketStep ==
  ASSUME SwitchInv, NEW x \in Exposures, Market(x)
  PROVE  SwitchInv'
<1>1. UNCHANGED <<ks, request, errors, flatten, clean, unseen, missed>>
  BY DEF Market, SendOrder, OrderFills, ExposureEnds, ExposureSlips, control, verdicts
<1>2. PICK to \in ExposureState \ {"none"} : exposure' = [exposure EXCEPT ![x] = to]
  BY DEF Market, SendOrder, OrderFills, ExposureEnds, ExposureSlips, Moves, ExposureState
<1>3. exposure \in [Exposures -> ExposureState]
  BY DEF SwitchInv, SwitchTypeOK
<1>4. /\ exposure' \in [Exposures -> ExposureState] /\ exposure'[x] # "none"
      /\ \A y \in Exposures : y # x => exposure'[y] = exposure[y]
  BY <1>2, <1>3
<1>5. /\ early' = early \/ (early' = early \cup {x} /\ ks = "armed")
      /\ slipped' \in {slipped, slipped \cup {x}}
  BY DEF Market, SendOrder, OrderFills, ExposureEnds, ExposureSlips
<1>6. \A y \in Exposures : Reached(y) => Reached(y)'
  <2>1. Reached(x) => Reached(x)'
    BY <1>3, <1>4 DEF Market, SendOrder, OrderFills, ExposureEnds, ExposureSlips, Moves, Reached
  <2> QED BY <1>4, <1>5, <2>1 DEF Reached
<1>7. SwitchTypeOK'
  <2>1. /\ ks' \in KillSwitchState /\ request' \in {"idle", "publish", "audit"}
        /\ errors' \subseteq {"cancel", "close"} /\ flatten' \in [Flattens -> FlattenStep]
        /\ clean' \subseteq Flattens /\ early' \subseteq Exposures /\ slipped' \subseteq Exposures
    BY <1>1, <1>5 DEF SwitchInv, SwitchTypeOK
  <2>2. unseen' \in BOOLEAN /\ missed' \in BOOLEAN
    BY <1>1, Zenon DEF SwitchInv, SwitchTypeOK
  <2> QED BY <1>4, <2>1, <2>2 DEF SwitchTypeOK
<1>8. ArmedIsIdle' /\ StopHasFlatten' /\ ErrorOrClean' /\ AcknowledgedIsSeen'
  BY <1>1 DEF SwitchInv, ArmedIsIdle, StopHasFlatten, ErrorOrClean, AcknowledgedIsSeen, Started
<1>9. EarlyWasSent'
  BY <1>4, <1>5 DEF SwitchInv, SwitchTypeOK, EarlyWasSent
<1>10. ReachedStaysReached'
  <2>1. CASE ks = "armed"
    <3>1. \A f \in clean' : flatten'[f] = "none"
      BY <1>1, <2>1 DEF SwitchInv, SwitchTypeOK, ArmedIsIdle, Started
    <3> QED BY <3>1 DEF ReachedStaysReached
  <2>2. CASE early' = early
    BY <1>1, <1>6, <2>2 DEF SwitchInv, SwitchTypeOK, ReachedStaysReached
  <2> QED BY <1>5, <2>1, <2>2
<1> QED BY <1>7, <1>8, <1>9, <1>10 DEF SwitchInv

\* Every step of the API, of its tasks, of the agents and of the market keeps the invariant.
LEMMA SwitchNextInv == SwitchInv /\ [SwitchNext]_switchVars => SwitchInv'
<1> SUFFICES ASSUME SwitchInv, [SwitchNext]_switchVars PROVE SwitchInv'
  OBVIOUS
<1>1. CASE Trigger \/ PublishTrigger \/ Acknowledge \/ RestartRequest
  BY <1>1, OperatorStep DEF Trigger, PublishTrigger, Acknowledge, RestartRequest, verdicts
<1>2. CASE AuditTrigger
  <2>0. ks # "armed"
    BY <1>2 DEF AuditTrigger, SwitchInv, ArmedIsIdle
  <2>1. CASE \E f \in Flattens : Launch(f) /\ UNCHANGED <<unseen, missed>>
    BY <1>2, <2>0, <2>1, LaunchStep DEF AuditTrigger
  <2>2. CASE UNCHANGED <<flatten, verdicts>>
    BY <1>2, <2>2, OperatorStep DEF AuditTrigger, verdicts
  <2> QED BY <1>2, <2>1, <2>2 DEF AuditTrigger
<1>3. CASE \E f \in Flattens : FlattenTask(f)
  BY <1>3, TaskStep
<1>4. CASE RetryFlatten
  <2>1. request' \in {"idle", "publish", "audit"}
    BY <1>4 DEF RetryFlatten, SwitchInv, SwitchTypeOK
  <2> QED BY <1>4, <2>1, LaunchStep DEF RetryFlatten
<1>5. CASE \E x \in Exposures : Market(x)
  BY <1>5, MarketStep
<1>6. CASE UNCHANGED switchVars
  BY <1>6 DEF switchVars, control, market, verdicts, SwitchInv, SwitchTypeOK, ArmedIsIdle,
              StopHasFlatten, ErrorOrClean, EarlyWasSent, ReachedStaysReached, Reached,
              AcknowledgedIsSeen, Started
<1> QED BY <1>1, <1>2, <1>3, <1>4, <1>5, <1>6 DEF SwitchNext

\* The inductive invariant holds throughout.
LEMMA SwitchInvariance == SwitchSpec => []SwitchInv
BY SwitchInitInv, SwitchNextInv, PTL DEF SwitchSpec

-----------------------------------------------------------------------------
\* What a stop reports is true, for any number of overlapping retries and of orders: without
\* errors some flatten ran clean, and every order the broker held at the trigger is ended or was
\* accepted to be ended (trigger, retry_flatten and _execute_flatten).
THEOREM StopTells == SwitchSpec => []StopIsTrue
<1>1. SwitchInv => StopIsTrue
  <2> SUFFICES ASSUME SwitchInv PROVE StopIsTrue
    OBVIOUS
  <2>1. ASSUME Settled, ks \in {"flattened", "acknowledged", "restarting"}, errors = {}
        PROVE  \E f \in clean : flatten[f] = "done"
    <3>1. PICK f \in clean : Started(f)
      BY <2>1 DEF SwitchInv, StopHasFlatten, ErrorOrClean
    <3>2. f \in Flattens /\ flatten[f] \in FlattenStep
      BY DEF SwitchInv, SwitchTypeOK
    <3> QED BY <2>1, <3>1, <3>2 DEF Settled, Active, Started, FlattenStep
  <2>2. NoErrorsIsTrue
    BY <2>1 DEF NoErrorsIsTrue
  <2>3. StopReachesOrders
    BY <2>1 DEF StopReachesOrders, SwitchInv, ReachedStaysReached
  <2> QED BY <2>2, <2>3 DEF StopIsTrue, SwitchInv
<1> QED BY <1>1, SwitchInvariance, PTL

\* A restart is granted only on an acknowledgement that has seen every flatten result, also
\* when a late task reports between the two requests (restart_request).
THEOREM RestartInformed == SwitchSpec => RestartIsInformed
<1>1. SwitchInv /\ [SwitchNext]_switchVars
      => [ks # "restarting" /\ ks' = "restarting" => ~unseen]_switchVars
  <2> SUFFICES ASSUME SwitchInv, SwitchNext, ks # "restarting", ks' = "restarting" PROVE ~unseen
    OBVIOUS
  <2>1. RestartRequest
    BY DEF SwitchNext, Trigger, PublishTrigger, AuditTrigger, FlattenTask, CancelOrders,
           ClosePositions, ReportFlatten, ReportedState, RetryFlatten, Acknowledge, Market,
           SendOrder, OrderFills, ExposureEnds, ExposureSlips, control
  <2> QED BY <2>1 DEF RestartRequest, SwitchInv, AcknowledgedIsSeen
<1> QED BY <1>1, SwitchInvariance, PTL DEF SwitchSpec, RestartIsInformed

=============================================================================
