---------------------------- MODULE MCTradeLife -----------------------------
(* An order's fill and what follows it: the watched position, the quality of *)
(* the execution, the tax records, and the kill switch that ends it all,     *)
(* each model on its own: focus says which one a behaviour is about, and the *)
(* others stay as they are.  A behaviour about positions is either one about *)
(* the watch, in which nobody closes, or one about the exit, in which stops  *)
(* stay where the plan put them.                                             *)
EXTENDS Positions, ExecutionQuality, TaxRecords, KillSwitch

VARIABLE focus

positionRest == <<qualityVars, taxVars, switchVars, focus>>
switchRest == <<positionVars, qualityVars, taxVars, focus>>
lifeVars == <<positionVars, qualityVars, taxVars, switchVars, focus>>

MCTradedSymbol == [t \in Trades |-> "s"]

WatchOnly == exits' = exits /\ UNCHANGED <<working, closes, unfilled>>
ExitOnly == updates' = updates /\ tightened' = tightened

Init ==
  /\ focus \in {"watch", "exit", "quality", "tax", "switch"}
  /\ PositionInit /\ QualityInit /\ TaxInit /\ SwitchInit

Next ==
  \/ focus = "watch" /\ PositionNext /\ WatchOnly /\ UNCHANGED positionRest
  \/ focus = "exit" /\ PositionNext /\ ExitOnly /\ UNCHANGED positionRest
  \/ focus = "quality" /\ QualityNext /\ UNCHANGED <<positionVars, taxVars, switchVars, focus>>
  \/ focus = "tax" /\ TaxNext /\ UNCHANGED <<positionVars, qualityVars, switchVars, focus>>
  \/ focus = "switch" /\ SwitchNext /\ UNCHANGED switchRest

\* The monitoring task visits every watched position every 100 ms, and its
\* calls come back or raise.
Fairness ==
  \A p \in Pids :
    /\ WF_lifeVars(focus \in {"watch", "exit"} /\ BeginEvaluation(p) /\ UNCHANGED positionRest)
    /\ WF_lifeVars(focus \in {"watch", "exit"} /\ EvaluationDone(p) /\ UNCHANGED positionRest)

\* The event loop runs every flatten on; broker calls end by their timeout.
SwitchFairness ==
  \A f \in Flattens : WF_lifeVars(focus = "switch" /\ FlattenTask(f) /\ UNCHANGED switchRest)

Spec == Init /\ [][Next]_lifeVars /\ Fairness /\ SwitchFairness
=============================================================================
