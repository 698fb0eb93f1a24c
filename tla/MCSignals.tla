----------------------------- MODULE MCSignals ------------------------------
(* From the market to a trade plan: intake, validation and sizing, and the   *)
(* risk gate, each model on its own: focus says which one a behaviour is     *)
(* about, and the others stay as they are.                                   *)
EXTENDS MarketIntake, SignalPath, RiskGate

VARIABLE focus

signalVars == <<intakeVars, pathVars, riskVars, focus>>

\* Intake: two symbols alike, one with a catalyst ahead of them, and one that fails a
\* filter, where two fit under the cap; one regime that trades.
MCListings ==
  {[sym |-> "a", order |-> 1, fails |-> FALSE, catalyst |-> FALSE, volume |-> 1],
   [sym |-> "b", order |-> 2, fails |-> FALSE, catalyst |-> FALSE, volume |-> 1],
   [sym |-> "c", order |-> 3, fails |-> TRUE, catalyst |-> TRUE, volume |-> 2],
   [sym |-> "d", order |-> 4, fails |-> FALSE, catalyst |-> TRUE, volume |-> 1]}

MCSetupMap == [trend |-> {"brk"}, highvol |-> {}]

GoodTick == [fresh |-> TRUE, crossed |-> FALSE, book |-> TRUE, seq |-> 1]
MCTickStates == {GoodTick, [GoodTick EXCEPT !.seq = 3], [GoodTick EXCEPT !.fresh = FALSE]}

\* Validation: a signal nothing speaks against, one without history in a
\* no-trade regime, and one that contradicts the catalyst.
Sound == [bars |-> 3, up |-> TRUE, long |-> TRUE, surge |-> TRUE, wide |-> FALSE,
          catalyst |-> "none", setup |-> "brk", allowed |-> {"brk"}]
MCMarkets ==
  {Sound, [Sound EXCEPT !.bars = 2, !.allowed = {}],
   [Sound EXCEPT !.catalyst = "other", !.setup = "catalyst_mover", !.allowed = {"catalyst_mover"}]}

\* The risk gate: an account that is free to trade, and one rule against it at
\* a time.
MCSector == [s \in {"a", "b"} |-> "x"]
MCTheme == [s \in {"a", "b"} |-> s]
MCPnls == {-2, 1}
Free == [s |-> "a", open |-> {}, heavy |-> {}, known |-> {"a", "b"}, washed |-> {}, rich |-> TRUE]
MCSituations ==
  {Free, [Free EXCEPT !.rich = FALSE], [Free EXCEPT !.open = {"a", "b"}], [Free EXCEPT !.open = {"b"}],
   [Free EXCEPT !.heavy = {"a"}], [Free EXCEPT !.open = {"b"}, !.known = {}], [Free EXCEPT !.washed = {"a"}]}

Init ==
  /\ focus \in {"intake", "path", "risk"}
  /\ IntakeInit /\ PathInit /\ RiskInit

Next ==
  \/ focus = "intake" /\ IntakeNext /\ UNCHANGED <<pathVars, riskVars, focus>>
  \/ focus = "path" /\ PathNext /\ UNCHANGED <<intakeVars, riskVars, focus>>
  \/ focus = "risk" /\ RiskNext /\ UNCHANGED <<intakeVars, pathVars, focus>>

Spec == Init /\ [][Next]_signalVars
=============================================================================
