---------------------------- MODULE MCOversight -----------------------------
(* What looks after the system and its data: change control, recording and   *)
(* replay, system health, the strategy sandbox, the tick warehouse and the   *)
(* consensus before a halt, each model on its own: focus says which one a    *)
(* behaviour is about, and the others stay as they are.                      *)
EXTENDS ChangeControl, ReplayLog, SystemHealth, QuantSandbox, TickWarehouse, RaftCluster

VARIABLE focus

oversightVars == <<changeVars, replayVars, healthVars, sandboxVars, warehouseVars, raftVars, focus>>

MCKind == [p \in Proposals |-> IF p = "p1" THEN "add" ELSE "retire"]
MCSetupOf == [p \in Proposals |-> "s"]
MCStamp == [e \in Events |-> IF e = 1 THEN 2 ELSE 1]
MCPnl == [e \in Events |-> IF e = 1 THEN -3 ELSE IF e = 2 THEN 2 ELSE 1]
MCMode == [q \in Requests |-> IF q = "q1" THEN "b_side" ELSE "baseline"]
MCWarning == [d \in Dims |-> CASE d = "memory" -> 15 [] d = "lag" -> 5 [] d = "bus" -> 10]
MCCritical == [d \in Dims |-> CASE d = "memory" -> 18 [] d = "lag" -> 20 [] d = "bus" -> 50]
MCReadings == [d \in Dims |-> CASE d = "memory" -> {0, 14, 15, 20} [] d = "lag" -> {0, 70} [] d = "bus" -> {0}]
MCWatches == [s \in Strategies |-> IF s = "first" THEN {"y1"} ELSE {"y1", "y2"}]

Init ==
  /\ focus \in {"change", "replay", "health", "sandbox", "warehouse", "raft"}
  /\ ChangeInit /\ ReplayInit /\ HealthInit /\ SandboxInit /\ WarehouseInit /\ RaftInit

OnlyChange == UNCHANGED <<replayVars, healthVars, sandboxVars, warehouseVars, raftVars, focus>>
OnlyReplay == UNCHANGED <<changeVars, healthVars, sandboxVars, warehouseVars, raftVars, focus>>
OnlyHealth == UNCHANGED <<changeVars, replayVars, sandboxVars, warehouseVars, raftVars, focus>>
OnlySandbox == UNCHANGED <<changeVars, replayVars, healthVars, warehouseVars, raftVars, focus>>
OnlyWarehouse == UNCHANGED <<changeVars, replayVars, healthVars, sandboxVars, raftVars, focus>>
OnlyRaft == UNCHANGED <<changeVars, replayVars, healthVars, sandboxVars, warehouseVars, focus>>

Next ==
  \/ focus = "change" /\ ChangeNext /\ OnlyChange
  \/ focus = "replay" /\ ReplayNext /\ OnlyReplay
  \/ focus = "health" /\ HealthNext /\ OnlyHealth
  \/ focus = "sandbox" /\ SandboxNext /\ OnlySandbox
  \/ focus = "warehouse" /\ WarehouseNext /\ OnlyWarehouse
  \/ focus = "raft" /\ RaftNext /\ OnlyRaft

\* The two halts that are proposed are alike.
Symmetry == Permutations(Halts)

Spec == Init /\ [][Next]_oversightVars
=============================================================================
