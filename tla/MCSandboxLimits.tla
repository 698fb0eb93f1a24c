-------------------------- MODULE MCSandboxLimits --------------------------
(* The strategy sandbox with books that cross the notional limit only.       *)
EXTENDS QuantSandbox

MCWatches == [s \in Strategies |-> Symbols]
=============================================================================
