------------------------- MODULE MCReconciliation -------------------------
(* Reconciliation on a small instance: symbols and pumps are model values. *)
EXTENDS Reconciliation
=============================================================================
