---------------------------- MODULE MCExecution ----------------------------
(* Execution on a small instance: symbols and pumps are model values.      *)
EXTENDS Execution

=============================================================================
