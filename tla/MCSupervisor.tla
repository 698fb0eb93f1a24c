---------------------------- MODULE MCSupervisor ----------------------------
(* Model-checking instance of Supervisor. *)
EXTENDS Supervisor, TLC

Symmetry == Permutations(Tasks)

=============================================================================
