-------------------------- MODULE MCChangeControl ---------------------------
(* Change control with a modification and a retirement of one setup.         *)
EXTENDS ChangeControl

MCKind == [p \in Proposals |-> IF p = "p1" THEN "modify" ELSE "retire"]
MCSetupOf == [p \in Proposals |-> "s"]
=============================================================================
