------------------------- MODULE MCSessionPipeline -------------------------
(* The session life cycle of the coordinator, for what its table says of a   *)
(* halt.                                                                     *)
EXTENDS SessionPipeline
=============================================================================
