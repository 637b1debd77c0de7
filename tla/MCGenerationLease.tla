------------------------- MODULE MCGenerationLease -------------------------
(* Finite instance of GenerationLease. *)
EXTENDS GenerationLease
=============================================================================
