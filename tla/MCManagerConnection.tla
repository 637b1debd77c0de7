------------------------- MODULE MCManagerConnection -------------------------
(* Finite instance of ManagerConnection. *)
EXTENDS ManagerConnection
=============================================================================
