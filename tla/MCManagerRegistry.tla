-------------------------- MODULE MCManagerRegistry --------------------------
(* Finite instance of ManagerRegistry: the first two calls are made by one *)
(* thread, the third by another.                                           *)
EXTENDS ManagerRegistry, TLC

CONSTANTS c1, c2, c3, t1, t2

MCThreadOf == (c1 :> t1) @@ (c2 :> t1) @@ (c3 :> t2)

\* The keys are only compared.
KeySymmetry == Permutations(Keys)

\* Bound: the second release that raises comes before any clear_registry().
FewRaises == raises <= 1 \/ epoch = 0
=============================================================================
