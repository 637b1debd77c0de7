-------------------------- MODULE MCCircuitBreaker --------------------------
(* Finite instance of CircuitBreaker.  A breaker never stops, but its epochs *)
(* are bounded here: at the bound the behaviour may end.                     *)
EXTENDS CircuitBreaker

AtBound == epoch = MaxEpoch /\ UNCHANGED vars

MCSpec == Init /\ [][Next \/ AtBound]_vars

MCFairSpec == MCSpec /\ Fairness
=============================================================================
