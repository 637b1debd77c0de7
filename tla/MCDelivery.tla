----------------------------- MODULE MCDelivery -----------------------------
(***************************************************************************)
(* Instances for TLC of the delivery core, and of the duplicate filter it  *)
(* rests on: Delivery takes a decision of the filter for one step,         *)
(* DupeFilter has the threads, the lifecycle and the other protocol of one *)
(* filter.  "which" says whose behaviours are explored.                    *)
(***************************************************************************)
EXTENDS Delivery, Sequences, TLC

CONSTANTS
  Callers, Requests, Fingerprint, Nobody, Owners, Limits, ShadowLimit, MaxEpoch, MaxDecisions

\* The limits of the filter's tables: both are positive numbers in the code.
ASSUME LimitsAssumption == Limits \subseteq Nat /\ ShadowLimit \in Nat \ {0}
ASSUME NobodyAssumption == Nobody \notin Callers

VARIABLES
  which,
  phase, epoch, prior, opener, clearer, closeRequested, owner, releaser, released,
  marked, removes, limit, volatile, allowances, slots, receipts, retired, reserved,
  call, owed, leaked, reopened, decisions

dupefilterVars ==
  <<phase, epoch, prior, opener, clearer, closeRequested, owner, releaser, released,
    marked, removes, limit, volatile, allowances, slots, receipts, retired, reserved,
    call, owed, leaked, reopened, decisions>>

Filter == INSTANCE DupeFilter

\* The instance: all requests have one fingerprint, so calls of one Request meet,
\* and calls of two Requests for the same page.
OnePage == [r \in Requests |-> "fingerprint"]

MCInit == which \in {"delivery", "filter"} /\ Init /\ Filter!Init
          /\ (which = "delivery" => removes /\ limit = 1)

\* The filter's bounds are used up, or it is closed, and nobody waits.
FilterRests ==
  /\ which = "filter" /\ \A c \in Callers : call[c] = Filter!Idle
  /\ UNCHANGED <<vars, dupefilterVars>>

MCNext ==
  /\ which' = which
  /\ \/ which = "delivery" /\ Next /\ UNCHANGED dupefilterVars
     \/ which = "filter" /\ Filter!Next /\ UNCHANGED vars
     \/ FilterRests

MCSpec == MCInit /\ [][MCNext]_<<which, vars, dupefilterVars>>

\* Neither the processes nor the URLs are told apart, and neither the threads
\* nor the Requests.
Symmetry ==
  Permutations(Workers) \cup Permutations(URLs)
  \cup Permutations(Callers) \cup Permutations(Requests)

\* Of one filter: a request that went nowhere can be sent again, the slots for
\* retry allowances are accounted for, and open, clear and close touch the
\* filter under no call (request_seen, forget, clear, release).
FilterSound == Filter!FilterSound
=============================================================================
