--------------------------- MODULE DelayStrategy ---------------------------
(***************************************************************************)
(* The delay strategy (queue/strategies/delay.py): delayed items in a heap *)
(* ordered by the time they are ready.  HeldItems has the pop loop.  The   *)
(* order of items that are ready together is left out.                     *)
(***************************************************************************)
EXTENDS HeldItems

vars == <<timing, snapshot, held, store, drain, pops, pushes>>

\* push() and the prepared pushes: a delay holds the item in memory, no delay
\* sends it to the backend, under the same lock.
Push(i, d) ==
  /\ Accepts(i, d) /\ Unlocked
  /\ IF d = 0 THEN queued' = queued \union {i} /\ UNCHANGED held
     ELSE /\ held' = held \union {[id |-> i, ready |-> Now + d, place |-> 0]}
          /\ UNCHANGED queued

\* The entries at the top of the heap, as long as they are ready.
Due == {e \in held : e.ready <= Now}

\* restore(): what was left of a delay, less the time the process was down.
Restored(now) ==
  {[id |-> s.id, place |-> 0,
    ready |-> now + (Later(s.remaining, clock - savedAt) - (clock - savedAt))] : s \in saved}

NextReady == {e.ready : e \in held}

Next ==
  \/ Tick \/ Clear \/ Close \/ \E b \in Bases : Reopens(b, Restored(clock - b))
  \/ \E i \in Items, d \in Delays : Push(i, d)
  \/ \E t \in Poppers :
       \/ PopBegin(t) \/ DrainBegin(t, Due) \/ DrainEnds(t)
       \/ PopWaits(t, NextReady) \/ PopTakes(t) \/ PopEmpty(t)
       \/ \E e \in drain.todo : DrainMoves(t, e) \/ DrainFails(t, e)

\* A drain that ran to its end left nothing that was due when it began.
LeavesNothingOverdue ==
  (drain.by # NoThread /\ drain.todo = {})
    => \A e \in held : due[e.id] > drain.now + base

\* A pop sleeps no longer than until the first held item is ready.
SleepsUntilNext ==
  \A t \in Poppers :
    (pops[t].at = "drained" /\ pops'[t].at = "waiting")
      => \A e \in held : pops'[t].wake <= Later(e.ready, Now)
=============================================================================
