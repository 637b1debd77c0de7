---------------------------- MODULE MCStrategies ----------------------------
(***************************************************************************)
(* The strategies that keep items in memory, checked one after the other:  *)
(* the delay and the time-wheel strategy of a queue, which share the state *)
(* of HeldItems, and the batched storage strategy.  "which" says whose     *)
(* behaviours are explored.                                                *)
(***************************************************************************)
EXTENDS Naturals

CONSTANTS Items, Poppers, Threads, NoThread, Delays, Timeouts, MaxTime,
          WheelSize, TickLength, Never,
          Flusher, NoOne, Threshold, MaxPending, MaxEntries, MaxFailures

\* The marks of "nobody" are no threads, and the limits are numbers.
ASSUME ActorsAssumption == NoOne \notin Threads \union {Flusher}
ASSUME LimitsAssumption == MaxPending \in Nat /\ MaxEntries \in Nat
ASSUME PoppersAssumption == NoThread \notin Poppers
ASSUME TimesAssumption == Delays \subseteq Nat /\ Timeouts \subseteq Nat
ASSUME WheelAssumption ==
  WheelSize \in Nat \ {0} /\ TickLength \in Nat \ {0} /\ Never \notin Nat

VARIABLES
  which,
  clock, base, up, held, queued, drain, pops, saved, savedAt,
  accepted, due, gone, lastTick, slotMin,
  buffer, batch, inFlight, lock, closed, oldest, flusher, doing,
  entries, written, ended, failures

heldVars == <<clock, base, up, held, queued, drain, pops, saved, savedAt,
              accepted, due, gone>>
wheelVars == <<lastTick, slotMin>>
batchedVars == <<buffer, batch, inFlight, lock, closed, oldest, flusher, doing,
                 entries, written, ended, failures>>

Delay == INSTANCE DelayStrategy
Wheel == INSTANCE TimeWheelStrategy
Batched == INSTANCE BatchedStorage

MCInit ==
  /\ which \in {"delay", "wheel", "batched"}
  /\ Wheel!WheelInit /\ Batched!Init

MCNext ==
  /\ which' = which
  /\ \/ which = "delay" /\ Delay!Next /\ UNCHANGED <<wheelVars, batchedVars>>
     \/ which = "wheel" /\ Wheel!Next /\ UNCHANGED batchedVars
     \/ which = "batched" /\ Batched!Next /\ UNCHANGED <<heldVars, wheelVars>>

MCvars == <<which, heldVars, wheelVars, batchedVars>>

MCSpec == MCInit /\ [][MCNext]_MCvars /\ Batched!Fairness

\* No item whose push returned is lost (push, _drain_ready, snapshot and
\* restore of both strategies).
NothingDropped == Wheel!Accounted

\* No item is released before its time, over restarts too, and a complete
\* drain leaves nothing behind that was due (_drain_ready).
OnTime ==
  /\ Wheel!OnlyWhenDue
  /\ IF which = "delay" THEN Delay!LeavesNothingOverdue ELSE Wheel!LeavesNothingOverdue

\* A pop does not oversleep the next held item (_next_ready_at,
\* _next_release_at).
WakesForNext ==
  [][IF which = "delay" THEN Delay!SleepsUntilNext ELSE Wheel!SleepsUntilNext]_MCvars

\* The backend gets the values in the order they were accepted
\* (_flush_serialized, _requeue_tail).
WritesInOrder == Batched!TypeOK /\ Batched!WritesInOrder

\* A close that returned has left nothing to write (close).
CloseComplete == Batched!CloseComplete

\* Entries do not stay in the buffer for ever (_age_flush_loop).
EntriesAgeOut == Batched!EntriesAgeOut
=============================================================================
