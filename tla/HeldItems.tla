----------------------------- MODULE HeldItems -----------------------------
(***************************************************************************)
(* What the delay and the time-wheel strategy have in common: delayed      *)
(* items are held in memory, a pop first moves those that are due to the   *)
(* backend queue and then waits on that queue, until the next held item is *)
(* due or its timeout ends.  DelayStrategy and TimeWheelStrategy say how   *)
(* an item is held, found and restored.                                    *)
(*                                                                         *)
(* Time advances in steps smaller than a tick of the wheel.  clock is the  *)
(* wall clock; the monotonic clock a process reads is clock - base.  The   *)
(* state lock is held by the thread in "drain", and by no one between two  *)
(* steps otherwise.  Control flow is that of one bound queue.              *)
(***************************************************************************)
EXTENDS Naturals, FiniteSets, FiniteSetsExt

CONSTANTS Items,     \* in the order they are pushed
          Poppers,   \* threads that pop
          NoThread,
          Delays,    \* the effective delays of a push
          Timeouts,  \* the timeouts of a pop
          MaxTime    \* bound: the wall clock

VARIABLES
  clock, base,
  up,        \* a process has the strategy open
  held,      \* the entries in memory: [id, ready, place]
  queued,    \* items in the backend queue
  drain,     \* the drain under way: [by, now, todo]
  pops,      \* what each thread's pop does
  saved,     \* the entries of the snapshot a closed process left: [id, remaining]
  savedAt,   \* its wall time
  \* History variables.
  accepted,  \* items whose push returned
  due,       \* item |-> the wall time it may be released from, 0 when gone
  gone       \* items popped or cleared

store == <<queued, gone>>
timing == <<clock, base>>
snapshot == <<up, saved, savedAt>>
pushes == <<accepted, due>>

Now == clock - base
NoDrain == [by |-> NoThread, now |-> 0, todo |-> {}]
Unlocked == drain.by = NoThread
IdlePop == [at |-> "idle", timeout |-> 0, deadline |-> 0, wake |-> 0, waits |-> FALSE]
Ids(entries) == {e.id : e \in entries}
Later(a, b) == IF a < b THEN b ELSE a
Earlier(a, b) == IF a < b THEN a ELSE b

Init ==
  /\ clock = 0 /\ base = 0 /\ up = TRUE
  /\ held = {} /\ queued = {} /\ drain = NoDrain
  /\ pops = [t \in Poppers |-> IdlePop]
  /\ saved = {} /\ savedAt = 0
  /\ accepted = {} /\ due = [i \in Items |-> 0] /\ gone = {}

\* Time passes, but a wait on the backend queue ends when its time is over.
Tick ==
  /\ clock < MaxTime
  /\ \A t \in Poppers : pops[t].at = "waiting" => Now < pops[t].wake
  /\ clock' = clock + 1
  /\ UNCHANGED <<base, snapshot, held, store, drain, pops, pushes>>

Accepts(i, d) ==
  /\ up /\ accepted # Items /\ i = CHOOSE x \in Items : x \notin accepted
  /\ accepted' = accepted \union {i} /\ due' = [due EXCEPT ![i] = clock + d]
  /\ UNCHANGED <<timing, snapshot, drain, pops, gone>>

----------------------------------------------------------------------------
(* A pop: drain, wait, drain again. *)

PopBegin(t) ==
  /\ up /\ pops[t].at = "idle"
  /\ \E timeout \in Timeouts :
       pops' = [pops EXCEPT ![t] = [IdlePop EXCEPT !.at = "drain", !.timeout = timeout]]
  /\ UNCHANGED <<timing, snapshot, held, store, drain, pushes>>

\* The state lock is taken and the clock read once for the whole drain.
DrainBegin(t, candidates) ==
  /\ pops[t].at = "drain" /\ Unlocked
  /\ drain' = [by |-> t, now |-> Now, todo |-> candidates]
  /\ UNCHANGED <<timing, snapshot, held, store, pops, pushes>>

\* An entry that is due: into the backend first, then out of memory.
DrainMoves(t, e) ==
  /\ drain.by = t /\ e \in drain.todo
  /\ queued' = queued \union {e.id}
  /\ held' = held \ {e}
  /\ drain' = [drain EXCEPT !.todo = @ \ {e}]
  /\ UNCHANGED <<timing, snapshot, gone, pops, pushes>>

\* Mutant: an entry is out of memory before the backend has it.
DrainDrops(t, e) ==
  /\ drain.by = t /\ e \in drain.todo
  /\ queued' \in {queued, queued \union {e.id}}
  /\ held' = held \ {e}
  /\ drain' = NoDrain
  /\ pops' = [pops EXCEPT ![t] = IdlePop]
  /\ UNCHANGED <<timing, snapshot, gone, pushes>>

\* The backend refuses an entry, or takes it and reports a failure: the pop
\* raises and the entry stays.
DrainFails(t, e) ==
  /\ drain.by = t /\ e \in drain.todo
  /\ queued' \in {queued, queued \union {e.id}}
  /\ drain' = NoDrain
  /\ pops' = [pops EXCEPT ![t] = IdlePop]
  /\ UNCHANGED <<timing, snapshot, held, gone, pushes>>

DrainEnds(t) ==
  /\ drain.by = t /\ drain.todo = {}
  /\ drain' = NoDrain
  /\ pops' = [pops EXCEPT ![t].at = "drained"]
  /\ UNCHANGED <<timing, snapshot, held, store, pushes>>

\* How long to wait on the backend: the deadline runs from the first drain,
\* and the next release cuts the wait short.
PopWaits(t, releases) ==
  /\ pops[t].at = "drained" /\ Unlocked
  /\ LET deadline == IF pops[t].deadline = 0 THEN Now + pops[t].timeout
                     ELSE pops[t].deadline
         limit == Later(deadline, Now)
         wake == IF releases = {} THEN limit ELSE Earlier(limit, Later(Now, Min(releases)))
     IN pops' = [pops EXCEPT ![t] =
          [at |-> "waiting", timeout |-> 0, deadline |-> deadline, wake |-> wake,
           waits |-> wake > Now]]
  /\ UNCHANGED <<timing, snapshot, held, store, drain, pushes>>

PopTakes(t) ==
  /\ pops[t].at = "waiting"
  /\ \E i \in queued :
       queued' = queued \ {i} /\ gone' = gone \union {i} /\ due' = [due EXCEPT ![i] = 0]
  /\ pops' = [pops EXCEPT ![t] = IdlePop]
  /\ UNCHANGED <<timing, snapshot, held, drain, accepted>>

\* The wait is over and the backend is empty: return empty-handed at the
\* deadline (and when the clock stands still), or go round again.
PopEmpty(t) ==
  /\ pops[t].at = "waiting" /\ Now >= pops[t].wake /\ queued = {}
  /\ pops' = [pops EXCEPT ![t] =
       IF Now >= @.deadline \/ ~@.waits THEN IdlePop ELSE [@ EXCEPT !.at = "drain"]]
  /\ UNCHANGED <<timing, snapshot, held, store, drain, pushes>>

----------------------------------------------------------------------------
\* clear(): the backend, then the memory.
Clear ==
  /\ up /\ Unlocked
  /\ gone' = gone \union queued \union Ids(held)
  /\ queued' = {} /\ held' = {} /\ due' = [i \in Items |-> 0]
  /\ UNCHANGED <<timing, snapshot, drain, pops, accepted>>

\* snapshot() and close(), once no operation is left in the queue.  Bound: the
\* process that starts next (base > 0) is not closed again.
Close ==
  /\ up /\ base = 0 /\ \A t \in Poppers : pops[t].at = "idle"
  /\ up' = FALSE /\ held' = {}
  /\ saved' = {[id |-> e.id, remaining |-> Later(e.ready, Now) - Now] : e \in held}
  /\ savedAt' = clock
  /\ UNCHANGED <<timing, store, drain, pops, pushes>>

\* Another process starts over the same snapshot: its monotonic clock is
\* unrelated to that of the last one.
Bases == {b \in 0 .. clock : clock - b <= 1}

Reopens(b, entries) ==
  /\ ~up /\ up' = TRUE
  /\ base' = b /\ held' = entries
  /\ saved' = {} /\ savedAt' = 0
  /\ UNCHANGED <<clock, store, drain, pops, pushes>>

\* Who was told that a push succeeded finds the item in memory, in the backend,
\* in the snapshot, popped or cleared.
Accounted ==
  accepted \subseteq Ids(held) \union queued \union Ids(saved) \union gone

\* No item reaches the backend before its time.
OnlyWhenDue == \A i \in queued : clock >= due[i]
=============================================================================
