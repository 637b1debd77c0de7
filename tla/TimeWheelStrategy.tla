------------------------- MODULE TimeWheelStrategy -------------------------
(***************************************************************************)
(* The time-wheel strategy (queue/strategies/time_wheel.py): an item whose *)
(* delay fits into one turn of the wheel goes into the slot of the tick    *)
(* that follows its ready time, a longer one into an overflow heap.  A     *)
(* drain looks only into the slots of the ticks since the last complete    *)
(* drain, and each slot keeps a cached minimum of its ready times for the  *)
(* wait of a pop.  A tick has TickLength units of the clock.               *)
(***************************************************************************)
EXTENDS HeldItems

CONSTANTS WheelSize, TickLength,
          Never      \* no entry in a slot

VARIABLES
  lastTick,  \* _last_tick
  slotMin    \* _slot_min_deadlines

wheel == <<lastTick, slotMin>>
vars == <<timing, snapshot, held, store, drain, pops, pushes, wheel>>

Slots == 0 .. WheelSize - 1
Overflow == WheelSize
WheelDuration == WheelSize * TickLength
TickAt(time) == time \div TickLength
TickAfter(time) == (time + TickLength - 1) \div TickLength
SlotAt(ready) == TickAfter(ready) % WheelSize
EmptyWheel == [s \in Slots |-> Never]

WheelInit == Init /\ lastTick = TickAt(0) /\ slotMin = EmptyWheel

SlotMinOf(entries, s) ==
  LET readies == {e.ready : e \in {x \in entries : x.place = s}}
  IN IF readies = {} THEN Never ELSE Min(readies)

\* Mutant: the minimum is kept when the slot has one.
AppendKeepsMin(e) ==
  /\ held' = held \union {e}
  /\ slotMin' = IF slotMin[e.place] = Never THEN [slotMin EXCEPT ![e.place] = e.ready]
                ELSE slotMin

\* _append_wheel_entry(): the cached minimum follows.
AppendWheelEntry(e) ==
  /\ held' = held \union {e}
  /\ slotMin' = IF slotMin[e.place] = Never \/ e.ready < slotMin[e.place]
                THEN [slotMin EXCEPT ![e.place] = e.ready] ELSE slotMin

\* push(): no delay bypasses the lock, a short one goes into the wheel.
Push(i, d) ==
  /\ Accepts(i, d) /\ UNCHANGED lastTick
  /\ LET ready == Now + d IN
     \/ d = 0 /\ queued' = queued \union {i} /\ UNCHANGED <<held, slotMin>>
     \/ /\ 0 < d /\ d <= WheelDuration /\ Unlocked
        /\ AppendWheelEntry([id |-> i, ready |-> ready, place |-> SlotAt(ready)])
        /\ UNCHANGED queued
     \/ /\ WheelDuration < d /\ Unlocked
        /\ held' = held \union {[id |-> i, ready |-> ready, place |-> Overflow]}
        /\ UNCHANGED <<slotMin, queued>>

\* The slots of the ticks since the last drain, at most one turn of them.
SlotsToScan ==
  {(lastTick + k) % WheelSize : k \in 1 .. Earlier(Later(TickAt(Now), lastTick) - lastTick,
                                                   WheelSize)}

Candidates ==
  {e \in held : e.ready <= Now /\ (e.place = Overflow \/ e.place \in SlotsToScan)}

Moves(t, e) ==
  /\ DrainMoves(t, e)
  /\ slotMin' = IF e.place = Overflow THEN slotMin
                ELSE [slotMin EXCEPT ![e.place] = SlotMinOf(held', e.place)]
  /\ UNCHANGED lastTick

\* Mutant: the ticks count as scanned when the scan begins.
DrainScans(t) ==
  /\ DrainBegin(t, Candidates)
  /\ lastTick' = TickAt(Now) /\ UNCHANGED slotMin

\* The scan of a drain leaves the last tick alone, for a retry.
Drains(t) == DrainBegin(t, Candidates) /\ UNCHANGED wheel

Ends(t) == DrainEnds(t) /\ lastTick' = TickAt(drain.now) /\ UNCHANGED slotMin

\* _next_release_at(): an entry of the wheel is released with its tick.
Release(e) == IF e.place = Overflow THEN e.ready ELSE TickAfter(e.ready) * TickLength
NextRelease ==
  {e.ready : e \in {x \in held : x.place = Overflow}}
    \union {TickAfter(slotMin[s]) * TickLength : s \in {x \in Slots : slotMin[x] # Never}}

Clears == Clear /\ slotMin' = EmptyWheel /\ UNCHANGED lastTick
Closes == Close /\ slotMin' = EmptyWheel /\ UNCHANGED lastTick

\* restore(): an entry that is not ready yet and fits into one turn goes into
\* the wheel, every other one into the overflow.
Restored(now) ==
  {LET ready == now + (Later(s.remaining, clock - savedAt) - (clock - savedAt))
   IN [id |-> s.id, ready |-> ready,
       place |-> IF ready > now /\ ready - now <= WheelDuration THEN SlotAt(ready)
                 ELSE Overflow] : s \in saved}

Reopen ==
  /\ \E b \in Bases : Reopens(b, Restored(clock - b))
  /\ lastTick' = TickAt(clock - base')
  /\ slotMin' = [s \in Slots |-> SlotMinOf(held', s)]

Next ==
  \/ Tick /\ UNCHANGED wheel
  \/ Clears \/ Closes \/ Reopen
  \/ \E i \in Items, d \in Delays : Push(i, d)
  \/ \E t \in Poppers :
       \/ (PopBegin(t) \/ PopWaits(t, NextRelease) \/ PopTakes(t) \/ PopEmpty(t))
            /\ UNCHANGED wheel
       \/ Drains(t) \/ Ends(t)
       \/ \E e \in drain.todo : Moves(t, e) \/ (DrainFails(t, e) /\ UNCHANGED wheel)

\* A drain that ran to its end left nothing whose tick was over when it began:
\* the ticks of failed drains are scanned again, and a slot that was passed
\* while its entry was a turn away is passed again in time.
LeavesNothingOverdue ==
  (drain.by # NoThread /\ drain.todo = {})
    => \A e \in held : due[e.id] + (TickLength - 1) > drain.now + base

\* A pop sleeps no longer than until the first held item is released: the
\* cached minimum of a slot is the minimum of what is in it.
SleepsUntilNext ==
  \A t \in Poppers :
    (pops[t].at = "drained" /\ pops'[t].at = "waiting")
      => \A e \in held : pops'[t].wake <= Later(Release(e), Now)
=============================================================================
