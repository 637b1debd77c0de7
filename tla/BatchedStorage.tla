--------------------------- MODULE BatchedStorage ---------------------------
(***************************************************************************)
(* The batched storage strategy (storage/strategies/batched.py): accepted  *)
(* values wait in a buffer and are written in batches, when the buffer has *)
(* reached the threshold, when its oldest entry is too old (a background   *)
(* thread), on flush() and on close().  One batch is written at a time; a  *)
(* write that fails puts the rest of its batch back in front of what was   *)
(* buffered meanwhile.                                                     *)
(*                                                                         *)
(* Entries are numbered in the order they are accepted.  All of them may   *)
(* be values of one key, so the order of the writes decides what the       *)
(* backend keeps.  Monitors are left out but for the interrupt one of them *)
(* may raise after a write.                                                *)
(***************************************************************************)
EXTENDS Naturals, Sequences, SequencesExt

CONSTANTS Threads,    \* callers of store, flush and close
          Flusher,    \* the age-flush thread
          NoOne,      \* the flush lock is free
          Threshold, MaxPending,
          MaxEntries, MaxFailures   \* bounds: entries accepted, failed writes

VARIABLES
  buffer, batch,  \* _buffer, and what is left of the batch being written
  inFlight,       \* _in_flight_count
  lock,           \* who has the flush lock
  closed,         \* _closed and the stop event
  oldest,         \* _oldest_ts: "none", "young" or "aged"
  flusher,        \* _flusher: "none", "alive" or "dead"
  doing,          \* what each thread does
  entries,        \* history: number of entries accepted
  written,        \* history: the entries the backend applied, in order
  ended,          \* history: a close has returned
  failures

content == <<buffer, batch, inFlight, oldest>>
history == <<entries, written>>
vars == <<content, lock, closed, flusher, doing, history, ended, failures>>

Actors == Threads \union {Flusher}
Pending == Len(buffer) + inFlight
Goto(t, s) == doing' = [doing EXCEPT ![t] = s]

Init ==
  /\ buffer = <<>> /\ batch = <<>> /\ inFlight = 0 /\ oldest = "none"
  /\ lock = NoOne /\ closed = FALSE /\ flusher = "none"
  /\ doing = [t \in Actors |-> "idle"]
  /\ entries = 0 /\ written = <<>> /\ ended = FALSE /\ failures = 0

\* max_pending counts the buffer and the batch under way.
Room == Pending < MaxPending

\* store(): refused when closed or full, else buffered.
Store(t) ==
  /\ t \in Threads /\ doing[t] = "idle" /\ ~closed /\ Room /\ entries < MaxEntries
  /\ entries' = entries + 1
  /\ buffer' = Append(buffer, entries')
  /\ oldest' = IF oldest = "none" THEN "young" ELSE oldest
  /\ Goto(t, IF Len(buffer') >= Threshold THEN "stored_flush" ELSE "stored")
  /\ UNCHANGED <<batch, inFlight, lock, closed, flusher, written, ended, failures>>

\* _ensure_flusher(): started once and never after a close; when the thread
\* cannot be started, store raises with its entry in the buffer.
EnsureFlusher(t) ==
  /\ doing[t] \in {"stored", "stored_flush"}
  /\ \/ /\ flusher' = IF closed \/ flusher # "none" THEN flusher ELSE "alive"
        /\ Goto(t, IF doing[t] = "stored" THEN "idle" ELSE "flush")
     \/ ~closed /\ flusher = "none" /\ Goto(t, "idle") /\ UNCHANGED flusher
  /\ UNCHANGED <<content, lock, closed, history, ended, failures>>

\* flush() by a caller, also after a close.
Flush(t) ==
  /\ t \in Threads /\ doing[t] = "idle" /\ Goto(t, "flush")
  /\ UNCHANGED <<content, lock, closed, flusher, history, ended, failures>>

\* The age thread wakes up to an old entry.
Ages ==
  /\ oldest = "young" /\ oldest' = "aged"
  /\ UNCHANGED <<buffer, batch, inFlight, lock, closed, flusher, doing, history, ended, failures>>

AgeFlush ==
  /\ flusher = "alive" /\ doing[Flusher] = "idle" /\ ~closed
  /\ buffer # <<>> /\ oldest = "aged"
  /\ Goto(Flusher, "flush")
  /\ UNCHANGED <<content, lock, closed, flusher, history, ended, failures>>

FlusherExits ==
  /\ flusher = "alive" /\ doing[Flusher] = "idle" /\ closed
  /\ flusher' = "dead"
  /\ UNCHANGED <<content, lock, closed, doing, history, ended, failures>>

----------------------------------------------------------------------------
(* Writing a batch, under the flush lock. *)

TakeBatch ==
  /\ batch' = buffer /\ buffer' = <<>> /\ oldest' = "none"
  /\ inFlight' = inFlight + Len(buffer)

\* The caller of a flush, a close and the retry of a close write alike.
Writing(t) == doing[t] \in {"writing", "closing_writing", "closing_retrying"}

\* _flush(): take the lock and the whole buffer.
FlushBegins(t) ==
  /\ doing[t] = "flush" /\ lock = NoOne
  /\ lock' = t /\ TakeBatch /\ Goto(t, "writing")
  /\ UNCHANGED <<closed, flusher, history, ended, failures>>

\* The lock is not free in time: leave it to the next flush.
FlushGivesUp(t) ==
  /\ doing[t] = "flush" /\ lock # NoOne /\ Goto(t, "idle")
  /\ UNCHANGED <<content, lock, closed, flusher, history, ended, failures>>

\* The backend has stored the first entry of the batch.
Write(t) ==
  /\ lock = t /\ Writing(t) /\ batch # <<>>
  /\ written' = Append(written, Head(batch))
  /\ batch' = Tail(batch) /\ inFlight' = inFlight - 1
  /\ UNCHANGED <<buffer, oldest, lock, closed, flusher, doing, entries, ended, failures>>

\* Mutant: the rest of the batch goes behind the buffer.
RequeueLast(tail) == buffer \o tail

\* _requeue_tail(): in front of what was buffered meanwhile.
RequeueTail(tail) == tail \o buffer

\* Mutant: an entry that goes back has no age.
RequeuedAgeless == oldest

\* The age of what goes back starts again.
RequeuedAge == "young"

\* Where a failed write leaves its thread: a close writes once more.
AfterFailure(t) ==
  CASE doing[t] = "closing_writing" -> "closing_retry"
    [] doing[t] = "closing_retrying" -> "close_failed"
    [] OTHER -> "idle"

\* The write failed, whether the backend applied it or not.
WriteFails(t) ==
  /\ lock = t /\ Writing(t) /\ batch # <<>> /\ failures < MaxFailures
  /\ failures' = failures + 1
  /\ written' \in {written, Append(written, Head(batch))}
  /\ buffer' = RequeueTail(batch) /\ batch' = <<>>
  /\ inFlight' = inFlight - Len(batch)
  /\ oldest' = RequeuedAge
  /\ lock' = IF doing[t] = "closing_writing" THEN t ELSE NoOne
  /\ Goto(t, AfterFailure(t))
  /\ UNCHANGED <<closed, flusher, entries, ended>>

\* A caller is interrupted by its monitor right after a write: the entry is
\* stored, the rest goes back, and a close does not write again.
Interrupted(t) ==
  /\ t \in Threads /\ lock = t /\ Writing(t) /\ batch # <<>> /\ failures < MaxFailures
  /\ failures' = failures + 1
  /\ written' = Append(written, Head(batch))
  /\ buffer' = RequeueTail(Tail(batch)) /\ batch' = <<>>
  /\ inFlight' = inFlight - Len(batch)
  /\ oldest' = IF Tail(batch) = <<>> THEN oldest ELSE RequeuedAge
  /\ lock' = NoOne /\ Goto(t, IF doing[t] = "writing" THEN "idle" ELSE "close_failed")
  /\ UNCHANGED <<closed, flusher, entries, ended>>

WriteEnds(t) ==
  /\ lock = t /\ Writing(t) /\ batch = <<>>
  /\ lock' = NoOne /\ Goto(t, IF doing[t] = "writing" THEN "idle" ELSE "written")
  /\ UNCHANGED <<content, closed, flusher, history, ended, failures>>

----------------------------------------------------------------------------
(* close() *)

Close(t) ==
  /\ t \in Threads /\ doing[t] = "idle" /\ ~ended
  /\ closed' = TRUE /\ Goto(t, "joining")
  /\ UNCHANGED <<content, lock, flusher, history, ended, failures>>

\* The age thread is gone, or the time to wait for it is over.
CloseJoins(t) ==
  /\ doing[t] = "joining" /\ Goto(t, "closing")
  /\ UNCHANGED <<content, lock, closed, flusher, history, ended, failures>>

CloseWrites(t) ==
  /\ doing[t] = "closing" /\ lock = NoOne
  /\ lock' = t /\ TakeBatch /\ Goto(t, "closing_writing")
  /\ UNCHANGED <<closed, flusher, history, ended, failures>>

CloseWritesAgain(t) ==
  /\ doing[t] = "closing_retry"
  /\ TakeBatch /\ Goto(t, "closing_retrying")
  /\ UNCHANGED <<lock, closed, flusher, history, ended, failures>>

\* The lock is not free before the deadline.
CloseGivesUp(t) ==
  /\ doing[t] = "closing" /\ lock # NoOne /\ Goto(t, "close_failed")
  /\ UNCHANGED <<content, lock, closed, flusher, history, ended, failures>>

\* Mutant: a close that wrote its batch takes that for everything.
QuietEnough == TRUE

\* Nothing is pending and the age thread is gone.
Quiet == Pending = 0 /\ flusher # "alive"

\* A close that fails may be tried again.
CloseReturns(t) ==
  /\ doing[t] \in {"written", "close_failed"} /\ Goto(t, "idle")
  /\ ended' = (ended \/ (doing[t] = "written" /\ Quiet))
  /\ UNCHANGED <<content, lock, closed, flusher, history, failures>>

----------------------------------------------------------------------------
FlushStep(t) == FlushBegins(t) \/ FlushGivesUp(t) \/ Write(t) \/ WriteEnds(t) \/ WriteFails(t)
CloseStep(t) == CloseJoins(t) \/ CloseWrites(t) \/ CloseWritesAgain(t) \/ CloseGivesUp(t)
                \/ CloseReturns(t)

Next ==
  \/ Ages \/ AgeFlush \/ FlusherExits
  \/ \E t \in Actors :
       \/ Store(t) \/ EnsureFlusher(t) \/ Flush(t) \/ Interrupted(t)
       \/ FlushStep(t) \/ Close(t) \/ CloseStep(t)

\* Entries age, the age thread is scheduled, a write returns or raises, and
\* waits for the lock are bounded.
Fairness ==
  /\ WF_vars(Ages) /\ WF_vars(AgeFlush) /\ WF_vars(FlusherExits)
  /\ \A t \in Actors : WF_vars(FlushStep(t)) /\ WF_vars(CloseStep(t))

----------------------------------------------------------------------------
TypeOK ==
  /\ buffer \in Seq(1 .. MaxEntries) /\ batch \in Seq(1 .. MaxEntries)
  /\ inFlight \in Nat /\ lock \in Actors \union {NoOne}
  /\ oldest \in {"none", "young", "aged"} /\ flusher \in {"none", "alive", "dead"}

\* What is not written yet is, in order, the last entries accepted, and it is
\* no more than max_pending with the batch counted right; so the backend gets
\* the entries in the order they were accepted, and an older value never
\* overwrites a newer one, through failures at any point of a batch.
WritesInOrder ==
  /\ LET rest == batch \o buffer IN
       /\ \A i \in 1 .. Len(rest) : rest[i] = entries - Len(rest) + i
       /\ \A e \in 1 .. entries - Len(rest) : Contains(written, e)
       /\ Len(rest) <= MaxPending
  /\ inFlight = Len(batch)
  /\ \A i \in 1 .. Len(written) - 1 : written[i] <= written[i + 1]

\* When a close has returned, every entry is with the backend and nobody will
\* write any more: no batch, no age thread.
CloseComplete ==
  ended => Pending = 0 /\ flusher # "alive"
           /\ \A e \in 1 .. entries : Contains(written, e)

\* With the age thread running, every entry is written or a close takes over.
EntriesAgeOut ==
  \A e \in 1 .. MaxEntries :
    (e <= entries /\ flusher = "alive") ~> (Contains(written, e) \/ closed)
=============================================================================
