--------------------------- MODULE QueueLifecycle ---------------------------
(***************************************************************************)
(* The operation gate of a queue and its close (BackendQueue in            *)
(* queue/queue.py).  Threads push, pop, settle, measure and clear while    *)
(* others close: the first closer owns an attempt, the others wait for its *)
(* outcome.  An attempt shuts the gate for good, waits for the operations  *)
(* and the replacement settlements under way, leaves a checkpoint (see     *)
(* QueueCheckpoint) and closes the strategy, whose cleanup is never        *)
(* repeated.  An attempt that fails before the cleanup can be retried; one *)
(* whose owner was interrupted while it published its outcome is reclaimed *)
(* by the next closer.                                                     *)
(***************************************************************************)
EXTENDS Naturals, FiniteSets

CONSTANTS Threads, NoOwner,
          MaxAttempts   \* bound: close attempts

VARIABLES
  accepting,   \* _accepting_operations
  thread,      \* what each thread does: "idle", an operation or a close stage
  settlements, \* threads whose push left a replacement settlement running
  attempt,     \* _close_attempt
  owner,       \* the thread of _close_owner_token
  ownerGone,   \* the frame of the owner is gone: the token is inactive
  begun,       \* _begin_close_complete
  checkpoint,  \* _checkpoint_complete
  cleanup,     \* _strategy_cleanup_state
  complete,    \* _close_complete
  waiting,     \* thread |-> the attempt it waits for, 0 when none
  outcomes,    \* _close_attempt_outcomes: attempt |-> "ok", "failed", or "none"
  closes       \* history: calls of strategy.close()

gate == <<accepting, settlements>>
closing == <<attempt, owner, ownerGone, begun, checkpoint, cleanup, complete>>
waiters == <<waiting, outcomes>>
vars == <<gate, thread, closing, waiters, closes>>

Attempts == 1 .. MaxAttempts
Operating == {t \in Threads : thread[t] \in {"operating", "operated"}}
InProgress == owner # NoOwner
Goto(t, s) == thread' = [thread EXCEPT ![t] = s]

Init ==
  /\ accepting = TRUE /\ settlements = {}
  /\ thread = [t \in Threads |-> "idle"]
  /\ attempt = 0 /\ owner = NoOwner /\ ownerGone = FALSE
  /\ begun = FALSE /\ checkpoint = FALSE /\ cleanup = "not_started" /\ complete = FALSE
  /\ waiting = [t \in Threads |-> 0] /\ outcomes = [a \in Attempts |-> "none"]
  /\ closes = 0

\* push, pop, ack, nack, len and clear enter through the same gate.
BeginOperation(t) ==
  /\ thread[t] = "idle" /\ accepting /\ Goto(t, "operating")
  /\ UNCHANGED <<gate, closing, waiters, closes>>

\* A push that carried a source delivery may leave its ack to a worker; every
\* other operation does its work here, and may fail.
Operate(t) ==
  /\ thread[t] = "operating" /\ Goto(t, "operated")
  /\ settlements' \in {settlements, settlements \union {t}}
  /\ UNCHANGED <<accepting, closing, waiters, closes>>

EndOperation(t) ==
  /\ thread[t] = "operated" /\ Goto(t, "idle")
  /\ UNCHANGED <<gate, closing, waiters, closes>>

\* The worker of a replacement settlement ended, with the ack or without.
SettlementEnds(t) ==
  /\ t \in settlements /\ settlements' = settlements \ {t}
  /\ UNCHANGED <<accepting, thread, closing, waiters, closes>>

----------------------------------------------------------------------------
\* Another thread owns the attempt: wait for its outcome.
CloseWaits(t) ==
  /\ thread[t] = "idle" /\ ~complete /\ InProgress /\ ~ownerGone
  /\ waiting' = [waiting EXCEPT ![t] = attempt] /\ Goto(t, "waiting")
  /\ UNCHANGED <<gate, closing, outcomes, closes>>

\* The owner is gone and the cleanup had begun: the close is terminal.
CloseReclaimsTerminal(t) ==
  /\ thread[t] = "idle" /\ ~complete /\ InProgress /\ ownerGone
  /\ cleanup # "not_started"
  /\ complete' = TRUE /\ owner' = NoOwner /\ ownerGone' = FALSE
  /\ UNCHANGED <<gate, thread, attempt, begun, checkpoint, cleanup, waiters, closes>>

\* A new attempt, the first or a retry, shuts the gate.
CloseBegins(t) ==
  /\ thread[t] = "idle" /\ ~complete /\ attempt < MaxAttempts
  /\ ~InProgress \/ (ownerGone /\ cleanup = "not_started")
  /\ attempt' = attempt + 1 /\ owner' = t /\ ownerGone' = FALSE
  /\ accepting' = FALSE
  /\ Goto(t, IF begun THEN "draining" ELSE "begin_close")
  /\ UNCHANGED <<settlements, begun, checkpoint, cleanup, complete, waiters, closes>>

\* An owner of the attempt leaves it for its finalisation.
Finishes(t, s) == Goto(t, s) /\ UNCHANGED <<begun, checkpoint, cleanup, closes>>

\* strategy.begin_close(), repeated by the next attempt when it fails.
BeginClose(t) ==
  /\ thread[t] = "begin_close"
  /\ \/ begun' = TRUE /\ Goto(t, "draining") /\ UNCHANGED <<checkpoint, cleanup, closes>>
     \/ Finishes(t, "failed")
  /\ UNCHANGED <<gate, attempt, owner, ownerGone, complete, waiters>>

\* Mutant: the drain waits for the operations only.
DrainedOfOperations(t) ==
  /\ thread[t] = "draining"
  /\ IF Operating = {} THEN Goto(t, IF checkpoint THEN "cleaning" ELSE "checkpointing")
     ELSE Goto(t, "failed")
  /\ UNCHANGED <<gate, closing, waiters, closes>>

\* bounded_drain_wait(): no operation and no settlement is left, or the wait
\* ran into its timeout (or was interrupted) and the attempt fails.
Drained(t) ==
  /\ thread[t] = "draining"
  /\ IF Operating = {} /\ settlements = {}
     THEN Goto(t, IF checkpoint THEN "cleaning" ELSE "checkpointing")
     ELSE Goto(t, "failed")
  /\ UNCHANGED <<gate, closing, waiters, closes>>

\* The checkpoint is written, or skipped by a lossy close; or it fails.
Checkpoint(t) ==
  /\ thread[t] = "checkpointing"
  /\ \/ checkpoint' = TRUE /\ Goto(t, "cleaning") /\ UNCHANGED <<begun, cleanup, closes>>
     \/ Finishes(t, "failed")
  /\ UNCHANGED <<gate, attempt, owner, ownerGone, complete, waiters>>

\* strategy.close(), announced first and then called.
CleanupStarts(t) ==
  /\ thread[t] = "cleaning" /\ Goto(t, "closing_strategy")
  /\ cleanup' = "started" /\ closes' = closes + 1
  /\ UNCHANGED <<gate, attempt, owner, ownerGone, begun, checkpoint, complete, waiters>>

CleanupEnds(t) ==
  /\ thread[t] = "closing_strategy"
  /\ \E outcome \in {"succeeded", "failed", "indeterminate"} :
       /\ cleanup' = outcome
       /\ Goto(t, IF outcome = "succeeded" THEN "succeeded" ELSE "failed")
  /\ UNCHANGED <<gate, attempt, owner, ownerGone, begun, checkpoint, complete, waiters, closes>>

\* _publish_close_attempt(): complete when it succeeded or the cleanup began;
\* the outcome is kept for those who wait for it.
Publish(t) ==
  /\ thread[t] \in {"succeeded", "failed"} /\ owner = t
  /\ complete' = (complete \/ thread[t] = "succeeded" \/ cleanup # "not_started")
  /\ outcomes' = IF \E u \in Threads : waiting[u] = attempt
                 THEN [outcomes EXCEPT ![attempt] = IF thread[t] = "succeeded" THEN "ok" ELSE "failed"]
                 ELSE outcomes
  /\ owner' = NoOwner /\ ownerGone' = FALSE /\ Goto(t, "idle")
  /\ UNCHANGED <<gate, attempt, begun, checkpoint, cleanup, waiting, closes>>

\* The publication itself is interrupted: close() raises, and its frame is gone
\* while the attempt still has it for an owner.
PublishInterrupted(t) ==
  /\ thread[t] \in {"succeeded", "failed"} /\ owner = t
  /\ ownerGone' = TRUE /\ Goto(t, "idle")
  /\ UNCHANGED <<gate, attempt, owner, begun, checkpoint, cleanup, complete, waiters, closes>>

\* Mutant: a waiter does not look whether the owner is still there.
OwnerLost == FALSE

\* Nobody is there to publish the outcome a waiter waits for.
OwnerUnable == ~InProgress \/ ownerGone

\* _wait_for_close_attempt_locked(): the outcome is there, or nobody is left
\* to publish one.  The last waiter takes the outcome away.
WaiterReturns(t) ==
  /\ thread[t] = "waiting"
  /\ outcomes[waiting[t]] # "none" \/ OwnerUnable
  /\ waiting' = [waiting EXCEPT ![t] = 0] /\ Goto(t, "idle")
  /\ outcomes' = IF \E u \in Threads \ {t} : waiting[u] = waiting[t] THEN outcomes
                 ELSE [outcomes EXCEPT ![waiting[t]] = "none"]
  /\ UNCHANGED <<gate, closing, closes>>

----------------------------------------------------------------------------
OwnerStep(t) ==
  \/ BeginClose(t) \/ Drained(t) \/ Checkpoint(t)
  \/ CleanupStarts(t) \/ CleanupEnds(t) \/ Publish(t) \/ PublishInterrupted(t)

Step(t) == Operate(t) \/ EndOperation(t) \/ SettlementEnds(t)

Next ==
  \E t \in Threads :
    \/ BeginOperation(t) \/ Step(t)
    \/ CloseWaits(t) \/ CloseReclaimsTerminal(t) \/ CloseBegins(t)
    \/ OwnerStep(t) \/ WaiterReturns(t)

\* An owner's calls return or raise, its drain is bounded by a timeout, and a
\* waiter wakes up every 50 ms.
Fairness == \A t \in Threads : WF_vars(OwnerStep(t)) /\ WF_vars(WaiterReturns(t))

----------------------------------------------------------------------------
TypeOK ==
  /\ accepting \in BOOLEAN /\ settlements \subseteq Threads
  /\ attempt \in 0 .. MaxAttempts /\ owner \in Threads \union {NoOwner}
  /\ cleanup \in {"not_started", "started", "succeeded", "failed", "indeterminate"}
  /\ waiting \in [Threads -> 0 .. MaxAttempts]
  /\ outcomes \in [Attempts -> {"none", "ok", "failed"}]

\* The strategy is closed once at most, over all attempts and whoever reclaims
\* them, and never under an operation or a replacement settlement: the gate is
\* shut, and what went through it before has ended.
StrategyClosedOnce ==
  /\ closes <= 1
  /\ closes > 0 => Operating = {} /\ settlements = {} /\ checkpoint

\* A thread that waits for the attempt of another returns, also when that
\* owner is interrupted before it publishes the outcome.
CloseWaitersReturn ==
  \A t \in Threads : (thread[t] = "waiting") ~> (thread[t] # "waiting")
=============================================================================
