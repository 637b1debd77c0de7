----------------------------- MODULE MCShutdown -----------------------------
(***************************************************************************)
(* What a crawl's data goes through at a shutdown, one part after the      *)
(* other: the queue's snapshot repository, its checkpoint over restarts,   *)
(* the close of the queue by several threads, and the item pipeline.       *)
(* "which" says whose behaviours are explored; the others stay in an       *)
(* initial state.                                                          *)
(***************************************************************************)
EXTENDS Naturals

CONSTANTS Threads, NoThread, NoOwner, Entries, Absent,
          MaxGen, MaxChunks, MaxDeletions, MaxAttempts,
          Workers, Nobody, MaxErrors, MaxItems, MaxCloses

\* The marks of "nobody" are no thread and no worker, that of an absent key is
\* no snapshot; the bounds are numbers.
ASSUME MarksAssumption ==
  NoThread \notin Threads /\ NoOwner \notin Threads
ASSUME WorkersAssumption ==
  Nobody \notin Workers /\ "reserved" \notin Workers \union {Nobody}
ASSUME AbsentAssumption == \A s \in SUBSET Entries : s # Absent
ASSUME BoundsAssumption ==
  /\ MaxGen \in Nat /\ MaxChunks \in Nat /\ MaxDeletions \in Nat
  /\ MaxAttempts \in Nat /\ MaxErrors \in Nat /\ MaxItems \in Nat /\ MaxCloses \in Nat

VARIABLES
  which,
  manifest, length, chunks, readers, commits, maintenance, call,
  current, legacy, tombstone, legacyKey, supported, held, fenced, deferred,
  retiring, stage, checkpointed, opened, popped, gone, owed, overwritten,
  doubt,
  accepting, thread, settlements, attempt, owner, ownerGone, begun, checkpoint,
  cleanup, complete, waiting, outcomes, closes,
  reactor, opens, opener, requested, chained, openState, latched, pending, closer,
  tail, at, forced, strategy, manager, errors, items, attempts, silent, lapsed

repositoryVars == <<manifest, length, chunks, readers, commits, maintenance, call>>
checkpointVars == <<current, legacy, tombstone, legacyKey, supported, held, fenced,
                    deferred, retiring, stage, checkpointed, opened, popped, gone,
                    owed, overwritten, doubt>>
lifecycleVars == <<accepting, thread, settlements, attempt, owner, ownerGone, begun,
                   checkpoint, cleanup, complete, waiting, outcomes, closes>>
pipelineVars == <<reactor, opens, opener, requested, chained, openState, latched,
                  pending, closer, tail, at, forced, strategy, manager, errors, items,
                  attempts, silent, lapsed>>

Repository == INSTANCE SnapshotRepository
Checkpoint == INSTANCE QueueCheckpoint
Lifecycle == INSTANCE QueueLifecycle
Pipeline == INSTANCE ItemPipeline

MCInit ==
  /\ which \in {"repository", "checkpoint", "lifecycle", "pipeline"}
  /\ Repository!Init /\ Checkpoint!Init /\ Lifecycle!Init /\ Pipeline!Init
  /\ which # "checkpoint" => ~legacyKey /\ ~supported
  /\ which # "pipeline" => reactor

MCNext ==
  /\ which' = which
  /\ \/ /\ which = "repository" /\ Repository!Next
        /\ UNCHANGED <<checkpointVars, lifecycleVars, pipelineVars>>
     \/ /\ which = "checkpoint" /\ Checkpoint!Next
        /\ UNCHANGED <<repositoryVars, lifecycleVars, pipelineVars>>
     \/ /\ which = "lifecycle" /\ Lifecycle!Next
        /\ UNCHANGED <<repositoryVars, checkpointVars, pipelineVars>>
     \/ /\ which = "pipeline" /\ Pipeline!Next
        /\ UNCHANGED <<repositoryVars, checkpointVars, lifecycleVars>>

MCvars == <<which, repositoryVars, checkpointVars, lifecycleVars, pipelineVars>>

MCSpec ==
  /\ MCInit /\ [][MCNext]_MCvars
  /\ Repository!Fairness /\ Lifecycle!Fairness /\ Pipeline!Fairness

\* The snapshot a manifest names, and the one a read is in the middle of, are
\* complete in the store (read, commit and gc of SnapshotRepository).  Here and
\* below, each part's type invariant goes with its first property.
SnapshotIntact == Repository!TypeOK /\ Repository!SnapshotIntact

\* A restore without a fault brings back every entry a checkpoint owes, those
\* of a legacy checkpoint that was replaced unread excepted (_restore_snapshot
\* and _persist_snapshot).
CheckpointRestored == Checkpoint!TypeOK /\ Checkpoint!CheckpointRestored

\* The same without the exception: "a later restart can still recover the
\* checkpoint" (the design of _defer_legacy_retirement).
UnreadLegacyRecovered == Checkpoint!UnreadLegacyRecovered

\* And no entry that was popped before a checkpoint (the tombstone of
\* _persist_snapshot).
NothingReplayed == Checkpoint!NothingReplayed

\* The strategy is closed once, after operations and settlements (close).
StrategyClosedOnce == Lifecycle!TypeOK /\ Lifecycle!StrategyClosedOnce

\* Who waits for another thread's close returns
\* (_wait_for_close_attempt_locked).
CloseWaitersReturn == Lifecycle!CloseWaitersReturn

\* Maintenance gets its turn (_maintenance_lease).
MaintenanceReturns == Repository!MaintenanceReturns

\* The pipeline's manager goes after its probes, stores and flushes
\* (BackendPipeline._close_locked).
ManagerGoesLast == Pipeline!TypeOK /\ Pipeline!ManagerGoesLast

\* Lost items are raised after max_storage_errors in a row
\* (_process_item_unlocked).
LossesAreRaised == Pipeline!LossesAreRaised

\* Every call of the pipeline returns and every queued item has its turn
\* (_process_item_async, _close_spider_async).
CallsReturn == Pipeline!CallsReturn

\* A close that failed can be retried (the docstring of _close_locked).
FailedCloseRetryable == Pipeline!FailedCloseRetryable
=============================================================================
