-------------------------- MODULE QueueCheckpoint --------------------------
(***************************************************************************)
(* The checkpoint a queue leaves at close and takes up at open             *)
(* (BackendQueue._restore_snapshot, _persist_snapshot, reset_snapshot in   *)
(* queue/queue.py), over successive lives of the process and with          *)
(* crashes.  Three keys of the store matter: the current snapshot, the     *)
(* legacy key an older version wrote, and a tombstone that says the legacy *)
(* state has been consumed.                                                *)
(*                                                                         *)
(* A commit of the repository is one write here: SnapshotRepository shows  *)
(* that the snapshot a manifest names is complete.  Entries are the        *)
(* messages a strategy holds in memory; a strategy that holds none has the *)
(* snapshot None, which the commit stores as an empty manifest.            *)
(***************************************************************************)
EXTENDS FiniteSets

CONSTANTS Entries,   \* messages
          Absent     \* the value of a key that is not in the store

VARIABLES
  current, legacy, tombstone,  \* the three keys of the store
  legacyKey,   \* the queue has a legacy key (unscoped, without an owner)
  supported,   \* the manager offers a storage backend
  held,        \* what the strategy holds in memory
  fenced, deferred, retiring,  \* _snapshot_persistence_fenced,
               \* _defer_legacy_retirement, _legacy_snapshot_retirement_pending
  stage,       \* where the process is: "down", "open", "closing", or a step
               \* of _persist_snapshot, or "cleanup"
  checkpointed,  \* _checkpoint_complete
  \* History variables.
  opened,      \* how the last open went, until the first operation
  popped,      \* entries popped in this life
  gone,        \* entries popped in a life that left a checkpoint
  owed,        \* entries a checkpoint covers and nobody popped since
  overwritten, \* entries of a legacy checkpoint that was replaced unread
  doubt        \* a tombstone could not be read: replay is accepted

store == <<current, legacy, tombstone, legacyKey, supported>>
flags == <<fenced, deferred, retiring>>
history == <<popped, gone, owed, overwritten, doubt>>
vars == <<store, held, flags, stage, checkpointed, opened, history>>

Snapshots == {Absent} \union SUBSET Entries

Init ==
  /\ legacyKey \in BOOLEAN /\ supported \in BOOLEAN
  /\ current = Absent /\ tombstone = FALSE
  /\ legacy \in IF legacyKey /\ supported THEN {Absent} \union {{e} : e \in Entries}
                ELSE {Absent}
  /\ held = {} /\ fenced = FALSE /\ deferred = FALSE /\ retiring = FALSE
  /\ stage = "down" /\ checkpointed = FALSE /\ opened = "no"
  /\ popped = {} /\ gone = {} /\ overwritten = {} /\ doubt = FALSE
  /\ owed = IF legacy = Absent THEN {} ELSE legacy

\* A new queue object, with what the restore put into it.
Opens(how, contents, fence, defer, retire) ==
  /\ stage = "down" /\ stage' = "open" /\ checkpointed' = FALSE
  /\ opened' = how /\ held' = contents
  /\ fenced' = fence /\ deferred' = defer /\ retiring' = retire
  /\ popped' = {}
  /\ UNCHANGED <<store, gone, owed, overwritten>>

\* Mutant: a snapshot that could not be read is taken for an absent one.
OpenUnfenced ==
  /\ supported
  /\ Opens("faulty", {}, FALSE, FALSE, FALSE)
  /\ UNCHANGED doubt

\* The storage could not be resolved, the current snapshot could not be read
\* or the strategy refused it: start empty and fence the checkpoint.
OpenFenced ==
  /\ supported
  /\ Opens("faulty", {}, TRUE, FALSE, FALSE)
  /\ UNCHANGED doubt

\* No storage, or a current snapshot: it alone decides what is restored.
OpenCurrent ==
  /\ ~supported \/ current # Absent
  /\ Opens("sound", IF current = Absent THEN {} ELSE current, FALSE, FALSE, FALSE)
  /\ UNCHANGED doubt

\* No current snapshot and no legacy key, or a tombstone over the legacy one.
OpenEmpty ==
  /\ supported /\ current = Absent /\ (~legacyKey \/ tombstone)
  /\ Opens("sound", {}, FALSE, FALSE, FALSE)
  /\ UNCHANGED doubt

\* Mutant: the tombstone is not looked at.
LegacyAlwaysConsulted ==
  /\ supported /\ current = Absent /\ legacyKey
  /\ UNCHANGED doubt

\* The legacy checkpoint is read when there is no tombstone, or when the
\* tombstone could not be read.
LegacyConsulted ==
  /\ supported /\ current = Absent /\ legacyKey
  /\ doubt' \in IF tombstone THEN {TRUE} ELSE {doubt, TRUE}

OpenLegacy ==
  /\ LegacyConsulted
  /\ Opens("sound", IF legacy = Absent THEN {} ELSE legacy, FALSE, FALSE,
           legacy # Absent)

\* The legacy checkpoint could not be read: its retirement is deferred.
OpenLegacyUnread ==
  /\ LegacyConsulted
  /\ Opens("faulty", {}, FALSE, TRUE, FALSE)

\* The strategy refused the legacy state after it was read.
OpenLegacyRefused ==
  /\ LegacyConsulted /\ legacy # Absent
  /\ Opens("faulty", {}, TRUE, FALSE, TRUE)

\* Every entry is pushed once; the strategy holds it in memory.
Push(e) ==
  /\ stage = "open" /\ e \notin held \union popped \union gone \union owed
  /\ held' = held \union {e} /\ opened' = "no"
  /\ UNCHANGED <<store, flags, stage, checkpointed, history>>

Pop(e) ==
  /\ stage = "open" /\ e \in held
  /\ held' = held \ {e} /\ popped' = popped \union {e} /\ opened' = "no"
  /\ UNCHANGED <<store, flags, stage, checkpointed, gone, owed, overwritten, doubt>>

\* reset_snapshot(): the operator gives up what the fence protected.
ResetSnapshot ==
  /\ stage \in {"open", "closing"} /\ fenced
  /\ fenced' = FALSE /\ owed' = {} /\ opened' = "no"
  /\ UNCHANGED <<store, held, deferred, retiring, stage, checkpointed, popped, gone,
                 overwritten, doubt>>

\* close(): a first attempt or a retry.  A lossy close skips the checkpoint.
Close(lossy) ==
  /\ stage \in {"open", "closing"}
  /\ stage' = IF checkpointed \/ lossy THEN "cleanup" ELSE "persist"
  /\ checkpointed' = (checkpointed \/ lossy)
  /\ opened' = "no"
  /\ UNCHANGED <<store, held, flags, history>>

Goto(s) == stage' = s /\ checkpointed' = (checkpointed \/ s = "cleanup")
Stays == UNCHANGED <<store, held, flags, opened, history>>

\* The attempt failed before the checkpoint: the next close retries it.
\* Fenced, the snapshot could not be taken, the storage could not be resolved,
\* or there is state and no storage to put it in.
PersistFails == stage = "persist" /\ Goto("closing") /\ Stays

\* Nothing to store and nowhere to store it.
PersistNothing ==
  /\ stage = "persist" /\ ~fenced /\ ~supported /\ held = {} /\ ~deferred
  /\ Goto("cleanup") /\ Stays

\* A legacy checkpoint was not read and there is no state to replace it: the
\* current key stays absent and the tombstone is removed, for a later restart.
KeepUnreadLegacy ==
  /\ stage = "persist" /\ ~fenced /\ supported /\ deferred /\ held = {}
  /\ \/ tombstone' = FALSE /\ deferred' = FALSE /\ Goto("cleanup")
     \/ tombstone' \in {tombstone, FALSE} /\ Goto("closing") /\ UNCHANGED deferred
  /\ UNCHANGED <<current, legacy, legacyKey, supported, held, fenced, retiring,
                 opened, history>>

Persists ==
  /\ stage = "persist" /\ ~fenced /\ supported /\ ~(deferred /\ held = {})

\* The legacy state was consumed: the tombstone goes first.
WriteTombstone ==
  /\ Persists /\ held = {} /\ retiring
  /\ tombstone' \in {tombstone, TRUE}
  /\ Goto(IF tombstone' THEN "commit" ELSE "closing") \/ Goto("closing")
  /\ IF tombstone' THEN gone' = gone \union popped /\ owed' = owed \ popped
     ELSE UNCHANGED <<gone, owed>>
  /\ UNCHANGED <<current, legacy, legacyKey, supported, held, flags, opened, popped,
                 overwritten, doubt>>

\* The entries of a legacy checkpoint that this life could not read.
Unread == IF deferred /\ legacy # Absent THEN legacy ELSE {}

\* The snapshot is committed; a commit that reports failure may have been
\* applied.  It takes the place of a legacy checkpoint that was never read.
Commits ==
  /\ current' = held
  /\ gone' = gone \union popped
  /\ owed' = (owed \ popped) \union held
  /\ overwritten' = (overwritten \union Unread) \ held

WriteSnapshot ==
  /\ stage = "commit" \/ (Persists /\ ~(held = {} /\ retiring))
  /\ \/ Commits /\ deferred' = FALSE
        /\ Goto(IF legacyKey THEN "retire" ELSE "cleanup")
     \/ Commits /\ Goto("closing") /\ UNCHANGED deferred
     \/ Goto("closing") /\ UNCHANGED <<current, gone, owed, overwritten, deferred>>
  /\ UNCHANGED <<legacy, tombstone, legacyKey, supported, held, fenced, retiring,
                 opened, popped, doubt>>

\* Best effort: the legacy key is deleted, then its tombstone.
RetireLegacy ==
  /\ stage = "retire"
  /\ \/ legacy' = Absent /\ Goto("retireTombstone")
     \/ legacy' \in {legacy, Absent} /\ Goto("cleanup")
  /\ UNCHANGED <<current, tombstone, legacyKey, supported, held, flags, opened, history>>

RetireTombstone ==
  /\ stage = "retireTombstone" /\ Goto("cleanup")
  /\ tombstone' \in {tombstone, FALSE}
  /\ UNCHANGED <<current, legacy, legacyKey, supported, held, flags, opened, history>>

\* The strategy is closed, or the process stops at any point before that.
Cleanup == stage = "cleanup" /\ stage' = "down" /\ held' = {}
           /\ UNCHANGED <<store, flags, checkpointed, opened, history>>
Crash == stage \notin {"down", "cleanup"} /\ stage' = "down" /\ held' = {}
         /\ opened' = "no"
         /\ UNCHANGED <<store, flags, checkpointed, history>>

Next ==
  \/ OpenFenced \/ OpenCurrent \/ OpenEmpty \/ OpenLegacy \/ OpenLegacyUnread
  \/ OpenLegacyRefused \/ ResetSnapshot
  \/ \E e \in Entries : Push(e) \/ Pop(e)
  \/ \E lossy \in BOOLEAN : Close(lossy)
  \/ PersistFails \/ PersistNothing \/ KeepUnreadLegacy \/ WriteTombstone
  \/ WriteSnapshot \/ RetireLegacy \/ RetireTombstone
  \/ Cleanup \/ Crash

----------------------------------------------------------------------------
TypeOK ==
  /\ current \in Snapshots /\ legacy \in Snapshots /\ tombstone \in BOOLEAN
  /\ held \subseteq Entries
  /\ {fenced, deferred, retiring, checkpointed} \subseteq BOOLEAN
  /\ popped \subseteq Entries /\ gone \subseteq Entries /\ owed \subseteq Entries
  /\ overwritten \subseteq Entries

\* A queue whose restore met no fault holds every entry a checkpoint covered
\* and nobody popped since: a read that failed in an earlier life must not let
\* that life's close overwrite the snapshot it never saw (the fence of
\* _restore_snapshot, the deferral of _persist_snapshot).  The one exception
\* is a legacy checkpoint that could not be read, when there is state to
\* commit over it.
CheckpointRestored == opened = "sound" => owed \ overwritten \subseteq held

\* What the design of the deferral promises without that exception: a legacy
\* checkpoint whose read failed is there for a later restart.
UnreadLegacyRecovered == opened = "sound" => owed \subseteq held

\* Nor does it hold an entry that was popped before a checkpoint was written,
\* through every crash between the writes of _persist_snapshot, unless the
\* tombstone could not be read.
NothingReplayed == (opened = "sound" /\ ~doubt) => held \intersect gone = {}
=============================================================================
