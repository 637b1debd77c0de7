------------------------- MODULE SnapshotRepository -------------------------
(***************************************************************************)
(* Chunked snapshots in a key-value store (queue/snapshot.py).  A commit   *)
(* writes the chunks of a new generation first and the manifest, the value *)
(* of the logical key, last; a read takes the manifest and then fetches    *)
(* the chunks it names one by one; maintenance deletes the chunks of the   *)
(* generations the manifest does not name.  Readers, commits and           *)
(* maintenance of one repository object exclude each other by leases.      *)
(*                                                                         *)
(* A generation is a number (the code draws a UUID), the payload of a      *)
(* chunk is left out: the key of a chunk holds its generation and index.   *)
(* Every storage call may fail, and a failed store may have been applied.  *)
(***************************************************************************)
EXTENDS Naturals, FiniteSets

CONSTANTS Threads,      \* callers of one repository object
          NoThread,     \* no maintenance is active
          MaxGen,       \* bound: commits in a behaviour
          MaxChunks,    \* bound: chunks of a snapshot
          MaxDeletions  \* max_deletions of one maintenance

VARIABLES
  manifest,  \* the generation the logical key names, 0 when absent
  length,    \* generation |-> number of chunks its commit writes
  chunks,    \* the chunk keys in the store, as <<generation, index>>
  readers, commits,    \* threads with a reader or a commit lease
  maintenance,         \* the thread that has _maintenance_active set
  call       \* what each thread is doing inside the repository

vars == <<manifest, length, chunks, readers, commits, maintenance, call>>

Generations == 1 .. MaxGen
Idle == [step |-> "idle", gen |-> 0, at |-> 0]
Chunk(g, i) == <<g, i>>
Complete(g) == \A i \in 1 .. length[g] : Chunk(g, i) \in chunks
NextGen == Cardinality({g \in Generations : length[g] # MaxChunks + 1}) + 1

\* No generation drawn yet has the length MaxChunks + 1.
Init ==
  /\ manifest = 0
  /\ length = [g \in Generations |-> MaxChunks + 1]
  /\ chunks = {}
  /\ readers = {} /\ commits = {} /\ maintenance = NoThread
  /\ call = [t \in Threads |-> Idle]

Goto(t, s, g, i) == call' = [call EXCEPT ![t] = [step |-> s, gen |-> g, at |-> i]]
Store == <<manifest, length, chunks>>
Leases == <<readers, commits, maintenance>>

\* Mutant: a read does not wait for maintenance.
ReadBeginAlways(t) ==
  /\ call[t].step = "idle"
  /\ readers' = readers \union {t}
  /\ Goto(t, "readManifest", 0, 0)
  /\ UNCHANGED <<Store, commits, maintenance>>

\* read(): wait while maintenance is active, then take a reader lease.
ReadBegin(t) ==
  /\ call[t].step = "idle" /\ maintenance = NoThread
  /\ readers' = readers \union {t}
  /\ Goto(t, "readManifest", 0, 0)
  /\ UNCHANGED <<Store, commits, maintenance>>

\* The reader lease ends with the read, whatever its outcome.
ReadEnds(t) ==
  /\ readers' = readers \ {t}
  /\ call' = [call EXCEPT ![t] = Idle]
  /\ UNCHANGED <<Store, commits, maintenance>>

\* The manifest fixes the generation the chunks are taken from.  An absent
\* manifest, an empty snapshot and a failed retrieval end the read.
ReadManifest(t) ==
  /\ call[t].step = "readManifest"
  /\ \/ /\ manifest # 0 /\ length[manifest] > 0
        /\ Goto(t, "readChunk", manifest, 1)
        /\ UNCHANGED <<Store, Leases>>
     \/ ReadEnds(t)

\* The next chunk, or the end of the read: the last chunk was there, a chunk
\* is missing, or the store failed.
ReadChunk(t) ==
  /\ call[t].step = "readChunk"
  /\ LET c == call[t] IN
     \/ /\ Chunk(c.gen, c.at) \in chunks /\ c.at < length[c.gen]
        /\ Goto(t, "readChunk", c.gen, c.at + 1)
        /\ UNCHANGED <<Store, Leases>>
     \/ ReadEnds(t)

\* commit(): a commit lease and a generation of its own.
CommitBegin(t) ==
  /\ call[t].step = "idle" /\ maintenance = NoThread /\ NextGen \in Generations
  /\ commits' = commits \union {t}
  /\ \E n \in 0 .. MaxChunks :
       /\ length' = [length EXCEPT ![NextGen] = n]
       /\ Goto(t, IF n = 0 THEN "writeManifest" ELSE "writeChunk", NextGen, 1)
  /\ UNCHANGED <<manifest, chunks, readers, maintenance>>

CommitEnds(t) ==
  /\ commits' = commits \ {t}
  /\ call' = [call EXCEPT ![t] = Idle]
  /\ UNCHANGED <<readers, maintenance>>

\* _store(): a store that raises counts as done when the read-back shows the
\* value; otherwise the commit fails, whether the value arrived or not.
WriteChunk(t) ==
  /\ call[t].step = "writeChunk"
  /\ LET c == call[t] IN
     \/ /\ chunks' = chunks \union {Chunk(c.gen, c.at)}
        /\ Goto(t, IF c.at < length[c.gen] THEN "writeChunk" ELSE "writeManifest",
                c.gen, c.at + 1)
        /\ UNCHANGED Leases
     \/ /\ chunks' \in {chunks, chunks \union {Chunk(c.gen, c.at)}}
        /\ CommitEnds(t)
  /\ UNCHANGED <<manifest, length>>

\* The manifest is the last write of a commit.
WriteManifest(t) ==
  /\ call[t].step = "writeManifest"
  /\ manifest' \in {manifest, call[t].gen}
  /\ CommitEnds(t)
  /\ UNCHANGED <<length, chunks>>

\* gc(): maintenance is announced first, so that no lease is given from here
\* on, and then waits for the leases already given.
GcBegin(t) ==
  /\ call[t].step = "idle" /\ maintenance = NoThread
  /\ maintenance' = t
  /\ Goto(t, "gcDrain", 0, 0)
  /\ UNCHANGED <<Store, readers, commits>>

GcReturns(t) ==
  /\ maintenance' = NoThread
  /\ call' = [call EXCEPT ![t] = Idle]
  /\ UNCHANGED <<readers, commits>>

\* Mutant: maintenance waits for the commits only.
GcDrainedOfCommits(t) ==
  /\ call[t].step = "gcDrain" /\ commits = {}
  /\ IF manifest # 0 /\ Complete(manifest)
     THEN Goto(t, "gcDelete", manifest, 0) /\ UNCHANGED Leases
     ELSE GcReturns(t)
  /\ UNCHANGED Store

\* Drained: the current snapshot is read in full; when it is absent or
\* unreadable nothing is deleted.
GcDrained(t) ==
  /\ call[t].step = "gcDrain" /\ readers = {} /\ commits = {}
  /\ \/ /\ manifest # 0 /\ Complete(manifest)
        /\ Goto(t, "gcDelete", manifest, 0)
        /\ UNCHANGED Leases
     \/ GcReturns(t)
  /\ UNCHANGED Store

Stale(g) == {k \in chunks : k[1] # g}

\* _delete_and_confirm() of one stale chunk, up to max_deletions; a deletion
\* that is not confirmed ends the maintenance, and may have been applied.
GcDelete(t) ==
  /\ call[t].step = "gcDelete"
  /\ \E k \in Stale(call[t].gen) :
       /\ call[t].at < MaxDeletions
       /\ \/ /\ chunks' = chunks \ {k}
             /\ Goto(t, "gcDelete", call[t].gen, call[t].at + 1)
             /\ UNCHANGED Leases
          \/ /\ chunks' \in {chunks, chunks \ {k}}
             /\ GcReturns(t)
  /\ UNCHANGED <<manifest, length>>

\* Nothing stale is left, or the deletions allowed are used up.
GcDone(t) ==
  /\ call[t].step = "gcDelete"
  /\ Stale(call[t].gen) = {} \/ call[t].at = MaxDeletions
  /\ GcReturns(t)
  /\ UNCHANGED Store

\* The process stops between any two storage calls; the next one has a new
\* repository object over the same store.
Crash ==
  /\ \E t \in Threads : call[t].step # "idle"
  /\ readers' = {} /\ commits' = {} /\ maintenance' = NoThread
  /\ call' = [t \in Threads |-> Idle]
  /\ UNCHANGED Store

Step(t) ==
  \/ ReadManifest(t) \/ ReadChunk(t) \/ WriteChunk(t) \/ WriteManifest(t)
  \/ GcDrained(t) \/ GcDelete(t) \/ GcDone(t)

Begin(t) == ReadBegin(t) \/ CommitBegin(t) \/ GcBegin(t)

Next == Crash \/ \E t \in Threads : Begin(t) \/ Step(t)

\* A storage call returns or raises, so a thread inside the repository goes on.
Fairness == \A t \in Threads : WF_vars(Step(t))

----------------------------------------------------------------------------
TypeOK ==
  /\ manifest \in {0} \union Generations
  /\ length \in [Generations -> 0 .. MaxChunks + 1]
  /\ chunks \subseteq (Generations \X (1 .. MaxChunks))
  /\ readers \subseteq Threads /\ commits \subseteq Threads
  /\ maintenance \in Threads \union {NoThread}

\* The snapshot the key names can always be read in full, through every
\* failed write, crash, concurrent commit and maintenance; and so can the one
\* a read in progress has started on (the manifest-last order of
\* _commit_terminal and the leases of read, commit and gc).
SnapshotIntact ==
  /\ manifest # 0 => Complete(manifest)
  /\ \A t \in readers : call[t].gen # 0 => Complete(call[t].gen)

\* Maintenance that waits for the readers and commits under way gets its turn,
\* since _maintenance_lease announces itself before it waits.
MaintenanceReturns ==
  \A t \in Threads : (call[t].step = "gcDrain") ~> (call[t].step = "idle")
=============================================================================
