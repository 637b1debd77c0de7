--------------------------- MODULE ShutdownProofs ---------------------------
(***************************************************************************)
(* Proofs about what a crawl's data goes through at a shutdown: the close  *)
(* of the queue, its checkpoint over restarts, the snapshot repository,    *)
(* the item pipeline and the scheduler, each from its own specification.   *)
(***************************************************************************)
EXTENDS MCShutdown, SchedulerLifecycle, Sequences, FiniteSetTheorems, SequenceTheorems, TLAPS

----------------------------------------------------------------------------
(* The close of a queue (QueueLifecycle). *)

OwnerStages == {"begin_close", "draining", "checkpointing", "cleaning",
                "closing_strategy", "succeeded", "failed"}

LifecycleTypes ==
  /\ Lifecycle!TypeOK
  /\ thread \in [Threads -> OwnerStages \union {"idle", "operating", "operated", "waiting"}]
  /\ \A t \in Threads : thread[t] = "waiting" => waiting[t] # 0
  /\ owner # NoOwner => attempt # 0
  /\ begun \in BOOLEAN /\ ownerGone \in BOOLEAN /\ checkpoint \in BOOLEAN /\ complete \in BOOLEAN

\* A thread in the stages of a close owns the attempt, and its frame is there.
OneOwner == \A t \in Threads : thread[t] \in OwnerStages => owner = t /\ ~ownerGone

\* The gate stays shut from the first attempt on.
GateShut == (owner # NoOwner \/ checkpoint) => ~accepting

\* Past the drain nothing that came through the gate is left.
StaysDrained ==
  (\/ cleanup # "not_started" \/ checkpoint
   \/ \E t \in Threads : thread[t] \in {"checkpointing", "cleaning"})
    => Lifecycle!Operating = {} /\ settlements = {}

\* strategy.close() was called if the cleanup has begun, and then the close is
\* over or belongs to an attempt that is past the call.
CleanupBegun ==
  /\ closes = IF cleanup = "not_started" THEN 0 ELSE 1
  /\ cleanup # "not_started" => checkpoint /\ (owner # NoOwner \/ complete)
  /\ \A t \in Threads :
       /\ thread[t] \in {"begin_close", "draining", "checkpointing", "cleaning"}
            => cleanup = "not_started"
       /\ thread[t] = "cleaning" => checkpoint
       /\ thread[t] = "closing_strategy" => cleanup # "not_started"

LifecycleInv ==
  LifecycleTypes /\ OneOwner /\ GateShut /\ StaysDrained /\ CleanupBegun

\* The inductive invariant holds at the start.
LEMMA LifecycleInit == Lifecycle!Init => LifecycleInv
  <1> SUFFICES ASSUME Lifecycle!Init PROVE LifecycleInv
    OBVIOUS
  <1> USE MarksAssumption, BoundsAssumption
      DEF Lifecycle!Init, Lifecycle!Attempts, Lifecycle!Operating, OwnerStages
  <1>1. LifecycleTypes
    <2>1. Lifecycle!TypeOK
      BY DEF Lifecycle!TypeOK
    <2>2. thread \in [Threads -> OwnerStages \union {"idle", "operating", "operated", "waiting"}]
      OBVIOUS
    <2> QED BY <2>1, <2>2 DEF LifecycleTypes
  <1>2. OneOwner /\ GateShut
    BY DEF OneOwner, GateShut
  <1>3. StaysDrained
    BY DEF StaysDrained
  <1>4. CleanupBegun
    BY DEF CleanupBegun
  <1> QED BY <1>1, <1>2, <1>3, <1>4 DEF LifecycleInv
\* Every action of the lifecycle preserves it.
LEMMA BeginOperationKeeps ==
  ASSUME LifecycleInv, NEW t \in Threads, Lifecycle!BeginOperation(t)
  PROVE  LifecycleInv'
  <1> USE MarksAssumption, BoundsAssumption
      DEF Lifecycle!BeginOperation, Lifecycle!Goto, Lifecycle!gate, Lifecycle!waiters, Lifecycle!closing,
          LifecycleInv, LifecycleTypes, OneOwner, OwnerStages, Lifecycle!TypeOK,
          Lifecycle!Attempts, Lifecycle!InProgress, Lifecycle!Operating
  <1>1. LifecycleTypes'
    OBVIOUS
  <1>2. OneOwner'
    OBVIOUS
  <1>3. GateShut'
    BY DEF GateShut
  <1>4. StaysDrained'
    BY DEF GateShut, StaysDrained, CleanupBegun
  <1>5. CleanupBegun'
    BY DEF CleanupBegun
  <1> QED BY <1>1, <1>2, <1>3, <1>4, <1>5

LEMMA OperateKeeps ==
  ASSUME LifecycleInv, NEW t \in Threads, Lifecycle!Operate(t)
  PROVE  LifecycleInv'
  <1> USE MarksAssumption, BoundsAssumption
      DEF Lifecycle!Operate, Lifecycle!Goto, Lifecycle!gate, Lifecycle!waiters, Lifecycle!closing,
          LifecycleInv, LifecycleTypes, OneOwner, OwnerStages, Lifecycle!TypeOK,
          Lifecycle!Attempts, Lifecycle!InProgress, Lifecycle!Operating
  <1>1. LifecycleTypes'
    OBVIOUS
  <1>2. OneOwner'
    OBVIOUS
  <1>3. GateShut'
    BY DEF GateShut
  <1>4. StaysDrained'
    BY DEF GateShut, StaysDrained, CleanupBegun
  <1>5. CleanupBegun'
    BY DEF CleanupBegun
  <1> QED BY <1>1, <1>2, <1>3, <1>4, <1>5

LEMMA EndOperationKeeps ==
  ASSUME LifecycleInv, NEW t \in Threads, Lifecycle!EndOperation(t)
  PROVE  LifecycleInv'
  <1> USE MarksAssumption, BoundsAssumption
      DEF Lifecycle!EndOperation, Lifecycle!Goto, Lifecycle!gate, Lifecycle!waiters, Lifecycle!closing,
          LifecycleInv, LifecycleTypes, OneOwner, OwnerStages, Lifecycle!TypeOK,
          Lifecycle!Attempts, Lifecycle!InProgress, Lifecycle!Operating
  <1>1. LifecycleTypes'
    OBVIOUS
  <1>2. OneOwner'
    OBVIOUS
  <1>3. GateShut'
    BY DEF GateShut
  <1>4. StaysDrained'
    BY DEF GateShut, StaysDrained, CleanupBegun
  <1>5. CleanupBegun'
    BY DEF CleanupBegun
  <1> QED BY <1>1, <1>2, <1>3, <1>4, <1>5

LEMMA SettlementEndsKeeps ==
  ASSUME LifecycleInv, NEW t \in Threads, Lifecycle!SettlementEnds(t)
  PROVE  LifecycleInv'
  <1> USE MarksAssumption, BoundsAssumption
      DEF Lifecycle!SettlementEnds, Lifecycle!Goto, Lifecycle!gate, Lifecycle!waiters, Lifecycle!closing,
          LifecycleInv, LifecycleTypes, OneOwner, OwnerStages, Lifecycle!TypeOK,
          Lifecycle!Attempts, Lifecycle!InProgress, Lifecycle!Operating
  <1>1. LifecycleTypes'
    OBVIOUS
  <1>2. OneOwner'
    OBVIOUS
  <1>3. GateShut'
    BY DEF GateShut
  <1>4. StaysDrained'
    BY DEF GateShut, StaysDrained, CleanupBegun
  <1>5. CleanupBegun'
    BY DEF CleanupBegun
  <1> QED BY <1>1, <1>2, <1>3, <1>4, <1>5

LEMMA CloseWaitsKeeps ==
  ASSUME LifecycleInv, NEW t \in Threads, Lifecycle!CloseWaits(t)
  PROVE  LifecycleInv'
  <1> USE MarksAssumption, BoundsAssumption
      DEF Lifecycle!CloseWaits, Lifecycle!Goto, Lifecycle!gate, Lifecycle!waiters, Lifecycle!closing,
          LifecycleInv, LifecycleTypes, OneOwner, OwnerStages, Lifecycle!TypeOK,
          Lifecycle!Attempts, Lifecycle!InProgress, Lifecycle!Operating
  <1>1. LifecycleTypes'
    OBVIOUS
  <1>2. OneOwner'
    OBVIOUS
  <1>3. GateShut'
    BY DEF GateShut
  <1>4. StaysDrained'
    BY DEF GateShut, StaysDrained, CleanupBegun
  <1>5. CleanupBegun'
    BY DEF CleanupBegun
  <1> QED BY <1>1, <1>2, <1>3, <1>4, <1>5

LEMMA CloseReclaimsTerminalKeeps ==
  ASSUME LifecycleInv, NEW t \in Threads, Lifecycle!CloseReclaimsTerminal(t)
  PROVE  LifecycleInv'
  <1> USE MarksAssumption, BoundsAssumption
      DEF Lifecycle!CloseReclaimsTerminal, Lifecycle!Goto, Lifecycle!gate, Lifecycle!waiters, Lifecycle!closing,
          LifecycleInv, LifecycleTypes, OneOwner, OwnerStages, Lifecycle!TypeOK,
          Lifecycle!Attempts, Lifecycle!InProgress, Lifecycle!Operating
  <1>1. LifecycleTypes'
    OBVIOUS
  <1>2. OneOwner'
    OBVIOUS
  <1>3. GateShut'
    BY DEF GateShut
  <1>4. StaysDrained'
    BY DEF GateShut, StaysDrained, CleanupBegun
  <1>5. CleanupBegun'
    BY DEF CleanupBegun
  <1> QED BY <1>1, <1>2, <1>3, <1>4, <1>5

LEMMA CloseBeginsKeeps ==
  ASSUME LifecycleInv, NEW t \in Threads, Lifecycle!CloseBegins(t)
  PROVE  LifecycleInv'
  <1> USE MarksAssumption, BoundsAssumption
      DEF Lifecycle!CloseBegins, Lifecycle!Goto, Lifecycle!gate, Lifecycle!waiters, Lifecycle!closing,
          LifecycleInv, LifecycleTypes, OneOwner, OwnerStages, Lifecycle!TypeOK,
          Lifecycle!Attempts, Lifecycle!InProgress, Lifecycle!Operating
  <1>1. LifecycleTypes'
    <2>1. attempt' \in 0 .. MaxAttempts /\ attempt' # 0
      OBVIOUS
    <2>2. thread' \in [Threads -> OwnerStages \union {"idle", "operating", "operated", "waiting"}]
      OBVIOUS
    <2>3. \A u \in Threads : thread'[u] = "waiting" => waiting'[u] # 0
      OBVIOUS
    <2> QED BY <2>1, <2>2, <2>3
  <1>2. OneOwner'
    OBVIOUS
  <1>3. GateShut'
    BY DEF GateShut
  <1>4. StaysDrained'
    BY DEF GateShut, StaysDrained, CleanupBegun
  <1>5. CleanupBegun'
    BY DEF CleanupBegun
  <1> QED BY <1>1, <1>2, <1>3, <1>4, <1>5

LEMMA BeginCloseKeeps ==
  ASSUME LifecycleInv, NEW t \in Threads, Lifecycle!BeginClose(t)
  PROVE  LifecycleInv'
  <1> USE MarksAssumption, BoundsAssumption
      DEF Lifecycle!BeginClose, Lifecycle!Finishes, Lifecycle!Goto, Lifecycle!gate, Lifecycle!waiters, Lifecycle!closing,
          LifecycleInv, LifecycleTypes, OneOwner, OwnerStages, Lifecycle!TypeOK,
          Lifecycle!Attempts, Lifecycle!InProgress, Lifecycle!Operating
  <1>1. LifecycleTypes'
    OBVIOUS
  <1>2. OneOwner'
    OBVIOUS
  <1>3. GateShut'
    BY DEF GateShut
  <1>4. StaysDrained'
    BY DEF GateShut, StaysDrained, CleanupBegun
  <1>5. CleanupBegun'
    BY DEF CleanupBegun
  <1> QED BY <1>1, <1>2, <1>3, <1>4, <1>5

LEMMA DrainedKeeps ==
  ASSUME LifecycleInv, NEW t \in Threads, Lifecycle!Drained(t)
  PROVE  LifecycleInv'
  <1> USE MarksAssumption, BoundsAssumption
      DEF Lifecycle!Drained, Lifecycle!Goto, Lifecycle!gate, Lifecycle!waiters, Lifecycle!closing,
          LifecycleInv, LifecycleTypes, OneOwner, OwnerStages, Lifecycle!TypeOK,
          Lifecycle!Attempts, Lifecycle!InProgress, Lifecycle!Operating
  <1>1. LifecycleTypes'
    OBVIOUS
  <1>2. OneOwner'
    OBVIOUS
  <1>3. GateShut'
    BY DEF GateShut
  <1>4. StaysDrained'
    BY DEF GateShut, StaysDrained, CleanupBegun
  <1>5. CleanupBegun'
    BY DEF CleanupBegun
  <1> QED BY <1>1, <1>2, <1>3, <1>4, <1>5

LEMMA CheckpointKeeps ==
  ASSUME LifecycleInv, NEW t \in Threads, Lifecycle!Checkpoint(t)
  PROVE  LifecycleInv'
  <1> USE MarksAssumption, BoundsAssumption
      DEF Lifecycle!Checkpoint, Lifecycle!Finishes, Lifecycle!Goto, Lifecycle!gate, Lifecycle!waiters, Lifecycle!closing,
          LifecycleInv, LifecycleTypes, OneOwner, OwnerStages, Lifecycle!TypeOK,
          Lifecycle!Attempts, Lifecycle!InProgress, Lifecycle!Operating
  <1>1. LifecycleTypes'
    OBVIOUS
  <1>2. OneOwner'
    OBVIOUS
  <1>3. GateShut'
    BY DEF GateShut
  <1>4. StaysDrained'
    BY DEF GateShut, StaysDrained, CleanupBegun
  <1>5. CleanupBegun'
    BY DEF CleanupBegun
  <1> QED BY <1>1, <1>2, <1>3, <1>4, <1>5

LEMMA CleanupStartsKeeps ==
  ASSUME LifecycleInv, NEW t \in Threads, Lifecycle!CleanupStarts(t)
  PROVE  LifecycleInv'
  <1> USE MarksAssumption, BoundsAssumption
      DEF Lifecycle!CleanupStarts, Lifecycle!Goto, Lifecycle!gate, Lifecycle!waiters, Lifecycle!closing,
          LifecycleInv, LifecycleTypes, OneOwner, OwnerStages, Lifecycle!TypeOK,
          Lifecycle!Attempts, Lifecycle!InProgress, Lifecycle!Operating
  <1>1. LifecycleTypes'
    OBVIOUS
  <1>2. OneOwner'
    OBVIOUS
  <1>3. GateShut'
    BY DEF GateShut
  <1>4. StaysDrained'
    BY DEF GateShut, StaysDrained, CleanupBegun
  <1>5. CleanupBegun'
    BY DEF CleanupBegun
  <1> QED BY <1>1, <1>2, <1>3, <1>4, <1>5

LEMMA CleanupEndsKeeps ==
  ASSUME LifecycleInv, NEW t \in Threads, Lifecycle!CleanupEnds(t)
  PROVE  LifecycleInv'
  <1> USE MarksAssumption, BoundsAssumption
      DEF Lifecycle!CleanupEnds, Lifecycle!Goto, Lifecycle!gate, Lifecycle!waiters, Lifecycle!closing,
          LifecycleInv, LifecycleTypes, OneOwner, OwnerStages, Lifecycle!TypeOK,
          Lifecycle!Attempts, Lifecycle!InProgress, Lifecycle!Operating
  <1> PICK outcome \in {"succeeded", "failed", "indeterminate"} :
        /\ cleanup' = outcome
        /\ thread' = [thread EXCEPT ![t] = IF outcome = "succeeded" THEN "succeeded" ELSE "failed"]
    OBVIOUS
  <1>0. cleanup # "not_started"
    BY DEF CleanupBegun
  <1>1. LifecycleTypes'
    OBVIOUS
  <1>2. OneOwner'
    OBVIOUS
  <1>3. GateShut'
    BY DEF GateShut
  <1>4. StaysDrained'
    BY DEF GateShut, StaysDrained, CleanupBegun
  <1>5. CleanupBegun'
    BY DEF CleanupBegun
  <1> QED BY <1>1, <1>2, <1>3, <1>4, <1>5

LEMMA PublishKeeps ==
  ASSUME LifecycleInv, NEW t \in Threads, Lifecycle!Publish(t)
  PROVE  LifecycleInv'
  <1> USE MarksAssumption, BoundsAssumption
      DEF Lifecycle!Publish, Lifecycle!Goto, Lifecycle!gate, Lifecycle!waiters, Lifecycle!closing,
          LifecycleInv, LifecycleTypes, OneOwner, OwnerStages, Lifecycle!TypeOK,
          Lifecycle!Attempts, Lifecycle!InProgress, Lifecycle!Operating
  <1>1. LifecycleTypes'
    OBVIOUS
  <1>2. OneOwner'
    OBVIOUS
  <1>3. GateShut'
    BY DEF GateShut
  <1>4. StaysDrained'
    BY DEF GateShut, StaysDrained, CleanupBegun
  <1>5. CleanupBegun'
    BY DEF CleanupBegun
  <1> QED BY <1>1, <1>2, <1>3, <1>4, <1>5

LEMMA PublishInterruptedKeeps ==
  ASSUME LifecycleInv, NEW t \in Threads, Lifecycle!PublishInterrupted(t)
  PROVE  LifecycleInv'
  <1> USE MarksAssumption, BoundsAssumption
      DEF Lifecycle!PublishInterrupted, Lifecycle!Goto, Lifecycle!gate, Lifecycle!waiters, Lifecycle!closing,
          LifecycleInv, LifecycleTypes, OneOwner, OwnerStages, Lifecycle!TypeOK,
          Lifecycle!Attempts, Lifecycle!InProgress, Lifecycle!Operating
  <1>1. LifecycleTypes'
    OBVIOUS
  <1>2. OneOwner'
    OBVIOUS
  <1>3. GateShut'
    BY DEF GateShut
  <1>4. StaysDrained'
    BY DEF GateShut, StaysDrained, CleanupBegun
  <1>5. CleanupBegun'
    BY DEF CleanupBegun
  <1> QED BY <1>1, <1>2, <1>3, <1>4, <1>5

LEMMA WaiterReturnsKeeps ==
  ASSUME LifecycleInv, NEW t \in Threads, Lifecycle!WaiterReturns(t)
  PROVE  LifecycleInv'
  <1> USE MarksAssumption, BoundsAssumption
      DEF Lifecycle!WaiterReturns, Lifecycle!Goto, Lifecycle!gate, Lifecycle!waiters, Lifecycle!closing,
          LifecycleInv, LifecycleTypes, OneOwner, OwnerStages, Lifecycle!TypeOK,
          Lifecycle!Attempts, Lifecycle!InProgress, Lifecycle!Operating
  <1>1. LifecycleTypes'
    OBVIOUS
  <1>2. OneOwner'
    OBVIOUS
  <1>3. GateShut'
    BY DEF GateShut
  <1>4. StaysDrained'
    BY DEF GateShut, StaysDrained, CleanupBegun
  <1>5. CleanupBegun'
    BY DEF CleanupBegun
  <1> QED BY <1>1, <1>2, <1>3, <1>4, <1>5
\* Every step of the lifecycle preserves the invariant.
LEMMA LifecycleStep ==
  LifecycleInv /\ [Lifecycle!Next]_(Lifecycle!vars) => LifecycleInv'
  <1> SUFFICES ASSUME LifecycleInv, [Lifecycle!Next]_(Lifecycle!vars)
               PROVE  LifecycleInv'
    OBVIOUS
  <1>1. CASE UNCHANGED Lifecycle!vars
    BY <1>1
    DEF LifecycleInv, LifecycleTypes, OneOwner, GateShut, StaysDrained, CleanupBegun,
        Lifecycle!TypeOK, Lifecycle!Operating, Lifecycle!vars, Lifecycle!gate,
        Lifecycle!closing, Lifecycle!waiters
  <1>2. CASE Lifecycle!Next
    BY <1>2, BeginOperationKeeps, OperateKeeps, EndOperationKeeps, SettlementEndsKeeps,
       CloseWaitsKeeps, CloseReclaimsTerminalKeeps, CloseBeginsKeeps, BeginCloseKeeps,
       DrainedKeeps, CheckpointKeeps, CleanupStartsKeeps, CleanupEndsKeeps, PublishKeeps,
       PublishInterruptedKeeps, WaiterReturnsKeeps
    DEF Lifecycle!Next, Lifecycle!Step, Lifecycle!OwnerStep
  <1> QED BY <1>1, <1>2

\* The strategy of a queue is closed once at most, after every operation and
\* every replacement settlement, for any number of threads and of attempts
\* (BackendQueue.close).
THEOREM StrategyClosedOnceHolds ==
  Lifecycle!Init /\ [][Lifecycle!Next]_(Lifecycle!vars) => []StrategyClosedOnce
  <1>1. LifecycleInv => StrategyClosedOnce
    BY DEF LifecycleInv, LifecycleTypes, StaysDrained, CleanupBegun, StrategyClosedOnce,
           Lifecycle!StrategyClosedOnce
  <1> QED BY LifecycleInit, LifecycleStep, <1>1, PTL

----------------------------------------------------------------------------
(* The checkpoint of a queue over restarts (QueueCheckpoint). *)

\* What a restore without a fault and without doubt would bring back.
Restorable ==
  IF ~supported THEN {}
  ELSE IF current # Absent THEN current
  ELSE IF ~legacyKey \/ tombstone \/ legacy = Absent THEN {}
  ELSE legacy

CheckpointStages == {"down", "open", "closing", "persist", "commit", "retire",
                     "retireTombstone", "cleanup"}

\* A strategy is there, with what the restore and the pushes put into it.
Live == stage \notin {"down", "cleanup"}

CheckpointTypes ==
  /\ Checkpoint!TypeOK
  /\ stage \in CheckpointStages
  /\ fenced \in BOOLEAN /\ deferred \in BOOLEAN /\ retiring \in BOOLEAN
  /\ supported \in BOOLEAN /\ legacyKey \in BOOLEAN /\ doubt \in BOOLEAN
  /\ opened = "sound" => stage = "open"

\* A legacy snapshot is retired or its retirement is deferred, never both; it
\* is deferred under a tombstone only when the tombstone could not be read.
Retirement ==
  /\ ~supported => current = Absent
  /\ ~(deferred /\ retiring)
  /\ deferred /\ tombstone => doubt
  /\ stage \in {"retire", "retireTombstone"} => current # Absent /\ ~deferred
  /\ stage = "commit" => held = {} /\ retiring /\ ~fenced /\ supported
  /\ Live /\ retiring =>
       current = Absent \/ (stage # "open" /\ current = held)

\* What is owed and was not overwritten is on disk, and a life that may write a
\* snapshot has seen it: it holds it, has popped it, or knows that it left it
\* in the legacy key.
Owed ==
  /\ owed \ overwritten \subseteq Restorable
  /\ Live /\ ~fenced => owed \ overwritten \subseteq held \union popped \union Checkpoint!Unread
  /\ opened = "sound" => owed \ overwritten \subseteq held

\* What is gone is not on disk, and is not held.
Gone ==
  ~doubt =>
    /\ Restorable \intersect gone = {}
    /\ Live => held \intersect (gone \union popped) = {}

CheckpointInv == CheckpointTypes /\ Retirement /\ Owed /\ Gone


\* The inductive invariant holds at the start.
LEMMA CheckpointInit == Checkpoint!Init => CheckpointInv
  <1> SUFFICES ASSUME Checkpoint!Init PROVE CheckpointInv
    OBVIOUS
  <1> USE AbsentAssumption
      DEF Checkpoint!Init, Checkpoint!Snapshots, CheckpointStages, Live, Restorable, Checkpoint!Unread
  <1>1. CheckpointTypes
    BY DEF CheckpointTypes, Checkpoint!TypeOK
  <1>2. Retirement
    BY DEF Retirement
  <1>3. Owed
    BY DEF Owed
  <1>4. Gone
    BY DEF Gone
  <1> QED BY <1>1, <1>2, <1>3, <1>4 DEF CheckpointInv

LEMMA OpenFencedKeeps ==
  ASSUME CheckpointInv, Checkpoint!OpenFenced
  PROVE  CheckpointInv'
  <1> USE AbsentAssumption
      DEF Checkpoint!OpenFenced, Checkpoint!Opens,
          Checkpoint!store, Checkpoint!flags, Checkpoint!history, Checkpoint!Snapshots,
          CheckpointInv, CheckpointTypes, Checkpoint!TypeOK, CheckpointStages
  <1>1. CheckpointTypes'
    OBVIOUS
  <1>2. Retirement'
    BY DEF Retirement, Live
  <1>3. Owed'
    BY DEF Retirement, Owed, Live, Restorable, Checkpoint!Unread
  <1>4. Gone'
    BY DEF Retirement, Gone, Live, Restorable
  <1> QED BY <1>1, <1>2, <1>3, <1>4

LEMMA OpenCurrentKeeps ==
  ASSUME CheckpointInv, Checkpoint!OpenCurrent
  PROVE  CheckpointInv'
  <1> USE AbsentAssumption
      DEF Checkpoint!OpenCurrent, Checkpoint!Opens,
          Checkpoint!store, Checkpoint!flags, Checkpoint!history, Checkpoint!Snapshots,
          CheckpointInv, CheckpointTypes, Checkpoint!TypeOK, CheckpointStages
  <1>1. CheckpointTypes'
    OBVIOUS
  <1>2. Retirement'
    BY DEF Retirement, Live
  <1>3. Owed'
    BY DEF Retirement, Owed, Live, Restorable, Checkpoint!Unread
  <1>4. Gone'
    BY DEF Retirement, Gone, Live, Restorable
  <1> QED BY <1>1, <1>2, <1>3, <1>4

LEMMA OpenEmptyKeeps ==
  ASSUME CheckpointInv, Checkpoint!OpenEmpty
  PROVE  CheckpointInv'
  <1> USE AbsentAssumption
      DEF Checkpoint!OpenEmpty, Checkpoint!Opens,
          Checkpoint!store, Checkpoint!flags, Checkpoint!history, Checkpoint!Snapshots,
          CheckpointInv, CheckpointTypes, Checkpoint!TypeOK, CheckpointStages
  <1>1. CheckpointTypes'
    OBVIOUS
  <1>2. Retirement'
    BY DEF Retirement, Live
  <1>3. Owed'
    BY DEF Retirement, Owed, Live, Restorable, Checkpoint!Unread
  <1>4. Gone'
    BY DEF Retirement, Gone, Live, Restorable
  <1> QED BY <1>1, <1>2, <1>3, <1>4

LEMMA OpenLegacyKeeps ==
  ASSUME CheckpointInv, Checkpoint!OpenLegacy
  PROVE  CheckpointInv'
  <1> USE AbsentAssumption
      DEF Checkpoint!OpenLegacy, Checkpoint!Opens, Checkpoint!LegacyConsulted,
          Checkpoint!store, Checkpoint!flags, Checkpoint!history, Checkpoint!Snapshots,
          CheckpointInv, CheckpointTypes, Checkpoint!TypeOK, CheckpointStages
  <1>1. CheckpointTypes'
    OBVIOUS
  <1>2. Retirement'
    BY DEF Retirement, Live
  <1>3. Owed'
    BY DEF Retirement, Owed, Live, Restorable, Checkpoint!Unread
  <1>4. Gone'
    BY DEF Retirement, Gone, Live, Restorable
  <1> QED BY <1>1, <1>2, <1>3, <1>4

LEMMA OpenLegacyUnreadKeeps ==
  ASSUME CheckpointInv, Checkpoint!OpenLegacyUnread
  PROVE  CheckpointInv'
  <1> USE AbsentAssumption
      DEF Checkpoint!OpenLegacyUnread, Checkpoint!Opens, Checkpoint!LegacyConsulted,
          Checkpoint!store, Checkpoint!flags, Checkpoint!history, Checkpoint!Snapshots,
          CheckpointInv, CheckpointTypes, Checkpoint!TypeOK, CheckpointStages
  <1>1. CheckpointTypes'
    OBVIOUS
  <1>2. Retirement'
    BY DEF Retirement, Live
  <1>3. Owed'
    BY DEF Retirement, Owed, Live, Restorable, Checkpoint!Unread
  <1>4. Gone'
    BY DEF Retirement, Gone, Live, Restorable
  <1> QED BY <1>1, <1>2, <1>3, <1>4

LEMMA OpenLegacyRefusedKeeps ==
  ASSUME CheckpointInv, Checkpoint!OpenLegacyRefused
  PROVE  CheckpointInv'
  <1> USE AbsentAssumption
      DEF Checkpoint!OpenLegacyRefused, Checkpoint!Opens, Checkpoint!LegacyConsulted,
          Checkpoint!store, Checkpoint!flags, Checkpoint!history, Checkpoint!Snapshots,
          CheckpointInv, CheckpointTypes, Checkpoint!TypeOK, CheckpointStages
  <1>1. CheckpointTypes'
    OBVIOUS
  <1>2. Retirement'
    BY DEF Retirement, Live
  <1>3. Owed'
    BY DEF Retirement, Owed, Live, Restorable, Checkpoint!Unread
  <1>4. Gone'
    BY DEF Retirement, Gone, Live, Restorable
  <1> QED BY <1>1, <1>2, <1>3, <1>4

LEMMA ResetSnapshotKeeps ==
  ASSUME CheckpointInv, Checkpoint!ResetSnapshot
  PROVE  CheckpointInv'
  <1> USE AbsentAssumption
      DEF Checkpoint!ResetSnapshot,
          Checkpoint!store, Checkpoint!flags, Checkpoint!history, Checkpoint!Snapshots,
          CheckpointInv, CheckpointTypes, Checkpoint!TypeOK, CheckpointStages
  <1>1. CheckpointTypes'
    OBVIOUS
  <1>2. Retirement'
    BY DEF Retirement, Live
  <1>3. Owed'
    BY DEF Retirement, Owed, Live, Restorable, Checkpoint!Unread
  <1>4. Gone'
    BY DEF Retirement, Gone, Live, Restorable
  <1> QED BY <1>1, <1>2, <1>3, <1>4

LEMMA PushKeeps ==
  ASSUME CheckpointInv, NEW e \in Entries, Checkpoint!Push(e)
  PROVE  CheckpointInv'
  <1> USE AbsentAssumption
      DEF Checkpoint!Push,
          Checkpoint!store, Checkpoint!flags, Checkpoint!history, Checkpoint!Snapshots,
          CheckpointInv, CheckpointTypes, Checkpoint!TypeOK, CheckpointStages
  <1>1. CheckpointTypes'
    OBVIOUS
  <1>2. Retirement'
    BY DEF Retirement, Live
  <1>3. Owed'
    BY DEF Retirement, Owed, Live, Restorable, Checkpoint!Unread
  <1>4. Gone'
    BY DEF Retirement, Gone, Live, Restorable
  <1> QED BY <1>1, <1>2, <1>3, <1>4

LEMMA PopKeeps ==
  ASSUME CheckpointInv, NEW e \in Entries, Checkpoint!Pop(e)
  PROVE  CheckpointInv'
  <1> USE AbsentAssumption
      DEF Checkpoint!Pop,
          Checkpoint!store, Checkpoint!flags, Checkpoint!history, Checkpoint!Snapshots,
          CheckpointInv, CheckpointTypes, Checkpoint!TypeOK, CheckpointStages
  <1>1. CheckpointTypes'
    OBVIOUS
  <1>2. Retirement'
    BY DEF Retirement, Live
  <1>3. Owed'
    BY DEF Retirement, Owed, Live, Restorable, Checkpoint!Unread
  <1>4. Gone'
    BY DEF Retirement, Gone, Live, Restorable
  <1> QED BY <1>1, <1>2, <1>3, <1>4

LEMMA CloseKeeps ==
  ASSUME CheckpointInv, NEW abandon \in BOOLEAN, Checkpoint!Close(abandon)
  PROVE  CheckpointInv'
  <1> USE AbsentAssumption
      DEF Checkpoint!Close,
          Checkpoint!store, Checkpoint!flags, Checkpoint!history, Checkpoint!Snapshots,
          CheckpointInv, CheckpointTypes, Checkpoint!TypeOK, CheckpointStages
  <1>1. CheckpointTypes'
    OBVIOUS
  <1>2. Retirement'
    BY DEF Retirement, Live
  <1>3. Owed'
    BY DEF Retirement, Owed, Live, Restorable, Checkpoint!Unread
  <1>4. Gone'
    BY DEF Retirement, Gone, Live, Restorable
  <1> QED BY <1>1, <1>2, <1>3, <1>4

LEMMA PersistFailsKeeps ==
  ASSUME CheckpointInv, Checkpoint!PersistFails
  PROVE  CheckpointInv'
  <1> USE AbsentAssumption
      DEF Checkpoint!PersistFails, Checkpoint!Goto, Checkpoint!Stays,
          Checkpoint!store, Checkpoint!flags, Checkpoint!history, Checkpoint!Snapshots,
          CheckpointInv, CheckpointTypes, Checkpoint!TypeOK, CheckpointStages
  <1>1. CheckpointTypes'
    OBVIOUS
  <1>2. Retirement'
    BY DEF Retirement, Live
  <1>3. Owed'
    BY DEF Retirement, Owed, Live, Restorable, Checkpoint!Unread
  <1>4. Gone'
    BY DEF Retirement, Gone, Live, Restorable
  <1> QED BY <1>1, <1>2, <1>3, <1>4

LEMMA PersistNothingKeeps ==
  ASSUME CheckpointInv, Checkpoint!PersistNothing
  PROVE  CheckpointInv'
  <1> USE AbsentAssumption
      DEF Checkpoint!PersistNothing, Checkpoint!Goto, Checkpoint!Stays,
          Checkpoint!store, Checkpoint!flags, Checkpoint!history, Checkpoint!Snapshots,
          CheckpointInv, CheckpointTypes, Checkpoint!TypeOK, CheckpointStages
  <1>1. CheckpointTypes'
    OBVIOUS
  <1>2. Retirement'
    BY DEF Retirement, Live
  <1>3. Owed'
    BY DEF Retirement, Owed, Live, Restorable, Checkpoint!Unread
  <1>4. Gone'
    BY DEF Retirement, Gone, Live, Restorable
  <1> QED BY <1>1, <1>2, <1>3, <1>4

LEMMA KeepUnreadLegacyKeeps ==
  ASSUME CheckpointInv, Checkpoint!KeepUnreadLegacy
  PROVE  CheckpointInv'
  <1> USE AbsentAssumption
      DEF Checkpoint!KeepUnreadLegacy, Checkpoint!Goto,
          Checkpoint!store, Checkpoint!flags, Checkpoint!history, Checkpoint!Snapshots,
          CheckpointInv, CheckpointTypes, Checkpoint!TypeOK, CheckpointStages
  <1>0. tombstone' \in {tombstone, FALSE} /\ stage' \in {"cleanup", "closing"}
        /\ deferred' \in {deferred, FALSE} /\ (stage' = "closing" => deferred' = deferred)
        /\ deferred /\ ~retiring /\ ~(deferred /\ tombstone /\ ~doubt)
    BY DEF Retirement
  <1>1. CheckpointTypes'
    OBVIOUS
  <1>2. Retirement'
    <2>1. CASE deferred' = FALSE /\ stage' = "cleanup" /\ tombstone' = FALSE
      BY <1>0, <1>1, <2>1 DEF Retirement, Live
    <2>2. CASE stage' = "closing" /\ deferred' = deferred
      BY <1>0, <1>1, <2>2 DEF Retirement, Live
    <2> QED BY <2>1, <2>2
  <1>3. Owed'
    <2>1. CASE deferred' = FALSE /\ stage' = "cleanup" /\ tombstone' = FALSE
      BY <1>0, <1>1, <2>1 DEF Retirement, Owed, Live, Restorable
    <2>2. CASE stage' = "closing" /\ deferred' = deferred
      BY <1>0, <1>1, <2>2 DEF Retirement, Owed, Live, Restorable, Checkpoint!Unread
    <2> QED BY <2>1, <2>2
  <1>4. Gone'
    BY DEF Retirement, Gone, Live, Restorable
  <1> QED BY <1>1, <1>2, <1>3, <1>4

LEMMA WriteTombstoneKeeps ==
  ASSUME CheckpointInv, Checkpoint!WriteTombstone
  PROVE  CheckpointInv'
  <1> USE AbsentAssumption
      DEF Checkpoint!WriteTombstone, Checkpoint!Persists, Checkpoint!Goto,
          Checkpoint!store, Checkpoint!flags, Checkpoint!history, Checkpoint!Snapshots,
          CheckpointInv, CheckpointTypes, Checkpoint!TypeOK, CheckpointStages
  <1>1. CheckpointTypes'
    OBVIOUS
  <1>2. Retirement'
    BY DEF Retirement, Live
  <1>3. Owed'
    BY DEF Retirement, Owed, Live, Restorable, Checkpoint!Unread
  <1>4. Gone'
    <2>1. CASE tombstone'
      BY <1>1, <2>1 DEF Retirement, Gone, Live, Restorable
    <2>2. CASE ~tombstone'
      <3>0. tombstone' = tombstone
        BY <2>2, Zenon
      <3>1. gone' = gone /\ Live
        BY <1>1, <2>2 DEF Live
      <3>2. Restorable' = Restorable
        BY <3>0, <3>1 DEF Restorable
      <3> QED BY <3>1, <3>2 DEF Gone
    <2> QED BY <2>1, <2>2
  <1> QED BY <1>1, <1>2, <1>3, <1>4

LEMMA WriteSnapshotKeeps ==
  ASSUME CheckpointInv, Checkpoint!WriteSnapshot
  PROVE  CheckpointInv'
  <1> USE AbsentAssumption
      DEF Checkpoint!WriteSnapshot, Checkpoint!Persists, Checkpoint!Commits, Checkpoint!Goto,
          Checkpoint!store, Checkpoint!flags, Checkpoint!history, Checkpoint!Snapshots,
          CheckpointInv, CheckpointTypes, Checkpoint!TypeOK, CheckpointStages
  <1>1. CheckpointTypes'
    BY DEF Checkpoint!Unread
  <1>2. Retirement'
    BY DEF Retirement, Live
  <1>3. Owed'
    BY DEF Retirement, Owed, Live, Restorable, Checkpoint!Unread
  <1>4. Gone'
    BY DEF Retirement, Gone, Live, Restorable
  <1> QED BY <1>1, <1>2, <1>3, <1>4

LEMMA RetireLegacyKeeps ==
  ASSUME CheckpointInv, Checkpoint!RetireLegacy
  PROVE  CheckpointInv'
  <1> USE AbsentAssumption
      DEF Checkpoint!RetireLegacy, Checkpoint!Goto,
          Checkpoint!store, Checkpoint!flags, Checkpoint!history, Checkpoint!Snapshots,
          CheckpointInv, CheckpointTypes, Checkpoint!TypeOK, CheckpointStages
  <1>1. CheckpointTypes'
    OBVIOUS
  <1>2. Retirement'
    BY DEF Retirement, Live
  <1>3. Owed'
    BY DEF Retirement, Owed, Live, Restorable, Checkpoint!Unread
  <1>4. Gone'
    BY DEF Retirement, Gone, Live, Restorable
  <1> QED BY <1>1, <1>2, <1>3, <1>4

LEMMA RetireTombstoneKeeps ==
  ASSUME CheckpointInv, Checkpoint!RetireTombstone
  PROVE  CheckpointInv'
  <1> USE AbsentAssumption
      DEF Checkpoint!RetireTombstone, Checkpoint!Goto,
          Checkpoint!store, Checkpoint!flags, Checkpoint!history, Checkpoint!Snapshots,
          CheckpointInv, CheckpointTypes, Checkpoint!TypeOK, CheckpointStages
  <1>1. CheckpointTypes'
    OBVIOUS
  <1>2. Retirement'
    BY DEF Retirement, Live
  <1>3. Owed'
    BY DEF Retirement, Owed, Live, Restorable, Checkpoint!Unread
  <1>4. Gone'
    BY DEF Retirement, Gone, Live, Restorable
  <1> QED BY <1>1, <1>2, <1>3, <1>4

LEMMA CheckpointCleanupKeeps ==
  ASSUME CheckpointInv, Checkpoint!Cleanup
  PROVE  CheckpointInv'
  <1> USE AbsentAssumption
      DEF Checkpoint!Cleanup,
          Checkpoint!store, Checkpoint!flags, Checkpoint!history, Checkpoint!Snapshots,
          CheckpointInv, CheckpointTypes, Checkpoint!TypeOK, CheckpointStages
  <1>1. CheckpointTypes'
    OBVIOUS
  <1>2. Retirement'
    BY DEF Retirement, Live
  <1>3. Owed'
    BY DEF Retirement, Owed, Live, Restorable, Checkpoint!Unread
  <1>4. Gone'
    BY DEF Retirement, Gone, Live, Restorable
  <1> QED BY <1>1, <1>2, <1>3, <1>4

LEMMA CheckpointCrashKeeps ==
  ASSUME CheckpointInv, Checkpoint!Crash
  PROVE  CheckpointInv'
  <1> USE AbsentAssumption
      DEF Checkpoint!Crash,
          Checkpoint!store, Checkpoint!flags, Checkpoint!history, Checkpoint!Snapshots,
          CheckpointInv, CheckpointTypes, Checkpoint!TypeOK, CheckpointStages
  <1>1. CheckpointTypes'
    OBVIOUS
  <1>2. Retirement'
    BY DEF Retirement, Live
  <1>3. Owed'
    BY DEF Retirement, Owed, Live, Restorable, Checkpoint!Unread
  <1>4. Gone'
    BY DEF Retirement, Gone, Live, Restorable
  <1> QED BY <1>1, <1>2, <1>3, <1>4

\* Every step preserves the invariant.
LEMMA CheckpointStep ==
  CheckpointInv /\ [Checkpoint!Next]_(Checkpoint!vars) => CheckpointInv'
  <1> SUFFICES ASSUME CheckpointInv, [Checkpoint!Next]_(Checkpoint!vars)
               PROVE  CheckpointInv'
    OBVIOUS
  <1>1. CASE UNCHANGED Checkpoint!vars
    BY <1>1
    DEF CheckpointInv, CheckpointTypes, Retirement, Owed, Gone, Live, Restorable, Checkpoint!Unread,
        Checkpoint!TypeOK, Checkpoint!vars, Checkpoint!store, Checkpoint!flags,
        Checkpoint!history
  <1>2. CASE Checkpoint!Next
    BY <1>2, OpenFencedKeeps, OpenCurrentKeeps, OpenEmptyKeeps, OpenLegacyKeeps, OpenLegacyUnreadKeeps, OpenLegacyRefusedKeeps, ResetSnapshotKeeps, PushKeeps, PopKeeps, CloseKeeps, PersistFailsKeeps, PersistNothingKeeps, KeepUnreadLegacyKeeps, WriteTombstoneKeeps, WriteSnapshotKeeps, RetireLegacyKeeps, RetireTombstoneKeeps, CheckpointCleanupKeeps, CheckpointCrashKeeps
    DEF Checkpoint!Next
  <1> QED BY <1>1, <1>2

\* A restore without a fault brings back every entry a checkpoint owes, for any
\* number of lives, crashes and failed writes, except for those of a legacy
\* checkpoint that a life could not read and committed its own state over
\* (_restore_snapshot, _persist_snapshot).
THEOREM CheckpointRestoredHolds ==
  Checkpoint!Init /\ [][Checkpoint!Next]_(Checkpoint!vars) => []CheckpointRestored
  <1>1. CheckpointInv => CheckpointRestored
    BY DEF CheckpointInv, CheckpointTypes, Owed, Gone, CheckpointRestored,
           Checkpoint!CheckpointRestored
  <1> QED BY CheckpointInit, CheckpointStep, <1>1, PTL

\* And none that was popped before a checkpoint, unless a tombstone could not be
\* read (the order of tombstone, commit and retirement in _persist_snapshot).
THEOREM NothingReplayedHolds ==
  Checkpoint!Init /\ [][Checkpoint!Next]_(Checkpoint!vars) => []NothingReplayed
  <1>1. CheckpointInv => NothingReplayed
    BY DEF CheckpointInv, CheckpointTypes, Gone, Live, NothingReplayed,
           Checkpoint!NothingReplayed
  <1> QED BY CheckpointInit, CheckpointStep, <1>1, PTL

----------------------------------------------------------------------------
(* Chunked snapshots (SnapshotRepository). *)

Drawn == {g \in Repository!Generations : length[g] # MaxChunks + 1}

RepositoryTypes ==
  /\ Repository!TypeOK
  /\ call \in [Threads ->
       [step : {"idle", "readManifest", "readChunk", "writeChunk", "writeManifest",
                "gcDrain", "gcDelete"}, gen : {0} \union Repository!Generations, at : Nat]]

\* Generations are drawn one after the other: the next one is fresh.
DrawnInOrder == Drawn = 1 .. Repository!NextGen - 1 /\ Repository!NextGen \in Nat \ {0}

\* A lease is held by the thread that is inside a read, a commit or a
\* maintenance, and a maintenance that deletes has the repository to itself.
LeasesHeld ==
  /\ \A t \in Threads :
       /\ t \in readers <=> call[t].step \in {"readManifest", "readChunk"}
       /\ t \in commits <=> call[t].step \in {"writeChunk", "writeManifest"}
       /\ maintenance = t <=> call[t].step \in {"gcDrain", "gcDelete"}
       /\ call[t].step = "gcDelete" =>
            readers = {} /\ commits = {} /\ call[t].gen = manifest /\ manifest # 0

\* The chunks of a commit are in the store up to where it has come.
Written ==
  \A t \in Threads : call[t].step \in {"writeChunk", "writeManifest"} =>
    /\ call[t].gen \in Drawn
    /\ call[t].step = "writeChunk" => call[t].at \in 1 .. length[call[t].gen]
    /\ call[t].step = "writeManifest" => call[t].at > length[call[t].gen]
    /\ \A i \in 1 .. length[call[t].gen] : i < call[t].at => <<call[t].gen, i>> \in chunks

\* What the key names, and what a read is in the middle of, is complete.
Intact ==
  /\ manifest # 0 => manifest \in Drawn /\ Repository!Complete(manifest)
  /\ \A t \in Threads :
       /\ call[t].step = "readManifest" => call[t].gen = 0
       /\ call[t].step = "readChunk" => call[t].gen \in Drawn /\ Repository!Complete(call[t].gen)

RepositoryInv ==
  RepositoryTypes /\ DrawnInOrder /\ LeasesHeld /\ Written /\ Intact

\* The cardinality that the instance brings with it is the usual one.
LEMMA RepositoryCardinality == \A S : Repository!Cardinality(S) = Cardinality(S)
  BY Zenon DEF Repository!Cardinality, Cardinality

\* The inductive invariant holds at the start.
LEMMA RepositoryInit == Repository!Init => RepositoryInv
  <1> SUFFICES ASSUME Repository!Init PROVE RepositoryInv
    OBVIOUS
  <1> USE MarksAssumption, BoundsAssumption
      DEF Repository!Init, Repository!Generations, Repository!Idle, Drawn
  <1>1. RepositoryTypes
    BY DEF RepositoryTypes, Repository!TypeOK
  <1>2. DrawnInOrder
    <2>1. Drawn = {}
      OBVIOUS
    <2>2. Repository!NextGen = Cardinality(Drawn) + 1
      BY RepositoryCardinality DEF Repository!NextGen
    <2> HIDE DEF Drawn
    <2>3. Repository!NextGen = 1
      BY <2>1, <2>2, FS_EmptySet
    <2> QED BY <2>1, <2>3 DEF DrawnInOrder
  <1>3. LeasesHeld /\ Written /\ Intact
    BY DEF LeasesHeld, Written, Intact
  <1> QED BY <1>1, <1>2, <1>3 DEF RepositoryInv

LEMMA ReadBeginKeeps ==
  ASSUME RepositoryInv, NEW t \in Threads, Repository!ReadBegin(t)
  PROVE  RepositoryInv'
  <1> USE MarksAssumption, BoundsAssumption
      DEF Repository!ReadBegin, Repository!Goto, Repository!Store,
          Repository!Leases, Repository!Idle, Repository!Chunk, Repository!Generations,
          RepositoryInv, RepositoryTypes, Repository!TypeOK
  <1>0. length' = length /\ Drawn' = Drawn /\ Repository!NextGen' = Repository!NextGen
    BY DEF Drawn, Repository!NextGen
  <1>1. RepositoryTypes'
    BY <1>0 DEF LeasesHeld, Written, Drawn
  <1>2. DrawnInOrder'
    BY <1>0, <1>1 DEF DrawnInOrder
  <1>3. LeasesHeld'
    BY <1>0, <1>1 DEF LeasesHeld
  <1>4. Written'
    BY <1>0, <1>1 DEF LeasesHeld, Written
  <1>5. Intact'
    BY <1>0, <1>1 DEF LeasesHeld, Written, Intact, Repository!Complete
  <1> QED BY <1>1, <1>2, <1>3, <1>4, <1>5

LEMMA ReadEndsKeeps ==
  ASSUME RepositoryInv, NEW t \in Threads, call[t].step \in {"readManifest", "readChunk"}, Repository!ReadEnds(t)
  PROVE  RepositoryInv'
  <1> USE MarksAssumption, BoundsAssumption
      DEF Repository!ReadEnds, Repository!Goto, Repository!Store,
          Repository!Leases, Repository!Idle, Repository!Chunk, Repository!Generations,
          RepositoryInv, RepositoryTypes, Repository!TypeOK
  <1>0. length' = length /\ Drawn' = Drawn /\ Repository!NextGen' = Repository!NextGen
    BY DEF Drawn, Repository!NextGen
  <1>1. RepositoryTypes'
    BY <1>0 DEF LeasesHeld, Written, Drawn
  <1>2. DrawnInOrder'
    BY <1>0, <1>1 DEF DrawnInOrder
  <1>3. LeasesHeld'
    BY <1>0, <1>1 DEF LeasesHeld
  <1>4. Written'
    BY <1>0, <1>1 DEF LeasesHeld, Written
  <1>5. Intact'
    BY <1>0, <1>1 DEF LeasesHeld, Written, Intact, Repository!Complete
  <1> QED BY <1>1, <1>2, <1>3, <1>4, <1>5

LEMMA ReadStarts ==
  ASSUME RepositoryInv, NEW t \in Threads, call[t].step = "readManifest", manifest # 0,
         Repository!Goto(t, "readChunk", manifest, 1), UNCHANGED <<Repository!Store, Repository!Leases>>
  PROVE  RepositoryInv'
  <1> USE MarksAssumption, BoundsAssumption
      DEF Repository!Goto, Repository!Goto, Repository!Store,
          Repository!Leases, Repository!Idle, Repository!Chunk, Repository!Generations,
          RepositoryInv, RepositoryTypes, Repository!TypeOK
  <1>0. length' = length /\ Drawn' = Drawn /\ Repository!NextGen' = Repository!NextGen
    BY DEF Drawn, Repository!NextGen
  <1>1. RepositoryTypes'
    BY <1>0 DEF LeasesHeld, Written, Drawn
  <1>2. DrawnInOrder'
    BY <1>0, <1>1 DEF DrawnInOrder
  <1>3. LeasesHeld'
    BY <1>0, <1>1 DEF LeasesHeld
  <1>4. Written'
    BY <1>0, <1>1 DEF LeasesHeld, Written
  <1>5. Intact'
    BY <1>0, <1>1 DEF LeasesHeld, Written, Intact, Repository!Complete
  <1> QED BY <1>1, <1>2, <1>3, <1>4, <1>5

LEMMA ReadGoesOn ==
  ASSUME RepositoryInv, NEW t \in Threads, call[t].step = "readChunk",
         Repository!Goto(t, "readChunk", call[t].gen, call[t].at + 1),
         UNCHANGED <<Repository!Store, Repository!Leases>>
  PROVE  RepositoryInv'
  <1> USE MarksAssumption, BoundsAssumption
      DEF Repository!Goto, Repository!Goto, Repository!Store,
          Repository!Leases, Repository!Idle, Repository!Chunk, Repository!Generations,
          RepositoryInv, RepositoryTypes, Repository!TypeOK
  <1>0. length' = length /\ Drawn' = Drawn /\ Repository!NextGen' = Repository!NextGen
    BY DEF Drawn, Repository!NextGen
  <1>1. RepositoryTypes'
    BY <1>0 DEF LeasesHeld, Written, Drawn
  <1>2. DrawnInOrder'
    BY <1>0, <1>1 DEF DrawnInOrder
  <1>3. LeasesHeld'
    BY <1>0, <1>1 DEF LeasesHeld
  <1>4. Written'
    BY <1>0, <1>1 DEF LeasesHeld, Written
  <1>5. Intact'
    BY <1>0, <1>1 DEF LeasesHeld, Written, Intact, Repository!Complete
  <1> QED BY <1>1, <1>2, <1>3, <1>4, <1>5

LEMMA ReadKeeps ==
  ASSUME RepositoryInv, NEW t \in Threads,
         Repository!ReadManifest(t) \/ Repository!ReadChunk(t)
  PROVE  RepositoryInv'
  BY ReadEndsKeeps, ReadStarts, ReadGoesOn DEF Repository!ReadManifest, Repository!ReadChunk

LEMMA CommitEndsKeeps ==
  ASSUME RepositoryInv, NEW t \in Threads, call[t].step \in {"writeChunk", "writeManifest"}, Repository!CommitEnds(t),
         length' = length, manifest' = manifest,
         chunks' = chunks \/ chunks' = chunks \union {<<call[t].gen, call[t].at>>},
         chunks' = chunks \/ call[t].step = "writeChunk"
  PROVE  RepositoryInv'
  <1> USE MarksAssumption, BoundsAssumption
      DEF Repository!CommitEnds, Repository!Goto, Repository!Store,
          Repository!Leases, Repository!Idle, Repository!Chunk, Repository!Generations,
          RepositoryInv, RepositoryTypes, Repository!TypeOK
  <1>0. length' = length /\ Drawn' = Drawn /\ Repository!NextGen' = Repository!NextGen
    BY DEF Drawn, Repository!NextGen
  <1>1. RepositoryTypes'
    BY <1>0 DEF LeasesHeld, Written, Drawn
  <1>2. DrawnInOrder'
    BY <1>0, <1>1 DEF DrawnInOrder
  <1>3. LeasesHeld'
    BY <1>0, <1>1 DEF LeasesHeld
  <1>4. Written'
    BY <1>0, <1>1 DEF LeasesHeld, Written
  <1>5. Intact'
    BY <1>0, <1>1 DEF LeasesHeld, Written, Intact, Repository!Complete
  <1> QED BY <1>1, <1>2, <1>3, <1>4, <1>5

LEMMA ManifestWritten ==
  ASSUME RepositoryInv, NEW t \in Threads, call[t].step = "writeManifest", Repository!CommitEnds(t),
         length' = length, manifest' = call[t].gen, chunks' = chunks
  PROVE  RepositoryInv'
  <1> USE MarksAssumption, BoundsAssumption
      DEF Repository!CommitEnds, Repository!Goto, Repository!Store,
          Repository!Leases, Repository!Idle, Repository!Chunk, Repository!Generations,
          RepositoryInv, RepositoryTypes, Repository!TypeOK
  <1>0. length' = length /\ Drawn' = Drawn /\ Repository!NextGen' = Repository!NextGen
    BY DEF Drawn, Repository!NextGen
  <1>1. RepositoryTypes'
    BY <1>0 DEF LeasesHeld, Written, Drawn
  <1>2. DrawnInOrder'
    BY <1>0, <1>1 DEF DrawnInOrder
  <1>3. LeasesHeld'
    BY <1>0, <1>1 DEF LeasesHeld
  <1>4. Written'
    BY <1>0, <1>1 DEF LeasesHeld, Written
  <1>5. Intact'
    BY <1>0, <1>1 DEF LeasesHeld, Written, Intact, Repository!Complete
  <1> QED BY <1>1, <1>2, <1>3, <1>4, <1>5

LEMMA ChunkWritten ==
  ASSUME RepositoryInv, NEW t \in Threads, call[t].step = "writeChunk", chunks' = chunks \union {<<call[t].gen, call[t].at>>},
         Repository!Goto(t, IF call[t].at < length[call[t].gen] THEN "writeChunk" ELSE "writeManifest",
                        call[t].gen, call[t].at + 1),
         UNCHANGED <<manifest, length, Repository!Leases>>
  PROVE  RepositoryInv'
  <1> USE MarksAssumption, BoundsAssumption
      DEF Repository!Goto, Repository!Goto, Repository!Store,
          Repository!Leases, Repository!Idle, Repository!Chunk, Repository!Generations,
          RepositoryInv, RepositoryTypes, Repository!TypeOK
  <1>0. length' = length /\ Drawn' = Drawn /\ Repository!NextGen' = Repository!NextGen
    BY DEF Drawn, Repository!NextGen
  <1>1. RepositoryTypes'
    BY <1>0 DEF LeasesHeld, Written, Drawn
  <1>2. DrawnInOrder'
    BY <1>0, <1>1 DEF DrawnInOrder
  <1>3. LeasesHeld'
    BY <1>0, <1>1 DEF LeasesHeld
  <1>4. Written'
    <2> SUFFICES ASSUME NEW u \in Threads,
                        call'[u].step \in {"writeChunk", "writeManifest"}
                 PROVE  /\ call'[u].gen \in Drawn
                        /\ call'[u].step = "writeChunk" => call'[u].at \in 1 .. length[call'[u].gen]
                        /\ call'[u].step = "writeManifest" => call'[u].at > length[call'[u].gen]
                        /\ \A i \in 1 .. length[call'[u].gen] :
                             i < call'[u].at => <<call'[u].gen, i>> \in chunks'
      BY <1>0 DEF Written
    <2>1. CASE u = t
      BY <2>1, <1>0 DEF Written, Drawn
    <2>2. CASE u # t
      BY <2>2, <1>0 DEF Written
    <2> QED BY <2>1, <2>2
  <1>5. Intact'
    BY <1>0, <1>1 DEF LeasesHeld, Written, Intact, Repository!Complete
  <1> QED BY <1>1, <1>2, <1>3, <1>4, <1>5

LEMMA WriteKeeps ==
  ASSUME RepositoryInv, NEW t \in Threads,
         Repository!WriteChunk(t) \/ Repository!WriteManifest(t)
  PROVE  RepositoryInv'
  <1>1. CASE Repository!WriteManifest(t)
    BY <1>1, CommitEndsKeeps, ManifestWritten DEF Repository!WriteManifest
  <1>2. CASE Repository!WriteChunk(t)
    BY <1>2, CommitEndsKeeps, ChunkWritten DEF Repository!WriteChunk, Repository!Chunk
  <1> QED BY <1>1, <1>2

LEMMA GcBeginKeeps ==
  ASSUME RepositoryInv, NEW t \in Threads, Repository!GcBegin(t)
  PROVE  RepositoryInv'
  <1> USE MarksAssumption, BoundsAssumption
      DEF Repository!GcBegin, Repository!Goto, Repository!Store,
          Repository!Leases, Repository!Idle, Repository!Chunk, Repository!Generations,
          RepositoryInv, RepositoryTypes, Repository!TypeOK
  <1>0. length' = length /\ Drawn' = Drawn /\ Repository!NextGen' = Repository!NextGen
    BY DEF Drawn, Repository!NextGen
  <1>1. RepositoryTypes'
    BY <1>0 DEF LeasesHeld, Written, Drawn
  <1>2. DrawnInOrder'
    BY <1>0, <1>1 DEF DrawnInOrder
  <1>3. LeasesHeld'
    BY <1>0, <1>1 DEF LeasesHeld
  <1>4. Written'
    BY <1>0, <1>1 DEF LeasesHeld, Written
  <1>5. Intact'
    BY <1>0, <1>1 DEF LeasesHeld, Written, Intact, Repository!Complete
  <1> QED BY <1>1, <1>2, <1>3, <1>4, <1>5

LEMMA GcReturnsKeeps ==
  ASSUME RepositoryInv, NEW t \in Threads, call[t].step \in {"gcDrain", "gcDelete"}, Repository!GcReturns(t),
         length' = length, manifest' = manifest,
         chunks' = chunks \/ (\E k \in chunks : k[1] # manifest /\ call[t].step = "gcDelete"
                                              /\ chunks' = chunks \ {k})
  PROVE  RepositoryInv'
  <1> USE MarksAssumption, BoundsAssumption
      DEF Repository!GcReturns, Repository!Goto, Repository!Store,
          Repository!Leases, Repository!Idle, Repository!Chunk, Repository!Generations,
          RepositoryInv, RepositoryTypes, Repository!TypeOK
  <1>0. length' = length /\ Drawn' = Drawn /\ Repository!NextGen' = Repository!NextGen
    BY DEF Drawn, Repository!NextGen
  <1>1. RepositoryTypes'
    BY <1>0 DEF LeasesHeld, Written, Drawn
  <1>2. DrawnInOrder'
    BY <1>0, <1>1 DEF DrawnInOrder
  <1>3. LeasesHeld'
    BY <1>0, <1>1 DEF LeasesHeld
  <1>4. Written'
    BY <1>0, <1>1 DEF LeasesHeld, Written
  <1>5. Intact'
    BY <1>0, <1>1 DEF LeasesHeld, Written, Intact, Repository!Complete
  <1> QED BY <1>1, <1>2, <1>3, <1>4, <1>5

LEMMA GcStarts ==
  ASSUME RepositoryInv, NEW t \in Threads, call[t].step = "gcDrain", readers = {}, commits = {}, manifest # 0,
         Repository!Goto(t, "gcDelete", manifest, 0), UNCHANGED <<Repository!Store, Repository!Leases>>
  PROVE  RepositoryInv'
  <1> USE MarksAssumption, BoundsAssumption
      DEF Repository!Goto, Repository!Goto, Repository!Store,
          Repository!Leases, Repository!Idle, Repository!Chunk, Repository!Generations,
          RepositoryInv, RepositoryTypes, Repository!TypeOK
  <1>0. length' = length /\ Drawn' = Drawn /\ Repository!NextGen' = Repository!NextGen
    BY DEF Drawn, Repository!NextGen
  <1>1. RepositoryTypes'
    BY <1>0 DEF LeasesHeld, Written, Drawn
  <1>2. DrawnInOrder'
    BY <1>0, <1>1 DEF DrawnInOrder
  <1>3. LeasesHeld'
    BY <1>0, <1>1 DEF LeasesHeld
  <1>4. Written'
    BY <1>0, <1>1 DEF LeasesHeld, Written
  <1>5. Intact'
    BY <1>0, <1>1 DEF LeasesHeld, Written, Intact, Repository!Complete
  <1> QED BY <1>1, <1>2, <1>3, <1>4, <1>5

LEMMA GcGoesOn ==
  ASSUME RepositoryInv, NEW t \in Threads, call[t].step = "gcDelete", NEW k \in chunks, k[1] # manifest,
         chunks' = chunks \ {k}, Repository!Goto(t, "gcDelete", call[t].gen, call[t].at + 1),
         UNCHANGED <<manifest, length, Repository!Leases>>
  PROVE  RepositoryInv'
  <1> USE MarksAssumption, BoundsAssumption
      DEF Repository!Goto, Repository!Goto, Repository!Store,
          Repository!Leases, Repository!Idle, Repository!Chunk, Repository!Generations,
          RepositoryInv, RepositoryTypes, Repository!TypeOK
  <1>0. length' = length /\ Drawn' = Drawn /\ Repository!NextGen' = Repository!NextGen
    BY DEF Drawn, Repository!NextGen
  <1>1. RepositoryTypes'
    BY <1>0 DEF LeasesHeld, Written, Drawn
  <1>2. DrawnInOrder'
    BY <1>0, <1>1 DEF DrawnInOrder
  <1>3. LeasesHeld'
    BY <1>0, <1>1 DEF LeasesHeld
  <1>4. Written'
    BY <1>0, <1>1 DEF LeasesHeld, Written
  <1>5. Intact'
    BY <1>0, <1>1 DEF LeasesHeld, Written, Intact, Repository!Complete
  <1> QED BY <1>1, <1>2, <1>3, <1>4, <1>5

LEMMA GcKeeps ==
  ASSUME RepositoryInv, NEW t \in Threads,
         Repository!GcDrained(t) \/ Repository!GcDelete(t) \/ Repository!GcDone(t)
  PROVE  RepositoryInv'
  <1>1. CASE Repository!GcDrained(t)
    BY <1>1, GcReturnsKeeps, GcStarts DEF Repository!GcDrained, Repository!Store
  <1>2. CASE Repository!GcDelete(t)
    <2>1. call[t].gen = manifest
      BY <1>2 DEF Repository!GcDelete, RepositoryInv, LeasesHeld
    <2> QED BY <1>2, <2>1, GcReturnsKeeps, GcGoesOn DEF Repository!GcDelete, Repository!Stale
  <1>3. CASE Repository!GcDone(t)
    BY <1>3, GcReturnsKeeps DEF Repository!GcDone, Repository!Store
  <1> QED BY <1>1, <1>2, <1>3

\* A commit begins with a generation that was never drawn.
LEMMA CommitBeginKeeps ==
  ASSUME RepositoryInv, NEW t \in Threads, Repository!CommitBegin(t)
  PROVE  RepositoryInv'
  <1> DEFINE G == Repository!NextGen
  <1> USE MarksAssumption, BoundsAssumption
      DEF Repository!Goto, Repository!Generations,
          RepositoryInv, RepositoryTypes, Repository!TypeOK
  <1>a. PICK n \in 0 .. MaxChunks :
          /\ length' = [length EXCEPT ![G] = n]
          /\ call' = [call EXCEPT ![t] =
               [step |-> IF n = 0 THEN "writeManifest" ELSE "writeChunk", gen |-> G, at |-> 1]]
    BY DEF Repository!CommitBegin
  <1>b. /\ call[t].step = "idle" /\ maintenance = NoThread /\ G \in 1 .. MaxGen
        /\ commits' = commits \union {t}
        /\ UNCHANGED <<manifest, chunks, readers, maintenance>>
    BY DEF Repository!CommitBegin
  <1>c. G \notin Drawn /\ Drawn = 1 .. G - 1
    BY <1>b DEF DrawnInOrder
  <1> HIDE DEF G
  <1>d. Drawn' = Drawn \union {G} /\ \A g \in Drawn : length'[g] = length[g]
    BY <1>a, <1>b, <1>c DEF Drawn
  <1>1. RepositoryTypes'
    BY <1>a, <1>b
  <1>2. DrawnInOrder'
    <2>1. Repository!NextGen' = Cardinality(Drawn') + 1
      BY RepositoryCardinality DEF Repository!NextGen, Drawn
    <2>2. Drawn' = 1 .. G
      BY <1>b, <1>c, <1>d
    <2>3. Cardinality(1 .. G) = G
      BY <1>b, FS_Interval
    <2> QED BY <1>b, <2>1, <2>2, <2>3 DEF DrawnInOrder
  <1>3. LeasesHeld'
    BY <1>a, <1>b, <1>1 DEF LeasesHeld
  <1>4. Written'
    BY <1>a, <1>b, <1>c, <1>d, <1>1 DEF Written
  <1>5. Intact'
    BY <1>a, <1>b, <1>c, <1>d, <1>1 DEF Intact, Repository!Complete, Repository!Chunk
  <1> QED BY <1>1, <1>2, <1>3, <1>4, <1>5

\* A crash leaves the store and takes every lease away.
LEMMA RepositoryCrashKeeps ==
  ASSUME RepositoryInv, Repository!Crash
  PROVE  RepositoryInv'
  <1> USE MarksAssumption, BoundsAssumption
      DEF Repository!Crash, Repository!Store, Repository!Idle, Repository!Generations,
          RepositoryInv, RepositoryTypes, Repository!TypeOK
  <1>0. length' = length /\ Drawn' = Drawn /\ Repository!NextGen' = Repository!NextGen
    BY DEF Drawn, Repository!NextGen
  <1>1. RepositoryTypes'
    OBVIOUS
  <1>2. DrawnInOrder'
    BY <1>0 DEF DrawnInOrder
  <1>3. LeasesHeld' /\ Written'
    BY DEF LeasesHeld, Written
  <1>4. Intact'
    BY <1>0 DEF Intact, Repository!Complete, Repository!Chunk
  <1> QED BY <1>1, <1>2, <1>3, <1>4

\* Every step preserves the invariant.
LEMMA RepositoryStep ==
  RepositoryInv /\ [Repository!Next]_(Repository!vars) => RepositoryInv'
  <1> SUFFICES ASSUME RepositoryInv, [Repository!Next]_(Repository!vars)
               PROVE  RepositoryInv'
    OBVIOUS
  <1>1. CASE UNCHANGED Repository!vars
    BY <1>1
    DEF RepositoryInv, RepositoryTypes, DrawnInOrder, LeasesHeld, Written, Intact, Drawn,
        Repository!TypeOK, Repository!vars, Repository!NextGen, Repository!Complete
  <1>2. CASE Repository!Next
    BY <1>2, RepositoryCrashKeeps, ReadBeginKeeps, CommitBeginKeeps, GcBeginKeeps,
       ReadKeeps, WriteKeeps, GcKeeps
    DEF Repository!Next, Repository!Begin, Repository!Step
  <1> QED BY <1>1, <1>2

\* The snapshot a manifest names, and the one a read is in the middle of, are
\* complete in the store, for any number of threads, generations and chunks
\* and through every failed write and crash (read, commit and gc).
THEOREM SnapshotIntactHolds ==
  Repository!Init /\ [][Repository!Next]_(Repository!vars) => []SnapshotIntact
  <1>1. RepositoryInv => SnapshotIntact
    BY DEF RepositoryInv, RepositoryTypes, LeasesHeld, Intact, SnapshotIntact,
           Repository!SnapshotIntact, Repository!TypeOK
  <1> QED BY RepositoryInit, RepositoryStep, <1>1, PTL

----------------------------------------------------------------------------
(* The item pipeline (ItemPipeline). *)

Closing == {w \in Workers : at[w] \in {"barrier", "flushing"}}

PipelineTypes ==
  /\ Pipeline!TypeOK
  /\ reactor \in BOOLEAN /\ opens \in BOOLEAN /\ latched \in BOOLEAN /\ pending \in BOOLEAN
  /\ requested \in BOOLEAN /\ lapsed \in BOOLEAN
  /\ errors \in Nat /\ items \in Nat /\ silent \in Nat

\* An open under way is alone: nothing is closed, stored or rolled back.
OpenAlone ==
  /\ opener # Nobody =>
       /\ opens /\ ~latched /\ openState = "new"
       /\ \A w \in Workers : at[w] \in {"idle", "entering", "probing"}
  /\ \A w \in Workers :
       /\ at[w] = "probing" => opener = w
       /\ at[w] = "rollback" => opens

\* One closer at a time, which owns the close and has latched it, unless a
\* rollback that went on has published the end of it; nobody stores while it
\* flushes, and only then the pipeline is closed.
OneCloser ==
  \A w \in Workers :
    /\ w \in Closing => IF openState = "closed" THEN lapsed ELSE closer = w /\ latched
    /\ at[w] = "unflushed" => lapsed
    /\ at[w] = "flushing" => Pipeline!Busy("storing") = {}
    /\ at[w] = "releasing" => openState = "closed"
    /\ at[w] = "storing" => openState = "open"

\* A reserved close is the only one and nobody else can claim; an item is
\* queued after the open.
ChainSound ==
  /\ \A i, j \in 1 .. Len(tail) : tail[i] = "close" /\ tail[j] = "close" => i = j
  /\ \A i \in 1 .. Len(tail) : tail[i] = "store" => openState # "new"
  /\ \A i \in 1 .. Len(tail) :
       tail[i] = "close" /\ openState # "closed" => latched /\ pending /\ closer = Nobody

\* Nobody owns a close that is not latched.
IdleClose == ~latched => closer = Nobody

\* A rollback closes a pipeline that never opened, and so has no items.
RollbackEmpty ==
  /\ forced # {} => opens /\ opener = Nobody /\ openState # "open"
  /\ openState = "new" => items = 0
  /\ lapsed => opens /\ opener = Nobody /\ openState # "open" /\ items = 0
  /\ manager = "released" \/ strategy = "closed" => openState = "closed"

\* Under the reactor the chain stores one item at a time, so that the counter
\* sees every loss.
LossesCounted ==
  reactor =>
    /\ \A w \in Workers : at[w] = "storing" => tail # << >> /\ Head(tail) = "storing"
    /\ \A w, u \in Workers : at[w] = "storing" /\ at[u] = "storing" => w = u
    /\ silent <= errors /\ silent <= MaxErrors

PipelineInv ==
  /\ PipelineTypes /\ OpenAlone /\ OneCloser /\ ChainSound /\ IdleClose
  /\ RollbackEmpty /\ LossesCounted

Jobs == {"store", "storing", "close", "closing"}

\* What joining, leaving and heading the chain makes of it.
LEMMA JobJoins ==
  ASSUME tail \in Seq(Jobs), NEW x \in Jobs
  PROVE  /\ Append(tail, x) \in Seq(Jobs) /\ Len(Append(tail, x)) = Len(tail) + 1
         /\ \A i \in 1 .. Len(tail) + 1 :
              Append(tail, x)[i] = IF i = Len(tail) + 1 THEN x ELSE tail[i]
  OBVIOUS

LEMMA JobLeaves ==
  ASSUME tail \in Seq(Jobs), tail # << >>
  PROVE  /\ Tail(tail) \in Seq(Jobs) /\ Len(Tail(tail)) = Len(tail) - 1
         /\ \A i \in 1 .. Len(tail) - 1 : Tail(tail)[i] = tail[i + 1]
         /\ Head(tail) = tail[1] /\ Len(tail) >= 1
  OBVIOUS

LEMMA JobStarts ==
  ASSUME tail \in Seq(Jobs), tail # << >>, NEW x \in Jobs
  PROVE  /\ <<x>> \o Tail(tail) \in Seq(Jobs) /\ Len(<<x>> \o Tail(tail)) = Len(tail)
         /\ \A i \in 1 .. Len(tail) : (<<x>> \o Tail(tail))[i] = IF i = 1 THEN x ELSE tail[i]
  <1>1. Tail(tail) \in Seq(Jobs) /\ <<x>> \in Seq(Jobs) /\ Len(<<x>>) = 1 /\ <<x>>[1] = x
    OBVIOUS
  <1> QED BY <1>1, JobLeaves

LEMMA ChainLeaves ==
  ASSUME tail \in Seq(Jobs), tail # << >>, tail' = Tail(tail), ChainSound,
         UNCHANGED <<openState, latched, pending, closer>>
  PROVE  ChainSound'
  <1>1. Len(tail') = Len(tail) - 1 /\ Len(tail) \in Nat
    BY JobLeaves
  <1>2. \A i \in 1 .. Len(tail') : i + 1 \in 1 .. Len(tail) /\ tail'[i] = tail[i + 1]
    BY <1>1, JobLeaves
  <1> QED BY <1>1, <1>2 DEF ChainSound

\* The inductive invariant holds at the start.
LEMMA PipelineInit == Pipeline!Init => PipelineInv
  <1> SUFFICES ASSUME Pipeline!Init PROVE PipelineInv
    OBVIOUS
  <1> USE WorkersAssumption, BoundsAssumption DEF Pipeline!Init
  <1>0. tail \in Seq({"store", "storing", "close", "closing"})
    OBVIOUS
  <1>1. PipelineTypes
    BY <1>0 DEF PipelineTypes, Pipeline!TypeOK
  <1>2. OpenAlone /\ OneCloser /\ ChainSound
    BY DEF OpenAlone, OneCloser, ChainSound, Closing
  <1>3. RollbackEmpty /\ LossesCounted /\ IdleClose
    BY DEF RollbackEmpty, LossesCounted, IdleClose
  <1> QED BY <1>1, <1>2, <1>3 DEF PipelineInv

LEMMA StoresDoneKeeps ==
  ASSUME PipelineInv, NEW w \in Workers, Pipeline!StoresDone(w)
  PROVE  PipelineInv'
  <1> USE WorkersAssumption, BoundsAssumption
      DEF Pipeline!StoresDone, Pipeline!Goes,
          Pipeline!hooks, Pipeline!close, Pipeline!stores, Pipeline!parts,
          PipelineInv, PipelineTypes, Pipeline!TypeOK
  <1>1. PipelineTypes'
    OBVIOUS
  <1>2. OpenAlone'
    BY <1>1 DEF OpenAlone, OneCloser, Closing
  <1>3. OneCloser'
    BY <1>1 DEF OpenAlone, OneCloser, ChainSound, Closing, Pipeline!Busy
  <1>4. ChainSound'
    BY <1>1 DEF OpenAlone, OneCloser, ChainSound, Closing
  <1>5. RollbackEmpty'
    BY <1>1 DEF OpenAlone, OneCloser, RollbackEmpty, Closing, Pipeline!Busy
  <1>6. LossesCounted'
    BY <1>1 DEF LossesCounted, Pipeline!Busy
  <1>8. IdleClose'
    BY DEF IdleClose
  <1> QED BY <1>1, <1>2, <1>3, <1>4, <1>5, <1>6, <1>8

LEMMA FlushFailsKeeps ==
  ASSUME PipelineInv, NEW w \in Workers, Pipeline!FlushFails(w)
  PROVE  PipelineInv'
  <1> USE WorkersAssumption, BoundsAssumption
      DEF Pipeline!FlushFails, Pipeline!Goes,
          Pipeline!hooks, Pipeline!close, Pipeline!stores, Pipeline!parts,
          PipelineInv, PipelineTypes, Pipeline!TypeOK
  <1>1. PipelineTypes'
    OBVIOUS
  <1>2. OpenAlone'
    BY <1>1 DEF OpenAlone, OneCloser, Closing
  <1>3. OneCloser'
    BY <1>1 DEF OpenAlone, OneCloser, ChainSound, Closing, Pipeline!Busy
  <1>4. ChainSound'
    BY <1>1 DEF OpenAlone, OneCloser, ChainSound, Closing
  <1>5. RollbackEmpty'
    BY <1>1 DEF OpenAlone, OneCloser, RollbackEmpty, Closing, Pipeline!Busy
  <1>6. LossesCounted'
    BY <1>1 DEF LossesCounted, Pipeline!Busy
  <1>8. IdleClose'
    BY DEF IdleClose
  <1> QED BY <1>1, <1>2, <1>3, <1>4, <1>5, <1>6, <1>8

LEMMA FlushedKeeps ==
  ASSUME PipelineInv, NEW w \in Workers, Pipeline!Flushed(w)
  PROVE  PipelineInv'
  <1> USE WorkersAssumption, BoundsAssumption
      DEF Pipeline!Flushed, Pipeline!CloseEnds, Pipeline!Goes,
          Pipeline!hooks, Pipeline!close, Pipeline!stores, Pipeline!parts,
          PipelineInv, PipelineTypes, Pipeline!TypeOK
  <1>1. PipelineTypes'
    OBVIOUS
  <1>2. OpenAlone'
    BY <1>1 DEF OpenAlone, OneCloser, Closing
  <1>3. OneCloser'
    BY <1>1 DEF OpenAlone, OneCloser, ChainSound, Closing, Pipeline!Busy
  <1>4. ChainSound'
    BY <1>1 DEF OpenAlone, OneCloser, ChainSound, Closing
  <1>5. RollbackEmpty'
    BY <1>1 DEF OpenAlone, OneCloser, RollbackEmpty, Closing, Pipeline!Busy
  <1>6. LossesCounted'
    BY <1>1 DEF LossesCounted, Pipeline!Busy
  <1>8. IdleClose'
    BY DEF IdleClose
  <1> QED BY <1>1, <1>2, <1>3, <1>4, <1>5, <1>6, <1>8

LEMMA RollbackGoesOnKeeps ==
  ASSUME PipelineInv, NEW w \in Workers, Pipeline!RollbackGoesOn(w)
  PROVE  PipelineInv'
  <1> USE WorkersAssumption, BoundsAssumption
      DEF Pipeline!RollbackGoesOn, Pipeline!CloseEnds, Pipeline!Goes,
          Pipeline!hooks, Pipeline!close, Pipeline!stores, Pipeline!parts,
          PipelineInv, PipelineTypes, Pipeline!TypeOK
  <1>1. PipelineTypes'
    OBVIOUS
  <1>2. OpenAlone'
    BY <1>1 DEF OpenAlone, OneCloser, Closing
  <1>3. OneCloser'
    BY <1>1 DEF OpenAlone, OneCloser, ChainSound, RollbackEmpty, Closing, Pipeline!Busy
  <1>4. ChainSound'
    BY <1>1 DEF OpenAlone, OneCloser, ChainSound, Closing
  <1>5. RollbackEmpty'
    BY <1>1 DEF OpenAlone, OneCloser, RollbackEmpty, Closing, Pipeline!Busy
  <1>6. LossesCounted'
    BY <1>1 DEF LossesCounted, Pipeline!Busy
  <1>8. IdleClose'
    BY DEF IdleClose
  <1> QED BY <1>1, <1>2, <1>3, <1>4, <1>5, <1>6, <1>8

LEMMA ManagerReleasedKeeps ==
  ASSUME PipelineInv, NEW w \in Workers, Pipeline!ManagerReleased(w)
  PROVE  PipelineInv'
  <1> USE WorkersAssumption, BoundsAssumption
      DEF Pipeline!ManagerReleased, Pipeline!Goes,
          Pipeline!hooks, Pipeline!close, Pipeline!stores, Pipeline!parts,
          PipelineInv, PipelineTypes, Pipeline!TypeOK
  <1>1. PipelineTypes'
    OBVIOUS
  <1>2. OpenAlone'
    BY <1>1 DEF OpenAlone, OneCloser, Closing
  <1>3. OneCloser'
    BY <1>1 DEF OpenAlone, OneCloser, ChainSound, Closing, Pipeline!Busy
  <1>4. ChainSound'
    BY <1>1 DEF OpenAlone, OneCloser, ChainSound, Closing
  <1>5. RollbackEmpty'
    BY <1>1 DEF OpenAlone, OneCloser, RollbackEmpty, Closing, Pipeline!Busy
  <1>6. LossesCounted'
    BY <1>1 DEF LossesCounted, Pipeline!Busy
  <1>8. IdleClose'
    BY DEF IdleClose
  <1> QED BY <1>1, <1>2, <1>3, <1>4, <1>5, <1>6, <1>8

LEMMA OpenAsyncKeeps ==
  ASSUME PipelineInv, Pipeline!OpenAsync
  PROVE  PipelineInv'
  <1> USE WorkersAssumption, BoundsAssumption
      DEF Pipeline!OpenAsync, Pipeline!Goes,
          Pipeline!hooks, Pipeline!close, Pipeline!stores, Pipeline!parts,
          PipelineInv, PipelineTypes, Pipeline!TypeOK
  <1>1. PipelineTypes'
    OBVIOUS
  <1>2. OpenAlone'
    BY <1>1 DEF OpenAlone, OneCloser, RollbackEmpty, Closing
  <1>3. OneCloser'
    BY <1>1 DEF OpenAlone, OneCloser, ChainSound, Closing, Pipeline!Busy
  <1>4. ChainSound'
    BY <1>1 DEF OpenAlone, OneCloser, ChainSound, Closing
  <1>5. RollbackEmpty'
    BY <1>1 DEF OpenAlone, OneCloser, RollbackEmpty, Closing, Pipeline!Busy
  <1>6. LossesCounted'
    BY <1>1 DEF LossesCounted, Pipeline!Busy
  <1>8. IdleClose'
    BY DEF IdleClose
  <1> QED BY <1>1, <1>2, <1>3, <1>4, <1>5, <1>6, <1>8

LEMMA OpenBeginsKeeps ==
  ASSUME PipelineInv, NEW w \in Workers, Pipeline!OpenBegins(w)
  PROVE  PipelineInv'
  <1> USE WorkersAssumption, BoundsAssumption
      DEF Pipeline!OpenBegins, Pipeline!Idle, Pipeline!Goes,
          Pipeline!hooks, Pipeline!close, Pipeline!stores, Pipeline!parts,
          PipelineInv, PipelineTypes, Pipeline!TypeOK
  <1>1. PipelineTypes'
    OBVIOUS
  <1>2. OpenAlone'
    BY <1>1 DEF OpenAlone, OneCloser, RollbackEmpty, Closing
  <1>3. OneCloser'
    BY <1>1 DEF OpenAlone, OneCloser, ChainSound, Closing, Pipeline!Busy
  <1>4. ChainSound'
    BY <1>1 DEF OpenAlone, OneCloser, ChainSound, Closing
  <1>5. RollbackEmpty'
    BY <1>1 DEF OpenAlone, OneCloser, RollbackEmpty, Closing, Pipeline!Busy
  <1>6. LossesCounted'
    BY <1>1 DEF LossesCounted, Pipeline!Busy
  <1>8. IdleClose'
    BY DEF IdleClose
  <1> QED BY <1>1, <1>2, <1>3, <1>4, <1>5, <1>6, <1>8

LEMMA OpenFailsKeeps ==
  ASSUME PipelineInv, NEW w \in Workers, Pipeline!OpenFails(w)
  PROVE  PipelineInv'
  <1> USE WorkersAssumption, BoundsAssumption
      DEF Pipeline!OpenFails, Pipeline!Goes,
          Pipeline!hooks, Pipeline!close, Pipeline!stores, Pipeline!parts,
          PipelineInv, PipelineTypes, Pipeline!TypeOK
  <1>1. PipelineTypes'
    OBVIOUS
  <1>2. OpenAlone'
    BY <1>1 DEF OpenAlone, OneCloser, Closing
  <1>3. OneCloser'
    BY <1>1 DEF OpenAlone, OneCloser, ChainSound, Closing, Pipeline!Busy
  <1>4. ChainSound'
    BY <1>1 DEF OpenAlone, OneCloser, ChainSound, Closing
  <1>5. RollbackEmpty'
    BY <1>1 DEF OpenAlone, OneCloser, RollbackEmpty, Closing, Pipeline!Busy
  <1>6. LossesCounted'
    BY <1>1 DEF LossesCounted, Pipeline!Busy
  <1>8. IdleClose'
    BY DEF IdleClose
  <1> QED BY <1>1, <1>2, <1>3, <1>4, <1>5, <1>6, <1>8

LEMMA OpenEndsKeeps ==
  ASSUME PipelineInv, NEW w \in Workers, Pipeline!OpenEnds(w)
  PROVE  PipelineInv'
  <1> USE WorkersAssumption, BoundsAssumption
      DEF Pipeline!OpenEnds, Pipeline!Goes,
          Pipeline!hooks, Pipeline!close, Pipeline!stores, Pipeline!parts,
          PipelineInv, PipelineTypes, Pipeline!TypeOK
  <1>1. PipelineTypes'
    OBVIOUS
  <1>2. OpenAlone'
    BY <1>1 DEF OpenAlone, OneCloser, Closing
  <1>3. OneCloser'
    BY <1>1 DEF OpenAlone, OneCloser, ChainSound, Closing, Pipeline!Busy
  <1>4. ChainSound'
    BY <1>1 DEF OpenAlone, OneCloser, ChainSound, Closing
  <1>5. RollbackEmpty'
    BY <1>1 DEF OpenAlone, OneCloser, RollbackEmpty, Closing, Pipeline!Busy
  <1>6. LossesCounted'
    BY <1>1 DEF LossesCounted, Pipeline!Busy
  <1>8. IdleClose'
    BY DEF IdleClose
  <1> QED BY <1>1, <1>2, <1>3, <1>4, <1>5, <1>6, <1>8

LEMMA RollbackKeeps ==
  ASSUME PipelineInv, NEW w \in Workers, Pipeline!Rollback(w)
  PROVE  PipelineInv'
  <1> USE WorkersAssumption, BoundsAssumption
      DEF Pipeline!Rollback, Pipeline!Claim, Pipeline!CloseOwned, Pipeline!Goes,
          Pipeline!hooks, Pipeline!close, Pipeline!stores, Pipeline!parts,
          PipelineInv, PipelineTypes, Pipeline!TypeOK
  <1>1. PipelineTypes'
    OBVIOUS
  <1>2. OpenAlone'
    BY <1>1 DEF OpenAlone, OneCloser, Closing
  <1>3. OneCloser'
    BY <1>1 DEF OpenAlone, OneCloser, ChainSound, Closing, Pipeline!Busy
  <1>4. ChainSound'
    BY <1>1 DEF OpenAlone, OneCloser, ChainSound, Closing
  <1>5. RollbackEmpty'
    BY <1>1 DEF OpenAlone, OneCloser, RollbackEmpty, Closing, Pipeline!Busy
  <1>6. LossesCounted'
    BY <1>1 DEF LossesCounted, Pipeline!Busy
  <1>8. IdleClose'
    BY DEF IdleClose
  <1> QED BY <1>1, <1>2, <1>3, <1>4, <1>5, <1>6, <1>8

LEMMA CloseAsyncKeeps ==
  ASSUME PipelineInv, Pipeline!CloseAsync
  PROVE  PipelineInv'
  <1> USE WorkersAssumption, BoundsAssumption
      DEF Pipeline!CloseAsync, Pipeline!Reserve, Pipeline!Goes,
          Pipeline!hooks, Pipeline!close, Pipeline!stores, Pipeline!parts,
          PipelineInv, PipelineTypes, Pipeline!TypeOK
  <1>0. tail' \in Seq(Jobs)
    BY JobJoins DEF Jobs
  <1>1. PipelineTypes'
    BY <1>0 DEF Jobs
  <1>2. OpenAlone'
    BY <1>1 DEF OpenAlone, OneCloser, Closing
  <1>3. OneCloser'
    BY <1>1 DEF OpenAlone, OneCloser, ChainSound, Closing, Pipeline!Busy
  <1>4. ChainSound'
    <2>1. CASE tail' = tail
      BY <1>1, <2>1 DEF OpenAlone, ChainSound
    <2>2. CASE tail' # tail
      <3>1. /\ opener = Nobody /\ ~latched /\ openState # "closed" /\ tail' = Append(tail, "close")
            /\ latched' = TRUE /\ pending' = TRUE /\ UNCHANGED <<openState, closer>>
        BY <2>2 
      <3>2. \A i \in 1 .. Len(tail) : tail[i] # "close"
        BY <3>1 DEF ChainSound
      <3>3. /\ Len(tail') = Len(tail) + 1
            /\ \A i \in 1 .. Len(tail) + 1 : tail'[i] = "close" => i = Len(tail) + 1
        BY <3>1, <3>2, JobJoins DEF Jobs
      <3>4. closer = Nobody
        BY <3>1 DEF IdleClose
      <3> QED BY <3>1, <3>3, <3>4 DEF ChainSound
    <2> QED BY <2>1, <2>2
  <1>5. RollbackEmpty'
    BY <1>1 DEF OpenAlone, OneCloser, RollbackEmpty, Closing, Pipeline!Busy
  <1>6. LossesCounted'
    BY <1>1 DEF LossesCounted, Pipeline!Busy
  <1>8. IdleClose'
    BY DEF IdleClose
  <1> QED BY <1>1, <1>2, <1>3, <1>4, <1>5, <1>6, <1>8

LEMMA ContinueAfterOpenKeeps ==
  ASSUME PipelineInv, Pipeline!ContinueAfterOpen
  PROVE  PipelineInv'
  <1> USE WorkersAssumption, BoundsAssumption
      DEF Pipeline!ContinueAfterOpen, Pipeline!Reserve, Pipeline!Goes,
          Pipeline!hooks, Pipeline!close, Pipeline!stores, Pipeline!parts,
          PipelineInv, PipelineTypes, Pipeline!TypeOK
  <1>0. tail' \in Seq(Jobs)
    BY JobJoins DEF Jobs
  <1>1. PipelineTypes'
    BY <1>0 DEF Jobs
  <1>2. OpenAlone'
    BY <1>1 DEF OpenAlone, OneCloser, Closing
  <1>3. OneCloser'
    BY <1>1 DEF OpenAlone, OneCloser, ChainSound, Closing, Pipeline!Busy
  <1>4. ChainSound'
    <2>1. CASE tail' = tail
      BY <1>1, <2>1 DEF OpenAlone, ChainSound
    <2>2. CASE tail' # tail
      <3>1. /\ opener = Nobody /\ ~latched /\ openState # "closed" /\ tail' = Append(tail, "close")
            /\ latched' = TRUE /\ pending' = TRUE /\ UNCHANGED <<openState, closer>>
        BY <2>2 
      <3>2. \A i \in 1 .. Len(tail) : tail[i] # "close"
        BY <3>1 DEF ChainSound
      <3>3. /\ Len(tail') = Len(tail) + 1
            /\ \A i \in 1 .. Len(tail) + 1 : tail'[i] = "close" => i = Len(tail) + 1
        BY <3>1, <3>2, JobJoins DEF Jobs
      <3>4. closer = Nobody
        BY <3>1 DEF IdleClose
      <3> QED BY <3>1, <3>3, <3>4 DEF ChainSound
    <2> QED BY <2>1, <2>2
  <1>5. RollbackEmpty'
    BY <1>1 DEF OpenAlone, OneCloser, RollbackEmpty, Closing, Pipeline!Busy
  <1>6. LossesCounted'
    BY <1>1 DEF LossesCounted, Pipeline!Busy
  <1>8. IdleClose'
    BY DEF IdleClose
  <1> QED BY <1>1, <1>2, <1>3, <1>4, <1>5, <1>6, <1>8

LEMMA CloseRefusedKeeps ==
  ASSUME PipelineInv, Pipeline!CloseRefused
  PROVE  PipelineInv'
  <1> USE WorkersAssumption, BoundsAssumption
      DEF Pipeline!CloseRefused, Pipeline!Goes,
          Pipeline!hooks, Pipeline!close, Pipeline!stores, Pipeline!parts,
          PipelineInv, PipelineTypes, Pipeline!TypeOK
  <1>0. tail' \in Seq(Jobs)
    BY JobStarts DEF Jobs
  <1>1. PipelineTypes'
    BY <1>0 DEF Jobs
  <1>2. OpenAlone'
    BY <1>1 DEF OpenAlone, OneCloser, Closing
  <1>3. OneCloser'
    BY <1>1 DEF OpenAlone, OneCloser, ChainSound, Closing, Pipeline!Busy
  <1>4. ChainSound'
    BY <1>1 DEF OpenAlone, OneCloser, ChainSound, Closing
  <1>5. RollbackEmpty'
    BY <1>1 DEF OpenAlone, OneCloser, RollbackEmpty, Closing, Pipeline!Busy
  <1>6. LossesCounted'
    BY <1>1 DEF LossesCounted, Pipeline!Busy
  <1>8. IdleClose'
    BY DEF IdleClose
  <1> QED BY <1>1, <1>2, <1>3, <1>4, <1>5, <1>6, <1>8

LEMMA PipelineCloseBeginsKeeps ==
  ASSUME PipelineInv, NEW w \in Workers, Pipeline!CloseBegins(w)
  PROVE  PipelineInv'
  <1> USE WorkersAssumption, BoundsAssumption
      DEF Pipeline!CloseBegins, Pipeline!Idle, Pipeline!Goes,
          Pipeline!hooks, Pipeline!close, Pipeline!stores, Pipeline!parts,
          PipelineInv, PipelineTypes, Pipeline!TypeOK
  <1>0. tail' \in Seq(Jobs)
    BY JobStarts DEF Jobs
  <1>1. PipelineTypes'
    BY <1>0 DEF Jobs
  <1>2. OpenAlone'
    BY <1>1 DEF OpenAlone, OneCloser, Closing
  <1>3. OneCloser'
    BY <1>1 DEF OpenAlone, OneCloser, ChainSound, Closing, Pipeline!Busy
  <1>4. ChainSound'
    BY <1>1 DEF OpenAlone, OneCloser, ChainSound, Closing
  <1>5. RollbackEmpty'
    BY <1>1 DEF OpenAlone, OneCloser, RollbackEmpty, Closing, Pipeline!Busy
  <1>6. LossesCounted'
    BY <1>1 DEF LossesCounted, Pipeline!Busy
  <1>8. IdleClose'
    BY DEF IdleClose
  <1> QED BY <1>1, <1>2, <1>3, <1>4, <1>5, <1>6, <1>8

LEMMA CloseEntersKeeps ==
  ASSUME PipelineInv, NEW w \in Workers, Pipeline!CloseEnters(w)
  PROVE  PipelineInv'
  <1> USE WorkersAssumption, BoundsAssumption
      DEF Pipeline!CloseEnters, Pipeline!Claim, Pipeline!CloseOwned, Pipeline!Goes,
          Pipeline!hooks, Pipeline!close, Pipeline!stores, Pipeline!parts,
          PipelineInv, PipelineTypes, Pipeline!TypeOK
  <1>1. PipelineTypes'
    OBVIOUS
  <1>2. OpenAlone'
    BY <1>1 DEF OpenAlone, OneCloser, Closing
  <1>3. OneCloser'
    BY <1>1 DEF OpenAlone, OneCloser, ChainSound, Closing, Pipeline!Busy
  <1>4. ChainSound'
    BY <1>1 DEF OpenAlone, OneCloser, ChainSound, Closing
  <1>5. RollbackEmpty'
    BY <1>1 DEF OpenAlone, OneCloser, RollbackEmpty, Closing, Pipeline!Busy
  <1>6. LossesCounted'
    BY <1>1 DEF LossesCounted, Pipeline!Busy
  <1>8. IdleClose'
    BY DEF IdleClose
  <1> QED BY <1>1, <1>2, <1>3, <1>4, <1>5, <1>6, <1>8

LEMMA ProcessItemAsyncKeeps ==
  ASSUME PipelineInv, Pipeline!ProcessItemAsync
  PROVE  PipelineInv'
  <1> USE WorkersAssumption, BoundsAssumption
      DEF Pipeline!ProcessItemAsync, Pipeline!Goes,
          Pipeline!hooks, Pipeline!close, Pipeline!stores, Pipeline!parts,
          PipelineInv, PipelineTypes, Pipeline!TypeOK
  <1>1. PipelineTypes'
    OBVIOUS
  <1>2. OpenAlone'
    BY <1>1 DEF OpenAlone, OneCloser, Closing
  <1>3. OneCloser'
    BY <1>1 DEF OpenAlone, OneCloser, ChainSound, Closing, Pipeline!Busy
  <1>4. ChainSound'
    BY <1>1 DEF OpenAlone, OneCloser, ChainSound, Closing
  <1>5. RollbackEmpty'
    BY <1>1 DEF OpenAlone, OneCloser, RollbackEmpty, Closing, Pipeline!Busy
  <1>6. LossesCounted'
    BY <1>1 DEF LossesCounted, Pipeline!Busy
  <1>8. IdleClose'
    BY DEF IdleClose
  <1> QED BY <1>1, <1>2, <1>3, <1>4, <1>5, <1>6, <1>8

LEMMA StoreBeginsKeeps ==
  ASSUME PipelineInv, NEW w \in Workers, Pipeline!StoreBegins(w)
  PROVE  PipelineInv'
  <1> USE WorkersAssumption, BoundsAssumption
      DEF Pipeline!StoreBegins, Pipeline!Idle, Pipeline!Rejects, Pipeline!Goes,
          Pipeline!hooks, Pipeline!close, Pipeline!stores, Pipeline!parts,
          PipelineInv, PipelineTypes, Pipeline!TypeOK
  <1>0. tail' \in Seq(Jobs)
    BY JobLeaves, JobStarts DEF Jobs
  <1>9. UNCHANGED <<opener, requested, opens, openState, latched, pending, closer, forced>>
    OBVIOUS
  <1>a. \/ at' = at
        \/ openState = "open" /\ ~latched /\ opener = Nobody /\ at[w] = "idle" /\ at' = [at EXCEPT ![w] = "storing"]
    BY JobLeaves DEF OpenAlone, ChainSound, Jobs
  <1>b. \/ tail' = tail
        \/ tail # << >> /\ tail' = Tail(tail)
        \/ tail # << >> /\ tail' = <<"storing">> \o Tail(tail)
    OBVIOUS
  <1>1. PipelineTypes'
    BY <1>0 DEF Jobs
  <1>2. OpenAlone'
    BY <1>9, <1>a DEF OpenAlone
  <1>3. OneCloser'
    <2>1. CASE at' = at
      BY <1>9, <2>1 DEF OneCloser, Closing, Pipeline!Busy
    <2>2. CASE at' # at
      <3>1. Closing = {} /\ Closing' = {}
        BY <1>a, <2>2 DEF OneCloser, Closing
      <3>2. \A u \in Workers : at'[u] # "flushing"
        BY <3>1 DEF Closing
      <3> QED BY <1>9, <1>a, <2>2, <3>1, <3>2 DEF OneCloser, Closing
    <2> QED BY <2>1, <2>2
  <1>4. ChainSound'
    <2>1. CASE tail' = tail
      BY <1>9, <2>1 DEF ChainSound
    <2>2. CASE tail # << >> /\ tail' = Tail(tail)
      BY <1>9, <2>2, ChainLeaves DEF Jobs
    <2>3. CASE tail # << >> /\ tail' = <<"storing">> \o Tail(tail)
      BY <1>9, <2>3, JobStarts DEF ChainSound, Jobs
    <2> QED BY <1>b, <2>1, <2>2, <2>3
  <1>5. RollbackEmpty'
    BY <1>1 DEF OpenAlone, OneCloser, RollbackEmpty, Closing, Pipeline!Busy
  <1>6. LossesCounted'
    BY <1>1 DEF LossesCounted, Pipeline!Busy
  <1>8. IdleClose'
    BY DEF IdleClose
  <1> QED BY <1>1, <1>2, <1>3, <1>4, <1>5, <1>6, <1>8

LEMMA StoreRefusedKeeps ==
  ASSUME PipelineInv, Pipeline!StoreRefused
  PROVE  PipelineInv'
  <1> USE WorkersAssumption, BoundsAssumption
      DEF Pipeline!StoreRefused, Pipeline!Goes,
          Pipeline!hooks, Pipeline!close, Pipeline!stores, Pipeline!parts,
          PipelineInv, PipelineTypes, Pipeline!TypeOK
  <1>1. PipelineTypes'
    OBVIOUS
  <1>2. OpenAlone'
    BY <1>1 DEF OpenAlone, OneCloser, Closing
  <1>3. OneCloser'
    BY <1>1 DEF OpenAlone, OneCloser, ChainSound, Closing, Pipeline!Busy
  <1>4. ChainSound'
    BY <1>1 DEF OpenAlone, OneCloser, ChainSound, Closing
  <1>5. RollbackEmpty'
    BY <1>1 DEF OpenAlone, OneCloser, RollbackEmpty, Closing, Pipeline!Busy
  <1>6. LossesCounted'
    BY <1>1 DEF LossesCounted, Pipeline!Busy
  <1>8. IdleClose'
    BY DEF IdleClose
  <1> QED BY <1>1, <1>2, <1>3, <1>4, <1>5, <1>6, <1>8

LEMMA ItemStoredKeeps ==
  ASSUME PipelineInv, NEW w \in Workers, Pipeline!ItemStored(w)
  PROVE  PipelineInv'
  <1> USE WorkersAssumption, BoundsAssumption
      DEF Pipeline!ItemStored, Pipeline!LeaveStore, Pipeline!Counted, Pipeline!Goes,
          Pipeline!hooks, Pipeline!close, Pipeline!stores, Pipeline!parts,
          PipelineInv, PipelineTypes, Pipeline!TypeOK
  <1>0. tail' \in Seq(Jobs)
    BY JobLeaves DEF Jobs, LossesCounted
  <1>7. errors' \in Nat /\ silent' \in Nat
    OBVIOUS
  <1>1. PipelineTypes'
    BY <1>0, <1>7 DEF Jobs
  <1>2. OpenAlone'
    BY <1>1 DEF OpenAlone, OneCloser, Closing
  <1>3. OneCloser'
    BY <1>1 DEF OpenAlone, OneCloser, ChainSound, Closing, Pipeline!Busy
  <1>4. ChainSound'
    BY <1>1 DEF OpenAlone, OneCloser, ChainSound, Closing
  <1>5. RollbackEmpty'
    BY <1>1 DEF OpenAlone, OneCloser, RollbackEmpty, Closing, Pipeline!Busy
  <1>6. LossesCounted'
    BY <1>1 DEF LossesCounted, Pipeline!Busy
  <1>8. IdleClose'
    BY DEF IdleClose
  <1> QED BY <1>1, <1>2, <1>3, <1>4, <1>5, <1>6, <1>8

LEMMA ItemInvalidKeeps ==
  ASSUME PipelineInv, NEW w \in Workers, Pipeline!ItemInvalid(w)
  PROVE  PipelineInv'
  <1> USE WorkersAssumption, BoundsAssumption
      DEF Pipeline!ItemInvalid, Pipeline!LeaveStore, Pipeline!Goes,
          Pipeline!hooks, Pipeline!close, Pipeline!stores, Pipeline!parts,
          PipelineInv, PipelineTypes, Pipeline!TypeOK
  <1>0. tail' \in Seq(Jobs)
    BY JobLeaves DEF Jobs, LossesCounted
  <1>1. PipelineTypes'
    BY <1>0 DEF Jobs
  <1>2. OpenAlone'
    BY <1>1 DEF OpenAlone, OneCloser, Closing
  <1>3. OneCloser'
    BY <1>1 DEF OpenAlone, OneCloser, ChainSound, Closing, Pipeline!Busy
  <1>4. ChainSound'
    BY <1>1 DEF OpenAlone, OneCloser, ChainSound, Closing
  <1>5. RollbackEmpty'
    BY <1>1 DEF OpenAlone, OneCloser, RollbackEmpty, Closing, Pipeline!Busy
  <1>6. LossesCounted'
    BY <1>1 DEF LossesCounted, Pipeline!Busy
  <1>8. IdleClose'
    BY DEF IdleClose
  <1> QED BY <1>1, <1>2, <1>3, <1>4, <1>5, <1>6, <1>8

LEMMA StoreFailsKeeps ==
  ASSUME PipelineInv, NEW w \in Workers, Pipeline!StoreFails(w)
  PROVE  PipelineInv'
  <1> USE WorkersAssumption, BoundsAssumption
      DEF Pipeline!StoreFails, Pipeline!LeaveStore, Pipeline!Counted, Pipeline!Goes,
          Pipeline!hooks, Pipeline!close, Pipeline!stores, Pipeline!parts,
          PipelineInv, PipelineTypes, Pipeline!TypeOK
  <1>0. tail' \in Seq(Jobs)
    BY JobLeaves DEF Jobs, LossesCounted
  <1>7. errors' \in Nat /\ silent' \in Nat
    OBVIOUS
  <1>1. PipelineTypes'
    BY <1>0, <1>7 DEF Jobs
  <1>2. OpenAlone'
    BY <1>1 DEF OpenAlone, OneCloser, Closing
  <1>3. OneCloser'
    BY <1>1 DEF OpenAlone, OneCloser, ChainSound, Closing, Pipeline!Busy
  <1>4. ChainSound'
    BY <1>1 DEF OpenAlone, OneCloser, ChainSound, Closing
  <1>5. RollbackEmpty'
    BY <1>1 DEF OpenAlone, OneCloser, RollbackEmpty, Closing, Pipeline!Busy
  <1>6. LossesCounted'
    BY <1>1 DEF LossesCounted, Pipeline!Busy
  <1>8. IdleClose'
    BY DEF IdleClose
  <1> QED BY <1>1, <1>2, <1>3, <1>4, <1>5, <1>6, <1>8

LEMMA CloseJobEndsKeeps ==
  ASSUME PipelineInv, Pipeline!CloseJobEnds
  PROVE  PipelineInv'
  <1> USE WorkersAssumption, BoundsAssumption
      DEF Pipeline!CloseJobEnds, Pipeline!Goes,
          Pipeline!hooks, Pipeline!close, Pipeline!stores, Pipeline!parts,
          PipelineInv, PipelineTypes, Pipeline!TypeOK
  <1>1. PipelineTypes'
    OBVIOUS
  <1>2. OpenAlone'
    BY <1>1 DEF OpenAlone, OneCloser, Closing
  <1>3. OneCloser'
    BY <1>1 DEF OpenAlone, OneCloser, ChainSound, Closing, Pipeline!Busy
  <1>4. ChainSound'
    BY <1>1 DEF OpenAlone, OneCloser, ChainSound, Closing
  <1>5. RollbackEmpty'
    BY <1>1 DEF OpenAlone, OneCloser, RollbackEmpty, Closing, Pipeline!Busy
  <1>6. LossesCounted'
    BY <1>1 DEF LossesCounted, Pipeline!Busy
  <1>8. IdleClose'
    BY DEF IdleClose
  <1> QED BY <1>1, <1>2, <1>3, <1>4, <1>5, <1>6, <1>8

\* Every step preserves the invariant.
LEMMA PipelineStep ==
  PipelineInv /\ [Pipeline!Next]_(Pipeline!pipelineVars) => PipelineInv'
  <1> SUFFICES ASSUME PipelineInv, [Pipeline!Next]_(Pipeline!pipelineVars)
               PROVE  PipelineInv'
    OBVIOUS
  <1>1. CASE UNCHANGED Pipeline!pipelineVars
    BY <1>1
    DEF PipelineInv, PipelineTypes, OpenAlone, OneCloser, ChainSound, IdleClose,
        RollbackEmpty, LossesCounted, Closing, Pipeline!Busy, Pipeline!TypeOK,
        Pipeline!pipelineVars, Pipeline!hooks, Pipeline!close, Pipeline!stores,
        Pipeline!parts
  <1>2. CASE Pipeline!Next
    BY <1>2, StoresDoneKeeps, FlushFailsKeeps, FlushedKeeps,
       RollbackGoesOnKeeps, ManagerReleasedKeeps,
       OpenAsyncKeeps, OpenBeginsKeeps, OpenFailsKeeps, OpenEndsKeeps,
       RollbackKeeps, CloseAsyncKeeps, ContinueAfterOpenKeeps, CloseRefusedKeeps,
       PipelineCloseBeginsKeeps, CloseEntersKeeps, ProcessItemAsyncKeeps,
       StoreBeginsKeeps, StoreRefusedKeeps, ItemStoredKeeps, ItemInvalidKeeps,
       StoreFailsKeeps, CloseJobEndsKeeps
    DEF Pipeline!Next, Pipeline!Works
  <1> QED BY <1>1, <1>2

\* The pipeline's manager goes last, after every probe and store, and after every
\* flush unless a rollback overtook it, which then owes nothing to any item;
\* with and without a reactor, for any number of workers, items and attempts
\* (BackendPipeline._close_locked, open_spider).
THEOREM ManagerGoesLastHolds ==
  Pipeline!Init /\ [][Pipeline!Next]_(Pipeline!pipelineVars) => []ManagerGoesLast
  <1>1. ASSUME PipelineInv PROVE ManagerGoesLast
    <2>1. Pipeline!TypeOK /\ (lapsed => items = 0)
      BY <1>1 DEF PipelineInv, PipelineTypes, RollbackEmpty
    <2>2. manager = "released" \/ strategy = "closed" =>
            \A w \in Workers : at[w] \notin {"probing", "storing"}
      BY <1>1, WorkersAssumption
      DEF PipelineInv, OpenAlone, OneCloser, RollbackEmpty, Closing
    <2>3. manager = "released" /\ ~lapsed => \A w \in Workers : at[w] # "flushing"
      BY <1>1 DEF PipelineInv, OneCloser, RollbackEmpty, Closing
    <2>4. /\ manager = "released" =>
               Pipeline!Busy("probing") \union Pipeline!Busy("storing") = {}
          /\ strategy = "closed" => Pipeline!Busy("storing") = {}
      BY <2>2 DEF Pipeline!Busy
    <2>5. manager = "released" /\ ~lapsed => Pipeline!Busy("flushing") = {}
      BY <2>3 DEF Pipeline!Busy
    <2> QED BY <2>1, <2>4, <2>5 DEF ManagerGoesLast, Pipeline!ManagerGoesLast
  <1> QED BY PipelineInit, PipelineStep, <1>1, PTL

\* Under the reactor no more than max_storage_errors items in a row are lost
\* without an exception (_process_item_unlocked).
THEOREM LossesAreRaisedHolds ==
  Pipeline!Init /\ [][Pipeline!Next]_(Pipeline!pipelineVars) => []LossesAreRaised
  <1>1. PipelineInv => LossesAreRaised
    BY DEF PipelineInv, PipelineTypes, LossesCounted, LossesAreRaised,
           Pipeline!LossesAreRaised
  <1> QED BY PipelineInit, PipelineStep, <1>1, PTL

----------------------------------------------------------------------------
(* The parts side by side, as the runs explore them. *)

\* A step of one part leaves the others as they are.
LEMMA OnePartSteps ==
  [MCNext]_MCvars =>
    /\ [Repository!Next]_(Repository!vars) /\ [Checkpoint!Next]_(Checkpoint!vars)
    /\ [Lifecycle!Next]_(Lifecycle!vars) /\ [Pipeline!Next]_(Pipeline!pipelineVars)
  <1> USE DEF MCvars, repositoryVars, checkpointVars, lifecycleVars, pipelineVars,
          Repository!vars, Checkpoint!vars, Checkpoint!store, Checkpoint!flags,
          Checkpoint!history, Lifecycle!vars, Lifecycle!gate, Lifecycle!closing,
          Lifecycle!waiters, Pipeline!pipelineVars, Pipeline!hooks, Pipeline!close,
          Pipeline!stores, Pipeline!parts
  <1> SUFFICES ASSUME [MCNext]_MCvars
               PROVE  /\ [Repository!Next]_(Repository!vars)
                      /\ [Checkpoint!Next]_(Checkpoint!vars)
                      /\ [Lifecycle!Next]_(Lifecycle!vars)
                      /\ [Pipeline!Next]_(Pipeline!pipelineVars)
    OBVIOUS
  <1>1. CASE UNCHANGED MCvars
    BY <1>1
  <1>2. CASE MCNext
    BY <1>2 DEF MCNext
  <1> QED BY <1>1, <1>2

\* Every behaviour that the shutdown runs explore keeps the safety of its part.
THEOREM ShutdownSafe ==
  MCSpec => [](SnapshotIntact /\ CheckpointRestored /\ NothingReplayed
               /\ StrategyClosedOnce /\ ManagerGoesLast /\ LossesAreRaised)
  <1>1. MCInit => /\ Repository!Init /\ Checkpoint!Init /\ Lifecycle!Init /\ Pipeline!Init
    BY DEF MCInit
  <1> QED BY <1>1, OnePartSteps, SnapshotIntactHolds, CheckpointRestoredHolds,
             NothingReplayedHolds, StrategyClosedOnceHolds, ManagerGoesLastHolds,
             LossesAreRaisedHolds, PTL DEF MCSpec

----------------------------------------------------------------------------
(* The lifecycle of the scheduler (SchedulerLifecycle). *)

Settlings == {"none", "idle", "queued", "calling", "ok", "failed", "rejected", "done"}

SchedulerTypes ==
  /\ SchedulerTypeOK
  /\ settling \in [Tokens -> Settlings] /\ acked \in [Tokens -> Nat] /\ skipped \in Nat
  /\ cancelled \in BOOLEAN /\ terminal \in BOOLEAN /\ signals \in BOOLEAN
  /\ lossy \in BOOLEAN /\ paused \in BOOLEAN /\ probeDue \in BOOLEAN

\* An open comes before everything else, and a close attempt past its first
\* stage comes after it.
OpenFirst ==
  /\ state = "new" => opening = "none"
  /\ state = "new" \/ opening # "none" => queue = "none" /\ skipped = 0 /\ ~terminal
  /\ opening # "none" => state \in {"opening", "closing"} /\ closeStage \in {"none", "open"}
  /\ closeStage # "none" => state = "closing"

\* Once the queue is done with, nothing that uses it comes back.
TerminalStays ==
  /\ terminal =>
       /\ state \in {"closing", "closed"} /\ opening = "none" /\ queue # "live"
       /\ Calling \subseteq cut
  /\ closeStage \in {"dupefilter", "managers"} => terminal /\ ~signals
  /\ closeStage = "managers" => dupefilter = "released"
  /\ managers # Managers => terminal /\ ~signals /\ dupefilter = "released"

\* A settlement under way has its claim; one that landed keeps the claim or
\* has taken the token with it.
ClaimsHeld ==
  \A k \in Tokens :
    /\ k \in Pending => k \in settlementClaims
    /\ acked[k] <= 1
    /\ acked[k] = 1 => \/ settling[k] = "ok"
                       \/ settling[k] = "done" /\ (k \notin carried \/ k \in settlementClaims)

\* What is pending when the queue closes was submitted after the barrier.
BarrierPassed ==
  /\ closeStage = "queue" \/ queue # "live" => Pending \subseteq late
  /\ \A k \in Tokens : settling[k] = "rejected" => k \in late

\* A poll that was sent away is followed by a probe.
ProbeOwed == skipped <= 1 /\ (skipped = 1 /\ queue = "live" => paused /\ probeDue)

SchedulerInv ==
  /\ SchedulerTypes /\ OpenFirst /\ TerminalStays /\ ClaimsHeld /\ BarrierPassed
  /\ ProbeOwed

\* The inductive invariant holds at the start.
LEMMA SchedulerStarts == SchedulerInit => SchedulerInv
  <1> SUFFICES ASSUME SchedulerInit PROVE SchedulerInv
    OBVIOUS
  <1> USE DEF SchedulerInit, Settlings, Managers, Pending, Calling
  <1>0. SchedulerTypeOK
    BY DEF SchedulerTypeOK
  <1>1. SchedulerTypes
    BY <1>0 DEF SchedulerTypes
  <1>2. OpenFirst /\ TerminalStays
    BY DEF OpenFirst, TerminalStays
  <1>3. ClaimsHeld /\ BarrierPassed /\ ProbeOwed
    BY DEF ClaimsHeld, BarrierPassed, ProbeOwed
  <1> QED BY <1>1, <1>2, <1>3 DEF SchedulerInv

LEMMA SchedulerCloseKeeps ==
  ASSUME SchedulerInv, NEW abort \in BOOLEAN, Close(abort)
  PROVE  SchedulerInv'
  <1> USE DEF Close, CloseLocked, CloseAfterQueue, DisconnectSignalLeases,
          lifecycle, closing, parts, settlement, gate, Managers, Settlings,
          SchedulerInv, SchedulerTypes, SchedulerTypeOK
  <1>1. SchedulerTypes'
    <2>1. SchedulerTypeOK'
      OBVIOUS
    <2>2. settling' \in [Tokens -> Settlings] /\ acked' \in [Tokens -> Nat] /\ skipped' \in Nat
      OBVIOUS
    <2>3. /\ cancelled' \in BOOLEAN /\ terminal' \in BOOLEAN /\ signals' \in BOOLEAN
          /\ lossy' \in BOOLEAN /\ paused' \in BOOLEAN /\ probeDue' \in BOOLEAN
      OBVIOUS
    <2> QED BY <2>1, <2>2, <2>3
  <1>2. OpenFirst'
    BY <1>1 DEF OpenFirst, TerminalStays
  <1>3. TerminalStays'
    BY <1>1 DEF OpenFirst, TerminalStays, Pending, Calling
  <1>4. ClaimsHeld'
    BY <1>1 DEF ClaimsHeld, Pending
  <1>5. BarrierPassed'
    BY <1>1 DEF OpenFirst, TerminalStays, BarrierPassed, Pending
  <1>6. ProbeOwed'
    BY <1>1 DEF OpenFirst, ProbeOwed
  <1> QED BY <1>1, <1>2, <1>3, <1>4, <1>5, <1>6

LEMMA SchedulerCloseContinuesKeeps ==
  ASSUME SchedulerInv, CloseContinues
  PROVE  SchedulerInv'
  <1> USE DEF CloseContinues, CloseLocked, CloseAfterQueue, DisconnectSignalLeases,
          lifecycle, closing, parts, settlement, gate, Managers, Settlings,
          SchedulerInv, SchedulerTypes, SchedulerTypeOK
  <1>1. SchedulerTypes'
    <2>1. SchedulerTypeOK'
      OBVIOUS
    <2>2. settling' \in [Tokens -> Settlings] /\ acked' \in [Tokens -> Nat] /\ skipped' \in Nat
      OBVIOUS
    <2>3. /\ cancelled' \in BOOLEAN /\ terminal' \in BOOLEAN /\ signals' \in BOOLEAN
          /\ lossy' \in BOOLEAN /\ paused' \in BOOLEAN /\ probeDue' \in BOOLEAN
      OBVIOUS
    <2> QED BY <2>1, <2>2, <2>3
  <1>2. OpenFirst'
    BY <1>1 DEF OpenFirst, TerminalStays
  <1>3. TerminalStays'
    BY <1>1 DEF OpenFirst, TerminalStays, Pending, Calling
  <1>4. ClaimsHeld'
    BY <1>1 DEF ClaimsHeld, Pending
  <1>5. BarrierPassed'
    BY <1>1 DEF OpenFirst, TerminalStays, BarrierPassed, Pending
  <1>6. ProbeOwed'
    BY <1>1 DEF OpenFirst, ProbeOwed
  <1> QED BY <1>1, <1>2, <1>3, <1>4, <1>5, <1>6

LEMMA SchedulerQueueCloseBeginsKeeps ==
  ASSUME SchedulerInv, QueueCloseBegins
  PROVE  SchedulerInv'
  <1> USE DEF QueueCloseBegins,
          lifecycle, closing, parts, settlement, gate, Managers, Settlings,
          SchedulerInv, SchedulerTypes, SchedulerTypeOK
  <1>1. SchedulerTypes'
    OBVIOUS
  <1>2. OpenFirst'
    BY <1>1 DEF OpenFirst, TerminalStays
  <1>3. TerminalStays'
    BY <1>1 DEF OpenFirst, TerminalStays, Pending, Calling
  <1>4. ClaimsHeld'
    BY <1>1 DEF ClaimsHeld, Pending
  <1>5. BarrierPassed'
    BY <1>1 DEF OpenFirst, TerminalStays, BarrierPassed, Pending
  <1>6. ProbeOwed'
    BY <1>1 DEF OpenFirst, ProbeOwed
  <1> QED BY <1>1, <1>2, <1>3, <1>4, <1>5, <1>6

LEMMA SchedulerQueueCloseEndsKeeps ==
  ASSUME SchedulerInv, QueueCloseEnds
  PROVE  SchedulerInv'
  <1> USE DEF QueueCloseEnds, QueueGivenUp, AttemptFails, CloseAfterQueue, DisconnectSignalLeases,
          lifecycle, closing, parts, settlement, gate, Managers, Settlings,
          SchedulerInv, SchedulerTypes, SchedulerTypeOK
  <1>1. SchedulerTypes'
    <2>1. SchedulerTypeOK'
      OBVIOUS
    <2>2. settling' \in [Tokens -> Settlings] /\ acked' \in [Tokens -> Nat] /\ skipped' \in Nat
      OBVIOUS
    <2>3. /\ cancelled' \in BOOLEAN /\ terminal' \in BOOLEAN /\ signals' \in BOOLEAN
          /\ lossy' \in BOOLEAN /\ paused' \in BOOLEAN /\ probeDue' \in BOOLEAN
      OBVIOUS
    <2> QED BY <2>1, <2>2, <2>3
  <1>2. OpenFirst'
    BY <1>1 DEF OpenFirst, TerminalStays
  <1>3. TerminalStays'
    BY <1>1 DEF OpenFirst, TerminalStays, Pending, Calling
  <1>4. ClaimsHeld'
    BY <1>1 DEF ClaimsHeld, Pending
  <1>5. BarrierPassed'
    BY <1>1 DEF OpenFirst, TerminalStays, BarrierPassed, Pending
  <1>6. ProbeOwed'
    BY <1>1 DEF OpenFirst, ProbeOwed
  <1> QED BY <1>1, <1>2, <1>3, <1>4, <1>5, <1>6

LEMMA SchedulerDupefilterClosesKeeps ==
  ASSUME SchedulerInv, DupefilterCloses
  PROVE  SchedulerInv'
  <1> USE DEF DupefilterCloses, AttemptFails,
          lifecycle, closing, parts, settlement, gate, Managers, Settlings,
          SchedulerInv, SchedulerTypes, SchedulerTypeOK
  <1>1. SchedulerTypes'
    <2>1. SchedulerTypeOK'
      OBVIOUS
    <2>2. settling' \in [Tokens -> Settlings] /\ acked' \in [Tokens -> Nat] /\ skipped' \in Nat
      OBVIOUS
    <2>3. /\ cancelled' \in BOOLEAN /\ terminal' \in BOOLEAN /\ signals' \in BOOLEAN
          /\ lossy' \in BOOLEAN /\ paused' \in BOOLEAN /\ probeDue' \in BOOLEAN
      OBVIOUS
    <2> QED BY <2>1, <2>2, <2>3
  <1>2. OpenFirst'
    BY <1>1 DEF OpenFirst, TerminalStays
  <1>3. TerminalStays'
    BY <1>1 DEF OpenFirst, TerminalStays, Pending, Calling
  <1>4. ClaimsHeld'
    BY <1>1 DEF ClaimsHeld, Pending
  <1>5. BarrierPassed'
    BY <1>1 DEF OpenFirst, TerminalStays, BarrierPassed, Pending
  <1>6. ProbeOwed'
    BY <1>1 DEF OpenFirst, ProbeOwed
  <1> QED BY <1>1, <1>2, <1>3, <1>4, <1>5, <1>6

LEMMA SchedulerReleaseManagersKeeps ==
  ASSUME SchedulerInv, ReleaseManagers
  PROVE  SchedulerInv'
  <1> USE DEF ReleaseManagers,
          lifecycle, closing, parts, settlement, gate, Managers, Settlings,
          SchedulerInv, SchedulerTypes, SchedulerTypeOK
  <1>1. SchedulerTypes'
    <2>1. SchedulerTypeOK'
      OBVIOUS
    <2>2. settling' \in [Tokens -> Settlings] /\ acked' \in [Tokens -> Nat] /\ skipped' \in Nat
      OBVIOUS
    <2>3. /\ cancelled' \in BOOLEAN /\ terminal' \in BOOLEAN /\ signals' \in BOOLEAN
          /\ lossy' \in BOOLEAN /\ paused' \in BOOLEAN /\ probeDue' \in BOOLEAN
      OBVIOUS
    <2> QED BY <2>1, <2>2, <2>3
  <1>2. OpenFirst'
    BY <1>1 DEF OpenFirst, TerminalStays
  <1>3. TerminalStays'
    BY <1>1 DEF OpenFirst, TerminalStays, Pending, Calling
  <1>4. ClaimsHeld'
    BY <1>1 DEF ClaimsHeld, Pending
  <1>5. BarrierPassed'
    BY <1>1 DEF OpenFirst, TerminalStays, BarrierPassed, Pending
  <1>6. ProbeOwed'
    BY <1>1 DEF OpenFirst, ProbeOwed
  <1> QED BY <1>1, <1>2, <1>3, <1>4, <1>5, <1>6

LEMMA SchedulerOpenKeeps ==
  ASSUME SchedulerInv, Open
  PROVE  SchedulerInv'
  <1> USE DEF Open,
          lifecycle, closing, parts, settlement, gate, Managers, Settlings,
          SchedulerInv, SchedulerTypes, SchedulerTypeOK
  <1>1. SchedulerTypes'
    OBVIOUS
  <1>2. OpenFirst'
    BY <1>1 DEF OpenFirst, TerminalStays
  <1>3. TerminalStays'
    BY <1>1 DEF OpenFirst, TerminalStays, Pending, Calling
  <1>4. ClaimsHeld'
    BY <1>1 DEF ClaimsHeld, Pending
  <1>5. BarrierPassed'
    BY <1>1 DEF OpenFirst, TerminalStays, BarrierPassed, Pending
  <1>6. ProbeOwed'
    BY <1>1 DEF OpenFirst, ProbeOwed
  <1> QED BY <1>1, <1>2, <1>3, <1>4, <1>5, <1>6

LEMMA SchedulerOpenFailsKeeps ==
  ASSUME SchedulerInv, OpenFails
  PROVE  SchedulerInv'
  <1> USE DEF OpenFails, CleansUp, CloseLocked, CloseAfterQueue, DisconnectSignalLeases,
          lifecycle, closing, parts, settlement, gate, Managers, Settlings,
          SchedulerInv, SchedulerTypes, SchedulerTypeOK
  <1>1. SchedulerTypes'
    <2>1. SchedulerTypeOK'
      OBVIOUS
    <2>2. settling' \in [Tokens -> Settlings] /\ acked' \in [Tokens -> Nat] /\ skipped' \in Nat
      OBVIOUS
    <2>3. /\ cancelled' \in BOOLEAN /\ terminal' \in BOOLEAN /\ signals' \in BOOLEAN
          /\ lossy' \in BOOLEAN /\ paused' \in BOOLEAN /\ probeDue' \in BOOLEAN
      OBVIOUS
    <2> QED BY <2>1, <2>2, <2>3
  <1>2. OpenFirst'
    BY <1>1 DEF OpenFirst, TerminalStays
  <1>3. TerminalStays'
    BY <1>1 DEF OpenFirst, TerminalStays, Pending, Calling
  <1>4. ClaimsHeld'
    BY <1>1 DEF ClaimsHeld, Pending
  <1>5. BarrierPassed'
    BY <1>1 DEF OpenFirst, TerminalStays, BarrierPassed, Pending
  <1>6. ProbeOwed'
    BY <1>1 DEF OpenFirst, ProbeOwed
  <1> QED BY <1>1, <1>2, <1>3, <1>4, <1>5, <1>6

LEMMA SchedulerOpenRefusedKeeps ==
  ASSUME SchedulerInv, OpenRefused
  PROVE  SchedulerInv'
  <1> USE DEF OpenRefused,
          lifecycle, closing, parts, settlement, gate, Managers, Settlings,
          SchedulerInv, SchedulerTypes, SchedulerTypeOK
  <1>1. SchedulerTypes'
    OBVIOUS
  <1>2. OpenFirst'
    BY <1>1 DEF OpenFirst, TerminalStays
  <1>3. TerminalStays'
    BY <1>1 DEF OpenFirst, TerminalStays, Pending, Calling
  <1>4. ClaimsHeld'
    BY <1>1 DEF ClaimsHeld, Pending
  <1>5. BarrierPassed'
    BY <1>1 DEF OpenFirst, TerminalStays, BarrierPassed, Pending
  <1>6. ProbeOwed'
    BY <1>1 DEF OpenFirst, ProbeOwed
  <1> QED BY <1>1, <1>2, <1>3, <1>4, <1>5, <1>6

LEMMA SchedulerDupefilterOpenedKeeps ==
  ASSUME SchedulerInv, DupefilterOpened
  PROVE  SchedulerInv'
  <1> USE DEF DupefilterOpened,
          lifecycle, closing, parts, settlement, gate, Managers, Settlings,
          SchedulerInv, SchedulerTypes, SchedulerTypeOK
  <1>1. SchedulerTypes'
    OBVIOUS
  <1>2. OpenFirst'
    BY <1>1 DEF OpenFirst, TerminalStays
  <1>3. TerminalStays'
    BY <1>1 DEF OpenFirst, TerminalStays, Pending, Calling
  <1>4. ClaimsHeld'
    BY <1>1 DEF ClaimsHeld, Pending
  <1>5. BarrierPassed'
    BY <1>1 DEF OpenFirst, TerminalStays, BarrierPassed, Pending
  <1>6. ProbeOwed'
    BY <1>1 DEF OpenFirst, ProbeOwed
  <1> QED BY <1>1, <1>2, <1>3, <1>4, <1>5, <1>6

LEMMA SchedulerWarmedKeeps ==
  ASSUME SchedulerInv, Warmed
  PROVE  SchedulerInv'
  <1> USE DEF Warmed,
          lifecycle, closing, parts, settlement, gate, Managers, Settlings,
          SchedulerInv, SchedulerTypes, SchedulerTypeOK
  <1>1. SchedulerTypes'
    OBVIOUS
  <1>2. OpenFirst'
    BY <1>1 DEF OpenFirst, TerminalStays
  <1>3. TerminalStays'
    BY <1>1 DEF OpenFirst, TerminalStays, Pending, Calling
  <1>4. ClaimsHeld'
    BY <1>1 DEF ClaimsHeld, Pending
  <1>5. BarrierPassed'
    BY <1>1 DEF OpenFirst, TerminalStays, BarrierPassed, Pending
  <1>6. ProbeOwed'
    BY <1>1 DEF OpenFirst, ProbeOwed
  <1> QED BY <1>1, <1>2, <1>3, <1>4, <1>5, <1>6

LEMMA SchedulerQueueConstructedKeeps ==
  ASSUME SchedulerInv, QueueConstructed
  PROVE  SchedulerInv'
  <1> USE DEF QueueConstructed, ConnectAckSignals,
          lifecycle, closing, parts, settlement, gate, Managers, Settlings,
          SchedulerInv, SchedulerTypes, SchedulerTypeOK
  <1>1. SchedulerTypes'
    OBVIOUS
  <1>2. OpenFirst'
    BY <1>1 DEF OpenFirst, TerminalStays
  <1>3. TerminalStays'
    BY <1>1 DEF OpenFirst, TerminalStays, Pending, Calling
  <1>4. ClaimsHeld'
    BY <1>1 DEF ClaimsHeld, Pending
  <1>5. BarrierPassed'
    BY <1>1 DEF OpenFirst, TerminalStays, BarrierPassed, Pending
  <1>6. ProbeOwed'
    BY <1>1 DEF OpenFirst, ProbeOwed
  <1> QED BY <1>1, <1>2, <1>3, <1>4, <1>5, <1>6

LEMMA SchedulerSignalsRefusedKeeps ==
  ASSUME SchedulerInv, SignalsRefused
  PROVE  SchedulerInv'
  <1> USE DEF SignalsRefused,
          lifecycle, closing, parts, settlement, gate, Managers, Settlings,
          SchedulerInv, SchedulerTypes, SchedulerTypeOK
  <1>1. SchedulerTypes'
    OBVIOUS
  <1>2. OpenFirst'
    BY <1>1 DEF OpenFirst, TerminalStays
  <1>3. TerminalStays'
    BY <1>1 DEF OpenFirst, TerminalStays, Pending, Calling
  <1>4. ClaimsHeld'
    BY <1>1 DEF ClaimsHeld, Pending
  <1>5. BarrierPassed'
    BY <1>1 DEF OpenFirst, TerminalStays, BarrierPassed, Pending
  <1>6. ProbeOwed'
    BY <1>1 DEF OpenFirst, ProbeOwed
  <1> QED BY <1>1, <1>2, <1>3, <1>4, <1>5, <1>6

LEMMA SchedulerNextRequestKeeps ==
  ASSUME SchedulerInv, NextRequest
  PROVE  SchedulerInv'
  <1> USE DEF NextRequest, Pauses, Passes, Pops,
          lifecycle, closing, parts, settlement, gate, Managers, Settlings,
          SchedulerInv, SchedulerTypes, SchedulerTypeOK
  <1>1. SchedulerTypes'
    <2> DEFINE c == CHOOSE k \in Tokens : settling[k] = "none"
    <2>a. c \in Tokens
      OBVIOUS
    <2>b. acked' = acked /\ skipped' \in {0, skipped + 1}
      OBVIOUS
    <2>c. settling' = settling \/ settling' = [settling EXCEPT ![c] = "idle"]
      OBVIOUS
    <2>1. SchedulerTypeOK'
      BY <2>a
    <2> HIDE DEF c
    <2>2. settling' \in [Tokens -> Settlings] /\ acked' \in [Tokens -> Nat] /\ skipped' \in Nat
      BY <2>a, <2>b, <2>c
    <2>3. /\ cancelled' \in BOOLEAN /\ terminal' \in BOOLEAN /\ signals' \in BOOLEAN
          /\ lossy' \in BOOLEAN /\ paused' \in BOOLEAN /\ probeDue' \in BOOLEAN
      OBVIOUS
    <2> QED BY <2>1, <2>2, <2>3
  <1>2. OpenFirst'
    BY <1>1 DEF OpenFirst, TerminalStays
  <1>3. TerminalStays'
    BY <1>1 DEF OpenFirst, TerminalStays, Pending, Calling
  <1>4. ClaimsHeld'
    BY <1>1 DEF ClaimsHeld, Pending
  <1>5. BarrierPassed'
    BY <1>1 DEF OpenFirst, TerminalStays, BarrierPassed, Pending
  <1>6. ProbeOwed'
    BY <1>1 DEF OpenFirst, ProbeOwed
  <1> QED BY <1>1, <1>2, <1>3, <1>4, <1>5, <1>6

LEMMA SchedulerSettleKeeps ==
  ASSUME SchedulerInv, NEW k \in Tokens, Settle(k)
  PROVE  SchedulerInv'
  <1> USE DEF Settle, SettlementClaimable,
          lifecycle, closing, parts, settlement, gate, Managers, Settlings,
          SchedulerInv, SchedulerTypes, SchedulerTypeOK
  <1>1. SchedulerTypes'
    OBVIOUS
  <1>2. OpenFirst'
    BY <1>1 DEF OpenFirst, TerminalStays
  <1>3. TerminalStays'
    BY <1>1 DEF OpenFirst, TerminalStays, Pending, Calling
  <1>4. ClaimsHeld'
    BY <1>1 DEF ClaimsHeld, Pending
  <1>5. BarrierPassed'
    BY <1>1 DEF OpenFirst, TerminalStays, BarrierPassed, Pending
  <1>6. ProbeOwed'
    BY <1>1 DEF OpenFirst, ProbeOwed
  <1> QED BY <1>1, <1>2, <1>3, <1>4, <1>5, <1>6

LEMMA SchedulerEntersKeeps ==
  ASSUME SchedulerInv, NEW k \in Tokens, Enters(k)
  PROVE  SchedulerInv'
  <1> USE DEF Enters,
          lifecycle, closing, parts, settlement, gate, Managers, Settlings,
          SchedulerInv, SchedulerTypes, SchedulerTypeOK
  <1>1. SchedulerTypes'
    OBVIOUS
  <1>2. OpenFirst'
    BY <1>1 DEF OpenFirst, TerminalStays
  <1>3. TerminalStays'
    BY <1>1 DEF OpenFirst, TerminalStays, Pending, Calling
  <1>4. ClaimsHeld'
    BY <1>1 DEF ClaimsHeld, Pending
  <1>5. BarrierPassed'
    BY <1>1 DEF OpenFirst, TerminalStays, BarrierPassed, Pending
  <1>6. ProbeOwed'
    BY <1>1 DEF OpenFirst, ProbeOwed
  <1> QED BY <1>1, <1>2, <1>3, <1>4, <1>5, <1>6

LEMMA SchedulerReturnsKeeps ==
  ASSUME SchedulerInv, NEW k \in Tokens, Returns(k)
  PROVE  SchedulerInv'
  <1> USE DEF Returns,
          lifecycle, closing, parts, settlement, gate, Managers, Settlings,
          SchedulerInv, SchedulerTypes, SchedulerTypeOK
  <1>1. SchedulerTypes'
    OBVIOUS
  <1>2. OpenFirst'
    BY <1>1 DEF OpenFirst, TerminalStays
  <1>3. TerminalStays'
    BY <1>1 DEF OpenFirst, TerminalStays, Pending, Calling
  <1>4. ClaimsHeld'
    BY <1>1 DEF ClaimsHeld, Pending
  <1>5. BarrierPassed'
    BY <1>1 DEF OpenFirst, TerminalStays, BarrierPassed, Pending
  <1>6. ProbeOwed'
    BY <1>1 DEF OpenFirst, ProbeOwed
  <1> QED BY <1>1, <1>2, <1>3, <1>4, <1>5, <1>6

LEMMA SchedulerSettledKeeps ==
  ASSUME SchedulerInv, NEW k \in Tokens, Settled(k)
  PROVE  SchedulerInv'
  <1> USE DEF Settled,
          lifecycle, closing, parts, settlement, gate, Managers, Settlings,
          SchedulerInv, SchedulerTypes, SchedulerTypeOK
  <1>1. SchedulerTypes'
    OBVIOUS
  <1>2. OpenFirst'
    BY <1>1 DEF OpenFirst, TerminalStays
  <1>3. TerminalStays'
    BY <1>1 DEF OpenFirst, TerminalStays, Pending, Calling
  <1>4. ClaimsHeld'
    BY <1>1 DEF ClaimsHeld, Pending
  <1>5. BarrierPassed'
    BY <1>1 DEF OpenFirst, TerminalStays, BarrierPassed, Pending
  <1>6. ProbeOwed'
    BY <1>1 DEF OpenFirst, ProbeOwed
  <1> QED BY <1>1, <1>2, <1>3, <1>4, <1>5, <1>6

\* Every step preserves the invariant.
LEMMA SchedulerStep == SchedulerInv /\ [SchedulerNext]_schedulerVars => SchedulerInv'
  <1> SUFFICES ASSUME SchedulerInv, [SchedulerNext]_schedulerVars PROVE SchedulerInv'
    OBVIOUS
  <1>1. CASE UNCHANGED schedulerVars
    BY <1>1
    DEF SchedulerInv, SchedulerTypes, OpenFirst, TerminalStays, ClaimsHeld, BarrierPassed,
        ProbeOwed, SchedulerTypeOK, Pending, Calling, schedulerVars, lifecycle, closing, parts,
        settlement, gate
  <1>2. CASE SchedulerNext
    BY <1>2,
       SchedulerCloseKeeps, SchedulerCloseContinuesKeeps,
       SchedulerQueueCloseBeginsKeeps, SchedulerQueueCloseEndsKeeps,
       SchedulerDupefilterClosesKeeps, SchedulerReleaseManagersKeeps,
       SchedulerOpenKeeps, SchedulerOpenFailsKeeps, SchedulerOpenRefusedKeeps,
       SchedulerDupefilterOpenedKeeps, SchedulerWarmedKeeps,
       SchedulerQueueConstructedKeeps, SchedulerSignalsRefusedKeeps,
       SchedulerNextRequestKeeps, SchedulerSettleKeeps, SchedulerEntersKeeps,
       SchedulerReturnsKeeps, SchedulerSettledKeeps
    DEF SchedulerNext, OpenStep, CloseStep, SettleStep
  <1> QED BY <1>1, <1>2

\* The managers are released last, after the open, the queue, the signals and
\* the duplicate filter, through every failed, refused and repeated attempt
\* (_close_locked, _close_after_queue, _release_managers).
THEOREM ReleasedLastHolds == SchedulerInit /\ [][SchedulerNext]_schedulerVars => []ReleasedLast
  <1>1. SchedulerInv => ReleasedLast
    BY DEF SchedulerInv, SchedulerTypes, TerminalStays, ReleasedLast
  <1> QED BY SchedulerStarts, SchedulerStep, <1>1, PTL

\* The scheduler settles a delivery once at most, however many signals fire
\* for its request (_claim_request_settlement).
THEOREM SettledOnceHolds == SchedulerInit /\ [][SchedulerNext]_schedulerVars => []SettledOnce
  <1>1. SchedulerInv => SettledOnce
    BY DEF SchedulerInv, ClaimsHeld, SettledOnce
  <1> QED BY SchedulerStarts, SchedulerStep, <1>1, PTL

\* A settlement submitted before the queue began to close is let in
\* (_pending_settlement_barrier).
THEOREM EarlySettlementsEnterHolds == SchedulerInit /\ [][SchedulerNext]_schedulerVars => []EarlySettlementsEnter
  <1>1. SchedulerInv => EarlySettlementsEnter
    BY DEF SchedulerInv, BarrierPassed, EarlySettlementsEnter
  <1> QED BY SchedulerStarts, SchedulerStep, <1>1, PTL

\* The gate never sends two polls in a row away from a queue with something in
\* it (next_request).
THEOREM GateProbesHolds == SchedulerInit /\ [][SchedulerNext]_schedulerVars => []GateProbes
  <1>1. SchedulerInv => GateProbes
    BY DEF SchedulerInv, ProbeOwed, GateProbes
  <1> QED BY SchedulerStarts, SchedulerStep, <1>1, PTL
=============================================================================
