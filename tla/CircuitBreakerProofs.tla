------------------------ MODULE CircuitBreakerProofs ------------------------
(***************************************************************************)
(* Proofs about the circuit breaker, for any set of threads, threshold,    *)
(* timeout and number of epochs; and about the strategies that keep items  *)
(* in memory.  The batched storage strategy writes in order and closes     *)
(* complete; the delay and the time-wheel strategy drop nothing, release   *)
(* nothing early, leave nothing overdue and do not oversleep.              *)
(***************************************************************************)
EXTENDS CircuitBreaker, MCStrategies, FiniteSetTheorems, SequenceTheorems,
        WellFoundedInduction, TLAPS

USE ThresholdAssumption, TimeoutAssumption, EpochAssumption

-----------------------------------------------------------------------------
(***************************************************************************)
(* Type correctness, split into the breaker's fields, the notices and the  *)
(* calls.                                                                  *)
(***************************************************************************)
BreakerType ==
  /\ state \in States
  /\ failureCount \in 0..FailureThreshold
  /\ failAge \in Ages
  /\ epoch \in Epochs
  /\ probeInFlight \in SUBSET {"probe"}
  /\ probeAge \in Ages

NoticeType ==
  /\ pending \in Seq(Epochs)
  /\ emits \in [Epochs -> Nat]
  /\ inHand \in [Callers -> Seq(Epochs)]

CallType ==
  /\ pc \in [Callers -> Places]
  /\ admState \in [Callers -> {"NONE", "CLOSED", "HALF_OPEN"}]
  /\ admEpoch \in [Callers -> Epochs]
  /\ crossed \in SUBSET Callers

PlaceType ==
  \A t \in Callers : /\ pc[t] \in {"claimed", "func"} => admState[t] # "NONE"
                     /\ pc[t] \in {"idle", "notify"} => admState[t] = "NONE"
                     /\ pc[t] = "emit" <=> inHand[t] # <<>>

\* The parts make the whole.
LEMMA TypeParts == TypeOK <=> BreakerType /\ NoticeType /\ CallType /\ PlaceType
  BY DEF TypeOK, BreakerType, NoticeType, CallType, PlaceType

\* Ageing stays within the ages.
LEMMA OlderType == \A a \in Ages : Older(a) \in Ages /\ (a # NoTime => Older(a) # NoTime)
  BY DEF Ages, Older, NoTime

\* Whatever a thread does, the fields of the breaker keep their types.
LEMMA BreakerTypeStep ==
  ASSUME TypeOK, Recoverable, [Next]_vars
  PROVE  BreakerType'
<1> USE DEF breakerVars, noticeVars, callVars
<1>0. BreakerType /\ CallType
  BY TypeParts
<1>1. ASSUME NEW t \in Callers, AllowCall(t) PROVE BreakerType'
  <2>1. CASE AdmitClosed(t) \/ RejectOpen(t) \/ RejectProbing(t)
    BY <1>0, <2>1 DEF AdmitClosed, RejectOpen, RejectProbing, BreakerType
  <2>2. CASE ClaimProbe(t)
    BY <1>0, <2>2 DEF ClaimProbe, Transition, BreakerType, States, Ages, Epochs
  <2>3. CASE ReopenHung(t)
    BY <1>0, <2>3 DEF ReopenHung, Transition, BreakerType, States, Ages, Epochs
  <2>4. CASE ReclaimProbe(t)
    BY <1>0, <2>4 DEF ReclaimProbe, BreakerType, Ages
  <2>5. QED
    BY <1>1, <2>1, <2>2, <2>3, <2>4 DEF AllowCall
<1>2. ASSUME NEW t \in Callers, Succeed(t) PROVE BreakerType'
  <2>1. CASE Current(t) /\ admState[t] = "CLOSED"
    <3>1. /\ failureCount' = 0 /\ failAge' = NoTime
          /\ UNCHANGED <<state, epoch, probeInFlight, probeAge>>
      BY <1>2, <2>1 DEF Succeed
    <3>2. QED
      BY <1>0, <3>1 DEF BreakerType, Ages
  <2>2. CASE Current(t) /\ admState[t] = "HALF_OPEN"
    BY <1>0, <1>2, <2>2 DEF Succeed, Transition, BreakerType, States, Ages, Epochs
  <2>3. CASE ~ Current(t)
    BY <1>0, <1>2, <2>3 DEF Succeed, BreakerType
  <2>4. QED
    BY <1>2, <2>1, <2>2, <2>3 DEF Succeed
<1>3. ASSUME NEW t \in Callers, Fail(t) PROVE BreakerType'
  <2>1. CASE Current(t) /\ admState[t] = "CLOSED"
    <3>1. state = "CLOSED" /\ failureCount' = failureCount + 1 /\ failAge' = 0
          /\ UNCHANGED <<probeInFlight, probeAge>>
      BY <1>3, <2>1 DEF Fail, Current
    <3>2. failureCount' \in 0..FailureThreshold
      BY <1>0, <3>1 DEF BreakerType, Recoverable
    <3>3. state' \in States /\ epoch' \in Epochs
      BY <1>0, <1>3, <2>1 DEF Fail, Transition, BreakerType, States, Epochs
    <3>4. QED
      BY <1>0, <3>1, <3>2, <3>3 DEF BreakerType, Ages
  <2>2. CASE Current(t) /\ admState[t] = "HALF_OPEN"
    BY <1>0, <1>3, <2>2 DEF Fail, Transition, BreakerType, States, Ages, Epochs, NoTime
  <2>3. CASE ~ Current(t)
    BY <1>0, <1>3, <2>3 DEF Fail, BreakerType
  <2>4. QED
    BY <1>3, <2>1, <2>2, <2>3 DEF Fail
<1>4. ASSUME NEW t \in Callers, Abandon(t) PROVE BreakerType'
  BY <1>0, <1>4 DEF Abandon, ReleaseProbe, BreakerType
<1>5. ASSUME NEW t \in Callers, Reset(t) PROVE BreakerType'
  BY <1>0, <1>5 DEF Reset, BreakerType, States, Ages, Epochs, ResetCount
<1>6. ASSUME NEW t \in Callers, Drain(t) \/ Emit(t) PROVE BreakerType'
  BY <1>0, <1>6 DEF Drain, Emit, BreakerType
<1>7. CASE Tick
  BY <1>0, <1>7, OlderType DEF Tick, BreakerType
<1>8. CASE UNCHANGED vars
  BY <1>0, <1>8 DEF vars, BreakerType
<1>9. QED
  BY <1>1, <1>2, <1>3, <1>4, <1>5, <1>6, <1>7, <1>8 DEF Next
\* The pending list only ever grows by the epoch that a transition begins.
LEMMA PendingStep ==
  ASSUME TypeOK, [Next]_vars
  PROVE  \/ pending' = pending
         \/ pending' = Append(pending, epoch + 1) /\ epoch + 1 \in Epochs
         \/ pending' = <<>>
<1> DEFINE Grows == pending' = Append(pending, epoch + 1) /\ epoch < MaxEpoch
<1> USE DEF noticeVars
<1>1. ASSUME NEW t \in Callers, AllowCall(t) PROVE pending' = pending \/ Grows
  BY <1>1 DEF AllowCall, AdmitClosed, ClaimProbe, RejectOpen, ReopenHung, RejectProbing,
              ReclaimProbe, Transition
<1>2. ASSUME NEW t \in Callers, Succeed(t) \/ Fail(t) \/ Abandon(t) \/ Reset(t)
      PROVE pending' = pending \/ Grows
  <2>1. CASE Succeed(t)
    BY <2>1 DEF Succeed, Transition
  <2>2. CASE Fail(t)
    BY <2>2 DEF Fail, Transition
  <2>3. CASE Abandon(t)
    BY <2>3 DEF Abandon
  <2>4. CASE Reset(t)
    BY <2>4 DEF Reset
  <2>5. QED
    BY <1>2, <2>1, <2>2, <2>3, <2>4
<1>3. ASSUME NEW t \in Callers, Drain(t) \/ Emit(t) PROVE pending' = pending \/ pending' = <<>>
  <2>1. CASE Drain(t)
    BY <2>1 DEF Drain
  <2>2. CASE Emit(t)
    BY <2>2 DEF Emit
  <2>3. QED
    BY <1>3, <2>1, <2>2
<1>4. ASSUME Tick \/ UNCHANGED vars PROVE pending' = pending
  BY <1>4 DEF Tick, vars
<1>5. pending' = pending \/ Grows \/ pending' = <<>>
  <2>1. ASSUME NEW t \in Callers,
               \/ AllowCall(t) \/ Succeed(t) \/ Fail(t) \/ Abandon(t) \/ Reset(t)
               \/ Drain(t) \/ Emit(t)
        PROVE  pending' = pending \/ Grows \/ pending' = <<>>
    BY <1>1, <1>2, <1>3, <2>1
  <2> HIDE DEF Grows
  <2>2. QED
    BY <1>4, <2>1 DEF Next
<1>6. Grows => epoch + 1 \in Epochs
  BY DEF TypeOK, Epochs
<1>7. QED
  BY <1>5, <1>6

\* The notices keep their types.
LEMMA NoticeTypeStep ==
  ASSUME TypeOK, [Next]_vars
  PROVE  NoticeType'
<1>0. NoticeType /\ PlaceType
  BY TypeParts
<1>1. pending' \in Seq(Epochs)
  <2>1. CASE pending' = pending \/ pending' = <<>>
    BY <1>0, <2>1, EmptySeq DEF NoticeType
  <2>2. CASE pending' = Append(pending, epoch + 1) /\ epoch + 1 \in Epochs
    BY <1>0, <2>2 DEF NoticeType
  <2>3. QED
    BY <2>1, <2>2, PendingStep
<1>2. ASSUME NEW t \in Callers, Drain(t)
      PROVE  inHand' \in [Callers -> Seq(Epochs)] /\ emits' = emits
  BY <1>0, <1>2 DEF Drain, NoticeType
<1>3. ASSUME NEW t \in Callers, Emit(t)
      PROVE  inHand' \in [Callers -> Seq(Epochs)] /\ emits' \in [Epochs -> Nat]
  <2>1. inHand[t] \in Seq(Epochs) /\ inHand[t] # <<>>
    BY <1>0, <1>3 DEF Emit, NoticeType, PlaceType
  <2>2. Head(inHand[t]) \in Epochs /\ Tail(inHand[t]) \in Seq(Epochs)
    BY <2>1
  <2>3. QED
    BY <1>0, <1>3, <2>2 DEF Emit, NoticeType
<1>4. CASE inHand' = inHand /\ emits' = emits
  BY <1>0, <1>1, <1>4 DEF NoticeType
<1>5. QED
  BY <1>0, <1>1, <1>2, <1>3, <1>4
  DEF Next, AllowCall, AdmitClosed, ClaimProbe, RejectOpen, ReopenHung, RejectProbing,
      ReclaimProbe, Succeed, Fail, Abandon, Reset, Tick, vars, noticeVars, NoticeType

\* The calls keep their types.
LEMMA CallTypeStep ==
  ASSUME TypeOK, [Next]_vars
  PROVE  CallType'
<1>0. CallType /\ BreakerType
  BY TypeParts
<1> USE DEF callVars
<1>1. crossed' \in SUBSET Callers
  BY <1>0 DEF CallType, Next, AllowCall, AdmitClosed, ClaimProbe, RejectOpen, ReopenHung,
     RejectProbing, ReclaimProbe, Succeed, Fail, Abandon, Reset, Drain, Emit, Tick, Transition,
     InFlight, vars
<1>2. ASSUME NEW t \in Callers, NEW s \in {"NONE", "CLOSED", "HALF_OPEN"}, NEW e \in Epochs,
             NEW p \in Places, Admit(t, s, e, p)
      PROVE  CallType'
  BY <1>0, <1>1, <1>2 DEF Admit, CallType
<1>3. ASSUME NEW t \in Callers, Reject(t) PROVE CallType'
  BY <1>0, <1>1, <1>3 DEF Reject, CallType, Places
<1>4. ASSUME NEW t \in Callers, NEW p \in Places, Settled(t, p) PROVE CallType'
  BY <1>0, <1>1, <1>4 DEF Settled, CallType, Epochs
<1>5. ASSUME NEW t \in Callers, Drain(t) \/ Emit(t) PROVE CallType'
  BY <1>0, <1>1, <1>5 DEF Drain, Emit, Resume, CallType, Places
<1>6. CASE UNCHANGED <<pc, admState, admEpoch>>
  BY <1>0, <1>1, <1>6 DEF CallType
<1>7. epoch \in Epochs /\ (epoch < MaxEpoch => epoch + 1 \in Epochs)
      /\ {"claimed", "func", "notify", "idle"} \subseteq Places
  BY <1>0 DEF BreakerType, Epochs, Places
<1>8. ASSUME NEW t \in Callers, AllowCall(t) PROVE CallType'
  BY <1>2, <1>3, <1>7, <1>8 DEF AllowCall, AdmitClosed, ClaimProbe, RejectOpen, ReopenHung,
     RejectProbing, ReclaimProbe, Transition
<1>9. ASSUME NEW t \in Callers, Succeed(t) \/ Fail(t) \/ Abandon(t) PROVE CallType'
  BY <1>4, <1>7, <1>9 DEF Succeed, Fail, Abandon
<1>10. QED
  BY <1>3, <1>5, <1>6, <1>8, <1>9 DEF Next, Reset, Tick, vars

\* Where a thread is says whether it has an admission and holds transitions.
LEMMA PlaceTypeStep ==
  ASSUME TypeOK, [Next]_vars
  PROVE  PlaceType'
<1>0. CallType /\ NoticeType /\ PlaceType
  BY TypeParts
<1> USE DEF callVars, noticeVars
<1>1. ASSUME NEW t \in Callers, pc[t] = "idle", inHand' = inHand, NEW s \in {"CLOSED", "HALF_OPEN"},
             NEW e, NEW p \in {"claimed", "func"}, Admit(t, s, e, p)
      PROVE  PlaceType'
  BY <1>0, <1>1 DEF Admit, CallType, PlaceType
<1>2. ASSUME NEW t \in Callers, pc[t] = "idle", inHand' = inHand, Reject(t) PROVE PlaceType'
  BY <1>0, <1>2 DEF Reject, CallType, PlaceType
<1>3. ASSUME NEW t \in Callers, pc[t] = "func", inHand' = inHand,
             NEW p \in {"idle", "notify"}, Settled(t, p)
      PROVE PlaceType'
  BY <1>0, <1>3 DEF Settled, CallType, PlaceType
<1>4. ASSUME NEW t \in Callers, Drain(t) PROVE PlaceType'
  <2>1. /\ inHand' = [inHand EXCEPT ![t] = pending]
        /\ pc' = [pc EXCEPT ![t] = IF pending = <<>> THEN Resume(t) ELSE "emit"]
        /\ admState' = admState
    BY <1>4 DEF Drain
  <2>2. /\ inHand'[t] = pending
        /\ pc'[t] = IF pending = <<>> THEN Resume(t) ELSE "emit"
        /\ \A u \in Callers : u # t => inHand'[u] = inHand[u] /\ pc'[u] = pc[u]
    BY <1>0, <2>1 DEF CallType, NoticeType
  <2>3. QED
    BY <1>0, <2>1, <2>2 DEF Resume, PlaceType, CallType
<1>5. ASSUME NEW t \in Callers, Emit(t) PROVE PlaceType'
  <2>1. /\ inHand' = [inHand EXCEPT ![t] = Tail(@)]
        /\ pc' = [pc EXCEPT ![t] = IF Len(inHand[t]) = 1 THEN Resume(t) ELSE "emit"]
        /\ admState' = admState
    BY <1>5 DEF Emit
  <2>2. /\ inHand'[t] = Tail(inHand[t])
        /\ pc'[t] = IF Len(inHand[t]) = 1 THEN Resume(t) ELSE "emit"
        /\ \A u \in Callers : u # t => inHand'[u] = inHand[u] /\ pc'[u] = pc[u]
    BY <1>0, <2>1 DEF CallType, NoticeType
  <2>3. inHand[t] \in Seq(Epochs) /\ inHand[t] # <<>>
    BY <1>0, <1>5 DEF Emit, NoticeType, PlaceType
  <2>4. Tail(inHand[t]) = <<>> <=> Len(inHand[t]) = 1
    <3>1. Tail(inHand[t]) \in Seq(Epochs) /\ Len(Tail(inHand[t])) = Len(inHand[t]) - 1
      BY <2>3, HeadTailProperties
    <3>2. Tail(inHand[t]) = <<>> <=> Len(Tail(inHand[t])) = 0
      BY <3>1, EmptySeq
    <3>3. Len(inHand[t]) \in Nat
      BY <2>3
    <3>4. QED
      BY <3>1, <3>2, <3>3
  <2>5. QED
    BY <1>0, <2>1, <2>2, <2>4 DEF Resume, PlaceType, CallType
<1>6. CASE UNCHANGED <<pc, admState, inHand>>
  BY <1>0, <1>6 DEF PlaceType
<1>7. ASSUME NEW t \in Callers, AllowCall(t) PROVE PlaceType'
  BY <1>1, <1>2, <1>7 DEF AllowCall, AdmitClosed, ClaimProbe, RejectOpen, ReopenHung,
     RejectProbing, ReclaimProbe
<1>8. ASSUME NEW t \in Callers, Succeed(t) \/ Fail(t) \/ Abandon(t) PROVE PlaceType'
  BY <1>3, <1>8 DEF Succeed, Fail, Abandon
<1>9. QED
  BY <1>2, <1>4, <1>5, <1>6, <1>7, <1>8 DEF Next, Reset, Tick, vars
-----------------------------------------------------------------------------
(***************************************************************************)
(* The fence.  A call that crossed a transition carries an older epoch; a  *)
(* call that crossed none carries the current epoch and state.  The probe  *)
(* slot is the uncrossed HALF_OPEN call.                                   *)
(***************************************************************************)
CrossedIsOld == \A t \in crossed : admState[t] # "NONE" => admEpoch[t] < epoch

UncrossedIsCurrent == \A t \in Callers \ crossed : admState[t] # "NONE" => Current(t)

OneProbe == \A t, u \in Probes : t = u

BreakerInv ==
  TypeOK /\ Recoverable /\ CrossedIsOld /\ UncrossedIsCurrent /\ OneProbe /\ SlotOwned

\* Under the invariant the epoch test tells exactly whether a call was crossed.
LEMMA CurrentIffUncrossed ==
  ASSUME BreakerInv, NEW t \in Callers, admState[t] # "NONE"
  PROVE  Current(t) <=> t \notin crossed
<1>1. epoch \in Int /\ admEpoch[t] \in Int
  BY DEF BreakerInv, TypeOK, Epochs
<1>2. QED
  BY <1>1 DEF BreakerInv, CrossedIsOld, UncrossedIsCurrent, Current

\* A transition leaves no uncrossed call but the acting thread's.
LEMMA TransitionCrosses ==
  ASSUME BreakerInv, NEW t \in Callers, crossed' = InFlight \ {t}, epoch' = epoch + 1,
         \A u \in Callers : u # t => admState'[u] = admState[u] /\ admEpoch'[u] = admEpoch[u],
         admState'[t] = "NONE" \/ (admState'[t] = state' /\ admEpoch'[t] = epoch')
  PROVE  /\ CrossedIsOld' /\ UncrossedIsCurrent'
         /\ Probes' = IF admState'[t] = "HALF_OPEN" THEN {t} ELSE {}
<1>0. epoch \in Int /\ \A u \in Callers : admEpoch[u] \in Int
  BY DEF BreakerInv, TypeOK, Epochs
<1>1. ASSUME NEW u \in Callers, admState[u] # "NONE" PROVE admEpoch[u] < epoch + 1
  <2>1. CASE u \in crossed
    BY <1>0, <1>1, <2>1 DEF BreakerInv, CrossedIsOld
  <2>2. CASE u \notin crossed
    BY <1>0, <1>1, <2>2 DEF BreakerInv, UncrossedIsCurrent, Current
  <2>3. QED
    BY <2>1, <2>2
<1>2. ASSUME NEW u \in crossed', admState'[u] # "NONE" PROVE admEpoch'[u] < epoch'
  BY <1>1, <1>2 DEF InFlight
<1>3. ASSUME NEW u \in Callers \ crossed', admState'[u] # "NONE" PROVE u = t
  BY <1>3 DEF InFlight
<1>4. CrossedIsOld'
  BY <1>2 DEF CrossedIsOld
<1>5. UncrossedIsCurrent'
  BY <1>3 DEF UncrossedIsCurrent, Current
<1>6. Probes' = IF admState'[t] = "HALF_OPEN" THEN {t} ELSE {}
  BY <1>3 DEF Probes, InFlight
<1>7. QED
  BY <1>4, <1>5, <1>6

\* Every step of a thread preserves the fence.
LEMMA FenceStep ==
  ASSUME BreakerInv, [Next]_vars
  PROVE  Recoverable' /\ CrossedIsOld' /\ UncrossedIsCurrent' /\ OneProbe' /\ SlotOwned'
<1> DEFINE Goal == Recoverable' /\ CrossedIsOld' /\ UncrossedIsCurrent' /\ OneProbe' /\ SlotOwned'
<1>0. BreakerType /\ CallType /\ PlaceType
  BY TypeParts DEF BreakerInv
<1> USE DEF breakerVars, callVars
<1>1. ASSUME NEW t \in Callers, AdmitClosed(t) PROVE Goal
  <2>1. /\ state = "CLOSED" /\ UNCHANGED breakerVars
        /\ crossed' = crossed \ {t}
        /\ admState[t] = "NONE"
        /\ admState'[t] = "CLOSED" /\ admEpoch'[t] = epoch
        /\ \A u \in Callers : u # t => admState'[u] = admState[u] /\ admEpoch'[u] = admEpoch[u]
    BY <1>0, <1>1 DEF AdmitClosed, Admit, CallType, PlaceType
  <2>2. Probes' = Probes
    BY <1>0, <2>1 DEF Probes, InFlight, CallType
  <2>3. Recoverable' /\ SlotOwned' /\ OneProbe'
    BY <2>1, <2>2 DEF BreakerInv, Recoverable, SlotOwned, OneProbe
  <2>4. CrossedIsOld' /\ UncrossedIsCurrent'
    BY <1>0, <2>1 DEF BreakerInv, CrossedIsOld, UncrossedIsCurrent, Current, CallType
  <2>5. QED
    BY <2>3, <2>4
<1>2. ASSUME NEW t \in Callers, ClaimProbe(t) PROVE Goal
  <2>1. /\ state' = "HALF_OPEN" /\ probeInFlight' = {"probe"} /\ epoch' = epoch + 1
        /\ crossed' = InFlight \ {t}
        /\ admState'[t] = "HALF_OPEN" /\ admEpoch'[t] = epoch + 1
        /\ \A u \in Callers : u # t => admState'[u] = admState[u] /\ admEpoch'[u] = admEpoch[u]
    BY <1>0, <1>2 DEF ClaimProbe, Transition, Admit, CallType
  <2>2. CrossedIsOld' /\ UncrossedIsCurrent' /\ Probes' = {t}
    BY <2>1, TransitionCrosses
  <2>3. QED
    BY <2>1, <2>2 DEF Recoverable, OneProbe, SlotOwned
<1>3. ASSUME NEW t \in Callers, ReopenHung(t) PROVE Goal
  <2>1. /\ state' = "OPEN" /\ probeInFlight' = {} /\ epoch' = epoch + 1 /\ failAge' = 0
        /\ crossed' = InFlight \ {t}
        /\ admState' = admState /\ admEpoch' = admEpoch /\ admState[t] = "NONE"
    BY <1>0, <1>3 DEF ReopenHung, SlotFree, Transition, Reject, PlaceType
  <2>2. CrossedIsOld' /\ UncrossedIsCurrent' /\ Probes' = {}
    BY <2>1, TransitionCrosses
  <2>3. QED
    BY <2>1, <2>2 DEF Recoverable, OneProbe, SlotOwned, NoTime
<1>4. ASSUME NEW t \in Callers, ReclaimProbe(t) PROVE Goal
  <2>1. /\ state = "HALF_OPEN" /\ probeInFlight = {} /\ probeInFlight' = {"probe"}
        /\ UNCHANGED <<state, failureCount, failAge, epoch>>
        /\ crossed' = crossed \ {t}
        /\ admState[t] = "NONE"
        /\ admState'[t] = "HALF_OPEN" /\ admEpoch'[t] = epoch
        /\ \A u \in Callers : u # t => admState'[u] = admState[u] /\ admEpoch'[u] = admEpoch[u]
    BY <1>0, <1>4 DEF ReclaimProbe, SlotFree, Admit, CallType, PlaceType
  <2>2. Probes = {}
    BY <2>1 DEF BreakerInv, SlotOwned
  <2>3. Probes' = {t}
    BY <1>0, <2>1, <2>2 DEF Probes, InFlight, CallType
  <2>4. Recoverable' /\ SlotOwned' /\ OneProbe'
    BY <2>1, <2>3 DEF BreakerInv, Recoverable, SlotOwned, OneProbe
  <2>5. CrossedIsOld' /\ UncrossedIsCurrent'
    BY <1>0, <2>1 DEF BreakerInv, CrossedIsOld, UncrossedIsCurrent, Current, CallType
  <2>6. QED
    BY <2>4, <2>5
<1>5. ASSUME UNCHANGED <<state, failureCount, epoch, probeInFlight, admState, admEpoch, crossed>>,
             failAge = failAge' \/ (failAge # NoTime => failAge' # NoTime)
      PROVE  Goal
  BY <1>5 DEF BreakerInv, Recoverable, CrossedIsOld, UncrossedIsCurrent, Current, OneProbe,
              SlotOwned, Probes, InFlight
<1>6. ASSUME NEW t \in Callers, Succeed(t) \/ Fail(t), ~ Current(t) PROVE Goal
  <2>1. /\ UNCHANGED breakerVars /\ crossed' = crossed
        /\ admState'[t] = "NONE" /\ admState[t] # "NONE"
        /\ \A u \in Callers : u # t => admState'[u] = admState[u] /\ admEpoch'[u] = admEpoch[u]
    BY <1>0, <1>6 DEF Succeed, Fail, Settled, CallType, PlaceType
  <2>2. t \in crossed
    BY <1>6, <2>1, CurrentIffUncrossed
  <2>3. Probes' = Probes
    BY <1>0, <2>1, <2>2 DEF Probes, InFlight
  <2>4. Recoverable' /\ SlotOwned' /\ OneProbe'
    BY <2>1, <2>3 DEF BreakerInv, Recoverable, SlotOwned, OneProbe
  <2>5. CrossedIsOld' /\ UncrossedIsCurrent'
    BY <1>0, <2>1 DEF BreakerInv, CrossedIsOld, UncrossedIsCurrent, Current, CallType
  <2>6. QED
    BY <2>4, <2>5
<1>7. ASSUME NEW t \in Callers, Succeed(t) \/ Fail(t), Current(t), admState[t] = "HALF_OPEN"
      PROVE  Goal
  <2>1. /\ epoch' = epoch + 1 /\ crossed' = InFlight \ {t} /\ probeInFlight' = {}
        /\ failureCount' = 0
        /\ state' = "CLOSED" \/ (state' = "OPEN" /\ failAge' = 0)
    BY <1>7 DEF Succeed, Fail, Transition
  <2>2. /\ admState'[t] = "NONE"
        /\ \A u \in Callers : u # t => admState'[u] = admState[u] /\ admEpoch'[u] = admEpoch[u]
    BY <1>0, <1>7 DEF Succeed, Fail, Settled, CallType
  <2>3. CrossedIsOld' /\ UncrossedIsCurrent' /\ Probes' = {}
    BY <2>1, <2>2, TransitionCrosses
  <2>4. QED
    BY <2>1, <2>3 DEF Recoverable, OneProbe, SlotOwned, NoTime
<1>8. ASSUME NEW t \in Callers, Fail(t), Current(t), admState[t] = "CLOSED",
             Trips(failureCount + 1)
      PROVE  Goal
  <2>1. /\ epoch' = epoch + 1 /\ crossed' = InFlight \ {t} /\ probeInFlight' = probeInFlight
        /\ state = "CLOSED" /\ state' = "OPEN" /\ failAge' = 0
    BY <1>8 DEF Fail, Transition, Current
  <2>2. /\ admState'[t] = "NONE"
        /\ \A u \in Callers : u # t => admState'[u] = admState[u] /\ admEpoch'[u] = admEpoch[u]
    BY <1>0, <1>8 DEF Fail, Settled, CallType
  <2>3. CrossedIsOld' /\ UncrossedIsCurrent' /\ Probes' = {}
    BY <2>1, <2>2, TransitionCrosses
  <2>4. probeInFlight = {}
    BY <2>1 DEF BreakerInv, SlotOwned
  <2>5. QED
    BY <2>1, <2>3, <2>4 DEF Recoverable, OneProbe, SlotOwned, NoTime
\* An outcome that counts in CLOSED and does not trip.
<1>9. ASSUME NEW t \in Callers, admState[t] = "CLOSED",
             \/ Succeed(t) /\ Current(t)
             \/ Fail(t) /\ Current(t) /\ ~ Trips(failureCount + 1)
      PROVE  Goal
  <2>1. /\ state = "CLOSED" /\ UNCHANGED <<state, epoch, probeInFlight, crossed>>
        /\ failureCount' < FailureThreshold
    <3>1. CASE Succeed(t) /\ Current(t)
      BY <1>9, <3>1 DEF Succeed, Current
    <3>2. CASE Fail(t) /\ Current(t) /\ ~ Trips(failureCount + 1)
      <4>1. /\ state = "CLOSED" /\ UNCHANGED <<state, epoch, probeInFlight, crossed>>
            /\ failureCount' = failureCount + 1
        BY <1>9, <3>2 DEF Fail, Current
      <4>2. failureCount + 1 < FailureThreshold
        BY <1>0, <3>2 DEF Trips, BreakerType
      <4>3. QED
        BY <4>1, <4>2
    <3>3. QED
      BY <1>9, <3>1, <3>2
  <2>2. /\ admState'[t] = "NONE"
        /\ \A u \in Callers : u # t => admState'[u] = admState[u] /\ admEpoch'[u] = admEpoch[u]
    BY <1>0, <1>9 DEF Succeed, Fail, Settled, CallType
  <2>3. Probes' = Probes
    BY <1>0, <1>9, <2>1, <2>2 DEF Probes, InFlight
  <2>4. Recoverable' /\ SlotOwned' /\ OneProbe'
    BY <2>1, <2>3 DEF BreakerInv, Recoverable, SlotOwned, OneProbe
  <2>5. CrossedIsOld' /\ UncrossedIsCurrent'
    BY <1>0, <2>1, <2>2 DEF BreakerInv, CrossedIsOld, UncrossedIsCurrent, Current, CallType
  <2>6. QED
    BY <2>4, <2>5
<1>10. ASSUME NEW t \in Callers, Abandon(t) PROVE Goal
  <2>1. /\ UNCHANGED <<state, failureCount, failAge, epoch, crossed>>
        /\ probeInFlight' = ReleaseProbe(t)
        /\ admState'[t] = "NONE" /\ admState[t] # "NONE"
        /\ \A u \in Callers : u # t => admState'[u] = admState[u] /\ admEpoch'[u] = admEpoch[u]
    BY <1>0, <1>10 DEF Abandon, Settled, CallType, PlaceType
  <2>2. Probes' = Probes \ {t}
    BY <1>0, <2>1 DEF Probes, InFlight
  <2>3. CASE t \in Probes
    <3>1. Probes = {t} /\ Probes' = {}
      BY <2>2, <2>3 DEF BreakerInv, OneProbe
    <3>2. admState[t] = "HALF_OPEN" /\ Current(t)
      BY <2>1, <2>3, CurrentIffUncrossed DEF Probes
    <3>3. probeInFlight' = {}
      BY <2>1, <3>2 DEF ReleaseProbe
    <3>4. QED
      BY <2>1, <3>1, <3>3, <1>0
      DEF BreakerInv, Recoverable, CrossedIsOld, UncrossedIsCurrent, Current, CallType,
          OneProbe, SlotOwned
  <2>4. CASE t \notin Probes
    <3>1. Probes' = Probes
      BY <2>2, <2>4
    <3>2. ~ (admState[t] = "HALF_OPEN" /\ Current(t))
      BY <2>1, <2>4, CurrentIffUncrossed DEF Probes, InFlight
    <3>3. probeInFlight' = probeInFlight
      BY <2>1, <3>2 DEF ReleaseProbe
    <3>4. Recoverable' /\ SlotOwned' /\ OneProbe'
      BY <2>1, <3>1, <3>3 DEF BreakerInv, Recoverable, SlotOwned, OneProbe
    <3>5. CrossedIsOld' /\ UncrossedIsCurrent'
      BY <1>0, <2>1 DEF BreakerInv, CrossedIsOld, UncrossedIsCurrent, Current, CallType
    <3>6. QED
      BY <3>4, <3>5
  <2>5. QED
    BY <2>3, <2>4
<1>11. ASSUME NEW t \in Callers, Reset(t) PROVE Goal
  <2>1. /\ epoch' = epoch + 1 /\ crossed' = InFlight /\ probeInFlight' = {}
        /\ state' = "CLOSED" /\ failureCount' = 0
        /\ admState' = admState /\ admEpoch' = admEpoch /\ admState[t] = "NONE"
    BY <1>0, <1>11 DEF Reset, ResetCount, Reject, PlaceType
  <2>2. crossed' = InFlight \ {t}
    BY <2>1 DEF InFlight
  <2>3. CrossedIsOld' /\ UncrossedIsCurrent' /\ Probes' = {}
    BY <2>1, <2>2, TransitionCrosses
  <2>4. QED
    BY <2>1, <2>3 DEF Recoverable, OneProbe, SlotOwned
<1>12. CASE Tick
  <2>1. failAge # NoTime => failAge' # NoTime
    BY <1>0, <1>12, OlderType DEF Tick, BreakerType
  <2>2. QED
    BY <1>5, <1>12, <2>1 DEF Tick
<1>13. ASSUME NEW t \in Callers, AllowCall(t) PROVE Goal
  BY <1>1, <1>2, <1>3, <1>4, <1>5, <1>13
  DEF AllowCall, RejectOpen, RejectProbing, Reject
<1>14. ASSUME NEW t \in Callers, Succeed(t) \/ Fail(t) PROVE Goal
  <2>1. admState[t] \in {"CLOSED", "HALF_OPEN"}
    BY <1>0, <1>14 DEF Succeed, Fail, PlaceType, CallType
  <2>2. QED
    BY <1>6, <1>7, <1>8, <1>9, <1>14, <2>1
<1>15. ASSUME NEW t \in Callers, Drain(t) \/ Emit(t) PROVE Goal
  BY <1>5, <1>15 DEF Drain, Emit
<1>16. CASE UNCHANGED vars
  BY <1>5, <1>16 DEF vars
<1>17. QED
  BY <1>10, <1>11, <1>12, <1>13, <1>14, <1>15, <1>16 DEF Next

\* The inductive invariant holds initially.
LEMMA BreakerInvInit == Init => BreakerInv
<1> SUFFICES ASSUME Init PROVE BreakerInv
  OBVIOUS
<1>1. TypeOK
  BY EmptySeq DEF Init, TypeOK, States, Ages, Epochs, Places
<1>2. Probes = {}
  BY DEF Init, Probes, InFlight
<1>3. QED
  BY <1>1, <1>2 DEF Init, BreakerInv, Recoverable, CrossedIsOld, UncrossedIsCurrent, OneProbe,
                    SlotOwned

\* The inductive invariant survives every step.
LEMMA BreakerInvStep == BreakerInv /\ [Next]_vars => BreakerInv'
<1> SUFFICES ASSUME BreakerInv, [Next]_vars PROVE BreakerInv'
  OBVIOUS
<1>1. TypeOK /\ Recoverable
  BY DEF BreakerInv
<1>2. BreakerType' /\ NoticeType' /\ CallType' /\ PlaceType'
  BY <1>1, BreakerTypeStep, NoticeTypeStep, CallTypeStep, PlaceTypeStep
<1>3. TypeOK'
  BY <1>2 DEF TypeOK, BreakerType, NoticeType, CallType, PlaceType
<1>4. QED
  BY <1>3, FenceStep DEF BreakerInv

\* The inductive invariant holds always.
LEMMA BreakerInvHolds == Spec => []BreakerInv
  BY BreakerInvInit, BreakerInvStep, PTL DEF Spec

\* An OPEN breaker can always recover and a CLOSED one can always trip.
THEOREM RecoverableHolds == Spec => [](TypeOK /\ Recoverable)
<1>1. BreakerInv => TypeOK /\ Recoverable
  BY DEF BreakerInv
<1>2. QED
  BY <1>1, BreakerInvHolds, PTL

\* One window has at most one probe in flight, and its slot always has a live
\* owner, whatever outcomes, deadlines and resets come in between.
THEOREM ProbeSlotCorrect == Spec => []ProbeSlot
<1>1. BreakerInv => ProbeSlot
  <2> SUFFICES ASSUME BreakerInv PROVE SingleProbe
    BY DEF BreakerInv, ProbeSlot
  <2>1. CASE Probes = {}
    BY <2>1, FS_EmptySet DEF SingleProbe
  <2>2. CASE Probes # {}
    <3>1. PICK t \in Probes : Probes = {t}
      BY <2>2 DEF BreakerInv, OneProbe
    <3>2. Cardinality({t}) = 1
      BY FS_Singleton
    <3>3. QED
      BY <3>1, <3>2 DEF SingleProbe
  <2>3. QED
    BY <2>1, <2>2
<1>2. QED
  BY <1>1, BreakerInvHolds, PTL

\* The outcome of a call that was in flight over a transition or a reset never
\* moves the breaker, however late it arrives.
THEOREM LateOutcomesAreFenced == Spec => LateOutcomesFenced
<1>1. ASSUME BreakerInv, [Next]_vars, NEW t \in crossed, admState[t] # "NONE", admState'[t] = "NONE"
      PROVE  UNCHANGED breakerVars
  <2>0. t \in Callers /\ CallType
    BY <1>1, TypeParts DEF BreakerInv, CallType
  <2>1. ~ Current(t)
    BY <1>1, <2>0, CurrentIffUncrossed
  <2>2. ASSUME NEW u \in Callers, AllowCall(u) \/ Reset(u) PROVE FALSE
    <3>1. ASSUME admState' = admState PROVE FALSE
      BY <1>1, <3>1
    <3>2. ASSUME NEW s \in {"CLOSED", "HALF_OPEN"}, NEW e, NEW p, Admit(u, s, e, p) PROVE FALSE
      <4>1. admState' = [admState EXCEPT ![u] = s]
        BY <3>2 DEF Admit
      <4>2. admState'[t] = IF t = u THEN s ELSE admState[t]
        BY <2>0, <4>1 DEF CallType
      <4>3. QED
        BY <1>1, <3>2, <4>2
    <3>3. QED
      BY <2>2, <3>1, <3>2 DEF AllowCall, AdmitClosed, ClaimProbe, RejectOpen, ReopenHung,
                              RejectProbing, ReclaimProbe, Reset, Reject
  <2>3. ASSUME NEW u \in Callers, Succeed(u) \/ Fail(u) \/ Abandon(u) PROVE u = t
    BY <1>1, <2>0, <2>3 DEF Succeed, Fail, Abandon, Settled, CallType
  <2>4. ASSUME Succeed(t) \/ Fail(t) \/ Abandon(t) PROVE UNCHANGED breakerVars
    BY <2>1, <2>4 DEF Succeed, Fail, Abandon, ReleaseProbe, breakerVars
  <2>5. ASSUME NEW u \in Callers, Drain(u) \/ Emit(u) PROVE FALSE
    BY <1>1, <2>5 DEF Drain, Emit
  <2>6. ASSUME Tick \/ UNCHANGED vars PROVE FALSE
    BY <1>1, <2>6 DEF Tick, vars, callVars
  <2>7. QED
    BY <1>1, <2>2, <2>3, <2>4, <2>5, <2>6 DEF Next
<1>2. BreakerInv /\ [Next]_vars =>
        [\A t \in crossed : admState[t] # "NONE" /\ admState'[t] = "NONE"
                              => UNCHANGED breakerVars]_vars
  BY <1>1
<1>3. QED
  BY <1>2, BreakerInvHolds, PTL DEF Spec, LateOutcomesFenced

\* Both for any number of callers, thresholds and windows.
THEOREM BreakerIsSound == Spec => []BreakerSound
  BY RecoverableHolds, ProbeSlotCorrect, PTL DEF BreakerSound

----------------------------------------------------------------------------
(* The notices: each transition is told at most once. *)

\* No transition is told twice: an entry of the pending list, or one in a thread's
\* hand, names an epoch that has begun, that no other entry names and that the
\* observer was not told of.
Untold(e) == e <= epoch /\ emits[e] = 0

PendingOnce ==
  /\ \A i \in DOMAIN pending : Untold(pending[i])
  /\ \A i, j \in DOMAIN pending : pending[i] = pending[j] => i = j

InHandOnce ==
  /\ \A t \in Callers : \A i \in DOMAIN inHand[t] : Untold(inHand[t][i])
  /\ \A t, u \in Callers : \A i \in DOMAIN inHand[t], j \in DOMAIN inHand[u] :
       inHand[t][i] = inHand[u][j] => t = u /\ i = j
  /\ \A t \in Callers : \A i \in DOMAIN inHand[t], j \in DOMAIN pending :
       inHand[t][i] # pending[j]

ToldOnce == \A e \in Epochs : emits[e] <= 1 /\ (e > epoch => emits[e] = 0)

NoticesOnce == PendingOnce /\ InHandOnce /\ ToldOnce

\* A transition is entered under an epoch that is new.
LEMMA EnteredOnce ==
  ASSUME TypeOK, NoticesOnce, UNCHANGED <<emits, inHand>>,
         \/ UNCHANGED <<pending, epoch>>
         \/ epoch < MaxEpoch /\ epoch' = epoch + 1
              /\ (pending' = pending \/ pending' = Append(pending, epoch + 1))
  PROVE  NoticesOnce'
<1>0. /\ pending \in Seq(Epochs) /\ inHand \in [Callers -> Seq(Epochs)] /\ epoch \in Epochs
      /\ emits \in [Epochs -> Nat]
  BY DEF TypeOK
<1>1. CASE UNCHANGED <<pending, epoch>>
  BY <1>1 DEF NoticesOnce, PendingOnce, InHandOnce, ToldOnce, Untold
<1>2. CASE epoch < MaxEpoch /\ epoch' = epoch + 1 /\ pending' = pending
  <2>1. \A i \in DOMAIN pending : pending[i] \in Epochs
    BY <1>0
  <2>2. \A t \in Callers : \A i \in DOMAIN inHand[t] : inHand[t][i] \in Epochs
    BY <1>0
  <2>3. PendingOnce'
    BY <1>0, <1>2, <2>1 DEF NoticesOnce, PendingOnce, Untold, Epochs
  <2>4. InHandOnce'
    BY <1>0, <1>2, <2>2 DEF NoticesOnce, InHandOnce, Untold, Epochs
  <2>5. ToldOnce'
    BY <1>0, <1>2 DEF NoticesOnce, ToldOnce, Epochs
  <2>6. QED
    BY <2>3, <2>4, <2>5 DEF NoticesOnce
<1>3. CASE epoch < MaxEpoch /\ epoch' = epoch + 1 /\ pending' = Append(pending, epoch + 1)
  <2> DEFINE n == Len(pending)
  <2>1. /\ n \in Nat /\ DOMAIN pending = 1..n /\ DOMAIN pending' = 1..(n + 1)
        /\ pending'[n + 1] = epoch + 1
        /\ \A i \in 1..n : pending'[i] = pending[i] /\ pending[i] \in Epochs
    BY <1>0, <1>3
  <2>2. \A t \in Callers : \A i \in DOMAIN inHand[t] : inHand[t][i] \in Epochs
    BY <1>0
  <2> HIDE DEF n
  <2>3. epoch + 1 \in Epochs /\ emits[epoch + 1] = 0
    <3>1. epoch \in Nat /\ epoch + 1 \in Epochs /\ epoch + 1 > epoch
      BY <1>0, <1>3 DEF Epochs
    <3>2. QED
      BY <3>1 DEF NoticesOnce, ToldOnce
  <2>4. \A i \in DOMAIN pending' :
          \/ i \in DOMAIN pending /\ pending'[i] = pending[i]
          \/ i = n + 1 /\ pending'[i] = epoch + 1
    BY <2>1
  <2>5. \A i \in DOMAIN pending : pending[i] \in Epochs /\ pending[i] # epoch + 1
    BY <1>0, <2>1 DEF NoticesOnce, PendingOnce, Untold, Epochs
  <2>6. \A t \in Callers : \A i \in DOMAIN inHand[t] : inHand[t][i] # epoch + 1
    BY <1>0, <2>2 DEF NoticesOnce, InHandOnce, Untold, Epochs
  <2>7. PendingOnce'
    <3>1. ASSUME NEW i \in DOMAIN pending' PROVE Untold(pending[i])'
      <4>1. CASE i \in DOMAIN pending /\ pending'[i] = pending[i]
        BY <1>0, <1>3, <2>5, <4>1 DEF NoticesOnce, PendingOnce, Untold, Epochs
      <4>2. CASE i = n + 1 /\ pending'[i] = epoch + 1
        BY <1>0, <1>3, <2>3, <4>2 DEF Untold, Epochs
      <4>3. QED
        BY <2>4, <4>1, <4>2
    <3>2. \A i, j \in DOMAIN pending' : pending'[i] = pending'[j] => i = j
      BY <2>4, <2>5 DEF NoticesOnce, PendingOnce
    <3>3. QED
      BY <3>1, <3>2 DEF PendingOnce
  <2>8. InHandOnce'
    <3>1. ASSUME NEW t \in Callers, NEW i \in DOMAIN inHand[t]
          PROVE  Untold(inHand[t][i])' /\ \A j \in DOMAIN pending' : inHand[t][i] # pending'[j]
      <4>1. Untold(inHand[t][i]) /\ inHand[t][i] # epoch + 1 /\ inHand[t][i] \in Epochs
        BY <2>2, <2>6 DEF NoticesOnce, InHandOnce
      <4>2. Untold(inHand[t][i])'
        BY <1>0, <1>3, <4>1 DEF Untold, Epochs
      <4>3. \A j \in DOMAIN pending' : inHand[t][i] # pending'[j]
        BY <2>4, <4>1 DEF NoticesOnce, InHandOnce
      <4>4. QED
        BY <4>2, <4>3
    <3>2. QED
      BY <3>1 DEF NoticesOnce, InHandOnce
  <2>9. ToldOnce'
    BY <1>0, <1>3 DEF NoticesOnce, ToldOnce, Epochs
  <2>10. QED
    BY <2>7, <2>8, <2>9 DEF NoticesOnce
<1>4. QED
  BY <1>1, <1>2, <1>3

\* The pending list changes hands as a whole, to a thread whose hands are empty.
LEMMA DrainedOnce ==
  ASSUME TypeOK, NoticesOnce, NEW t \in Callers, Drain(t)
  PROVE  NoticesOnce'
<1>0. /\ pending \in Seq(Epochs) /\ inHand \in [Callers -> Seq(Epochs)]
  BY DEF TypeOK
<1>1. /\ inHand[t] = <<>> /\ inHand' = [inHand EXCEPT ![t] = pending] /\ pending' = <<>>
      /\ UNCHANGED <<epoch, emits>>
  BY DEF Drain, TypeOK, breakerVars
<1>2. inHand'[t] = pending /\ \A u \in Callers : u # t => inHand'[u] = inHand[u]
  BY <1>0, <1>1
<1>3. DOMAIN pending' = {}
  BY <1>1
<1>4. PendingOnce'
  BY <1>3 DEF PendingOnce
<1>5. ASSUME NEW u \in Callers, NEW i \in DOMAIN inHand'[u] PROVE Untold(inHand[u][i])'
  BY <1>1, <1>2 DEF NoticesOnce, PendingOnce, InHandOnce, Untold
<1>6. ASSUME NEW u \in Callers, NEW v \in Callers,
             NEW i \in DOMAIN inHand'[u], NEW j \in DOMAIN inHand'[v],
             inHand'[u][i] = inHand'[v][j]
      PROVE  u = v /\ i = j
  <2>1. CASE u = t /\ v = t
    BY <1>2, <1>6, <2>1 DEF NoticesOnce, PendingOnce
  <2>2. CASE u # t /\ v # t
    BY <1>2, <1>6, <2>2 DEF NoticesOnce, InHandOnce
  <2>3. CASE u = t /\ v # t
    BY <1>2, <1>6, <2>3 DEF NoticesOnce, InHandOnce
  <2>4. CASE u # t /\ v = t
    BY <1>2, <1>6, <2>4 DEF NoticesOnce, InHandOnce
  <2>5. QED
    BY <2>1, <2>2, <2>3, <2>4
<1>7. InHandOnce'
  BY <1>3, <1>5, <1>6 DEF InHandOnce
<1>8. ToldOnce'
  BY <1>1 DEF NoticesOnce, ToldOnce
<1>9. QED
  BY <1>4, <1>7, <1>8 DEF NoticesOnce

\* What is told leaves the hand.
LEMMA EmittedOnceMore ==
  ASSUME TypeOK, NoticesOnce, NEW t \in Callers, Emit(t)
  PROVE  NoticesOnce'
<1> DEFINE s == inHand[t]
           h == Head(s)
<1>0. /\ pending \in Seq(Epochs) /\ inHand \in [Callers -> Seq(Epochs)]
      /\ emits \in [Epochs -> Nat] /\ epoch \in Epochs
  BY DEF TypeOK
<1>1. /\ s # <<>> /\ inHand' = [inHand EXCEPT ![t] = Tail(s)]
      /\ emits' = [emits EXCEPT ![h] = emits[h] + 1]
      /\ UNCHANGED <<epoch, pending>>
  BY DEF Emit, TypeOK, breakerVars
<1>2. inHand'[t] = Tail(s) /\ \A u \in Callers : u # t => inHand'[u] = inHand[u]
  BY <1>0, <1>1
<1>3. s \in Seq(Epochs) /\ Len(s) \in Nat /\ Len(s) >= 1 /\ DOMAIN s = 1..Len(s)
  BY <1>0, <1>1
<1>4. /\ DOMAIN Tail(s) = 1..(Len(s) - 1)
      /\ \A i \in 1..(Len(s) - 1) : Tail(s)[i] = s[i + 1]
  BY <1>3
<1>5. h = s[1] /\ 1 \in DOMAIN s /\ h \in Epochs
  BY <1>3
<1>6. \A i \in DOMAIN inHand'[t] :
        i + 1 \in DOMAIN inHand[t] /\ inHand'[t][i] = inHand[t][i + 1] /\ i \in Nat /\ i # 0
  BY <1>2, <1>3, <1>4
<1>7. h = inHand[t][1] /\ 1 \in DOMAIN inHand[t] /\ emits[h] = 0 /\ h <= epoch
  BY <1>5 DEF NoticesOnce, InHandOnce, Untold
<1> HIDE DEF s, h
<1>8. \A e \in Epochs : e # h => emits'[e] = emits[e]
  BY <1>0, <1>1
<1>9. emits'[h] = 1
  BY <1>0, <1>1, <1>5, <1>7
<1>10. ToldOnce'
  BY <1>0, <1>1, <1>5, <1>7, <1>8, <1>9 DEF NoticesOnce, ToldOnce, Epochs
<1>11. \A i \in DOMAIN pending : pending[i] \in Epochs /\ pending[i] # h
  BY <1>0, <1>7 DEF NoticesOnce, InHandOnce
<1>12. PendingOnce'
  BY <1>1, <1>8, <1>11 DEF NoticesOnce, PendingOnce, Untold
<1>13. \A u \in Callers : \A i \in DOMAIN inHand'[u] :
         \E k \in DOMAIN inHand[u] : inHand'[u][i] = inHand[u][k] /\ inHand[u][k] # h
                                     /\ (u # t => k = i) /\ (u = t => k = i + 1 /\ i \in Nat)
  <2> TAKE u \in Callers
  <2> TAKE i \in DOMAIN inHand'[u]
  <2>1. CASE u = t
    BY <1>6, <1>7, <2>1 DEF NoticesOnce, InHandOnce
  <2>2. CASE u # t
    BY <1>2, <1>7, <2>2 DEF NoticesOnce, InHandOnce
  <2>3. QED
    BY <2>1, <2>2
<1>14. InHandOnce'
  <2>1. ASSUME NEW u \in Callers, NEW i \in DOMAIN inHand'[u] PROVE Untold(inHand[u][i])'
    <3>1. PICK k \in DOMAIN inHand[u] : inHand'[u][i] = inHand[u][k] /\ inHand[u][k] # h
      BY <1>13
    <3>2. inHand[u][k] \in Epochs
      BY <1>0
    <3>3. QED
      BY <1>1, <1>8, <3>1, <3>2 DEF NoticesOnce, InHandOnce, Untold
  <2>2. ASSUME NEW u \in Callers, NEW v \in Callers,
               NEW i \in DOMAIN inHand'[u], NEW j \in DOMAIN inHand'[v],
               inHand'[u][i] = inHand'[v][j]
        PROVE  u = v /\ i = j
    <3>1. PICK k \in DOMAIN inHand[u] :
            /\ inHand'[u][i] = inHand[u][k]
            /\ (u # t => k = i) /\ (u = t => k = i + 1 /\ i \in Nat)
      BY <1>13
    <3>2. PICK l \in DOMAIN inHand[v] :
            /\ inHand'[v][j] = inHand[v][l]
            /\ (v # t => l = j) /\ (v = t => l = j + 1 /\ j \in Nat)
      BY <1>13
    <3>0. inHand[u][k] = inHand[v][l]
      BY <2>2, <3>1, <3>2
    <3>3. u = v /\ k = l
      <4>1. \A a, b \in Callers : \A m \in DOMAIN inHand[a], n \in DOMAIN inHand[b] :
              inHand[a][m] = inHand[b][n] => a = b /\ m = n
        BY DEF NoticesOnce, InHandOnce
      <4>2. QED
        BY <3>0, <4>1
    <3>4. CASE u = t
      <4>1. i \in Nat /\ j \in Nat /\ i + 1 = j + 1
        BY <3>1, <3>2, <3>3, <3>4
      <4>2. QED
        BY <3>3, <4>1
    <3>5. CASE u # t
      BY <3>1, <3>2, <3>3, <3>5
    <3>6. QED
      BY <3>4, <3>5
  <2>3. ASSUME NEW u \in Callers, NEW i \in DOMAIN inHand'[u], NEW j \in DOMAIN pending'
        PROVE  inHand'[u][i] # pending'[j]
    BY <1>1, <1>13 DEF NoticesOnce, InHandOnce
  <2>4. QED
    BY <2>1, <2>2, <2>3 DEF InHandOnce
<1>15. QED
  BY <1>10, <1>12, <1>14 DEF NoticesOnce

\* Every step keeps the notices apart.
LEMMA NoticesOnceStep ==
  ASSUME TypeOK, NoticesOnce, [Next]_vars
  PROVE  NoticesOnce'
<1> DEFINE Enters == /\ UNCHANGED <<emits, inHand>>
                     /\ \/ UNCHANGED <<pending, epoch>>
                        \/ epoch < MaxEpoch /\ epoch' = epoch + 1
                             /\ (pending' = pending \/ pending' = Append(pending, epoch + 1))
<1> USE DEF noticeVars, breakerVars
<1>1. ASSUME NEW t \in Callers, AllowCall(t) PROVE Enters
  BY <1>1 DEF AllowCall, AdmitClosed, ClaimProbe, RejectOpen, ReopenHung, RejectProbing,
              ReclaimProbe, Transition
<1>2. ASSUME NEW t \in Callers, Succeed(t) PROVE Enters
  BY <1>2 DEF Succeed, Transition
<1>3. ASSUME NEW t \in Callers, Fail(t) PROVE Enters
  BY <1>3 DEF Fail, Transition
<1>4. ASSUME NEW t \in Callers, Abandon(t) \/ Reset(t) PROVE Enters
  BY <1>4 DEF Abandon, Reset
<1>5. CASE Tick \/ UNCHANGED vars
  BY <1>5, EnteredOnce DEF Tick, vars
<1> HIDE DEF Enters
<1>6. Enters => NoticesOnce'
  BY EnteredOnce DEF Enters
<1>7. QED
  BY <1>1, <1>2, <1>3, <1>4, <1>5, <1>6, DrainedOnce, EmittedOnceMore DEF Next

\* A value that is at most once in a sequence is counted so.
LEMMA OccursOnce ==
  ASSUME NEW s, NEW e, \A i, j \in DOMAIN s : s[i] = e /\ s[j] = e => i = j
  PROVE  /\ Occurs(e, s) \in {0, 1}
         /\ Occurs(e, s) = 0 <=> \A i \in DOMAIN s : s[i] # e
<1> DEFINE S == {i \in DOMAIN s : s[i] = e}
<1>1. CASE S = {}
  <2>1. Occurs(e, s) = 0
    BY <1>1, FS_EmptySet DEF Occurs
  <2>2. QED
    BY <1>1, <2>1
<1>2. CASE S # {}
  <2>1. PICK i \in S : S = {i}
    BY <1>2
  <2>2. Occurs(e, s) = 1
    BY <2>1, FS_Singleton DEF Occurs
  <2>3. QED
    BY <1>2, <2>2
<1>3. QED
  BY <1>1, <1>2

\* What is kept apart is told at most once.
LEMMA NoticesSettle == TypeOK /\ NoticesOnce => EmittedOnce
<1> SUFFICES ASSUME TypeOK, NoticesOnce, NEW e \in Epochs
             PROVE  /\ Occurs(e, pending) + Cardinality(Held(e)) + emits[e] <= 1
                    /\ \A t \in Callers : Occurs(e, inHand[t]) <= 1
                    /\ e > epoch => Occurs(e, pending) + Cardinality(Held(e)) + emits[e] = 0
  BY DEF EmittedOnce
<1>1. /\ Occurs(e, pending) \in {0, 1}
      /\ Occurs(e, pending) = 0 <=> \A i \in DOMAIN pending : pending[i] # e
  BY OccursOnce DEF NoticesOnce, PendingOnce
<1>2. \A t \in Callers :
        /\ Occurs(e, inHand[t]) \in {0, 1}
        /\ Occurs(e, inHand[t]) = 0 <=> \A i \in DOMAIN inHand[t] : inHand[t][i] # e
  <2> TAKE t \in Callers
  <2>1. \A i, j \in DOMAIN inHand[t] : inHand[t][i] = e /\ inHand[t][j] = e => i = j
    BY DEF NoticesOnce, InHandOnce
  <2>2. QED
    BY <2>1, OccursOnce
<1>3. emits[e] \in {0, 1} /\ (e > epoch => emits[e] = 0)
  BY DEF NoticesOnce, ToldOnce, TypeOK
<1>4. \A t \in Held(e) : t \in Callers /\ \E i \in DOMAIN inHand[t] : inHand[t][i] = e
  BY <1>2 DEF Held
<1>5. \A t, u \in Held(e) : t = u
  BY <1>4 DEF NoticesOnce, InHandOnce
<1>6. Held(e) # {} => emits[e] = 0 /\ e <= epoch /\ Occurs(e, pending) = 0
  BY <1>1, <1>4 DEF NoticesOnce, InHandOnce, Untold
<1>7. Occurs(e, pending) = 1 => emits[e] = 0 /\ e <= epoch
  BY <1>1 DEF NoticesOnce, PendingOnce, Untold
<1>8. epoch \in Nat /\ e \in Nat
  BY DEF TypeOK, Epochs
<1>9. CASE Held(e) = {}
  <2>1. Cardinality(Held(e)) = 0
    BY <1>9, FS_EmptySet
  <2>2. QED
    BY <1>1, <1>2, <1>3, <1>7, <1>8, <2>1
<1>10. CASE Held(e) # {}
  <2>1. PICK t \in Held(e) : Held(e) = {t}
    BY <1>5, <1>10
  <2>2. Cardinality(Held(e)) = 1
    BY <2>1, FS_Singleton
  <2>3. QED
    BY <1>2, <1>6, <1>8, <1>10, <2>2
<1>11. QED
  BY <1>9, <1>10

\* Each transition is in exactly one place until it is told, and is told at most
\* once, however many threads drain the list (_notify_pending).
THEOREM TransitionsToldOnce == Spec => []EmittedOnce
<1>1. Init => NoticesOnce
  BY DEF Init, NoticesOnce, PendingOnce, InHandOnce, ToldOnce
<1>2. BreakerInv /\ NoticesOnce /\ [Next]_vars => NoticesOnce'
  BY NoticesOnceStep DEF BreakerInv
<1>3. BreakerInv /\ NoticesOnce => EmittedOnce
  BY NoticesSettle DEF BreakerInv
<1>4. QED
  BY <1>1, <1>2, <1>3, BreakerInvHolds, PTL DEF Spec

----------------------------------------------------------------------------
(* The batched storage strategy (BatchedStorage). *)

WritingStates == {"writing", "closing_writing", "closing_retrying"}

BatchedTypes ==
  /\ Batched!TypeOK
  /\ doing \in [Batched!Actors -> WritingStates \union
       {"idle", "stored", "stored_flush", "flush", "joining", "closing", "closing_retry",
        "close_failed", "written"}]
  /\ entries \in 0 .. MaxEntries /\ written \in Seq(1 .. MaxEntries)
  /\ closed \in BOOLEAN /\ ended \in BOOLEAN

\* The flush lock is with the thread that writes a batch, and there is a batch
\* only under the lock.
UnderLock ==
  /\ \A t \in Batched!Actors :
       doing[t] \in WritingStates \union {"closing_retry"} => lock = t
  /\ lock = NoOne => batch = << >>
  /\ \A t \in Batched!Actors : doing[t] = "closing_retry" => batch = << >>

\* The entries that are done with: accepted, and no longer to be written.
Done == entries - Len(buffer) - Len(batch)

\* What waits is the last entries accepted, in order, the batch first.
Waiting ==
  /\ Done \in Nat /\ inFlight = Len(batch) /\ Len(batch) + Len(buffer) <= MaxPending
  /\ \A i \in 1 .. Len(batch) : batch[i] = Done + i
  /\ \A i \in 1 .. Len(buffer) : buffer[i] = Done + Len(batch) + i

\* What was written is in order, covers what is done with and goes at most one
\* entry beyond it, the one whose failed write was applied.
WrittenUpTo ==
  /\ \A e \in 1 .. Done : \E i \in 1 .. Len(written) : written[i] = e
  /\ \A i \in 1 .. Len(written) : written[i] <= Done + 1
  /\ \A i \in 1 .. Len(written) - 1 : written[i] <= written[i + 1]

\* After a close that returned nobody adds anything.
EndedQuiet ==
  /\ ended => closed /\ buffer = << >> /\ batch = << >> /\ flusher # "alive"
  /\ \A t \in Batched!Actors :
       doing[t] \in {"joining", "closing", "closing_writing", "closing_retry",
                     "closing_retrying", "close_failed", "written"} => closed

BatchedInv == BatchedTypes /\ UnderLock /\ Waiting /\ WrittenUpTo /\ EndedQuiet

\* One more entry in the backend, the next one that is not done with.
LEMMA OneMoreWritten ==
  ASSUME WrittenUpTo, written \in Seq(1 .. MaxEntries), Done \in Nat, Done + 1 <= MaxEntries,
         MaxEntries \in Nat,
         written' = Append(written, Done + 1), Done' = Done \/ Done' = Done + 1
  PROVE  written' \in Seq(1 .. MaxEntries) /\ WrittenUpTo'
  <1> DEFINE d == Done
  <1>1. /\ Len(written') = Len(written) + 1 /\ Len(written) \in Nat
        /\ written'[Len(written) + 1] = d + 1
        /\ \A i \in 1 .. Len(written) : written'[i] = written[i]
        /\ written' \in Seq(1 .. MaxEntries)
    OBVIOUS
  <1>2. \A i \in 1 .. Len(written) : written[i] \in 1 .. MaxEntries
    OBVIOUS
  <1> HIDE DEF d
  <1>3. \A e \in 1 .. Done' : \E i \in 1 .. Len(written') : written'[i] = e
    <2> SUFFICES ASSUME NEW e \in 1 .. Done'
                 PROVE  \E i \in 1 .. Len(written') : written'[i] = e
      OBVIOUS
    <2>1. CASE e = d + 1
      BY <1>1, <2>1
    <2>2. CASE e # d + 1
      <3>1. PICK i \in 1 .. Len(written) : written[i] = e
        BY <2>2 DEF WrittenUpTo, d
      <3> QED BY <1>1, <3>1
    <2> QED BY <2>1, <2>2
  <1>4. \A i \in 1 .. Len(written') : written'[i] <= Done' + 1
    BY <1>1, <1>2 DEF WrittenUpTo, d
  <1>5. \A i \in 1 .. Len(written') - 1 : written'[i] <= written'[i + 1]
    <2> SUFFICES ASSUME NEW i \in 1 .. Len(written') - 1
                 PROVE  written'[i] <= written'[i + 1]
      OBVIOUS
    <2>1. CASE i = Len(written)
      BY <1>1, <2>1 DEF WrittenUpTo, d
    <2>2. CASE i # Len(written)
      BY <1>1, <2>2 DEF WrittenUpTo
    <2> QED BY <2>1, <2>2
  <1> QED BY <1>1, <1>3, <1>4, <1>5 DEF WrittenUpTo

\* Nothing is written and nothing is done with.
LEMMA NothingWritten ==
  ASSUME WrittenUpTo, written' = written, Done' = Done
  PROVE  WrittenUpTo'
  <1> DEFINE d == Done
  <1>1. Done' = d
    OBVIOUS
  <1>2. d = Done
    OBVIOUS
  <1> HIDE DEF d
  <1> QED BY <1>1, <1>2 DEF WrittenUpTo

\* The first entry of a batch is the next one that is not done with.
LEMMA NextToWrite ==
  ASSUME BatchedTypes, Waiting, batch # << >>
  PROVE  /\ Len(batch) \in Nat \ {0} /\ Done \in Nat /\ Head(batch) = Done + 1
         /\ Done + 1 \in 1 .. MaxEntries
         /\ Tail(batch) \in Seq(1 .. MaxEntries) /\ Len(Tail(batch)) = Len(batch) - 1
  <1>1. batch \in Seq(1 .. MaxEntries)
    BY DEF BatchedTypes, Batched!TypeOK
  <1>2. Head(batch) = batch[1] /\ Len(batch) \in Nat \ {0} /\ batch[1] \in 1 .. MaxEntries
    <2>1. Len(batch) \in Nat /\ Len(batch) # 0
      BY <1>1, EmptySeq, LenProperties
    <2>2. batch[1] \in 1 .. MaxEntries
      <3>1. 1 \in 1 .. Len(batch)
        BY <2>1
      <3> QED BY <1>1, <3>1, ElementOfSeq, Zenon
    <2>3. Head(batch) = batch[1]
      BY <1>1, <2>1
    <2> QED BY <2>1, <2>2, <2>3
  <1>3. batch[1] = Done + 1
    BY <1>2 DEF Waiting
  <1>4. Done \in Nat
    BY DEF Waiting
  <1> QED BY <1>1, <1>2, <1>3, <1>4

\* A batch, or what is left of it, goes back in front of the buffer.
LEMMA Requeued ==
  ASSUME BatchedTypes, Waiting, NEW rest \in Seq(1 .. MaxEntries),
         rest = batch \/ (batch # << >> /\ rest = Tail(batch)),
         entries' = entries, buffer' = rest \o buffer, batch' = << >>, inFlight' = inFlight - Len(batch)
  PROVE  /\ buffer' \in Seq(1 .. MaxEntries) /\ batch' \in Seq(1 .. MaxEntries)
         /\ inFlight' \in Nat /\ Waiting'
         /\ Done' = Done + (Len(batch) - Len(rest))
  <1> DEFINE k == Len(batch) - Len(rest)
  <1>0. /\ buffer \in Seq(1 .. MaxEntries) /\ batch \in Seq(1 .. MaxEntries)
        /\ entries \in Nat /\ MaxPending \in Nat /\ MaxEntries \in Nat
    BY LimitsAssumption DEF BatchedTypes, Batched!TypeOK
  <1>1. /\ Len(batch) \in Nat /\ Len(rest) \in Nat /\ Len(buffer) \in Nat /\ k \in {0, 1}
        /\ \A i \in 1 .. Len(rest) : i + k \in 1 .. Len(batch) /\ rest[i] = batch[i + k]
    <2>1. CASE rest = batch
      BY <1>0, <2>1
    <2>2. CASE batch # << >> /\ rest = Tail(batch)
      <3>1. /\ Len(batch) \in Nat \ {0} /\ Len(Tail(batch)) = Len(batch) - 1
            /\ \A i \in 1 .. Len(Tail(batch)) : Tail(batch)[i] = batch[i + 1]
        BY <1>0, <2>2
      <3>2. /\ Len(batch) \in Nat /\ Len(rest) = Len(batch) - 1 /\ k = 1
            /\ \A i \in 1 .. Len(rest) : rest[i] = batch[i + 1]
        <4>1. Len(rest) = Len(batch) - 1
          BY <2>2, <3>1
        <4>2. Len(batch) \in Nat /\ k = 1
          BY <3>1, <4>1
        <4>3. \A i \in 1 .. Len(rest) : rest[i] = batch[i + 1]
          BY <2>2, <3>1, Zenon
        <4> QED BY <4>1, <4>2, <4>3
      <3>3. \A i \in 1 .. Len(rest) : i + 1 \in 1 .. Len(batch)
        BY <3>2
      <3> HIDE DEF k
      <3> QED BY <1>0, <3>2, <3>3, LenProperties
    <2> QED BY <2>1, <2>2
  <1>2. /\ Len(buffer') = Len(rest) + Len(buffer)
        /\ \A i \in 1 .. Len(rest) : buffer'[i] = rest[i]
        /\ \A i \in Len(rest) + 1 .. Len(rest) + Len(buffer) : buffer'[i] = buffer[i - Len(rest)]
        /\ buffer' \in Seq(1 .. MaxEntries) /\ batch' \in Seq(1 .. MaxEntries) /\ Len(batch') = 0
    BY <1>0
  <1>3. inFlight' = 0
    BY <1>0 DEF Waiting
  <1>4. Done' = Done + k /\ Done \in Nat
    BY <1>0, <1>1, <1>2 DEF Done, Waiting
  <1>5. \A i \in 1 .. Len(buffer') : buffer'[i] = Done + k + i
    <2> SUFFICES ASSUME NEW i \in 1 .. Len(buffer') PROVE buffer'[i] = Done + k + i
      OBVIOUS
    <2>1. CASE i \in 1 .. Len(rest)
      <3>1. buffer'[i] = batch[i + k] /\ i + k \in 1 .. Len(batch)
        BY <1>1, <1>2, <2>1
      <3>2. batch[i + k] = Done + (i + k)
        BY <3>1 DEF Waiting
      <3> QED BY <1>1, <1>4, <3>1, <3>2
    <2>2. CASE i \in Len(rest) + 1 .. Len(rest) + Len(buffer)
      BY <1>1, <1>2, <1>4, <2>2 DEF Waiting
    <2> QED BY <1>1, <1>2, <2>1, <2>2
  <1>6. Waiting'
    BY <1>0, <1>1, <1>2, <1>3, <1>4, <1>5 DEF Waiting
  <1> QED BY <1>2, <1>3, <1>4, <1>6


\* The inductive invariant holds at the start.
LEMMA BatchedInit == Batched!Init => BatchedInv
  <1> SUFFICES ASSUME Batched!Init PROVE BatchedInv
    OBVIOUS
  <1> USE ActorsAssumption, LimitsAssumption DEF Batched!Init, Batched!Actors, WritingStates
  <1>0. Batched!TypeOK
    BY DEF Batched!TypeOK
  <1>1. BatchedTypes
    <2>1. written \in Seq(1 .. MaxEntries) /\ entries \in 0 .. MaxEntries
      OBVIOUS
    <2>2. doing \in [Batched!Actors -> {"idle"}]
      OBVIOUS
    <2> QED BY <1>0, <2>1, <2>2 DEF BatchedTypes
  <1>2. UnderLock /\ EndedQuiet
    BY DEF UnderLock, EndedQuiet
  <1>3. Waiting /\ WrittenUpTo
    BY DEF Waiting, WrittenUpTo, Done
  <1> QED BY <1>1, <1>2, <1>3 DEF BatchedInv

LEMMA BatchedAgesKeeps ==
  ASSUME BatchedInv, Batched!Ages
  PROVE  BatchedInv'
  <1> USE ActorsAssumption, LimitsAssumption
      DEF Batched!Ages, Batched!Goto, Batched!content, Batched!history,
          Batched!Actors, WritingStates, BatchedInv, BatchedTypes, Batched!TypeOK
  <1>1. BatchedTypes'
    OBVIOUS
  <1>2. UnderLock'
    BY <1>1 DEF UnderLock
  <1>3. Waiting'
    BY <1>1 DEF UnderLock, Waiting, Done
  <1>4. WrittenUpTo'
    BY <1>1 DEF UnderLock, Waiting, WrittenUpTo, Done
  <1>5. EndedQuiet'
    BY <1>1 DEF UnderLock, Waiting, EndedQuiet
  <1> QED BY <1>1, <1>2, <1>3, <1>4, <1>5

LEMMA BatchedAgeFlushKeeps ==
  ASSUME BatchedInv, Batched!AgeFlush
  PROVE  BatchedInv'
  <1> USE ActorsAssumption, LimitsAssumption
      DEF Batched!AgeFlush, Batched!Goto, Batched!content, Batched!history,
          Batched!Actors, WritingStates, BatchedInv, BatchedTypes, Batched!TypeOK
  <1>1. BatchedTypes'
    OBVIOUS
  <1>2. UnderLock'
    BY <1>1 DEF UnderLock
  <1>3. Waiting'
    BY <1>1 DEF UnderLock, Waiting, Done
  <1>4. WrittenUpTo'
    BY <1>1 DEF UnderLock, Waiting, WrittenUpTo, Done
  <1>5. EndedQuiet'
    BY <1>1 DEF UnderLock, Waiting, EndedQuiet
  <1> QED BY <1>1, <1>2, <1>3, <1>4, <1>5

LEMMA BatchedFlusherExitsKeeps ==
  ASSUME BatchedInv, Batched!FlusherExits
  PROVE  BatchedInv'
  <1> USE ActorsAssumption, LimitsAssumption
      DEF Batched!FlusherExits, Batched!Goto, Batched!content, Batched!history,
          Batched!Actors, WritingStates, BatchedInv, BatchedTypes, Batched!TypeOK
  <1>1. BatchedTypes'
    OBVIOUS
  <1>2. UnderLock'
    BY <1>1 DEF UnderLock
  <1>3. Waiting'
    BY <1>1 DEF UnderLock, Waiting, Done
  <1>4. WrittenUpTo'
    BY <1>1 DEF UnderLock, Waiting, WrittenUpTo, Done
  <1>5. EndedQuiet'
    BY <1>1 DEF UnderLock, Waiting, EndedQuiet
  <1> QED BY <1>1, <1>2, <1>3, <1>4, <1>5

LEMMA BatchedEnsureFlusherKeeps ==
  ASSUME BatchedInv, NEW t \in Batched!Actors, Batched!EnsureFlusher(t)
  PROVE  BatchedInv'
  <1> USE ActorsAssumption, LimitsAssumption
      DEF Batched!EnsureFlusher, Batched!Goto, Batched!content, Batched!history,
          Batched!Actors, WritingStates, BatchedInv, BatchedTypes, Batched!TypeOK
  <1>1. BatchedTypes'
    OBVIOUS
  <1>2. UnderLock'
    BY <1>1 DEF UnderLock
  <1>3. Waiting'
    BY <1>1 DEF UnderLock, Waiting, Done
  <1>4. WrittenUpTo'
    BY <1>1 DEF UnderLock, Waiting, WrittenUpTo, Done
  <1>5. EndedQuiet'
    BY <1>1 DEF UnderLock, Waiting, EndedQuiet
  <1> QED BY <1>1, <1>2, <1>3, <1>4, <1>5

LEMMA BatchedFlushKeeps ==
  ASSUME BatchedInv, NEW t \in Batched!Actors, Batched!Flush(t)
  PROVE  BatchedInv'
  <1> USE ActorsAssumption, LimitsAssumption
      DEF Batched!Flush, Batched!Goto, Batched!content, Batched!history,
          Batched!Actors, WritingStates, BatchedInv, BatchedTypes, Batched!TypeOK
  <1>1. BatchedTypes'
    OBVIOUS
  <1>2. UnderLock'
    BY <1>1 DEF UnderLock
  <1>3. Waiting'
    BY <1>1 DEF UnderLock, Waiting, Done
  <1>4. WrittenUpTo'
    BY <1>1 DEF UnderLock, Waiting, WrittenUpTo, Done
  <1>5. EndedQuiet'
    BY <1>1 DEF UnderLock, Waiting, EndedQuiet
  <1> QED BY <1>1, <1>2, <1>3, <1>4, <1>5

LEMMA BatchedFlushGivesUpKeeps ==
  ASSUME BatchedInv, NEW t \in Batched!Actors, Batched!FlushGivesUp(t)
  PROVE  BatchedInv'
  <1> USE ActorsAssumption, LimitsAssumption
      DEF Batched!FlushGivesUp, Batched!Goto, Batched!content, Batched!history,
          Batched!Actors, WritingStates, BatchedInv, BatchedTypes, Batched!TypeOK
  <1>1. BatchedTypes'
    OBVIOUS
  <1>2. UnderLock'
    BY <1>1 DEF UnderLock
  <1>3. Waiting'
    BY <1>1 DEF UnderLock, Waiting, Done
  <1>4. WrittenUpTo'
    BY <1>1 DEF UnderLock, Waiting, WrittenUpTo, Done
  <1>5. EndedQuiet'
    BY <1>1 DEF UnderLock, Waiting, EndedQuiet
  <1> QED BY <1>1, <1>2, <1>3, <1>4, <1>5

LEMMA BatchedWriteEndsKeeps ==
  ASSUME BatchedInv, NEW t \in Batched!Actors, Batched!WriteEnds(t)
  PROVE  BatchedInv'
  <1> USE ActorsAssumption, LimitsAssumption
      DEF Batched!WriteEnds, Batched!Writing, Batched!Goto, Batched!content, Batched!history,
          Batched!Actors, WritingStates, BatchedInv, BatchedTypes, Batched!TypeOK
  <1>1. BatchedTypes'
    OBVIOUS
  <1>2. UnderLock'
    BY <1>1 DEF UnderLock
  <1>3. Waiting'
    BY <1>1 DEF UnderLock, Waiting, Done
  <1>4. WrittenUpTo'
    BY <1>1 DEF UnderLock, Waiting, WrittenUpTo, Done
  <1>5. EndedQuiet'
    BY <1>1 DEF UnderLock, Waiting, EndedQuiet
  <1> QED BY <1>1, <1>2, <1>3, <1>4, <1>5

LEMMA BatchedCloseKeeps ==
  ASSUME BatchedInv, NEW t \in Batched!Actors, Batched!Close(t)
  PROVE  BatchedInv'
  <1> USE ActorsAssumption, LimitsAssumption
      DEF Batched!Close, Batched!Goto, Batched!content, Batched!history,
          Batched!Actors, WritingStates, BatchedInv, BatchedTypes, Batched!TypeOK
  <1>1. BatchedTypes'
    OBVIOUS
  <1>2. UnderLock'
    BY <1>1 DEF UnderLock
  <1>3. Waiting'
    BY <1>1 DEF UnderLock, Waiting, Done
  <1>4. WrittenUpTo'
    BY <1>1 DEF UnderLock, Waiting, WrittenUpTo, Done
  <1>5. EndedQuiet'
    BY <1>1 DEF UnderLock, Waiting, EndedQuiet
  <1> QED BY <1>1, <1>2, <1>3, <1>4, <1>5

LEMMA BatchedCloseJoinsKeeps ==
  ASSUME BatchedInv, NEW t \in Batched!Actors, Batched!CloseJoins(t)
  PROVE  BatchedInv'
  <1> USE ActorsAssumption, LimitsAssumption
      DEF Batched!CloseJoins, Batched!Goto, Batched!content, Batched!history,
          Batched!Actors, WritingStates, BatchedInv, BatchedTypes, Batched!TypeOK
  <1>1. BatchedTypes'
    OBVIOUS
  <1>2. UnderLock'
    BY <1>1 DEF UnderLock
  <1>3. Waiting'
    BY <1>1 DEF UnderLock, Waiting, Done
  <1>4. WrittenUpTo'
    BY <1>1 DEF UnderLock, Waiting, WrittenUpTo, Done
  <1>5. EndedQuiet'
    BY <1>1 DEF UnderLock, Waiting, EndedQuiet
  <1> QED BY <1>1, <1>2, <1>3, <1>4, <1>5

LEMMA BatchedCloseGivesUpKeeps ==
  ASSUME BatchedInv, NEW t \in Batched!Actors, Batched!CloseGivesUp(t)
  PROVE  BatchedInv'
  <1> USE ActorsAssumption, LimitsAssumption
      DEF Batched!CloseGivesUp, Batched!Goto, Batched!content, Batched!history,
          Batched!Actors, WritingStates, BatchedInv, BatchedTypes, Batched!TypeOK
  <1>1. BatchedTypes'
    OBVIOUS
  <1>2. UnderLock'
    BY <1>1 DEF UnderLock
  <1>3. Waiting'
    BY <1>1 DEF UnderLock, Waiting, Done
  <1>4. WrittenUpTo'
    BY <1>1 DEF UnderLock, Waiting, WrittenUpTo, Done
  <1>5. EndedQuiet'
    BY <1>1 DEF UnderLock, Waiting, EndedQuiet
  <1> QED BY <1>1, <1>2, <1>3, <1>4, <1>5

LEMMA BatchedCloseReturnsKeeps ==
  ASSUME BatchedInv, NEW t \in Batched!Actors, Batched!CloseReturns(t)
  PROVE  BatchedInv'
  <1> USE ActorsAssumption, LimitsAssumption
      DEF Batched!CloseReturns, Batched!Quiet, Batched!Pending, Batched!Goto, Batched!content, Batched!history,
          Batched!Actors, WritingStates, BatchedInv, BatchedTypes, Batched!TypeOK
  <1>1. BatchedTypes'
    OBVIOUS
  <1>2. UnderLock'
    BY <1>1 DEF UnderLock
  <1>3. Waiting'
    BY <1>1 DEF UnderLock, Waiting, Done
  <1>4. WrittenUpTo'
    BY <1>1 DEF UnderLock, Waiting, WrittenUpTo, Done
  <1>5. EndedQuiet'
    <2>1. CASE ended
      BY <2>1 DEF EndedQuiet
    <2>2. CASE ~ended /\ ended'
      <3>1. Len(buffer) = 0 /\ Len(batch) = 0 /\ flusher # "alive"
        BY <2>2 DEF Waiting
      <3>2. doing[t] = "written"
        BY <2>2
      <3>3. closed
        BY <3>2 DEF EndedQuiet
      <3> QED BY <3>1, <3>3 DEF EndedQuiet
    <2>3. CASE ~ended'
      BY <2>3 DEF EndedQuiet
    <2> QED BY <2>1, <2>2, <2>3
  <1> QED BY <1>1, <1>2, <1>3, <1>4, <1>5

LEMMA BatchedStoreKeeps ==
  ASSUME BatchedInv, NEW t \in Batched!Actors, Batched!Store(t)
  PROVE  BatchedInv'
  <1> USE ActorsAssumption, LimitsAssumption
      DEF Batched!Store, Batched!Room, Batched!Pending, Batched!Goto, Batched!content, Batched!history,
          Batched!Actors, WritingStates, BatchedInv, BatchedTypes, Batched!TypeOK
  <1>a. /\ Len(buffer') = Len(buffer) + 1 /\ Len(buffer) \in Nat /\ Len(batch) \in Nat
        /\ buffer'[Len(buffer) + 1] = entries + 1
        /\ \A i \in 1 .. Len(buffer) : buffer'[i] = buffer[i]
    OBVIOUS
  <1>b. Done' = Done
    BY <1>a DEF Done
  <1>1. BatchedTypes'
    OBVIOUS
  <1>2. UnderLock'
    BY <1>1 DEF UnderLock
  <1>3. Waiting'
    <2>1. /\ Done \in Nat /\ Len(buffer) + Len(batch) < MaxPending
          /\ entries + 1 = Done + Len(batch) + Len(buffer) + 1
      BY <1>a DEF Waiting, Done
    <2>2. \A i \in 1 .. Len(buffer') : buffer'[i] = Done + Len(batch) + i
      <3> SUFFICES ASSUME NEW i \in 1 .. Len(buffer') PROVE buffer'[i] = Done + Len(batch) + i
        OBVIOUS
      <3>1. CASE i = Len(buffer) + 1
        BY <1>a, <2>1, <3>1
      <3>2. CASE i \in 1 .. Len(buffer)
        BY <1>a, <3>2 DEF Waiting
      <3> QED BY <1>a, <3>1, <3>2
    <2> QED BY <1>a, <1>b, <2>1, <2>2 DEF Waiting
  <1>4. WrittenUpTo'
    BY <1>b, NothingWritten
  <1>5. EndedQuiet'
    BY <1>1 DEF UnderLock, Waiting, EndedQuiet
  <1> QED BY <1>1, <1>2, <1>3, <1>4, <1>5

LEMMA BatchedFlushBeginsKeeps ==
  ASSUME BatchedInv, NEW t \in Batched!Actors, Batched!FlushBegins(t)
  PROVE  BatchedInv'
  <1> USE ActorsAssumption, LimitsAssumption
      DEF Batched!FlushBegins, Batched!TakeBatch, Batched!Goto, Batched!content, Batched!history,
          Batched!Actors, WritingStates, BatchedInv, BatchedTypes, Batched!TypeOK
  <1>1. BatchedTypes'
    OBVIOUS
  <1>2. UnderLock'
    BY <1>1 DEF UnderLock
  <1>3. Waiting'
    BY <1>1 DEF UnderLock, Waiting, Done
  <1>4. WrittenUpTo'
    <2>1. Len(batch) = 0 /\ Len(buffer') = 0 /\ Len(batch') = Len(buffer) /\ Len(buffer) \in Nat
      BY DEF UnderLock
    <2>2. Done' = Done
      BY <2>1 DEF Done
    <2> QED BY <2>2, NothingWritten
  <1>5. EndedQuiet'
    BY <1>1 DEF UnderLock, Waiting, EndedQuiet
  <1> QED BY <1>1, <1>2, <1>3, <1>4, <1>5

LEMMA BatchedCloseWritesKeeps ==
  ASSUME BatchedInv, NEW t \in Batched!Actors, Batched!CloseWrites(t)
  PROVE  BatchedInv'
  <1> USE ActorsAssumption, LimitsAssumption
      DEF Batched!CloseWrites, Batched!TakeBatch, Batched!Goto, Batched!content, Batched!history,
          Batched!Actors, WritingStates, BatchedInv, BatchedTypes, Batched!TypeOK
  <1>1. BatchedTypes'
    OBVIOUS
  <1>2. UnderLock'
    BY <1>1 DEF UnderLock
  <1>3. Waiting'
    BY <1>1 DEF UnderLock, Waiting, Done
  <1>4. WrittenUpTo'
    <2>1. Len(batch) = 0 /\ Len(buffer') = 0 /\ Len(batch') = Len(buffer) /\ Len(buffer) \in Nat
      BY DEF UnderLock
    <2>2. Done' = Done
      BY <2>1 DEF Done
    <2> QED BY <2>2, NothingWritten
  <1>5. EndedQuiet'
    BY <1>1 DEF UnderLock, Waiting, EndedQuiet
  <1> QED BY <1>1, <1>2, <1>3, <1>4, <1>5

LEMMA BatchedCloseWritesAgainKeeps ==
  ASSUME BatchedInv, NEW t \in Batched!Actors, Batched!CloseWritesAgain(t)
  PROVE  BatchedInv'
  <1> USE ActorsAssumption, LimitsAssumption
      DEF Batched!CloseWritesAgain, Batched!TakeBatch, Batched!Goto, Batched!content, Batched!history,
          Batched!Actors, WritingStates, BatchedInv, BatchedTypes, Batched!TypeOK
  <1>1. BatchedTypes'
    OBVIOUS
  <1>2. UnderLock'
    BY <1>1 DEF UnderLock
  <1>3. Waiting'
    BY <1>1 DEF UnderLock, Waiting, Done
  <1>4. WrittenUpTo'
    <2>1. Len(batch) = 0 /\ Len(buffer') = 0 /\ Len(batch') = Len(buffer) /\ Len(buffer) \in Nat
      BY DEF UnderLock
    <2>2. Done' = Done
      BY <2>1 DEF Done
    <2> QED BY <2>2, NothingWritten
  <1>5. EndedQuiet'
    BY <1>1 DEF UnderLock, Waiting, EndedQuiet
  <1> QED BY <1>1, <1>2, <1>3, <1>4, <1>5

LEMMA BatchedWriteKeeps ==
  ASSUME BatchedInv, NEW t \in Batched!Actors, Batched!Write(t)
  PROVE  BatchedInv'
  <1> USE ActorsAssumption, LimitsAssumption
      DEF Batched!Write, Batched!Writing, Batched!Goto, Batched!content, Batched!history,
          Batched!Actors, WritingStates, BatchedInv, BatchedTypes, Batched!TypeOK
  <1>b. /\ Len(batch) \in Nat \ {0} /\ Done \in Nat /\ Head(batch) = Done + 1
        /\ Done + 1 \in 1 .. MaxEntries /\ batch' \in Seq(1 .. MaxEntries)
        /\ Len(batch') = Len(batch) - 1 /\ \A i \in 1 .. Len(batch') : batch'[i] = batch[i + 1]
    BY DEF Waiting
  <1>c. Done' = Done + 1
    BY <1>b DEF Done
  <1>d. written' \in Seq(1 .. MaxEntries) /\ WrittenUpTo'
    BY <1>b, <1>c, OneMoreWritten
  <1>1. BatchedTypes'
    BY <1>b, <1>d DEF Waiting
  <1>2. UnderLock'
    BY <1>1 DEF UnderLock
  <1>3. Waiting'
    <2>1. Done' \in Nat /\ inFlight' = Len(batch') /\ Len(batch') + Len(buffer') <= MaxPending
      BY <1>b, <1>c DEF Waiting
    <2>2. \A i \in 1 .. Len(batch') : batch'[i] = Done' + i
      BY <1>b, <1>c DEF Waiting
    <2>3. \A i \in 1 .. Len(buffer') : buffer'[i] = Done' + Len(batch') + i
      BY <1>b, <1>c DEF Waiting
    <2> QED BY <2>1, <2>2, <2>3 DEF Waiting
  <1>4. WrittenUpTo'
    BY <1>d
  <1>5. EndedQuiet'
    BY <1>1 DEF UnderLock, Waiting, EndedQuiet
  <1> QED BY <1>1, <1>2, <1>3, <1>4, <1>5

LEMMA BatchedWriteFailsKeeps ==
  ASSUME BatchedInv, NEW t \in Batched!Actors, Batched!WriteFails(t)
  PROVE  BatchedInv'
  <1> USE ActorsAssumption, LimitsAssumption
      DEF Batched!WriteFails, Batched!Writing, Batched!RequeueTail, Batched!RequeuedAge, Batched!AfterFailure, Batched!Goto, Batched!content, Batched!history,
          Batched!Actors, WritingStates, BatchedInv, BatchedTypes, Batched!TypeOK
  <1>a. doing' \in [Batched!Actors -> WritingStates \union
          {"idle", "stored", "stored_flush", "flush", "joining", "closing", "closing_retry",
           "close_failed", "written"}]
    OBVIOUS
  <1>c. /\ Len(batch) \in Nat \ {0} /\ Done \in Nat /\ Head(batch) = Done + 1
        /\ Done + 1 \in 1 .. MaxEntries
        /\ Tail(batch) \in Seq(1 .. MaxEntries) /\ Len(Tail(batch)) = Len(batch) - 1
    BY NextToWrite
  <1>b. /\ buffer' \in Seq(1 .. MaxEntries) /\ batch' \in Seq(1 .. MaxEntries)
        /\ inFlight' \in Nat /\ Waiting' /\ Done' = Done
    <2>1. /\ buffer' \in Seq(1 .. MaxEntries) /\ batch' \in Seq(1 .. MaxEntries)
          /\ inFlight' \in Nat /\ Waiting' /\ Done' = Done + (Len(batch) - Len(batch))
      BY <1>c, Requeued
    <2> QED BY <1>c, <2>1
  <1>d. written' \in Seq(1 .. MaxEntries) /\ WrittenUpTo'
    <2>1. CASE written' = written
      BY <1>b, <1>c, <2>1, NothingWritten
    <2>2. CASE written' = Append(written, Done + 1)
      BY <1>b, <1>c, <2>2, OneMoreWritten
    <2> QED BY <1>c, <2>1, <2>2
  <1>1. BatchedTypes'
    BY <1>a, <1>b, <1>d
  <1>2. UnderLock'
    BY <1>1 DEF UnderLock
  <1>3. Waiting'
    BY <1>b
  <1>4. WrittenUpTo'
    BY <1>d
  <1>5. EndedQuiet'
    BY <1>1 DEF UnderLock, Waiting, EndedQuiet
  <1> QED BY <1>1, <1>2, <1>3, <1>4, <1>5

LEMMA BatchedInterruptedKeeps ==
  ASSUME BatchedInv, NEW t \in Batched!Actors, Batched!Interrupted(t)
  PROVE  BatchedInv'
  <1> USE ActorsAssumption, LimitsAssumption
      DEF Batched!Interrupted, Batched!Writing, Batched!RequeueTail, Batched!RequeuedAge, Batched!Goto, Batched!content, Batched!history,
          Batched!Actors, WritingStates, BatchedInv, BatchedTypes, Batched!TypeOK
  <1>a. doing' \in [Batched!Actors -> WritingStates \union
          {"idle", "stored", "stored_flush", "flush", "joining", "closing", "closing_retry",
           "close_failed", "written"}]
    OBVIOUS
  <1>c. /\ Len(batch) \in Nat \ {0} /\ Done \in Nat /\ Head(batch) = Done + 1
        /\ Done + 1 \in 1 .. MaxEntries
        /\ Tail(batch) \in Seq(1 .. MaxEntries) /\ Len(Tail(batch)) = Len(batch) - 1
    BY NextToWrite
  <1>b. /\ buffer' \in Seq(1 .. MaxEntries) /\ batch' \in Seq(1 .. MaxEntries)
        /\ inFlight' \in Nat /\ Waiting' /\ Done' = Done + 1
    <2>1. /\ buffer' \in Seq(1 .. MaxEntries) /\ batch' \in Seq(1 .. MaxEntries)
          /\ inFlight' \in Nat /\ Waiting' /\ Done' = Done + (Len(batch) - Len(Tail(batch)))
      BY <1>c, Requeued
    <2> QED BY <1>c, <2>1
  <1>d. written' \in Seq(1 .. MaxEntries) /\ WrittenUpTo'
    BY <1>b, <1>c, OneMoreWritten
  <1>1. BatchedTypes'
    BY <1>a, <1>b, <1>d
  <1>2. UnderLock'
    BY <1>1 DEF UnderLock
  <1>3. Waiting'
    BY <1>b
  <1>4. WrittenUpTo'
    BY <1>d
  <1>5. EndedQuiet'
    BY <1>1 DEF UnderLock, Waiting, EndedQuiet
  <1> QED BY <1>1, <1>2, <1>3, <1>4, <1>5

\* Every step preserves the invariant.
LEMMA BatchedStep == BatchedInv /\ [Batched!Next]_(Batched!vars) => BatchedInv'
  <1> SUFFICES ASSUME BatchedInv, [Batched!Next]_(Batched!vars) PROVE BatchedInv'
    OBVIOUS
  <1>1. CASE UNCHANGED Batched!vars
    BY <1>1
    DEF BatchedInv, BatchedTypes, UnderLock, Waiting, WrittenUpTo, EndedQuiet, Done,
        Batched!TypeOK, Batched!vars, Batched!content, Batched!history
  <1>2. CASE Batched!Next
    BY <1>2,
       BatchedAgesKeeps, BatchedAgeFlushKeeps, BatchedFlusherExitsKeeps,
       BatchedEnsureFlusherKeeps, BatchedFlushKeeps, BatchedFlushGivesUpKeeps,
       BatchedWriteEndsKeeps, BatchedCloseKeeps, BatchedCloseJoinsKeeps,
       BatchedCloseGivesUpKeeps, BatchedCloseReturnsKeeps, BatchedStoreKeeps,
       BatchedFlushBeginsKeeps, BatchedCloseWritesKeeps,
       BatchedCloseWritesAgainKeeps, BatchedWriteKeeps, BatchedWriteFailsKeeps,
       BatchedInterruptedKeeps
    DEF Batched!Next, Batched!FlushStep, Batched!CloseStep
  <1> QED BY <1>1, <1>2


----------------------------------------------------------------------------
(* The delay and the time-wheel strategy (HeldItems). *)

PopRecords ==
  [at : {"idle", "drain", "drained", "waiting"}, timeout : Nat, deadline : Nat, wake : Nat,
   waits : BOOLEAN]
Entries == [id : Items, ready : Nat, place : Nat]

HeldTypes ==
  /\ clock \in Nat /\ base \in Nat /\ base <= clock
  /\ savedAt \in Nat /\ savedAt <= clock /\ up \in BOOLEAN
  /\ held \subseteq Entries /\ saved \subseteq [id : Items, remaining : Nat]
  /\ accepted \subseteq Items /\ due \in [Items -> Nat]
  /\ drain \in [by : Poppers \union {NoThread}, now : Nat, todo : SUBSET Entries]
  /\ pops \in [Poppers -> PopRecords]

\* Who drains is in its pop, and moves only entries that were due.
DrainSound ==
  /\ drain.todo \subseteq held
  /\ \A e \in drain.todo : e.ready <= drain.now
  /\ drain.by # NoThread => pops[drain.by].at = "drain" /\ drain.now <= Wheel!Now
  /\ drain.by = NoThread => drain.todo = {}

\* The entries are in memory while a process is up and in the snapshot while
\* none is, one for each item.
OneEntryEach ==
  /\ up => saved = {}
  /\ ~up => held = {} /\ drain.by = NoThread /\ \A t \in Poppers : pops[t].at = "idle"
  /\ \A e, f \in held : e.id = f.id => e = f
  /\ \A s, r \in saved : s.id = r.id => s = r
  /\ queued \subseteq accepted
  /\ \A e \in held : e.id \in accepted
  /\ \A s \in saved : s.id \in accepted

\* The time up to which a drain has looked, or will look when it begins now.
Looked == IF drain.by = NoThread THEN Wheel!Now ELSE drain.now

\* An entry is ready when its item is due, or later; one that no drain has
\* found ready yet is ready exactly then, and the backend does not have it.
Dated ==
  /\ \A e \in held : due[e.id] <= e.ready + base
  /\ \A e \in held : Looked < e.ready => due[e.id] = e.ready + base /\ e.id \notin queued
  /\ \A s \in saved : due[s.id] <= savedAt + s.remaining
  /\ \A s \in saved :
       0 < s.remaining => due[s.id] = savedAt + s.remaining /\ s.id \notin queued
  /\ \A i \in queued : due[i] <= clock

HeldInv == HeldTypes /\ DrainSound /\ OneEntryEach /\ Dated /\ Wheel!Accounted

\* A drain of the delay strategy has still to move what was due when it began.
DelayScope == drain.by # NoThread => \A e \in held : e \in drain.todo \/ drain.now < e.ready

\* An entry of the wheel is in the slot of its tick, which no complete drain has
\* passed, and its slot's cached minimum is not above it.
OnWheel ==
  /\ lastTick \in Nat /\ lastTick <= Wheel!TickAt(Wheel!Now)
  /\ drain.by # NoThread => lastTick <= Wheel!TickAt(drain.now)
  /\ \A e \in held :
       \/ e.place = Wheel!Overflow
       \/ e.place = Wheel!SlotAt(e.ready) /\ lastTick < Wheel!TickAfter(e.ready)

SlotMins ==
  /\ slotMin \in [Wheel!Slots -> Nat \union {Never}]
  /\ \A e \in held : e.place # Wheel!Overflow =>
       slotMin[e.place] # Never /\ slotMin[e.place] <= e.ready

\* The slots a drain looks into at some time, and the entries it finds there.
ScanUpTo(time) ==
  {(lastTick + k) % WheelSize :
     k \in 1 .. Wheel!Earlier(Wheel!Later(Wheel!TickAt(time), lastTick) - lastTick, WheelSize)}
Found(e, time) == e.ready <= time /\ (e.place = Wheel!Overflow \/ e.place \in ScanUpTo(time))

\* A drain of the wheel has still to move what it found when it began.
WheelScope == drain.by # NoThread => drain.todo = {e \in held : Found(e, drain.now)}

\* An entry of the wheel is ready when its item is due and the backend does not
\* have it, unless a drain found it and failed: then the next one finds it again.
FoundAgain ==
  \A e \in held : \/ e.place = Wheel!Overflow
                  \/ Found(e, Looked)
                  \/ due[e.id] = e.ready + base /\ e.id \notin queued

DelayInv == HeldInv /\ DelayScope
WheelInv == HeldInv /\ OnWheel /\ SlotMins /\ WheelScope /\ FoundAgain

\* A tick of the wheel begins at a multiple of its length.
LEMMA TickBounds ==
  ASSUME NEW a \in Nat
  PROVE  /\ Wheel!TickAt(a) \in Nat /\ Wheel!TickAfter(a) \in Nat
         /\ TickLength * Wheel!TickAt(a) <= a /\ a < TickLength * Wheel!TickAt(a) + TickLength
         /\ a <= TickLength * Wheel!TickAfter(a)
         /\ TickLength * Wheel!TickAfter(a) <= a + TickLength - 1
  <1>1. ASSUME NEW b \in Nat, NEW n \in Nat \ {0}
        PROVE  b \div n \in Nat /\ n * (b \div n) <= b /\ b < n * (b \div n) + n
    BY <1>1, Z3
  <1>2. a + TickLength - 1 \in Nat /\ TickLength \in Nat \ {0}
    BY WheelAssumption
  <1>3. /\ Wheel!TickAt(a) \in Nat
        /\ TickLength * Wheel!TickAt(a) <= a /\ a < TickLength * Wheel!TickAt(a) + TickLength
    BY <1>1, <1>2, Zenon DEF Wheel!TickAt
  <1>4. /\ Wheel!TickAfter(a) \in Nat
        /\ TickLength * Wheel!TickAfter(a) <= a + TickLength - 1
        /\ a + TickLength - 1 < TickLength * Wheel!TickAfter(a) + TickLength
    BY <1>1, <1>2, Zenon DEF Wheel!TickAfter
  <1>5. ASSUME NEW p \in Nat, NEW n \in Nat, a + n - 1 < p + n PROVE a <= p
    BY <1>5
  <1>6. TickLength * Wheel!TickAfter(a) \in Nat
    BY <1>2, <1>4, Z3
  <1> QED BY <1>2, <1>3, <1>4, <1>5, <1>6

\* The order of ticks is the order of the times they stand for.
LEMMA TickOrder ==
  ASSUME NEW a \in Nat, NEW b \in Nat
  PROVE  /\ a <= b => /\ Wheel!TickAt(a) <= Wheel!TickAt(b)
                      /\ Wheel!TickAfter(a) <= Wheel!TickAfter(b)
         /\ a < b => Wheel!TickAt(a) < Wheel!TickAfter(b)
         /\ Wheel!TickAt(a) < Wheel!TickAfter(b) => a < b + (TickLength - 1)
  <1> DEFINE n == TickLength  at(x) == Wheel!TickAt(x)  after(x) == Wheel!TickAfter(x)
  <1>1. n \in Nat \ {0}
    BY WheelAssumption
  <1>2. /\ at(a) \in Nat /\ after(a) \in Nat
        /\ n * at(a) <= a /\ a < n * at(a) + n
        /\ a <= n * after(a) /\ n * after(a) <= a + n - 1
    BY TickBounds
  <1>3. /\ at(b) \in Nat /\ after(b) \in Nat
        /\ n * at(b) <= b /\ b < n * at(b) + n
        /\ b <= n * after(b) /\ n * after(b) <= b + n - 1
    BY TickBounds
  <1> HIDE DEF n, at, after
  <1>4. ASSUME NEW p \in Nat, NEW q \in Nat, n * p < n * q + n PROVE p <= q
    BY <1>1, <1>4, Z3
  <1>5. ASSUME NEW p \in Nat, NEW q \in Nat, p < q PROVE n * p + n <= n * q
    BY <1>1, <1>5, Z3
  <1>6. /\ n * at(a) \in Nat /\ n * at(b) \in Nat /\ n * after(a) \in Nat /\ n * after(b) \in Nat
    BY <1>1, <1>2, <1>3, Z3
  <1>7. a <= b => at(a) <= at(b)
    <2> SUFFICES ASSUME a <= b PROVE n * at(a) < n * at(b) + n
      BY <1>2, <1>3, <1>4
    <2> QED BY <1>1, <1>2, <1>3, <1>6
  <1>8. a <= b => after(a) <= after(b)
    <2> SUFFICES ASSUME a <= b PROVE n * after(a) < n * after(b) + n
      BY <1>2, <1>3, <1>4
    <2> QED BY <1>1, <1>2, <1>3, <1>6
  <1>9. a < b => at(a) < after(b)
    <2> SUFFICES ASSUME a < b, after(b) <= at(a) PROVE FALSE
      BY <1>2, <1>3
    <2>1. after(b) # at(a)
      BY <1>2, <1>3, <1>6
    <2>2. n * after(b) + n <= n * at(a)
      BY <1>2, <1>3, <1>5, <2>1
    <2> QED BY <1>1, <1>2, <1>3, <1>6, <2>2
  <1>10. at(a) < after(b) => a < b + (n - 1)
    <2> SUFFICES ASSUME at(a) < after(b) PROVE a < b + (n - 1)
      OBVIOUS
    <2>1. n * at(a) + n <= n * after(b)
      BY <1>2, <1>3, <1>5
    <2> QED BY <1>1, <1>2, <1>3, <1>6, <2>1
  <1> QED BY <1>7, <1>8, <1>9, <1>10 DEF n, at, after

\* The slot of a tick is one of the wheel's.
LEMMA SlotRange ==
  ASSUME NEW a \in Nat
  PROVE  /\ Wheel!SlotAt(a) \in Nat /\ Wheel!SlotAt(a) \in Wheel!Slots
         /\ Wheel!SlotAt(a) # Wheel!Overflow
  <1>1. ASSUME NEW b \in Nat, NEW n \in Nat \ {0} PROVE b % n \in 0 .. n - 1
    BY <1>1, Z3
  <1>2. Wheel!SlotAt(a) \in 0 .. WheelSize - 1
    BY <1>1, TickBounds, WheelAssumption, Zenon DEF Wheel!SlotAt
  <1> QED BY <1>2, WheelAssumption DEF Wheel!Slots, Wheel!Overflow

\* A run of as many numbers as the wheel has slots meets every slot.
LEMMA FullTurn ==
  ASSUME NEW n \in Nat \ {0}, NEW a \in Nat, NEW b \in Nat, a < b
  PROVE  \E k \in 1 .. n : (a + k) % n = b % n
  <1> DEFINE q == (b - a - 1) \div n
             k == (b - a - 1) - n * q + 1
  <1>0. b - a - 1 \in Nat
    OBVIOUS
  <1>1. q \in Nat /\ n * q <= b - a - 1 /\ b - a - 1 < n * q + n
    <2>1. ASSUME NEW x \in Nat PROVE x \div n \in Nat /\ n * (x \div n) <= x /\ x < n * (x \div n) + n
      BY Z3
    <2> QED BY <1>0, <2>1, Zenon
  <1> HIDE DEF q
  <1>2. n * q \in Nat
    BY <1>1, Z3
  <1>3. k \in 1 .. n /\ a + k = b - n * q
    BY <1>0, <1>1, <1>2
  <1> HIDE DEF k
  <1>4. ASSUME NEW x \in Nat, NEW y \in Nat, NEW r \in Nat, r < n, x = n * y + r PROVE x % n = r
    BY <1>4, Z3
  <1> DEFINE m == (a + k) \div n
             r == (a + k) % n
  <1>5. m \in Nat /\ r \in Nat /\ r < n /\ a + k = n * m + r
    <2>1. ASSUME NEW x \in Nat
          PROVE x \div n \in Nat /\ x % n \in Nat /\ x % n < n /\ x = n * (x \div n) + (x % n)
      BY Z3
    <2>2. a + k \in Nat
      BY <1>3
    <2> QED BY <2>1, <2>2, Zenon
  <1> HIDE DEF m, r
  <1>6. b = n * (m + q) + r
    <2>1. n * (m + q) = n * m + n * q
      BY <1>1, <1>5, Z3
    <2>2. n * m \in Nat
      BY <1>5, Z3
    <2> QED BY <1>2, <1>3, <1>5, <2>1, <2>2
  <1>7. b % n = r
    BY <1>1, <1>4, <1>5, <1>6
  <1> QED BY <1>3, <1>7 DEF r

\* A drain looks into the slot of every tick that was not scanned and is over.
LEMMA SlotScanned ==
  ASSUME NEW a \in Nat, lastTick \in Nat, NEW time \in Nat,
         lastTick < Wheel!TickAfter(a), Wheel!TickAfter(a) <= Wheel!TickAt(time)
  PROVE  Wheel!SlotAt(a) \in ScanUpTo(time)
  <1> DEFINE b == Wheel!TickAfter(a)  top == Wheel!TickAt(time)
  <1>1. b \in Nat /\ top \in Nat
    BY TickBounds
  <1>2. lastTick < b /\ b <= top
    OBVIOUS
  <1> HIDE DEF b, top
  <1>3. Wheel!Later(top, lastTick) = top
    BY <1>1, <1>2 DEF Wheel!Later
  <1>4. ScanUpTo(time) =
          {(lastTick + k) % WheelSize : k \in 1 .. Wheel!Earlier(top - lastTick, WheelSize)}
    BY <1>3, Zenon DEF ScanUpTo, top
  <1>5. Wheel!SlotAt(a) = b % WheelSize
    BY Zenon DEF Wheel!SlotAt, b
  <1>6. \E k \in 1 .. Wheel!Earlier(top - lastTick, WheelSize) : (lastTick + k) % WheelSize = b % WheelSize
    <2>1. CASE top - lastTick < WheelSize
      <3>1. b - lastTick \in 1 .. top - lastTick /\ lastTick + (b - lastTick) = b
        BY <1>1, <1>2
      <3>2. Wheel!Earlier(top - lastTick, WheelSize) = top - lastTick
        BY <2>1, Zenon DEF Wheel!Earlier
      <3> QED BY <3>1, <3>2, Zenon
    <2>2. CASE ~(top - lastTick < WheelSize)
      <3>1. Wheel!Earlier(top - lastTick, WheelSize) = WheelSize
        BY <2>2, Zenon DEF Wheel!Earlier
      <3>2. \E k \in 1 .. WheelSize : (lastTick + k) % WheelSize = b % WheelSize
        BY <1>1, <1>2, FullTurn, WheelAssumption
      <3> QED BY <3>1, <3>2, Zenon
    <2> QED BY <2>1, <2>2
  <1> QED BY <1>4, <1>5, <1>6, Zenon

\* A later drain looks into no fewer slots.
LEMMA ScanGrows ==
  ASSUME NEW a \in Nat, NEW b \in Nat, a <= b, lastTick \in Nat
  PROVE  ScanUpTo(a) \subseteq ScanUpTo(b)
  <1> DEFINE end(x) == Wheel!Earlier(Wheel!Later(Wheel!TickAt(x), lastTick) - lastTick, WheelSize)
  <1>1. Wheel!TickAt(a) \in Nat /\ Wheel!TickAt(b) \in Nat /\ Wheel!TickAt(a) <= Wheel!TickAt(b)
    BY TickBounds, TickOrder
  <1>2. end(a) \in Nat /\ end(b) \in Nat /\ end(a) <= end(b)
    BY <1>1, WheelAssumption DEF Wheel!Earlier, Wheel!Later
  <1>3. \A x : ScanUpTo(x) = {(lastTick + k) % WheelSize : k \in 1 .. end(x)}
    BY Zenon DEF ScanUpTo
  <1> HIDE DEF end
  <1>4. \A k \in 1 .. end(a) : k \in 1 .. end(b)
    BY <1>2
  <1> QED BY <1>3, <1>4, Zenon

\* A set of numbers that is not empty has a smallest one.
LEMMA Smallest ==
  ASSUME NEW S \in SUBSET Nat, S # {}
  PROVE  /\ Wheel!Min(S) \in S /\ Wheel!Min(S) \in Nat
         /\ \A y \in S : Wheel!Min(S) <= y
         /\ Delay!Min(S) = Wheel!Min(S)
  <1>1. PICK x \in S : \A y \in S : ~ (<<y, x>> \in OpToRel(<, Nat))
    BY NatLessThanWellFounded, WFMin, Zenon
  <1>2. \A y \in S : x <= y
    <2> TAKE y \in S
    <2>1. ~ (<<y, x>> \in OpToRel(<, Nat)) /\ x \in Nat /\ y \in Nat
      BY <1>1
    <2>2. ~(y < x)
      BY <2>1, Zenon DEF OpToRel
    <2>3. x \in Nat /\ y \in Nat
      BY <2>1
    <2> QED BY <2>2, <2>3
  <1>3. Wheel!Min(S) \in S /\ \A y \in S : Wheel!Min(S) <= y
    BY <1>2, Zenon DEF Wheel!Min
  <1>4. Delay!Min(S) = Wheel!Min(S)
    BY Zenon DEF Wheel!Min, Delay!Min
  <1> QED BY <1>3, <1>4

----------------------------------------------------------------------------
(* What the two strategies have in common. *)

\* A pick of an item that was not accepted yet.
LEMMA FreshItem ==
  ASSUME HeldTypes, NEW i \in Items, NEW d \in Delays, Wheel!Accepts(i, d)
  PROVE  i \notin accepted
  <1>1. \E x \in Items : x \notin accepted
    BY DEF HeldTypes, Wheel!Accepts
  <1> QED BY <1>1, Zenon DEF Wheel!Accepts

\* At the start nothing is held.
LEMMA HeldStart == Wheel!Init => HeldInv
  BY DEF Wheel!Init, HeldInv, HeldTypes, DrainSound, OneEntryEach, Dated, Looked, Wheel!Accounted,
         Wheel!NoDrain, Wheel!IdlePop, PopRecords, Entries, Wheel!Now, Wheel!Ids

\* Time passes.
LEMMA TickKeeps ==
  ASSUME HeldInv, Wheel!Tick
  PROVE  HeldInv'
  <1> USE PoppersAssumption, TimesAssumption
      DEF Wheel!Tick, Wheel!timing, Wheel!snapshot, Wheel!store, Wheel!pushes, Wheel!Now, Wheel!Unlocked,
          Wheel!NoDrain, Wheel!IdlePop, Wheel!Ids, HeldInv, HeldTypes, Entries, PopRecords
  <1>1. HeldTypes'
    OBVIOUS
  <1>2. DrainSound'
    BY <1>1 DEF DrainSound
  <1>3. OneEntryEach'
    BY <1>1 DEF OneEntryEach, DrainSound
  <1>4. Dated'
    BY <1>1 DEF Dated, Looked, DrainSound, OneEntryEach
  <1>5. Wheel!Accounted'
    BY <1>1 DEF Wheel!Accounted, OneEntryEach
  <1> QED BY <1>1, <1>2, <1>3, <1>4, <1>5

\* A pop begins.
LEMMA PopBeginKeeps ==
  ASSUME HeldInv, NEW t \in Poppers, Wheel!PopBegin(t)
  PROVE  HeldInv'
  <1> USE PoppersAssumption, TimesAssumption
      DEF Wheel!PopBegin, Wheel!timing, Wheel!snapshot, Wheel!store, Wheel!pushes, Wheel!Now, Wheel!Unlocked,
          Wheel!NoDrain, Wheel!IdlePop, Wheel!Ids, HeldInv, HeldTypes, Entries, PopRecords
  <1>1. HeldTypes'
    <2>1. PICK d \in Timeouts :
            pops' = [pops EXCEPT ![t] = [Wheel!IdlePop EXCEPT !.at = "drain", !.timeout = d]]
      BY Zenon DEF Wheel!PopBegin
    <2>2. [Wheel!IdlePop EXCEPT !.at = "drain", !.timeout = d] \in PopRecords
      OBVIOUS
    <2>3. pops' \in [Poppers -> PopRecords]
      BY <2>1, <2>2, Zenon DEF HeldInv, HeldTypes
    <2> QED BY <2>3
  <1>2. DrainSound'
    BY <1>1 DEF DrainSound
  <1>3. OneEntryEach'
    BY <1>1 DEF OneEntryEach, DrainSound
  <1>4. Dated'
    BY <1>1 DEF Dated, Looked, DrainSound, OneEntryEach
  <1>5. Wheel!Accounted'
    BY <1>1 DEF Wheel!Accounted, OneEntryEach
  <1> QED BY <1>1, <1>2, <1>3, <1>4, <1>5

\* A drain begins with entries that are ready.
LEMMA DrainBeginKeeps ==
  ASSUME HeldInv, NEW t \in Poppers, NEW c \in SUBSET {e \in held : e.ready <= Wheel!Now},
         Wheel!DrainBegin(t, c)
  PROVE  HeldInv'
  <1> USE PoppersAssumption, TimesAssumption
      DEF Wheel!DrainBegin, Wheel!timing, Wheel!snapshot, Wheel!store, Wheel!pushes, Wheel!Now, Wheel!Unlocked,
          Wheel!NoDrain, Wheel!IdlePop, Wheel!Ids, HeldInv, HeldTypes, Entries, PopRecords
  <1>1. HeldTypes'
    OBVIOUS
  <1>2. DrainSound'
    BY <1>1 DEF DrainSound
  <1>3. OneEntryEach'
    BY <1>1 DEF OneEntryEach, DrainSound
  <1>4. Dated'
    BY <1>1 DEF Dated, Looked, DrainSound, OneEntryEach
  <1>5. Wheel!Accounted'
    BY <1>1 DEF Wheel!Accounted, OneEntryEach
  <1> QED BY <1>1, <1>2, <1>3, <1>4, <1>5

\* An entry moves to the backend.
LEMMA DrainMovesKeeps ==
  ASSUME HeldInv, NEW t \in Poppers, NEW e \in drain.todo, Wheel!DrainMoves(t, e)
  PROVE  HeldInv'
  <1> USE PoppersAssumption, TimesAssumption
      DEF Wheel!DrainMoves, Wheel!timing, Wheel!snapshot, Wheel!store, Wheel!pushes, Wheel!Now, Wheel!Unlocked,
          Wheel!NoDrain, Wheel!IdlePop, Wheel!Ids, HeldInv, HeldTypes, Entries, PopRecords
  <1>1. HeldTypes'
    OBVIOUS
  <1>2. DrainSound'
    BY <1>1 DEF DrainSound
  <1>3. OneEntryEach'
    BY <1>1 DEF OneEntryEach, DrainSound
  <1>4. Dated'
    BY <1>1 DEF Dated, Looked, DrainSound, OneEntryEach
  <1>5. Wheel!Accounted'
    BY <1>1 DEF Wheel!Accounted, OneEntryEach
  <1> QED BY <1>1, <1>2, <1>3, <1>4, <1>5

\* The backend fails with an entry.
LEMMA DrainFailsKeeps ==
  ASSUME HeldInv, NEW t \in Poppers, NEW e \in drain.todo, Wheel!DrainFails(t, e)
  PROVE  HeldInv'
  <1> USE PoppersAssumption, TimesAssumption
      DEF Wheel!DrainFails, Wheel!timing, Wheel!snapshot, Wheel!store, Wheel!pushes, Wheel!Now, Wheel!Unlocked,
          Wheel!NoDrain, Wheel!IdlePop, Wheel!Ids, HeldInv, HeldTypes, Entries, PopRecords
  <1>1. HeldTypes'
    OBVIOUS
  <1>2. DrainSound'
    BY <1>1 DEF DrainSound
  <1>3. OneEntryEach'
    BY <1>1 DEF OneEntryEach, DrainSound
  <1>4. Dated'
    BY <1>1 DEF Dated, Looked, DrainSound, OneEntryEach
  <1>5. Wheel!Accounted'
    BY <1>1 DEF Wheel!Accounted, OneEntryEach
  <1> QED BY <1>1, <1>2, <1>3, <1>4, <1>5

\* A drain is complete.
LEMMA DrainEndsKeeps ==
  ASSUME HeldInv, NEW t \in Poppers, Wheel!DrainEnds(t)
  PROVE  HeldInv'
  <1> USE PoppersAssumption, TimesAssumption
      DEF Wheel!DrainEnds, Wheel!timing, Wheel!snapshot, Wheel!store, Wheel!pushes, Wheel!Now, Wheel!Unlocked,
          Wheel!NoDrain, Wheel!IdlePop, Wheel!Ids, HeldInv, HeldTypes, Entries, PopRecords
  <1>1. HeldTypes'
    OBVIOUS
  <1>2. DrainSound'
    BY <1>1 DEF DrainSound
  <1>3. OneEntryEach'
    BY <1>1 DEF OneEntryEach, DrainSound
  <1>4. Dated'
    BY <1>1 DEF Dated, Looked, DrainSound, OneEntryEach
  <1>5. Wheel!Accounted'
    BY <1>1 DEF Wheel!Accounted, OneEntryEach
  <1> QED BY <1>1, <1>2, <1>3, <1>4, <1>5

\* A pop begins to wait.
LEMMA PopWaitsKeeps ==
  ASSUME HeldInv, NEW t \in Poppers, NEW r \in SUBSET Nat, Wheel!PopWaits(t, r)
  PROVE  HeldInv'
  <1> USE PoppersAssumption, TimesAssumption
      DEF Wheel!PopWaits, Wheel!Later, Wheel!Earlier, Wheel!timing, Wheel!snapshot, Wheel!store, Wheel!pushes, Wheel!Now, Wheel!Unlocked,
          Wheel!NoDrain, Wheel!IdlePop, Wheel!Ids, HeldInv, HeldTypes, Entries, PopRecords
  <1>1. HeldTypes'
    <2> DEFINE deadline == IF pops[t].deadline = 0 THEN Wheel!Now + pops[t].timeout
                           ELSE pops[t].deadline
               limit == Wheel!Later(deadline, Wheel!Now)
               wake == IF r = {} THEN limit
                       ELSE Wheel!Earlier(limit, Wheel!Later(Wheel!Now, Wheel!Min(r)))
    <2>1. Wheel!Now \in Nat /\ deadline \in Nat
      OBVIOUS
    <2>2. limit \in Nat
      BY <2>1
    <2>3. r # {} => Wheel!Min(r) \in Nat
      BY Smallest, Zenon
    <2>4. wake \in Nat
      BY <2>1, <2>2, <2>3
    <2>5. pops' = [pops EXCEPT ![t] = [at |-> "waiting", timeout |-> 0, deadline |-> deadline,
                                       wake |-> wake, waits |-> wake > Wheel!Now]]
      BY Zenon DEF Wheel!PopWaits
    <2>6. (wake > Wheel!Now) \in BOOLEAN
      BY <2>1, <2>4
    <2> HIDE DEF deadline, wake
    <2>7. [at |-> "waiting", timeout |-> 0, deadline |-> deadline,
           wake |-> wake, waits |-> wake > Wheel!Now] \in PopRecords
      BY <2>1, <2>4, <2>6
    <2>8. pops' \in [Poppers -> PopRecords]
      BY <2>5, <2>7, Zenon DEF HeldInv, HeldTypes
    <2>9. UNCHANGED <<clock, base, savedAt, up, held, saved, accepted, due, drain>>
      BY Zenon DEF Wheel!PopWaits, Wheel!timing, Wheel!snapshot, Wheel!store, Wheel!pushes
    <2> QED BY <2>8, <2>9 DEF HeldInv, HeldTypes
  <1>2. DrainSound'
    BY <1>1 DEF DrainSound
  <1>3. OneEntryEach'
    BY <1>1 DEF OneEntryEach, DrainSound
  <1>4. Dated'
    BY <1>1 DEF Dated, Looked, DrainSound, OneEntryEach
  <1>5. Wheel!Accounted'
    BY <1>1 DEF Wheel!Accounted, OneEntryEach
  <1> QED BY <1>1, <1>2, <1>3, <1>4, <1>5

\* A pop takes an item.
LEMMA PopTakesKeeps ==
  ASSUME HeldInv, NEW t \in Poppers, Wheel!PopTakes(t)
  PROVE  HeldInv'
  <1> USE PoppersAssumption, TimesAssumption
      DEF Wheel!PopTakes, Wheel!timing, Wheel!snapshot, Wheel!store, Wheel!pushes, Wheel!Now, Wheel!Unlocked,
          Wheel!NoDrain, Wheel!IdlePop, Wheel!Ids, HeldInv, HeldTypes, Entries, PopRecords
  <1>1. HeldTypes'
    <2>1. Wheel!IdlePop \in PopRecords
      OBVIOUS
    <2>2. pops' \in [Poppers -> PopRecords]
      BY <2>1, Zenon DEF HeldInv, HeldTypes, Wheel!PopTakes
    <2>3. due' \in [Items -> Nat]
      BY DEF OneEntryEach
    <2> QED BY <2>2, <2>3
  <1>2. DrainSound'
    BY <1>1 DEF DrainSound
  <1>3. OneEntryEach'
    BY <1>1 DEF OneEntryEach, DrainSound
  <1>4. Dated'
    BY <1>1 DEF Dated, Looked, DrainSound, OneEntryEach
  <1>5. Wheel!Accounted'
    BY <1>1 DEF Wheel!Accounted, OneEntryEach
  <1> QED BY <1>1, <1>2, <1>3, <1>4, <1>5

\* A wait ends without an item.
LEMMA PopEmptyKeeps ==
  ASSUME HeldInv, NEW t \in Poppers, Wheel!PopEmpty(t)
  PROVE  HeldInv'
  <1> USE PoppersAssumption, TimesAssumption
      DEF Wheel!PopEmpty, Wheel!timing, Wheel!snapshot, Wheel!store, Wheel!pushes, Wheel!Now, Wheel!Unlocked,
          Wheel!NoDrain, Wheel!IdlePop, Wheel!Ids, HeldInv, HeldTypes, Entries, PopRecords
  <1>1. HeldTypes'
    OBVIOUS
  <1>2. DrainSound'
    BY <1>1 DEF DrainSound
  <1>3. OneEntryEach'
    BY <1>1 DEF OneEntryEach, DrainSound
  <1>4. Dated'
    BY <1>1 DEF Dated, Looked, DrainSound, OneEntryEach
  <1>5. Wheel!Accounted'
    BY <1>1 DEF Wheel!Accounted, OneEntryEach
  <1> QED BY <1>1, <1>2, <1>3, <1>4, <1>5

\* Everything is cleared.
LEMMA ClearKeeps ==
  ASSUME HeldInv, Wheel!Clear
  PROVE  HeldInv'
  <1> USE PoppersAssumption, TimesAssumption
      DEF Wheel!Clear, Wheel!timing, Wheel!snapshot, Wheel!store, Wheel!pushes, Wheel!Now, Wheel!Unlocked,
          Wheel!NoDrain, Wheel!IdlePop, Wheel!Ids, HeldInv, HeldTypes, Entries, PopRecords
  <1>1. HeldTypes'
    OBVIOUS
  <1>2. DrainSound'
    BY <1>1 DEF DrainSound
  <1>3. OneEntryEach'
    BY <1>1 DEF OneEntryEach, DrainSound
  <1>4. Dated'
    BY <1>1 DEF Dated, Looked, DrainSound, OneEntryEach
  <1>5. Wheel!Accounted'
    BY <1>1 DEF Wheel!Accounted, OneEntryEach
  <1> QED BY <1>1, <1>2, <1>3, <1>4, <1>5

\* The process closes and leaves a snapshot.
LEMMA CloseKeeps ==
  ASSUME HeldInv, Wheel!Close
  PROVE  HeldInv'
  <1> USE PoppersAssumption, TimesAssumption
      DEF Wheel!Close, Wheel!Later, Wheel!timing, Wheel!snapshot, Wheel!store, Wheel!pushes, Wheel!Now, Wheel!Unlocked,
          Wheel!NoDrain, Wheel!IdlePop, Wheel!Ids, HeldInv, HeldTypes, Entries, PopRecords
  <1>1. HeldTypes'
    <2>1. saved' \subseteq [id : Items, remaining : Nat]
      <3> DEFINE rec(e) == [id |-> e.id, remaining |-> Wheel!Later(e.ready, Wheel!Now) - Wheel!Now]
      <3>1. saved' = {rec(e) : e \in held}
        OBVIOUS
      <3>2. ASSUME NEW e \in held PROVE rec(e) \in [id : Items, remaining : Nat]
        <4>1. e.id \in Items /\ e.ready \in Nat /\ Wheel!Now \in Nat
          OBVIOUS
        <4>2. Wheel!Later(e.ready, Wheel!Now) - Wheel!Now \in Nat
          BY <4>1
        <4> QED BY <4>1, <4>2
      <3> HIDE DEF rec
      <3> QED BY <3>1, <3>2
    <2>2. UNCHANGED <<clock, base, accepted, due, drain, pops>>
      BY Zenon DEF Wheel!Close, Wheel!timing, Wheel!pushes, Wheel!store
    <2>3. up' \in BOOLEAN /\ held' = {} /\ savedAt' = clock
      BY Zenon DEF Wheel!Close
    <2> HIDE DEF Wheel!Close
    <2> QED BY <2>1, <2>2, <2>3 DEF HeldInv, HeldTypes
  <1>2. DrainSound'
    BY <1>1 DEF DrainSound
  <1>3. OneEntryEach'
    BY <1>1 DEF OneEntryEach, DrainSound
  <1>4. Dated'
    BY <1>1 DEF Dated, Looked, DrainSound, OneEntryEach
  <1>5. Wheel!Accounted'
    <2>1. \A e \in held : \E s \in saved' : s.id = e.id
      <3> TAKE e \in held
      <3> WITNESS [id |-> e.id, remaining |-> Wheel!Later(e.ready, Wheel!Now) - Wheel!Now] \in saved'
      <3> QED OBVIOUS
    <2>2. saved = {} /\ UNCHANGED <<accepted, queued, gone>>
      BY DEF OneEntryEach
    <2> QED BY <2>1, <2>2 DEF Wheel!Accounted
  <1> QED BY <1>1, <1>2, <1>3, <1>4, <1>5

\* An item without a delay goes to the backend.
LEMMA PushQueuedKeeps ==
  ASSUME HeldInv, NEW i \in Items, NEW d \in Delays, Wheel!Accepts(i, d), d = 0,
         queued' = queued \union {i}, held' = held
  PROVE  HeldInv'
  <1> USE PoppersAssumption, TimesAssumption
      DEF Wheel!Accepts, Wheel!timing, Wheel!snapshot, Wheel!store, Wheel!pushes, Wheel!Now, Wheel!Unlocked,
          Wheel!NoDrain, Wheel!IdlePop, Wheel!Ids, HeldInv, HeldTypes, Entries, PopRecords
  <1>0. i \notin accepted
    BY FreshItem
  <1>1. HeldTypes'
    <2>1. clock + d \in Nat
      OBVIOUS
    <2>2. due' \in [Items -> Nat]
      BY <2>1
    <2>3. UNCHANGED <<clock, base, savedAt, up, held, saved, drain, pops>>
      OBVIOUS
    <2>4. accepted' \subseteq Items
      OBVIOUS
    <2> QED BY <2>2, <2>3, <2>4
  <1>2. DrainSound'
    BY <1>1, <1>0 DEF DrainSound
  <1>3. OneEntryEach'
    BY <1>1, <1>0 DEF OneEntryEach, DrainSound
  <1>4. Dated'
    BY <1>1, <1>0 DEF Dated, Looked, DrainSound, OneEntryEach
  <1>5. Wheel!Accounted'
    BY <1>1, <1>0 DEF Wheel!Accounted, OneEntryEach
  <1> QED BY <1>1, <1>2, <1>3, <1>4, <1>5

\* An item with a delay is held.
LEMMA PushHeldKeeps ==
  ASSUME HeldInv, NEW i \in Items, NEW d \in Delays, Wheel!Accepts(i, d), d # 0, NEW p \in Nat,
         Wheel!Unlocked, queued' = queued,
         held' = held \union {[id |-> i, ready |-> Wheel!Now + d, place |-> p]}
  PROVE  HeldInv'
  <1> USE PoppersAssumption, TimesAssumption
      DEF Wheel!Accepts, Wheel!timing, Wheel!snapshot, Wheel!store, Wheel!pushes, Wheel!Now, Wheel!Unlocked,
          Wheel!NoDrain, Wheel!IdlePop, Wheel!Ids, HeldInv, HeldTypes, Entries, PopRecords
  <1>0. i \notin accepted
    BY FreshItem
  <1>1. HeldTypes'
    <2>1. clock + d \in Nat /\ Wheel!Now + d \in Nat
      OBVIOUS
    <2>2. due' \in [Items -> Nat]
      BY <2>1
    <2>3. UNCHANGED <<clock, base, savedAt, up, saved, drain, pops>>
      OBVIOUS
    <2>4. accepted' \subseteq Items
      OBVIOUS
    <2>5. held' \subseteq Entries
      <3>1. [id |-> i, ready |-> Wheel!Now + d, place |-> p] \in Entries
        BY <2>1
      <3> QED BY <3>1
    <2> QED BY <2>2, <2>3, <2>4, <2>5
  <1>2. DrainSound'
    BY <1>1, <1>0 DEF DrainSound
  <1>3. OneEntryEach'
    BY <1>1, <1>0 DEF OneEntryEach, DrainSound
  <1>4. Dated'
    BY <1>1, <1>0 DEF Dated, Looked, DrainSound, OneEntryEach
  <1>5. Wheel!Accounted'
    <2>1. i \in Wheel!Ids(held')
      <3> DEFINE e == [id |-> i, ready |-> Wheel!Now + d, place |-> p]
      <3>1. e \in held' /\ e.id = i
        OBVIOUS
      <3> QED BY <3>1, Zenon DEF Wheel!Ids
    <2>2. Wheel!Ids(held) \subseteq Wheel!Ids(held')
      BY Zenon DEF Wheel!Ids
    <2>3. UNCHANGED <<saved, queued, gone>> /\ accepted' = accepted \union {i}
      OBVIOUS
    <2>4. Wheel!Ids(saved)' = Wheel!Ids(saved)
      BY <2>3
    <2> HIDE DEF Wheel!Ids
    <2> QED BY <2>1, <2>2, <2>3, <2>4 DEF Wheel!Accounted
  <1> QED BY <1>1, <1>2, <1>3, <1>4, <1>5


\* The time at which an entry of a snapshot is ready in a process that began at b.
ReadyAgain(s, b) ==
  (clock - b) + (Wheel!Later(s.remaining, clock - savedAt) - (clock - savedAt))

\* Another process restores the snapshot.
LEMMA ReopensKeeps ==
  ASSUME HeldInv, NEW b \in Wheel!Bases, NEW es \in SUBSET Entries, Wheel!Reopens(b, es),
         \A e \in es : \E s \in saved : e.id = s.id /\ e.ready = ReadyAgain(s, b),
         \A s \in saved : \E e \in es : e.id = s.id,
         \A e, f \in es : e.id = f.id => e = f
  PROVE  HeldInv'
  <1> USE PoppersAssumption, TimesAssumption
      DEF Wheel!Reopens, ReadyAgain, Wheel!Later, Wheel!Bases, Wheel!timing, Wheel!snapshot, Wheel!store, Wheel!pushes, Wheel!Now, Wheel!Unlocked,
          Wheel!NoDrain, Wheel!IdlePop, Wheel!Ids, HeldInv, HeldTypes, Entries, PopRecords
  <1>1. HeldTypes'
    OBVIOUS
  <1>2. DrainSound'
    BY <1>1 DEF DrainSound, OneEntryEach
  <1>3. OneEntryEach'
    BY <1>1 DEF OneEntryEach, DrainSound
  <1>4. Dated'
    BY <1>1 DEF Dated, Looked, DrainSound, OneEntryEach
  <1>5. Wheel!Accounted'
    BY <1>1 DEF Wheel!Accounted, OneEntryEach
  <1> QED BY <1>1, <1>2, <1>3, <1>4, <1>5


----------------------------------------------------------------------------
(* The delay strategy. *)

\* Its steps are those of the shared part.
LEMMA DelayShares ==
  /\ Delay!Tick => Wheel!Tick
  /\ Delay!Clear => Wheel!Clear
  /\ Delay!Close => Wheel!Close
  /\ \A i \in Items, d \in Delays : Delay!Accepts(i, d) => Wheel!Accepts(i, d)
  /\ Delay!Unlocked => Wheel!Unlocked
  <1> USE DEF Delay!timing, Delay!snapshot, Delay!store, Delay!pushes, Delay!Now, Delay!Unlocked,
      Wheel!timing, Wheel!snapshot, Wheel!store, Wheel!pushes, Wheel!Now, Wheel!Unlocked
  <1>1. Delay!Tick => Wheel!Tick
    BY Zenon DEF Delay!Tick, Wheel!Tick
  <1>2. Delay!Clear => Wheel!Clear
    BY Zenon DEF Delay!Clear, Wheel!Clear, Delay!Ids, Wheel!Ids
  <1>3. Delay!Close => Wheel!Close
    BY Zenon DEF Delay!Close, Wheel!Close, Delay!Later, Wheel!Later
  <1>4. \A i \in Items, d \in Delays : Delay!Accepts(i, d) => Wheel!Accepts(i, d)
    BY Zenon DEF Delay!Accepts, Wheel!Accepts
  <1> QED BY <1>1, <1>2, <1>3, <1>4

LEMMA DelayPopShares ==
  ASSUME NEW t \in Poppers
  PROVE  /\ Delay!PopBegin(t) => Wheel!PopBegin(t)
         /\ \A c : Delay!DrainBegin(t, c) => Wheel!DrainBegin(t, c)
         /\ \A e : Delay!DrainMoves(t, e) => Wheel!DrainMoves(t, e)
         /\ \A e : Delay!DrainFails(t, e) => Wheel!DrainFails(t, e)
         /\ Delay!DrainEnds(t) => Wheel!DrainEnds(t)
         /\ \A r \in SUBSET Nat : Delay!PopWaits(t, r) => Wheel!PopWaits(t, r)
         /\ Delay!PopTakes(t) => Wheel!PopTakes(t)
         /\ Delay!PopEmpty(t) => Wheel!PopEmpty(t)
  <1> USE DEF Delay!timing, Delay!snapshot, Delay!store, Delay!pushes, Delay!Now, Delay!Unlocked,
      Wheel!timing, Wheel!snapshot, Wheel!store, Wheel!pushes, Wheel!Now, Wheel!Unlocked,
      Delay!NoDrain, Wheel!NoDrain, Delay!IdlePop, Wheel!IdlePop
  <1>1. Delay!PopBegin(t) => Wheel!PopBegin(t)
    BY Zenon DEF Delay!PopBegin, Wheel!PopBegin
  <1>2. \A c : Delay!DrainBegin(t, c) => Wheel!DrainBegin(t, c)
    BY Zenon DEF Delay!DrainBegin, Wheel!DrainBegin
  <1>3. \A e : Delay!DrainMoves(t, e) => Wheel!DrainMoves(t, e)
    BY Zenon DEF Delay!DrainMoves, Wheel!DrainMoves
  <1>4. \A e : Delay!DrainFails(t, e) => Wheel!DrainFails(t, e)
    BY Zenon DEF Delay!DrainFails, Wheel!DrainFails
  <1>5. Delay!DrainEnds(t) => Wheel!DrainEnds(t)
    BY Zenon DEF Delay!DrainEnds, Wheel!DrainEnds
  <1>6. \A r \in SUBSET Nat : Delay!PopWaits(t, r) => Wheel!PopWaits(t, r)
    <2> SUFFICES ASSUME NEW r \in SUBSET Nat, Delay!PopWaits(t, r) PROVE Wheel!PopWaits(t, r)
      OBVIOUS
    <2>1. Delay!Min(r) = Wheel!Min(r)
      BY Zenon DEF Delay!Min, Wheel!Min
    <2> QED BY <2>1, Zenon DEF Delay!PopWaits, Wheel!PopWaits, Delay!Later, Wheel!Later,
               Delay!Earlier, Wheel!Earlier
  <1>7. Delay!PopTakes(t) => Wheel!PopTakes(t)
    BY Zenon DEF Delay!PopTakes, Wheel!PopTakes
  <1>8. Delay!PopEmpty(t) => Wheel!PopEmpty(t)
    BY Zenon DEF Delay!PopEmpty, Wheel!PopEmpty
  <1> QED BY <1>1, <1>2, <1>3, <1>4, <1>5, <1>6, <1>7, <1>8

\* What a restore of the delay strategy puts into memory.
LEMMA DelayRestored ==
  ASSUME HeldInv, NEW b \in Wheel!Bases
  PROVE  LET es == Delay!Restored(clock - b) IN
           /\ es \in SUBSET Entries
           /\ \A e \in es : \E s \in saved : e.id = s.id /\ e.ready = ReadyAgain(s, b)
           /\ \A s \in saved : \E e \in es : e.id = s.id
           /\ \A e, f \in es : e.id = f.id => e = f
  <1> DEFINE es == Delay!Restored(clock - b)
             entry(s) == [id |-> s.id, place |-> 0, ready |-> ReadyAgain(s, b)]
  <1>1. es = {entry(s) : s \in saved}
    BY Zenon DEF Delay!Restored, ReadyAgain, Delay!Later, Wheel!Later
  <1>2. ASSUME NEW s \in saved PROVE ReadyAgain(s, b) \in Nat /\ s.id \in Items
    BY DEF ReadyAgain, Wheel!Later, Wheel!Bases, HeldInv, HeldTypes
  <1>3. ASSUME NEW s \in saved PROVE entry(s) \in Entries
    BY <1>2 DEF Entries
  <1>4. \A s \in saved : entry(s).id = s.id /\ entry(s).ready = ReadyAgain(s, b)
    OBVIOUS
  <1>5. \A s, r \in saved : s.id = r.id => s = r
    BY DEF HeldInv, OneEntryEach
  <1> HIDE DEF entry, es
  <1>6. es \in SUBSET Entries
    BY <1>1, <1>3
  <1>7. \A e \in es : \E s \in saved : e.id = s.id /\ e.ready = ReadyAgain(s, b)
    BY <1>1, <1>4
  <1>8. \A s \in saved : \E e \in es : e.id = s.id
    BY <1>1, <1>4
  <1>9. \A e, f \in es : e.id = f.id => e = f
    BY <1>1, <1>4, <1>5
  <1> QED BY <1>6, <1>7, <1>8, <1>9 DEF es

\* The same of the bases of the two modules.
LEMMA SameBases == Delay!Bases = Wheel!Bases
  BY DEF Delay!Bases, Wheel!Bases

\* A step of the delay strategy keeps what is common and the scope of a drain.
LEMMA DelayStep == DelayInv /\ [Delay!Next]_(Delay!vars) => DelayInv'
  <1> SUFFICES ASSUME DelayInv, [Delay!Next]_(Delay!vars) PROVE DelayInv'
    OBVIOUS
  <1>0. HeldInv /\ DelayScope
    BY DEF DelayInv
  <1>1. CASE Delay!Tick
    <2>1. Wheel!Tick
      BY <1>1, DelayShares
    <2> QED BY <1>0, <2>1, TickKeeps DEF DelayInv, DelayScope, Wheel!Tick
  <1>2. CASE Delay!Clear
    <2>1. Wheel!Clear
      BY <1>2, DelayShares
    <2> QED BY <1>0, <2>1, ClearKeeps DEF DelayInv, DelayScope, Wheel!Clear
  <1>3. CASE Delay!Close
    <2>1. Wheel!Close
      BY <1>3, DelayShares
    <2> QED BY <1>0, <2>1, CloseKeeps DEF DelayInv, DelayScope, Wheel!Close
  <1>4. ASSUME NEW b \in Delay!Bases, Delay!Reopens(b, Delay!Restored(clock - b)) PROVE DelayInv'
    <2>1. b \in Wheel!Bases /\ Wheel!Reopens(b, Delay!Restored(clock - b))
      BY <1>4, SameBases, Zenon DEF Delay!Reopens, Wheel!Reopens, Delay!store, Wheel!store,
         Delay!pushes, Wheel!pushes
    <2>2. HeldInv'
      BY <1>0, <2>1, DelayRestored, ReopensKeeps
    <2>3. drain' = drain /\ drain.by = NoThread
      BY <1>0, <2>1 DEF Wheel!Reopens, HeldInv, OneEntryEach
    <2> QED BY <2>2, <2>3 DEF DelayInv, DelayScope
  <1>5. ASSUME NEW i \in Items, NEW d \in Delays, Delay!Push(i, d) PROVE DelayInv'
    <2>1. Wheel!Accepts(i, d) /\ Wheel!Unlocked
      BY <1>5, DelayShares DEF Delay!Push
    <2>2. CASE d = 0
      <3>1. queued' = queued \union {i} /\ held' = held
        BY <1>5, <2>2, Zenon DEF Delay!Push
      <3> QED BY <1>0, <2>1, <2>2, <3>1, PushQueuedKeeps DEF DelayInv, DelayScope, Wheel!Accepts, Wheel!Unlocked
    <2>3. CASE d # 0
      <3>1. queued' = queued /\ held' = held \union {[id |-> i, ready |-> Wheel!Now + d, place |-> 0]}
        BY <1>5, <2>3, Zenon DEF Delay!Push, Delay!Now, Wheel!Now
      <3>2. HeldInv'
        BY <1>0, <2>1, <2>3, <3>1, PushHeldKeeps
      <3> QED BY <2>1, <3>2 DEF DelayInv, DelayScope, Wheel!Accepts, Wheel!Unlocked
    <2> QED BY <2>2, <2>3
  <1>6. ASSUME NEW t \in Poppers, Delay!PopBegin(t) PROVE DelayInv'
    <2>1. Wheel!PopBegin(t)
      BY <1>6, DelayPopShares
    <2> QED BY <1>0, <2>1, PopBeginKeeps DEF DelayInv, DelayScope, Wheel!PopBegin
  <1>7. ASSUME NEW t \in Poppers, Delay!DrainBegin(t, Delay!Due) PROVE DelayInv'
    <2>1. Wheel!DrainBegin(t, Delay!Due)
      BY <1>7, DelayPopShares
    <2>2. Delay!Due = {e \in held : e.ready <= Wheel!Now}
      BY Zenon DEF Delay!Due, Delay!Now, Wheel!Now
    <2>3. HeldInv'
      BY <1>0, <2>1, <2>2, DrainBeginKeeps
    <2>4. held' = held /\ drain' = [by |-> t, now |-> Wheel!Now, todo |-> Delay!Due]
      BY <2>1, Zenon DEF Wheel!DrainBegin
    <2>5. \A e \in held : e \in Delay!Due \/ Wheel!Now < e.ready
      BY <1>0, <2>2 DEF HeldInv, HeldTypes, Entries, Wheel!Now
    <2> QED BY <2>3, <2>4, <2>5 DEF DelayInv, DelayScope
  <1>8. ASSUME NEW t \in Poppers, Delay!DrainEnds(t) PROVE DelayInv'
    <2>1. Wheel!DrainEnds(t)
      BY <1>8, DelayPopShares
    <2> QED BY <1>0, <2>1, DrainEndsKeeps DEF DelayInv, DelayScope, Wheel!DrainEnds, Wheel!NoDrain
  <1>9. ASSUME NEW t \in Poppers, Delay!PopWaits(t, Delay!NextReady) PROVE DelayInv'
    <2>1. Delay!NextReady \in SUBSET Nat
      BY <1>0 DEF Delay!NextReady, HeldInv, HeldTypes, Entries
    <2>2. Wheel!PopWaits(t, Delay!NextReady)
      BY <1>9, <2>1, DelayPopShares
    <2>3. UNCHANGED <<held, drain>>
      BY <2>2, Zenon DEF Wheel!PopWaits
    <2> QED BY <1>0, <2>1, <2>2, <2>3, PopWaitsKeeps DEF DelayInv, DelayScope
  <1>10. ASSUME NEW t \in Poppers, Delay!PopTakes(t) PROVE DelayInv'
    <2>1. Wheel!PopTakes(t)
      BY <1>10, DelayPopShares
    <2> QED BY <1>0, <2>1, PopTakesKeeps DEF DelayInv, DelayScope, Wheel!PopTakes
  <1>11. ASSUME NEW t \in Poppers, Delay!PopEmpty(t) PROVE DelayInv'
    <2>1. Wheel!PopEmpty(t)
      BY <1>11, DelayPopShares
    <2>2. UNCHANGED <<held, drain>>
      BY <2>1, Zenon DEF Wheel!PopEmpty
    <2> QED BY <1>0, <2>1, <2>2, PopEmptyKeeps DEF DelayInv, DelayScope
  <1>12. ASSUME NEW t \in Poppers, NEW e \in drain.todo, Delay!DrainMoves(t, e) PROVE DelayInv'
    <2>1. Wheel!DrainMoves(t, e)
      BY <1>12, DelayPopShares
    <2>2. HeldInv'
      BY <1>0, <2>1, DrainMovesKeeps
    <2>3. /\ held' = held \ {e} /\ drain.by = t
          /\ drain' = [by |-> t, now |-> drain.now, todo |-> drain.todo \ {e}]
      BY <1>0, <2>1 DEF Wheel!DrainMoves, HeldInv, HeldTypes
    <2> QED BY <1>0, <2>2, <2>3, PoppersAssumption DEF DelayInv, DelayScope
  <1>13. ASSUME NEW t \in Poppers, NEW e \in drain.todo, Delay!DrainFails(t, e) PROVE DelayInv'
    <2>1. Wheel!DrainFails(t, e)
      BY <1>13, DelayPopShares
    <2> QED BY <1>0, <2>1, DrainFailsKeeps DEF DelayInv, DelayScope, Wheel!DrainFails, Wheel!NoDrain
  <1>14. CASE UNCHANGED Delay!vars
    <2>1. UNCHANGED <<clock, base, up, held, queued, drain, pops, saved, savedAt, accepted, due, gone>>
      BY <1>14 DEF Delay!vars, Delay!timing, Delay!snapshot, Delay!store, Delay!pushes
    <2> QED BY <1>0, <2>1 DEF DelayInv, HeldInv, HeldTypes, DrainSound, OneEntryEach, Dated, Looked,
            Wheel!Accounted, DelayScope, Wheel!Now, Wheel!Ids
  <1>15. CASE Delay!Next
    BY <1>1, <1>2, <1>3, <1>4, <1>5, <1>6, <1>7, <1>8, <1>9, <1>10, <1>11, <1>12, <1>13, <1>15, Zenon
    DEF Delay!Next
  <1> QED BY <1>14, <1>15

----------------------------------------------------------------------------
(* The time wheel. *)

\* What a restore of the time wheel puts into memory.
LEMMA WheelRestored ==
  ASSUME HeldInv, NEW b \in Wheel!Bases
  PROVE  LET es == Wheel!Restored(clock - b) IN
           /\ es \in SUBSET Entries
           /\ \A e \in es : \E s \in saved : e.id = s.id /\ e.ready = ReadyAgain(s, b)
           /\ \A s \in saved : \E e \in es : e.id = s.id
           /\ \A e, f \in es : e.id = f.id => e = f
           /\ \A e \in es : \/ e.place = Wheel!Overflow
                            \/ e.place = Wheel!SlotAt(e.ready) /\ clock - b < e.ready
  <1> DEFINE es == Wheel!Restored(clock - b)
             slot(s) == IF ReadyAgain(s, b) > clock - b /\ ReadyAgain(s, b) - (clock - b) <= Wheel!WheelDuration
                         THEN Wheel!SlotAt(ReadyAgain(s, b)) ELSE Wheel!Overflow
             entry(s) == [id |-> s.id, ready |-> ReadyAgain(s, b), place |-> slot(s)]
  <1>1. es = {entry(s) : s \in saved}
    BY Zenon DEF Wheel!Restored, ReadyAgain
  <1>2. ASSUME NEW s \in saved PROVE ReadyAgain(s, b) \in Nat /\ s.id \in Items
    BY DEF ReadyAgain, Wheel!Later, Wheel!Bases, HeldInv, HeldTypes
  <1>3. ASSUME NEW s \in saved
        PROVE /\ slot(s) \in Nat
              /\ \/ slot(s) = Wheel!Overflow
                 \/ slot(s) = Wheel!SlotAt(ReadyAgain(s, b)) /\ ReadyAgain(s, b) > clock - b
    <2>1. Wheel!SlotAt(ReadyAgain(s, b)) \in Nat /\ Wheel!Overflow \in Nat
      BY <1>2, SlotRange, WheelAssumption DEF Wheel!Overflow
    <2> QED BY <2>1, Zenon
  <1> HIDE DEF slot
  <1>4. ASSUME NEW s \in saved PROVE entry(s) \in Entries
    BY <1>2, <1>3 DEF Entries
  <1>5. \A s \in saved : entry(s).id = s.id /\ entry(s).ready = ReadyAgain(s, b) /\ entry(s).place = slot(s)
    OBVIOUS
  <1>6. \A s, r \in saved : s.id = r.id => s = r
    BY DEF HeldInv, OneEntryEach
  <1> HIDE DEF entry, es
  <1>7. es \in SUBSET Entries
    BY <1>1, <1>4
  <1>8. \A e \in es : \E s \in saved : e.id = s.id /\ e.ready = ReadyAgain(s, b)
    BY <1>1, <1>5
  <1>9. \A s \in saved : \E e \in es : e.id = s.id
    BY <1>1, <1>5
  <1>10. \A e, f \in es : e.id = f.id => e = f
    BY <1>1, <1>5, <1>6
  <1>11. \A e \in es : \/ e.place = Wheel!Overflow
                       \/ e.place = Wheel!SlotAt(e.ready) /\ clock - b < e.ready
    <2> TAKE e \in es
    <2>1. PICK s \in saved : e = entry(s)
      BY <1>1
    <2>2. e.ready = ReadyAgain(s, b) /\ e.place = slot(s)
      BY <1>5, <2>1
    <2>3. ReadyAgain(s, b) \in Nat /\ clock - b \in Nat
      BY <1>2 DEF HeldInv, HeldTypes, Wheel!Bases
    <2>4. ReadyAgain(s, b) > clock - b => clock - b < ReadyAgain(s, b)
      BY <2>3
    <2> QED BY <1>3, <2>2, <2>4
  <1> QED BY <1>7, <1>8, <1>9, <1>10, <1>11 DEF es

\* The minimum that a slot caches.
LEMMA SlotMinIs ==
  ASSUME NEW es \in SUBSET Entries, NEW s
  PROVE  /\ Wheel!SlotMinOf(es, s) \in Nat \union {Never}
         /\ \A e \in es : e.place = s =>
              Wheel!SlotMinOf(es, s) # Never /\ Wheel!SlotMinOf(es, s) <= e.ready
  <1> DEFINE readies == {e.ready : e \in {x \in es : x.place = s}}
  <1>1. readies \in SUBSET Nat
    BY DEF Entries
  <1>2. Wheel!SlotMinOf(es, s) = IF readies = {} THEN Never ELSE Wheel!Min(readies)
    BY Zenon DEF Wheel!SlotMinOf
  <1>3. \A e \in es : e.place = s => e.ready \in readies
    OBVIOUS
  <1> HIDE DEF readies
  <1>4. CASE readies = {}
    BY <1>2, <1>3, <1>4
  <1>5. CASE readies # {}
    <2>1. Wheel!Min(readies) \in Nat /\ \A y \in readies : Wheel!Min(readies) <= y
      BY <1>1, <1>5, Smallest
    <2>2. Wheel!SlotMinOf(es, s) = Wheel!Min(readies)
      BY <1>2, <1>5
    <2> QED BY <1>3, <2>1, <2>2, WheelAssumption
  <1> QED BY <1>4, <1>5

\* What is known of the times and the ticks in a state.
LEMMA WheelNumbers ==
  ASSUME HeldInv, OnWheel
  PROVE  /\ Wheel!Now \in Nat /\ drain.now \in Nat /\ lastTick \in Nat
         /\ Wheel!TickAt(Wheel!Now) \in Nat /\ Wheel!TickAt(drain.now) \in Nat
         /\ \A e \in held : e.ready \in Nat /\ e.place \in Nat /\ Wheel!TickAfter(e.ready) \in Nat
  <1>1. Wheel!Now \in Nat /\ drain.now \in Nat /\ lastTick \in Nat
    BY DEF HeldInv, HeldTypes, Wheel!Now, OnWheel
  <1>2. \A e \in held : e.ready \in Nat /\ e.place \in Nat
    BY DEF HeldInv, HeldTypes, Entries
  <1> QED BY <1>1, <1>2, TickBounds

\* A step that leaves the entries, the drain, the clock and the wheel alone.
LEMMA WheelQuiet ==
  ASSUME WheelInv, HeldInv', UNCHANGED <<held, drain, clock, base, lastTick, slotMin>>,
         \A e \in held : e.id \notin queued => e.id \notin queued' /\ due'[e.id] = due[e.id]
  PROVE  WheelInv'
  <1>1. OnWheel'
    BY DEF WheelInv, OnWheel, Wheel!Now
  <1>2. SlotMins' /\ WheelScope'
    BY DEF WheelInv, SlotMins, WheelScope, Found, ScanUpTo
  <1>3. FoundAgain'
    BY DEF WheelInv, FoundAgain, Found, ScanUpTo, Looked, Wheel!Now
  <1> QED BY <1>1, <1>2, <1>3 DEF WheelInv

\* An entry that was found is found later on too.
LEMMA FoundLater ==
  ASSUME HeldInv, OnWheel, NEW a \in Nat, NEW b \in Nat, a <= b, NEW e \in held, Found(e, a)
  PROVE  Found(e, b)
  <1>1. e.ready \in Nat /\ lastTick \in Nat
    BY WheelNumbers
  <1> QED BY <1>1, ScanGrows DEF Found

LEMMA WheelTick ==
  ASSUME WheelInv, Wheel!Tick, UNCHANGED Wheel!wheel
  PROVE  WheelInv'
  <1>1. HeldInv'
    BY TickKeeps DEF WheelInv
  <1>2. /\ UNCHANGED <<held, drain, lastTick, slotMin>>
        /\ Wheel!Now' = Wheel!Now + 1
    BY DEF Wheel!Tick, Wheel!wheel, Wheel!Now, WheelInv, HeldInv, HeldTypes
  <1>3. /\ Wheel!Now \in Nat /\ lastTick \in Nat /\ Wheel!TickAt(Wheel!Now) \in Nat
    BY WheelNumbers DEF WheelInv
  <1>4. Wheel!TickAt(Wheel!Now) <= Wheel!TickAt(Wheel!Now + 1) /\ Wheel!TickAt(Wheel!Now + 1) \in Nat
    BY <1>3, TickOrder, TickBounds
  <1>5. Wheel!TickAt(Wheel!Now)' = Wheel!TickAt(Wheel!Now + 1)
    BY <1>2 DEF Wheel!TickAt
  <1>6. lastTick' <= Wheel!TickAt(Wheel!Now)'
    BY <1>2, <1>3, <1>4, <1>5 DEF WheelInv, OnWheel
  <1>7. OnWheel'
    BY <1>2, <1>6 DEF WheelInv, OnWheel
  <1>8. SlotMins' /\ WheelScope'
    BY <1>2 DEF WheelInv, SlotMins, WheelScope, Found, ScanUpTo
  <1>9. FoundAgain'
    <2>1. Looked \in Nat /\ Looked' \in Nat /\ Looked <= Looked'
      BY <1>2, <1>3, WheelNumbers DEF WheelInv, Looked
    <2>2. \A e \in held : Found(e, Looked) => Found(e, Looked')
      BY <2>1, FoundLater DEF WheelInv
    <2>3. \A e \in held : Found(e, Looked)' <=> Found(e, Looked')
      BY <1>2 DEF Found, ScanUpTo
    <2>4. UNCHANGED <<due, base, queued>>
      BY DEF Wheel!Tick, Wheel!store, Wheel!pushes
    <2> QED BY <1>2, <2>2, <2>3, <2>4 DEF WheelInv, FoundAgain
  <1> QED BY <1>1, <1>7, <1>8, <1>9 DEF WheelInv

\* A drain begins with what it finds.
LEMMA WheelDrains ==
  ASSUME WheelInv, NEW t \in Poppers, Wheel!Drains(t)
  PROVE  WheelInv'
  <1>1. Wheel!DrainBegin(t, Wheel!Candidates) /\ UNCHANGED <<lastTick, slotMin>>
    BY DEF Wheel!Drains, Wheel!wheel
  <1>2. HeldInv'
    <2>1. Wheel!Candidates \in SUBSET {e \in held : e.ready <= Wheel!Now}
      BY DEF Wheel!Candidates
    <2> QED BY <1>1, <2>1, DrainBeginKeeps DEF WheelInv
  <1>3. /\ UNCHANGED <<held, clock, base, due, queued>> /\ drain.by = NoThread
        /\ drain' = [by |-> t, now |-> Wheel!Now, todo |-> Wheel!Candidates]
    BY <1>1, Zenon DEF Wheel!DrainBegin, Wheel!timing, Wheel!store, Wheel!pushes, Wheel!Unlocked
  <1>4. OnWheel'
    BY <1>1, <1>3 DEF WheelInv, OnWheel, Wheel!Now
  <1>5. SlotMins'
    BY <1>1, <1>3 DEF WheelInv, SlotMins
  <1>6. WheelScope'
    <2>1. Wheel!Candidates = {e \in held : Found(e, Wheel!Now)}
      BY Zenon DEF Wheel!Candidates, Wheel!SlotsToScan, Found, ScanUpTo
    <2>2. \A e \in held : Found(e, Wheel!Now) <=> Found(e, drain.now)'
      BY <1>1, <1>3 DEF Found, ScanUpTo
    <2> QED BY <1>3, <2>1, <2>2 DEF WheelScope
  <1>7. FoundAgain'
    <2>1. Looked = Wheel!Now /\ Looked' = Wheel!Now
      BY <1>3, PoppersAssumption DEF Looked
    <2>2. \A e \in held : Found(e, Looked)' <=> Found(e, Looked)
      BY <1>1, <1>3, <2>1 DEF Found, ScanUpTo
    <2> QED BY <1>3, <2>2 DEF WheelInv, FoundAgain
  <1> QED BY <1>2, <1>4, <1>5, <1>6, <1>7 DEF WheelInv

\* An entry moves, and its slot gets a new minimum.
LEMMA WheelMoves ==
  ASSUME WheelInv, NEW t \in Poppers, NEW e \in drain.todo, Wheel!Moves(t, e)
  PROVE  WheelInv'
  <1>1. HeldInv'
    BY DrainMovesKeeps DEF WheelInv, Wheel!Moves
  <1>2. /\ held' = held \ {e} /\ drain.by = t /\ UNCHANGED <<clock, base, lastTick, due>>
        /\ queued' = queued \union {e.id}
        /\ drain' = [by |-> t, now |-> drain.now, todo |-> drain.todo \ {e}]
    BY DEF Wheel!DrainMoves, Wheel!Moves, Wheel!timing, Wheel!pushes, WheelInv, HeldInv, HeldTypes
  <1>3. OnWheel'
    BY <1>2, PoppersAssumption DEF WheelInv, OnWheel, Wheel!Now
  <1>4. WheelScope' /\ FoundAgain'
    <2>1. drain.by # NoThread /\ drain.todo = {f \in held : Found(f, drain.now)} /\ Looked = drain.now
          /\ Looked' = drain.now /\ drain'.now = drain.now
      BY <1>2, PoppersAssumption DEF WheelInv, WheelScope, Looked
    <2>2. \A f \in held : /\ Found(f, drain.now)' <=> Found(f, drain.now)
                          /\ Found(f, Looked)' <=> Found(f, Looked)
      BY <1>2, <2>1 DEF Found, ScanUpTo
    <2>3. WheelScope'
      BY <1>2, <2>1, <2>2 DEF WheelScope
    <2>4. e \in held /\ \A f \in held : f.id = e.id => f = e
      BY DEF WheelInv, HeldInv, DrainSound, OneEntryEach
    <2> QED BY <1>2, <2>2, <2>3, <2>4 DEF WheelInv, FoundAgain
  <1>5. SlotMins'
    <2>1. CASE e.place = Wheel!Overflow
      <3>1. slotMin' = slotMin
        BY <2>1, Zenon DEF Wheel!Moves
      <3> QED BY <1>2, <3>1 DEF WheelInv, SlotMins
    <2>2. CASE e.place # Wheel!Overflow
      <3>1. slotMin' = [slotMin EXCEPT ![e.place] = Wheel!SlotMinOf(held', e.place)]
        BY <2>2, Zenon DEF Wheel!Moves
      <3>2. held' \in SUBSET Entries
        BY <1>1 DEF HeldInv, HeldTypes
      <3>3. /\ Wheel!SlotMinOf(held', e.place) \in Nat \union {Never}
            /\ \A f \in held' : f.place = e.place =>
                 Wheel!SlotMinOf(held', e.place) # Never /\ Wheel!SlotMinOf(held', e.place) <= f.ready
        BY <3>2, SlotMinIs
      <3>4. slotMin \in [Wheel!Slots -> Nat \union {Never}]
        BY DEF WheelInv, SlotMins
      <3>5. \A f \in held : f.place # Wheel!Overflow => f.place \in Wheel!Slots
        BY SlotRange, WheelNumbers DEF WheelInv, OnWheel
      <3>6. e \in held
        BY DEF WheelInv, HeldInv, DrainSound
      <3> DEFINE m == Wheel!SlotMinOf(held', e.place)
      <3>7. m \in Nat \union {Never} /\ slotMin' = [slotMin EXCEPT ![e.place] = m]
        BY <3>1, <3>3
      <3>8. \A f \in held' : f.place = e.place => m # Never /\ m <= f.ready
        BY <3>3
      <3> HIDE DEF m
      <3>9. slotMin' \in [Wheel!Slots -> Nat \union {Never}]
        BY <3>4, <3>7, Zenon
      <3>10. ASSUME NEW f \in held', f.place # Wheel!Overflow
             PROVE  slotMin'[f.place] # Never /\ slotMin'[f.place] <= f.ready
        <4>1. f \in held /\ f.place \in Wheel!Slots
          BY <1>2, <3>5, <3>10
        <4>2. CASE f.place = e.place
          BY <3>4, <3>7, <3>8, <4>1, <4>2
        <4>3. CASE f.place # e.place
          <5>1. slotMin'[f.place] = slotMin[f.place]
            BY <3>4, <3>7, <4>1, <4>3
          <5> QED BY <4>1, <5>1, <3>10 DEF WheelInv, SlotMins
        <4> QED BY <4>2, <4>3
      <3> QED BY <3>9, <3>10 DEF SlotMins, Wheel!Slots, Wheel!Overflow
    <2> QED BY <2>1, <2>2
  <1> QED BY <1>1, <1>3, <1>4, <1>5 DEF WheelInv

\* A drain fails: what it found and did not move is found again.
LEMMA WheelFails ==
  ASSUME WheelInv, NEW t \in Poppers, NEW e \in drain.todo, Wheel!DrainFails(t, e), UNCHANGED Wheel!wheel
  PROVE  WheelInv'
  <1>1. HeldInv'
    BY DrainFailsKeeps DEF WheelInv
  <1>2. /\ drain'.by = NoThread /\ UNCHANGED <<held, clock, base, lastTick, slotMin, due>>
        /\ drain.by = t /\ queued' \in {queued, queued \union {e.id}}
    BY Zenon DEF Wheel!DrainFails, Wheel!NoDrain, Wheel!timing, Wheel!wheel, Wheel!pushes
  <1>3. OnWheel' /\ SlotMins' /\ WheelScope'
    BY <1>2 DEF WheelInv, OnWheel, SlotMins, WheelScope, Wheel!Now
  <1>4. FoundAgain'
    <2>1. Looked = drain.now /\ Looked' = Wheel!Now
      BY <1>2, PoppersAssumption DEF Looked, Wheel!Now
    <2>2. drain.now \in Nat /\ Wheel!Now \in Nat /\ drain.now <= Wheel!Now
      BY <1>2, PoppersAssumption, WheelNumbers DEF WheelInv, HeldInv, DrainSound
    <2>3. \A f \in held : Found(f, drain.now) => Found(f, Wheel!Now)
      BY <2>2, FoundLater DEF WheelInv
    <2>4. \A f \in held : Found(f, Looked)' <=> Found(f, Wheel!Now)
      BY <1>2, <2>1 DEF Found, ScanUpTo
    <2>5. e \in held /\ Found(e, drain.now)
      BY <1>2, PoppersAssumption DEF WheelInv, WheelScope
    <2>6. \A f \in held : f.id = e.id => f = e
      BY <2>5 DEF WheelInv, HeldInv, OneEntryEach
    <2>7. \A f \in held : f.id # e.id => (f.id \in queued' <=> f.id \in queued)
      BY <1>2
    <2>8. ASSUME NEW f \in held
          PROVE  \/ f.place = Wheel!Overflow \/ Found(f, Looked)'
                 \/ due'[f.id] = f.ready + base' /\ f.id \notin queued'
      <3>1. CASE f.id = e.id
        BY <2>3, <2>4, <2>5, <2>6, <3>1
      <3>2. CASE f.id # e.id
        BY <1>2, <2>1, <2>3, <2>4, <2>7, <3>2 DEF WheelInv, FoundAgain
      <3> QED BY <3>1, <3>2
    <2> QED BY <1>2, <2>8 DEF FoundAgain
  <1> QED BY <1>1, <1>3, <1>4 DEF WheelInv

\* What a drain has not found has a tick that is not over.
LEMMA TickNotOver ==
  ASSUME WheelInv, NEW time \in Nat, NEW e \in held, e.place # Wheel!Overflow, ~Found(e, time)
  PROVE  Wheel!TickAt(time) < Wheel!TickAfter(e.ready)
  <1>1. /\ lastTick \in Nat /\ e.ready \in Nat /\ Wheel!TickAt(time) \in Nat
        /\ Wheel!TickAfter(e.ready) \in Nat
    BY WheelNumbers, TickBounds DEF WheelInv
  <1>2. CASE time < e.ready
    BY <1>1, <1>2, TickOrder
  <1>3. CASE ~(time < e.ready)
    <2>1. e.place = Wheel!SlotAt(e.ready) /\ lastTick < Wheel!TickAfter(e.ready)
      BY DEF WheelInv, OnWheel
    <2>2. e.place \notin ScanUpTo(time)
      BY <1>1, <1>3 DEF Found
    <2> QED BY <1>1, <2>1, <2>2, SlotScanned
  <1> QED BY <1>2, <1>3

\* A drain is complete: the ticks up to its time are passed, and the entries
\* that are left have later ones.
LEMMA WheelEnds ==
  ASSUME WheelInv, NEW t \in Poppers, Wheel!Ends(t)
  PROVE  WheelInv'
  <1>1. HeldInv'
    BY DrainEndsKeeps DEF WheelInv, Wheel!Ends
  <1>2. /\ drain'.by = NoThread /\ UNCHANGED <<held, clock, base, slotMin, due, queued>>
        /\ lastTick' = Wheel!TickAt(drain.now) /\ drain.todo = {} /\ drain.by = t
    BY Zenon DEF Wheel!DrainEnds, Wheel!Ends, Wheel!NoDrain, Wheel!timing, Wheel!store, Wheel!pushes
  <1>3. /\ Wheel!Now \in Nat /\ drain.now \in Nat
        /\ Wheel!TickAt(Wheel!Now) \in Nat /\ Wheel!TickAt(drain.now) \in Nat
    BY WheelNumbers DEF WheelInv
  <1>4. drain.now <= Wheel!Now
    BY <1>2, PoppersAssumption DEF WheelInv, HeldInv, DrainSound
  <1>5. Wheel!TickAt(drain.now) <= Wheel!TickAt(Wheel!Now)
    BY <1>3, <1>4, TickOrder
  <1>6. \A e \in held : ~Found(e, drain.now)
    BY <1>2, PoppersAssumption DEF WheelInv, WheelScope
  <1>7. OnWheel'
    <2>1. \A e \in held : e.place # Wheel!Overflow => Wheel!TickAt(drain.now) < Wheel!TickAfter(e.ready)
      BY <1>3, <1>6, TickNotOver
    <2> QED BY <1>2, <1>3, <1>5, <2>1 DEF WheelInv, OnWheel, Wheel!Now
  <1>8. FoundAgain'
    <2>1. Looked = drain.now
      BY <1>2, PoppersAssumption DEF Looked
    <2> QED BY <1>2, <1>6, <2>1 DEF WheelInv, FoundAgain
  <1> QED BY <1>1, <1>2, <1>7, <1>8 DEF WheelInv, SlotMins, WheelScope

\* A new entry: its tick is not over, and its slot's minimum follows.
LEMMA WheelPush ==
  ASSUME WheelInv, NEW i \in Items, NEW d \in Delays, Wheel!Push(i, d)
  PROVE  WheelInv'
  <1> DEFINE release == Wheel!Now + d
  <1>0. Wheel!Accepts(i, d) /\ lastTick' = lastTick
    BY DEF Wheel!Push
  <1>1. UNCHANGED <<clock, base, drain>>
    BY <1>0 DEF Wheel!Accepts, Wheel!timing
  <1>5. /\ \A e \in held : e.id # i /\ e.id \in Items /\ due'[e.id] = due[e.id]
        /\ i \notin queued /\ due'[i] = clock + d
    <2>1. i \notin accepted /\ due' = [due EXCEPT ![i] = clock + d] /\ due \in [Items -> Nat]
      BY <1>0, FreshItem DEF WheelInv, HeldInv, HeldTypes, Wheel!Accepts
    <2>2. \A e \in held : e.id \in accepted /\ e.id \in Items
      BY DEF WheelInv, HeldInv, OneEntryEach, HeldTypes
    <2> QED BY <2>1, <2>2 DEF WheelInv, HeldInv, OneEntryEach
  <1>6. ASSUME drain.by = NoThread, UNCHANGED queued,
               NEW e, held' = held \union {e}, e.place = Wheel!Overflow \/ due'[i] = e.ready + base,
               e.id = i
        PROVE  FoundAgain'
    <2>1. \A f \in held : Found(f, Looked)' <=> Found(f, Looked)
      BY <1>0, <1>1, <1>6 DEF Found, ScanUpTo, Looked, Wheel!Now
    <2>2. \A f \in held : \/ f.place = Wheel!Overflow \/ Found(f, Looked)'
                          \/ due'[f.id] = f.ready + base' /\ f.id \notin queued'
      BY <1>1, <1>5, <1>6, <2>1 DEF WheelInv, FoundAgain
    <2>3. e.place = Wheel!Overflow \/ (due'[e.id] = e.ready + base' /\ e.id \notin queued')
      BY <1>1, <1>5, <1>6
    <2> QED BY <1>6, <2>2, <2>3 DEF FoundAgain
  <1>2. CASE d = 0 /\ queued' = queued \union {i} /\ UNCHANGED <<held, slotMin>>
    <2>1. HeldInv'
      BY <1>0, <1>2, PushQueuedKeeps DEF WheelInv
    <2>2. \A e \in held : e.id \notin queued => e.id \notin queued' /\ due'[e.id] = due[e.id]
      BY <1>0, <1>2, <1>5
    <2> QED BY <1>0, <1>1, <1>2, <2>1, <2>2, WheelQuiet
  <1>3. CASE /\ 0 < d /\ d <= Wheel!WheelDuration /\ Wheel!Unlocked
             /\ Wheel!AppendWheelEntry([id |-> i, ready |-> release, place |-> Wheel!SlotAt(release)])
             /\ UNCHANGED queued
    <2> DEFINE e == [id |-> i, ready |-> release, place |-> Wheel!SlotAt(release)]
    <2>1. release \in Nat /\ Wheel!Now < release /\ d # 0 /\ Wheel!Now \in Nat
      BY <1>3, TimesAssumption, WheelNumbers DEF WheelInv
    <2> HIDE DEF release
    <2>2. /\ Wheel!SlotAt(release) \in Nat /\ Wheel!SlotAt(release) \in Wheel!Slots
          /\ Wheel!SlotAt(release) # Wheel!Overflow
      BY <2>1, SlotRange
    <2>3. held' = held \union {e}
      BY <1>3 DEF Wheel!AppendWheelEntry
    <2>4. HeldInv'
      BY <1>0, <1>3, <2>1, <2>2, <2>3, PushHeldKeeps DEF WheelInv, release
    <2>5. /\ lastTick \in Nat /\ Wheel!TickAt(Wheel!Now) \in Nat /\ Wheel!TickAfter(release) \in Nat
          /\ lastTick <= Wheel!TickAt(Wheel!Now) /\ Wheel!TickAt(Wheel!Now) < Wheel!TickAfter(release)
      BY <2>1, TickOrder, TickBounds, WheelNumbers DEF WheelInv, OnWheel
    <2>6. e.place = Wheel!SlotAt(release) /\ e.ready = release
      OBVIOUS
    <2> HIDE DEF e
    <2>7. OnWheel'
      BY <1>0, <1>1, <2>3, <2>5, <2>6 DEF WheelInv, OnWheel, Wheel!Now
    <2>8. drain'.by = NoThread
      BY <1>1, <1>3 DEF Wheel!Unlocked
    <2>9. SlotMins'
      <3> DEFINE s == Wheel!SlotAt(release)
      <3>1. slotMin' = IF slotMin[s] = Never \/ release < slotMin[s]
                       THEN [slotMin EXCEPT ![s] = release] ELSE slotMin
        BY <1>3, <2>6 DEF Wheel!AppendWheelEntry, e
      <3>2. s \in Wheel!Slots /\ e.place = s
        BY <2>2, <2>6
      <3>3. slotMin \in [Wheel!Slots -> Nat \union {Never}]
        BY DEF WheelInv, SlotMins
      <3> HIDE DEF s
      <3>4. slotMin' \in [Wheel!Slots -> Nat \union {Never}]
        BY <2>1, <3>1, <3>2, <3>3
      <3>5. slotMin'[s] # Never /\ slotMin'[s] <= release
        BY <2>1, <3>1, <3>2, <3>3, WheelAssumption
      <3>6. ASSUME NEW f \in held, f.place # Wheel!Overflow
            PROVE slotMin'[f.place] # Never /\ slotMin'[f.place] <= f.ready
        <4>1. /\ slotMin[f.place] # Never /\ slotMin[f.place] <= f.ready
              /\ f.place \in Wheel!Slots /\ f.ready \in Nat
          BY <3>6, SlotRange, WheelNumbers DEF WheelInv, SlotMins, OnWheel
        <4>2. CASE f.place = s
          BY <2>1, <3>1, <3>2, <3>3, <4>1, <4>2, WheelAssumption
        <4>3. CASE f.place # s
          BY <3>1, <3>2, <3>3, <4>1, <4>3
        <4> QED BY <4>2, <4>3
      <3>7. \A f \in held' : f.place # Wheel!Overflow =>
              slotMin'[f.place] # Never /\ slotMin'[f.place] <= f.ready
        BY <2>3, <2>6, <3>2, <3>5, <3>6
      <3> QED BY <3>4, <3>7 DEF SlotMins, Wheel!Slots, Wheel!Overflow
    <2>10. FoundAgain'
      <3>1. e.id = i
        BY DEF e
      <3>2. due'[i] = e.ready + base
        BY <1>5, <2>6, TimesAssumption DEF release, Wheel!Now, WheelInv, HeldInv, HeldTypes
      <3>3. drain.by = NoThread /\ UNCHANGED queued
        BY <1>3 DEF Wheel!Unlocked
      <3> QED BY <1>6, <2>3, <3>1, <3>2, <3>3
    <2> QED BY <2>4, <2>7, <2>8, <2>9, <2>10 DEF WheelInv, WheelScope
  <1>4. CASE /\ Wheel!WheelDuration < d /\ Wheel!Unlocked
             /\ held' = held \union {[id |-> i, ready |-> release, place |-> Wheel!Overflow]}
             /\ UNCHANGED <<slotMin, queued>>
    <2> DEFINE e == [id |-> i, ready |-> release, place |-> Wheel!Overflow]
    <2>0. Wheel!WheelDuration \in Nat
      BY WheelAssumption, Z3 DEF Wheel!WheelDuration
    <2>1. Wheel!Overflow \in Nat /\ d # 0
      BY <1>4, <2>0, WheelAssumption, TimesAssumption DEF Wheel!Overflow
    <2>2. HeldInv'
      BY <1>0, <1>4, <2>1, PushHeldKeeps DEF WheelInv
    <2>3. e.place = Wheel!Overflow /\ held' = held \union {e} /\ slotMin' = slotMin /\ e.id = i
      BY <1>4
    <2> HIDE DEF e
    <2>4. OnWheel'
      BY <1>0, <1>1, <2>3 DEF WheelInv, OnWheel, Wheel!Now
    <2>5. SlotMins'
      BY <2>3 DEF WheelInv, SlotMins
    <2>6. drain'.by = NoThread
      BY <1>1, <1>4 DEF Wheel!Unlocked
    <2>7. FoundAgain'
      <3>1. drain.by = NoThread /\ UNCHANGED queued
        BY <1>4 DEF Wheel!Unlocked
      <3> QED BY <1>6, <2>3, <3>1
    <2> QED BY <2>2, <2>4, <2>5, <2>6, <2>7 DEF WheelInv, WheelScope
  <1> QED BY <1>2, <1>3, <1>4, Zenon DEF Wheel!Push

LEMMA WheelEmptied ==
  ASSUME WheelInv, Wheel!Clears \/ Wheel!Closes
  PROVE  WheelInv'
  <1>1. HeldInv'
    BY ClearKeeps, CloseKeeps DEF WheelInv, Wheel!Clears, Wheel!Closes
  <1>2. held' = {} /\ slotMin' = Wheel!EmptyWheel /\ UNCHANGED <<clock, base, drain, lastTick>>
    BY DEF Wheel!Clears, Wheel!Closes, Wheel!Clear, Wheel!Close, Wheel!timing
  <1>3. OnWheel' /\ WheelScope' /\ FoundAgain'
    BY <1>1, <1>2 DEF WheelInv, OnWheel, WheelScope, FoundAgain, Wheel!Now, HeldInv, DrainSound
  <1>4. SlotMins'
    BY <1>2 DEF SlotMins, Wheel!EmptyWheel, Wheel!Slots
  <1> QED BY <1>1, <1>3, <1>4 DEF WheelInv

LEMMA WheelReopen ==
  ASSUME WheelInv, Wheel!Reopen
  PROVE  WheelInv'
  <1>1. PICK b \in Wheel!Bases : Wheel!Reopens(b, Wheel!Restored(clock - b))
    BY Zenon DEF Wheel!Reopen
  <1>2. HeldInv'
    BY <1>1, WheelRestored, ReopensKeeps DEF WheelInv
  <1>3. /\ held' = Wheel!Restored(clock - b) /\ base' = b /\ clock' = clock
        /\ drain' = drain /\ drain.by = NoThread
    BY <1>1 DEF Wheel!Reopens, WheelInv, HeldInv, OneEntryEach
  <1>4. lastTick' = Wheel!TickAt(clock - b)
    BY <1>3, Zenon DEF Wheel!Reopen
  <1>5. \A e \in held' : \/ e.place = Wheel!Overflow
                         \/ e.place = Wheel!SlotAt(e.ready) /\ clock - b < e.ready
    BY <1>3, WheelRestored DEF WheelInv
  <1>6. clock - b \in Nat /\ Wheel!Now' = clock - b /\ \A e \in held' : e.ready \in Nat
    BY <1>2, <1>3 DEF HeldInv, HeldTypes, Wheel!Now, Entries
  <1>7. /\ Wheel!TickAt(clock - b) \in Nat
        /\ \A e \in held' : clock - b < e.ready => Wheel!TickAt(clock - b) < Wheel!TickAfter(e.ready)
    BY <1>6, TickBounds, TickOrder
  <1>8. OnWheel'
    BY <1>3, <1>4, <1>5, <1>6, <1>7 DEF OnWheel, Wheel!TickAt, Wheel!TickAfter, Wheel!SlotAt
  <1>9. SlotMins'
    <2>1. slotMin' = [s \in Wheel!Slots |-> Wheel!SlotMinOf(held', s)]
      BY Zenon DEF Wheel!Reopen
    <2>2. held' \in SUBSET Entries
      BY <1>2 DEF HeldInv, HeldTypes
    <2>3. \A s \in Wheel!Slots :
            /\ Wheel!SlotMinOf(held', s) \in Nat \union {Never}
            /\ \A e \in held' : e.place = s =>
                 Wheel!SlotMinOf(held', s) # Never /\ Wheel!SlotMinOf(held', s) <= e.ready
      BY <2>2, SlotMinIs
    <2>4. slotMin' \in [Wheel!Slots -> Nat \union {Never}]
      BY <2>1, <2>3, Zenon
    <2>5. \A s \in Wheel!Slots : slotMin'[s] = Wheel!SlotMinOf(held', s)
      BY <2>1, Zenon
    <2>6. ASSUME NEW e \in held', e.place # Wheel!Overflow
          PROVE slotMin'[e.place] # Never /\ slotMin'[e.place] <= e.ready
      <3>1. e.place \in Wheel!Slots
        BY <1>5, <1>6, <2>6, SlotRange
      <3> QED BY <2>3, <2>5, <3>1, Zenon
    <2> QED BY <2>4, <2>6 DEF SlotMins, Wheel!Slots, Wheel!Overflow
  <1>10. FoundAgain'
    <2>1. Looked' = clock - b
      BY <1>3, <1>6 DEF Looked
    <2>2. \A e \in held' : clock - b < e.ready =>
             due'[e.id] = e.ready + base' /\ e.id \notin queued'
      BY <1>2, <2>1 DEF HeldInv, Dated
    <2> QED BY <1>5, <2>2 DEF FoundAgain
  <1> QED BY <1>2, <1>3, <1>8, <1>9, <1>10 DEF WheelInv, WheelScope

\* The times at which the wheel releases something, and the cached minima.
LEMMA ReleasesAreTimes ==
  ASSUME WheelInv
  PROVE  Wheel!NextRelease \in SUBSET Nat
  <1>1. \A e \in held : e.ready \in Nat
    BY WheelNumbers DEF WheelInv
  <1>2. ASSUME NEW s \in Wheel!Slots, slotMin[s] # Never
        PROVE  Wheel!TickAfter(slotMin[s]) * TickLength \in Nat
    <2>1. slotMin[s] \in Nat
      BY <1>2 DEF WheelInv, SlotMins
    <2>2. Wheel!TickAfter(slotMin[s]) \in Nat
      BY <2>1, TickBounds
    <2> HIDE DEF Wheel!TickAfter
    <2> QED BY <2>2, WheelAssumption, Z3
  <1> QED BY <1>1, <1>2 DEF Wheel!NextRelease

\* A step of the time wheel keeps its invariant.
LEMMA WheelStep == WheelInv /\ [Wheel!Next]_(Wheel!vars) => WheelInv'
  <1> SUFFICES ASSUME WheelInv, [Wheel!Next]_(Wheel!vars) PROVE WheelInv'
    OBVIOUS
  <1>0. HeldInv
    BY DEF WheelInv
  <1>1. CASE Wheel!Tick /\ UNCHANGED Wheel!wheel
    BY <1>1, WheelTick
  <1>2. CASE Wheel!Clears \/ Wheel!Closes
    BY <1>2, WheelEmptied
  <1>3. CASE Wheel!Reopen
    BY <1>3, WheelReopen
  <1>4. ASSUME NEW i \in Items, NEW d \in Delays, Wheel!Push(i, d) PROVE WheelInv'
    BY <1>4, WheelPush
  <1>5. ASSUME NEW t \in Poppers, UNCHANGED Wheel!wheel,
               Wheel!PopBegin(t) \/ Wheel!PopTakes(t) \/ Wheel!PopEmpty(t)
        PROVE WheelInv'
    <2>1. HeldInv'
      BY <1>0, <1>5, PopBeginKeeps, PopTakesKeeps, PopEmptyKeeps
    <2>2. UNCHANGED <<held, drain, clock, base, lastTick, slotMin>>
      BY <1>5, Zenon DEF Wheel!PopBegin, Wheel!PopTakes, Wheel!PopEmpty, Wheel!wheel, Wheel!timing
    <2>3. \A e \in held : e.id \notin queued => e.id \notin queued' /\ due'[e.id] = due[e.id]
      <3>1. CASE Wheel!PopBegin(t) \/ Wheel!PopEmpty(t)
        <4>1. UNCHANGED <<queued, due>>
          BY <3>1, Zenon DEF Wheel!PopBegin, Wheel!PopEmpty, Wheel!store, Wheel!pushes
        <4> QED BY <4>1
      <3>2. CASE Wheel!PopTakes(t)
        <4>1. PICK i \in queued : queued' = queued \ {i} /\ due' = [due EXCEPT ![i] = 0]
          BY <3>2, Zenon DEF Wheel!PopTakes
        <4>2. due \in [Items -> Nat] /\ \A e \in held : e.id \in Items
          BY <1>0 DEF HeldInv, HeldTypes, Entries
        <4> QED BY <4>1, <4>2
      <3> QED BY <1>5, <3>1, <3>2
    <2> QED BY <2>1, <2>2, <2>3, WheelQuiet
  <1>6. ASSUME NEW t \in Poppers, UNCHANGED Wheel!wheel, Wheel!PopWaits(t, Wheel!NextRelease)
        PROVE WheelInv'
    <2>1. Wheel!NextRelease \in SUBSET Nat
      BY ReleasesAreTimes
    <2>2. HeldInv'
      BY <1>0, <1>6, <2>1, PopWaitsKeeps
    <2>3. UNCHANGED <<held, drain, clock, base, lastTick, slotMin, due, queued>>
      BY <1>6, Zenon DEF Wheel!PopWaits, Wheel!wheel, Wheel!timing, Wheel!store, Wheel!pushes
    <2> QED BY <2>2, <2>3, WheelQuiet
  <1>7. ASSUME NEW t \in Poppers, Wheel!Drains(t) \/ Wheel!Ends(t) PROVE WheelInv'
    BY <1>7, WheelDrains, WheelEnds
  <1>8. ASSUME NEW t \in Poppers, NEW e \in drain.todo, Wheel!Moves(t, e) PROVE WheelInv'
    BY <1>8, WheelMoves
  <1>9. ASSUME NEW t \in Poppers, NEW e \in drain.todo, Wheel!DrainFails(t, e), UNCHANGED Wheel!wheel
        PROVE WheelInv'
    BY <1>9, WheelFails
  <1>10. CASE UNCHANGED Wheel!vars
    <2>1. UNCHANGED <<clock, base, up, held, queued, drain, pops, saved, savedAt, accepted, due, gone,
                      lastTick, slotMin>>
      BY <1>10 DEF Wheel!vars, Wheel!timing, Wheel!snapshot, Wheel!store, Wheel!pushes, Wheel!wheel
    <2>2. HeldInv'
      BY <1>0, <2>1 DEF HeldInv, HeldTypes, DrainSound, OneEntryEach, Dated, Looked,
         Wheel!Accounted, Wheel!Now, Wheel!Ids
    <2> QED BY <2>1, <2>2, WheelQuiet
  <1>11. CASE Wheel!Next
    BY <1>1, <1>2, <1>3, <1>4, <1>5, <1>6, <1>7, <1>8, <1>9, <1>11, Zenon DEF Wheel!Next
  <1> QED BY <1>10, <1>11

----------------------------------------------------------------------------
(* How long a pop sleeps. *)

\* Only the wait itself begins a wait.
LEMMA OnlyWaitsWait ==
  ASSUME HeldInv, NEW t \in Poppers,
         \/ UNCHANGED pops
         \/ Wheel!PopBegin(t) \/ Wheel!DrainEnds(t) \/ Wheel!PopTakes(t) \/ Wheel!PopEmpty(t)
         \/ \E e \in drain.todo : Wheel!DrainFails(t, e),
         NEW u \in Poppers, pops[u].at = "drained"
  PROVE  pops'[u].at # "waiting"
  <1>1. pops \in [Poppers -> PopRecords] /\ Wheel!IdlePop \in PopRecords
    BY DEF HeldInv, HeldTypes, PopRecords, Wheel!IdlePop
  <1>2. CASE UNCHANGED pops
    BY <1>2
  <1>3. CASE Wheel!PopBegin(t)
    <2>1. PICK d \in Timeouts :
            pops' = [pops EXCEPT ![t] = [Wheel!IdlePop EXCEPT !.at = "drain", !.timeout = d]]
      BY <1>3, Zenon DEF Wheel!PopBegin
    <2> QED BY <1>1, <2>1 DEF Wheel!IdlePop
  <1>4. CASE Wheel!DrainEnds(t)
    <2>1. pops' = [pops EXCEPT ![t].at = "drained"]
      BY <1>4, Zenon DEF Wheel!DrainEnds
    <2> QED BY <1>1, <2>1 DEF PopRecords
  <1>5. CASE Wheel!PopTakes(t) \/ \E e \in drain.todo : Wheel!DrainFails(t, e)
    <2>1. pops' = [pops EXCEPT ![t] = Wheel!IdlePop]
      BY <1>5, Zenon DEF Wheel!PopTakes, Wheel!DrainFails
    <2> QED BY <1>1, <2>1 DEF Wheel!IdlePop
  <1>6. CASE Wheel!PopEmpty(t)
    <2>1. pops[t].at = "waiting" /\ \A x \in Poppers : x # t => pops'[x] = pops[x]
      BY <1>1, <1>6 DEF Wheel!PopEmpty
    <2> QED BY <2>1
  <1> QED BY <1>2, <1>3, <1>4, <1>5, <1>6

\* A wait ends no later than any of the releases it was told of.
LEMMA WaitBounded ==
  ASSUME HeldInv, NEW t \in Poppers, NEW r \in SUBSET Nat, Wheel!PopWaits(t, r)
  PROVE  /\ \A u \in Poppers : u # t => pops'[u] = pops[u]
         /\ \A y \in r, x \in Nat : y <= x => pops'[t].wake <= Wheel!Later(x, Wheel!Now)
  <1> DEFINE deadline == IF pops[t].deadline = 0 THEN Wheel!Now + pops[t].timeout
                         ELSE pops[t].deadline
             limit == Wheel!Later(deadline, Wheel!Now)
             wake == IF r = {} THEN limit
                     ELSE Wheel!Earlier(limit, Wheel!Later(Wheel!Now, Wheel!Min(r)))
  <1>1. pops' = [pops EXCEPT ![t] = [at |-> "waiting", timeout |-> 0, deadline |-> deadline,
                                     wake |-> wake, waits |-> wake > Wheel!Now]]
    BY Zenon DEF Wheel!PopWaits
  <1>2. Wheel!Now \in Nat /\ deadline \in Nat /\ DOMAIN pops = Poppers
    BY DEF HeldInv, HeldTypes, PopRecords, Wheel!Now
  <1>3. limit \in Nat
    BY <1>2 DEF Wheel!Later
  <1> HIDE DEF limit
  <1>4. ASSUME NEW y \in r, NEW x \in Nat, y <= x PROVE wake <= Wheel!Later(x, Wheel!Now)
    <2>1. r # {} /\ Wheel!Min(r) \in Nat /\ Wheel!Min(r) <= y /\ y \in Nat
      BY <1>4, Smallest
    <2> QED BY <1>2, <1>3, <1>4, <2>1 DEF Wheel!Later, Wheel!Earlier
  <1> HIDE DEF wake, deadline
  <1>5. pops'[t].wake = wake /\ \A u \in Poppers : u # t => pops'[u] = pops[u]
    BY <1>1, <1>2
  <1> QED BY <1>4, <1>5

LEMMA DelaySleeps ==
  ASSUME DelayInv, [Delay!Next]_(Delay!vars)
  PROVE  Delay!SleepsUntilNext
  <1> SUFFICES ASSUME NEW u \in Poppers, pops[u].at = "drained", pops'[u].at = "waiting", NEW e \in held
               PROVE  pops'[u].wake <= Delay!Later(e.ready, Delay!Now)
    BY DEF Delay!SleepsUntilNext
  <1>0. HeldInv
    BY DEF DelayInv
  <1>1. \A t \in Poppers :
          ~ (\/ UNCHANGED pops \/ Wheel!PopBegin(t) \/ Wheel!DrainEnds(t) \/ Wheel!PopTakes(t)
             \/ Wheel!PopEmpty(t) \/ \E f \in drain.todo : Wheel!DrainFails(t, f))
    BY <1>0, OnlyWaitsWait
  <1>2. ~ UNCHANGED pops
    BY <1>1
  <1>3. Delay!Next
    BY <1>2 DEF Delay!vars
  <1>4. ~ (Delay!Tick \/ Delay!Clear \/ Delay!Close)
    BY <1>2 DEF Delay!Tick, Delay!Clear, Delay!Close
  <1>5. ~ \E b \in Delay!Bases : Delay!Reopens(b, Delay!Restored(clock - b))
    BY <1>2, Zenon DEF Delay!Reopens
  <1>6. ~ \E i \in Items, d \in Delays : Delay!Push(i, d)
    BY <1>2, Zenon DEF Delay!Push, Delay!Accepts
  <1>7. PICK t \in Poppers : Delay!PopWaits(t, Delay!NextReady)
    <2>1. PICK t \in Poppers :
            \/ Delay!PopBegin(t) \/ Delay!DrainBegin(t, Delay!Due) \/ Delay!DrainEnds(t)
            \/ Delay!PopWaits(t, Delay!NextReady) \/ Delay!PopTakes(t) \/ Delay!PopEmpty(t)
            \/ \E f \in drain.todo : Delay!DrainMoves(t, f) \/ Delay!DrainFails(t, f)
      BY <1>3, <1>4, <1>5, <1>6, Zenon DEF Delay!Next
    <2>2. ~ Delay!DrainBegin(t, Delay!Due) /\ ~ \E f \in drain.todo : Delay!DrainMoves(t, f)
      BY <1>2, Zenon DEF Delay!DrainBegin, Delay!DrainMoves
    <2>3. ~ (Delay!PopBegin(t) \/ Delay!DrainEnds(t) \/ Delay!PopTakes(t) \/ Delay!PopEmpty(t)
             \/ \E f \in drain.todo : Delay!DrainFails(t, f))
      BY <1>1, DelayPopShares, Zenon
    <2> QED BY <2>1, <2>2, <2>3, Zenon
  <1>8. Delay!NextReady \in SUBSET Nat /\ e.ready \in Delay!NextReady /\ e.ready \in Nat
    BY <1>0 DEF Delay!NextReady, HeldInv, HeldTypes, Entries
  <1>9. Wheel!PopWaits(t, Delay!NextReady)
    BY <1>7, <1>8, DelayPopShares
  <1>10. u = t
    BY <1>0, <1>8, <1>9, WaitBounded
  <1>11. pops'[t].wake <= Wheel!Later(e.ready, Wheel!Now)
    BY <1>0, <1>8, <1>9, WaitBounded
  <1> QED BY <1>10, <1>11 DEF Delay!Later, Wheel!Later, Delay!Now, Wheel!Now

\* Every held entry is behind one of the times at which the wheel releases.
LEMMA ReleaseKnown ==
  ASSUME WheelInv, NEW e \in held
  PROVE  /\ Wheel!Release(e) \in Nat
         /\ \E y \in Wheel!NextRelease : y <= Wheel!Release(e)
  <1>1. e.ready \in Nat /\ Wheel!TickAfter(e.ready) \in Nat
    BY WheelNumbers DEF WheelInv
  <1>2. CASE e.place = Wheel!Overflow
    <2>1. Wheel!Release(e) = e.ready
      BY <1>2, Zenon DEF Wheel!Release
    <2>2. e.ready \in Wheel!NextRelease
      BY <1>2 DEF Wheel!NextRelease
    <2> QED BY <1>1, <2>1, <2>2
  <1>3. CASE e.place # Wheel!Overflow
    <2> DEFINE m == slotMin[e.place]
    <2>1. e.place \in Wheel!Slots
      BY <1>1, <1>3, SlotRange DEF WheelInv, OnWheel
    <2>2. m # Never /\ m \in Nat /\ m <= e.ready
      BY <1>3, <2>1 DEF WheelInv, SlotMins
    <2>3. Wheel!TickAfter(m) * TickLength \in Wheel!NextRelease
      BY <2>1, <2>2, Zenon DEF Wheel!NextRelease
    <2>4. Wheel!TickAfter(m) \in Nat /\ Wheel!TickAfter(m) <= Wheel!TickAfter(e.ready)
      BY <1>1, <2>2, TickBounds, TickOrder
    <2>5. Wheel!Release(e) = Wheel!TickAfter(e.ready) * TickLength
      BY <1>3, Zenon DEF Wheel!Release
    <2>6. ASSUME NEW p \in Nat, NEW q \in Nat, NEW n \in Nat, p <= q
          PROVE  p * n <= q * n /\ q * n \in Nat
      BY <2>6, Z3
    <2>7. /\ Wheel!TickAfter(m) * TickLength <= Wheel!TickAfter(e.ready) * TickLength
          /\ Wheel!TickAfter(e.ready) * TickLength \in Nat
      BY <1>1, <2>4, <2>6, WheelAssumption
    <2> QED BY <2>3, <2>5, <2>7, Zenon
  <1> QED BY <1>2, <1>3

LEMMA WheelSleeps ==
  ASSUME WheelInv, [Wheel!Next]_(Wheel!vars)
  PROVE  Wheel!SleepsUntilNext
  <1> SUFFICES ASSUME NEW u \in Poppers, pops[u].at = "drained", pops'[u].at = "waiting", NEW e \in held
               PROVE  pops'[u].wake <= Wheel!Later(Wheel!Release(e), Wheel!Now)
    BY DEF Wheel!SleepsUntilNext
  <1>0. HeldInv
    BY DEF WheelInv
  <1>1. \A t \in Poppers :
          ~ (\/ UNCHANGED pops \/ Wheel!PopBegin(t) \/ Wheel!DrainEnds(t) \/ Wheel!PopTakes(t)
             \/ Wheel!PopEmpty(t) \/ \E f \in drain.todo : Wheel!DrainFails(t, f))
    BY <1>0, OnlyWaitsWait
  <1>2. ~ UNCHANGED pops
    BY <1>1
  <1>3. Wheel!Next
    BY <1>2 DEF Wheel!vars
  <1>4. ~ (Wheel!Tick \/ Wheel!Clears \/ Wheel!Closes)
    BY <1>2 DEF Wheel!Tick, Wheel!Clear, Wheel!Close, Wheel!Clears, Wheel!Closes
  <1>5. ~ Wheel!Reopen
    BY <1>2, Zenon DEF Wheel!Reopen, Wheel!Reopens
  <1>6. ~ \E i \in Items, d \in Delays : Wheel!Push(i, d)
    BY <1>2, Zenon DEF Wheel!Push, Wheel!Accepts
  <1>7. PICK t \in Poppers : Wheel!PopWaits(t, Wheel!NextRelease)
    <2>1. PICK t \in Poppers :
            \/ Wheel!PopBegin(t) \/ Wheel!Drains(t) \/ Wheel!Ends(t)
            \/ Wheel!PopWaits(t, Wheel!NextRelease) \/ Wheel!PopTakes(t) \/ Wheel!PopEmpty(t)
            \/ \E f \in drain.todo : Wheel!Moves(t, f) \/ Wheel!DrainFails(t, f)
      BY <1>3, <1>4, <1>5, <1>6, Zenon DEF Wheel!Next
    <2>2. ~ Wheel!Drains(t) /\ ~ \E f \in drain.todo : Wheel!Moves(t, f)
      BY <1>2, Zenon DEF Wheel!DrainBegin, Wheel!DrainMoves, Wheel!Drains, Wheel!Moves
    <2>3. ~ Wheel!Ends(t)
      BY <1>1, Zenon DEF Wheel!Ends
    <2> QED BY <1>1, <2>1, <2>2, <2>3, Zenon
  <1>8. Wheel!NextRelease \in SUBSET Nat
    BY ReleasesAreTimes
  <1>9. PICK y \in Wheel!NextRelease : y <= Wheel!Release(e) /\ Wheel!Release(e) \in Nat
    BY ReleaseKnown
  <1>10. u = t
    BY <1>0, <1>7, <1>8, WaitBounded
  <1>11. pops'[t].wake <= Wheel!Later(Wheel!Release(e), Wheel!Now)
    BY <1>0, <1>7, <1>8, <1>9, WaitBounded
  <1> QED BY <1>10, <1>11

----------------------------------------------------------------------------
(* The theorems. *)

\* What holds of all three strategies, whichever of them takes the steps.
StrategiesInv ==
  /\ BatchedInv
  /\ IF which = "delay" THEN DelayInv ELSE WheelInv

LEMMA StrategiesStart == MCInit => StrategiesInv
  <1> SUFFICES ASSUME MCInit PROVE StrategiesInv
    OBVIOUS
  <1>1. BatchedInv
    BY BatchedInit DEF MCInit
  <1>2. Wheel!Init /\ lastTick = Wheel!TickAt(0) /\ slotMin = Wheel!EmptyWheel
    BY DEF MCInit, Wheel!WheelInit
  <1>3. HeldInv
    BY <1>2, HeldStart
  <1>4. held = {} /\ drain.by = NoThread /\ Wheel!Now = 0
    BY <1>2 DEF Wheel!Init, Wheel!NoDrain, Wheel!Now
  <1>5. OnWheel
    <2>1. lastTick \in Nat
      BY <1>2, TickBounds
    <2> QED BY <1>2, <1>4, <2>1 DEF OnWheel
  <1>6. SlotMins
    BY <1>2, <1>4 DEF SlotMins, Wheel!EmptyWheel
  <1> QED BY <1>1, <1>3, <1>4, <1>5, <1>6 DEF StrategiesInv, DelayInv, WheelInv, DelayScope, WheelScope,
         FoundAgain

\* A step of one strategy leaves the others alone.
LEMMA OneStrategySteps ==
  [MCNext]_MCvars =>
    /\ which' = which
    /\ [Batched!Next]_(Batched!vars)
    /\ IF which = "delay" THEN [Delay!Next]_(Delay!vars) ELSE [Wheel!Next]_(Wheel!vars)
  <1> SUFFICES ASSUME [MCNext]_MCvars
               PROVE /\ which' = which
                     /\ [Batched!Next]_(Batched!vars)
                     /\ IF which = "delay" THEN [Delay!Next]_(Delay!vars)
                        ELSE [Wheel!Next]_(Wheel!vars)
    OBVIOUS
  <1> USE DEF heldVars, wheelVars, batchedVars, Batched!vars, Batched!content, Batched!history,
      Delay!vars, Delay!timing, Delay!snapshot, Delay!store, Delay!pushes,
      Wheel!vars, Wheel!timing, Wheel!snapshot, Wheel!store, Wheel!pushes, Wheel!wheel
  <1>1. UNCHANGED batchedVars => UNCHANGED Batched!vars
    OBVIOUS
  <1>2. UNCHANGED <<heldVars, wheelVars>> => UNCHANGED Wheel!vars
    OBVIOUS
  <1>3. UNCHANGED heldVars => UNCHANGED Delay!vars
    OBVIOUS
  <1>4. CASE UNCHANGED MCvars
    <2>1. which' = which /\ UNCHANGED batchedVars /\ UNCHANGED <<heldVars, wheelVars>>
          /\ UNCHANGED heldVars
      BY <1>4 DEF MCvars
    <2> QED BY <1>1, <1>2, <1>3, <2>1, Zenon
  <1> HIDE DEF heldVars, wheelVars, batchedVars, Batched!vars, Batched!content, Batched!history,
      Delay!vars, Delay!timing, Delay!snapshot, Delay!store, Delay!pushes,
      Wheel!vars, Wheel!timing, Wheel!snapshot, Wheel!store, Wheel!pushes, Wheel!wheel
  <1>5. CASE which' = which /\ which = "delay" /\ Delay!Next /\ UNCHANGED <<wheelVars, batchedVars>>
    <2>1. UNCHANGED batchedVars
      BY <1>5
    <2> QED BY <1>1, <1>5, <2>1, Zenon
  <1>6. CASE which' = which /\ which = "wheel" /\ Wheel!Next /\ UNCHANGED batchedVars
    BY <1>1, <1>6
  <1>7. CASE which' = which /\ which = "batched" /\ Batched!Next /\ UNCHANGED <<heldVars, wheelVars>>
    BY <1>2, <1>7
  <1> QED BY <1>4, <1>5, <1>6, <1>7, Zenon DEF MCNext

LEMMA StrategiesStep == StrategiesInv /\ [MCNext]_MCvars => StrategiesInv'
  BY OneStrategySteps, BatchedStep, DelayStep, WheelStep DEF StrategiesInv

\* The invariant holds throughout.
LEMMA StrategiesAlways == MCSpec => []StrategiesInv
  BY StrategiesStart, StrategiesStep, PTL DEF MCSpec

\* No item whose push returned is lost: it is in memory, in the backend, in the
\* snapshot, popped or cleared, through failed drains, pops that race with a
\* drain, closes and restores, for any number of items and threads and any
\* size of the wheel (push, _drain_ready, snapshot and restore).
THEOREM NothingDroppedHolds == MCSpec => []NothingDropped
  <1>1. StrategiesInv => NothingDropped
    BY DEF StrategiesInv, DelayInv, WheelInv, HeldInv, NothingDropped
  <1> QED BY <1>1, StrategiesAlways, PTL

\* No item is released before its time, over restarts and unrelated monotonic
\* clocks too, and a drain that ran to its end leaves nothing behind that was
\* due, or on the wheel whose tick was over (_drain_ready, restore).
THEOREM OnTimeHolds == MCSpec => []OnTime
  <1>1. ASSUME HeldInv PROVE Wheel!OnlyWhenDue
    <2>1. \A i \in queued : due[i] <= clock /\ due[i] \in Nat /\ clock \in Nat
      BY <1>1 DEF HeldInv, HeldTypes, Dated, OneEntryEach
    <2> QED BY <2>1 DEF Wheel!OnlyWhenDue
  <1>2. ASSUME HeldInv, drain.by # NoThread, NEW e \in held, drain.now < e.ready
        PROVE  drain.now + base < due[e.id]
    <2>1. due[e.id] = e.ready + base
      BY <1>2 DEF HeldInv, Dated, Looked
    <2>2. drain.now \in Nat /\ base \in Nat /\ e.ready \in Nat
      BY <1>2 DEF HeldInv, HeldTypes, Entries
    <2> QED BY <1>2, <2>1, <2>2
  <1>3. ASSUME DelayInv, drain.by # NoThread, drain.todo = {}, NEW e \in held
        PROVE  due[e.id] > drain.now + base
    <2>1. drain.now < e.ready
      BY <1>3 DEF DelayInv, DelayScope
    <2>2. drain.now + base < due[e.id]
      BY <1>2, <1>3, <2>1 DEF DelayInv
    <2>3. drain.now \in Nat /\ base \in Nat /\ due[e.id] \in Nat
      BY <1>3 DEF DelayInv, HeldInv, HeldTypes, Entries
    <2> QED BY <2>2, <2>3
  <1>4. ASSUME WheelInv, drain.by # NoThread, drain.todo = {}, NEW e \in held
        PROVE  due[e.id] + (TickLength - 1) > drain.now + base
    <2>0. /\ drain.now \in Nat /\ base \in Nat /\ due[e.id] \in Nat /\ e.ready \in Nat
          /\ TickLength \in Nat \ {0} /\ clock \in Nat
      BY <1>4, WheelAssumption DEF WheelInv, HeldInv, HeldTypes, Entries
    <2>1. CASE drain.now < e.ready
      <3>1. drain.now + base < due[e.id]
        BY <1>2, <1>4, <2>1 DEF WheelInv
      <3> QED BY <2>0, <3>1
    <2>2. CASE ~(drain.now < e.ready)
      <3>1. ~Found(e, drain.now)
        BY <1>4 DEF WheelInv, WheelScope
      <3>2. e.place # Wheel!Overflow
        BY <2>0, <2>2, <3>1 DEF Found
      <3>3. Wheel!TickAt(drain.now) < Wheel!TickAfter(e.ready)
        BY <1>4, <2>0, <3>1, <3>2, TickNotOver
      <3>4. drain.now < e.ready + (TickLength - 1)
        BY <2>0, <3>3, TickOrder
      <3>5. due[e.id] = e.ready + base
        BY <1>4, <3>1, <3>2 DEF WheelInv, FoundAgain, Looked
      <3> QED BY <2>0, <3>4, <3>5
    <2> QED BY <2>1, <2>2
  <1>5. StrategiesInv => OnTime
    <2>1. CASE which = "delay"
      BY <1>1, <1>3, <2>1 DEF StrategiesInv, OnTime, Delay!LeavesNothingOverdue, DelayInv
    <2>2. CASE which # "delay"
      BY <1>1, <1>4, <2>2 DEF StrategiesInv, OnTime, Wheel!LeavesNothingOverdue, WheelInv
    <2> QED BY <2>1, <2>2
  <1> QED BY <1>5, StrategiesAlways, PTL

\* A pop does not sleep past the time at which the next held item is released,
\* whatever the slots of the wheel went through (_next_ready_at,
\* _next_release_at).
THEOREM WakesForNextHolds == MCSpec => WakesForNext
  <1>1. StrategiesInv /\ [MCNext]_MCvars =>
          [IF which = "delay" THEN Delay!SleepsUntilNext ELSE Wheel!SleepsUntilNext]_MCvars
    BY OneStrategySteps, DelaySleeps, WheelSleeps DEF StrategiesInv
  <1> QED BY <1>1, StrategiesAlways, PTL DEF MCSpec, WakesForNext

\* The backend gets the values in the order they were accepted, and no more
\* than max_pending of them wait, through failed and interrupted writes, for
\* any number of threads and entries (_flush_serialized, _requeue_tail).
THEOREM WritesInOrderHolds == MCSpec => []WritesInOrder
  <1>1. ASSUME BatchedInv PROVE WritesInOrder
    <2> DEFINE rest == batch \o buffer
    <2>1. /\ Len(rest) = Len(batch) + Len(buffer) /\ Len(batch) \in Nat /\ Len(buffer) \in Nat
          /\ entries \in Nat
          /\ \A i \in 1 .. Len(batch) : rest[i] = batch[i]
          /\ \A i \in Len(batch) + 1 .. Len(batch) + Len(buffer) : rest[i] = buffer[i - Len(batch)]
      BY <1>1 DEF BatchedInv, BatchedTypes, Batched!TypeOK
    <2> HIDE DEF rest
    <2>2. Done = entries - Len(rest) /\ Done \in Nat
      BY <1>1, <2>1 DEF Done, BatchedInv, Waiting
    <2>3. \A i \in 1 .. Len(rest) : rest[i] = entries - Len(rest) + i
      <3> SUFFICES ASSUME NEW i \in 1 .. Len(rest) PROVE rest[i] = Done + i
        BY <2>2
      <3>1. CASE i \in 1 .. Len(batch)
        BY <1>1, <2>1, <3>1 DEF BatchedInv, Waiting
      <3>2. CASE i \in Len(batch) + 1 .. Len(batch) + Len(buffer)
        BY <1>1, <2>1, <2>2, <3>2 DEF BatchedInv, Waiting
      <3> QED BY <2>1, <3>1, <3>2
    <2>4. \A e \in 1 .. entries - Len(rest) : Batched!Contains(written, e)
      BY <1>1, <2>2 DEF BatchedInv, WrittenUpTo, Batched!Contains
    <2>5. Len(rest) <= MaxPending /\ inFlight = Len(batch) /\ Batched!TypeOK
          /\ \A i \in 1 .. Len(written) - 1 : written[i] <= written[i + 1]
      BY <1>1, <2>1 DEF BatchedInv, BatchedTypes, Waiting, WrittenUpTo
    <2> QED BY <2>3, <2>4, <2>5 DEF WritesInOrder, Batched!WritesInOrder, rest
  <1>2. StrategiesInv => WritesInOrder
    BY <1>1 DEF StrategiesInv
  <1> QED BY <1>2, StrategiesAlways, PTL

\* A close that returned has left every entry with the backend, and nobody who
\* would write (close).
THEOREM CloseCompleteHolds == MCSpec => []CloseComplete
  <1>1. ASSUME BatchedInv, ended
        PROVE  /\ Batched!Pending = 0 /\ flusher # "alive"
               /\ \A e \in 1 .. entries : Batched!Contains(written, e)
    <2>1. Len(buffer) = 0 /\ Len(batch) = 0 /\ inFlight = 0 /\ flusher # "alive" /\ Done = entries
      BY <1>1 DEF BatchedInv, BatchedTypes, EndedQuiet, Waiting, Done
    <2> QED BY <1>1, <2>1
            DEF BatchedInv, WrittenUpTo, Batched!Pending, Batched!Contains
  <1>2. BatchedInv => CloseComplete
    BY <1>1 DEF CloseComplete, Batched!CloseComplete
  <1>3. StrategiesInv => CloseComplete
    BY <1>2 DEF StrategiesInv
  <1> QED BY <1>3, StrategiesAlways, PTL
=============================================================================
