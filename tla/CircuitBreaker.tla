--------------------------- MODULE CircuitBreaker ---------------------------
(***************************************************************************)
(* The circuit breaker of src/scrapy_extension/backends/circuit_breaker.py *)
(* that guards the hot-path operations of a backend.                       *)
(*                                                                         *)
(* call() admits or rejects under _lock, runs the backend operation with   *)
(* the lock released, and records the outcome under the lock again.  In    *)
(* between, other threads may trip the breaker, probe it, or reset it, and *)
(* a hung operation may come back much later.  The outcome therefore only  *)
(* counts in the epoch it was admitted in.                                 *)
(*                                                                         *)
(* Times are ages: the code only asks whether reset_timeout has passed, so *)
(* an age stops growing there.                                             *)
(***************************************************************************)
EXTENDS Integers, Sequences, FiniteSets

CONSTANTS
  Callers,           \* threads that call through the breaker
  Hanging,           \* those whose backend operation may never return
  FailureThreshold,  \* failure_threshold
  ResetTimeout,      \* reset_timeout, in clock ticks
  MaxEpoch           \* bound: epochs of one behaviour

ASSUME HangingAssumption == Hanging \subseteq Callers
ASSUME ThresholdAssumption == FailureThreshold \in Nat \ {0}
ASSUME TimeoutAssumption == ResetTimeout \in Nat
ASSUME EpochAssumption == MaxEpoch \in Nat

States == {"CLOSED", "OPEN", "HALF_OPEN"}
Epochs == 0..MaxEpoch
NoTime == -1
Ages == {NoTime} \cup 0..ResetTimeout

VARIABLES
  state,          \* _state
  failureCount,   \* _failure_count
  failAge,        \* age of _last_failure_time, NoTime for None
  epoch,          \* _epoch
  probeInFlight,  \* _probe_in_flight, as {"probe"} or {}
  probeAge,       \* age of _probe_started_at, NoTime for None
  pending,        \* _pending_state_changes, each named by the epoch it began
  emits,          \* how often the observer was told of the transition
  pc,             \* where the thread is in call(): see Places
  admState,       \* admission.state of the thread's call, "NONE" outside one
  admEpoch,       \* admission.epoch
  inHand,         \* the transitions the thread drained and has not emitted
  crossed         \* calls in flight over a transition or reset (for the properties)

\* Outside call(); about to notify and then to run the backend operation; inside
\* the operation; about to notify and then to leave; emitting.
Places == {"idle", "claimed", "func", "notify", "emit"}

breakerVars == <<state, failureCount, failAge, epoch, probeInFlight, probeAge>>
noticeVars == <<pending, emits, inHand>>
callVars == <<pc, admState, admEpoch>>
vars == <<breakerVars, noticeVars, callVars, crossed>>

TypeOK ==
  /\ state \in States
  /\ failureCount \in 0..FailureThreshold
  /\ failAge \in Ages
  /\ epoch \in Epochs
  /\ probeInFlight \in SUBSET {"probe"}
  /\ probeAge \in Ages
  /\ pending \in Seq(Epochs)
  /\ emits \in [Epochs -> Nat]
  /\ pc \in [Callers -> Places]
  /\ admState \in [Callers -> {"NONE", "CLOSED", "HALF_OPEN"}]
  /\ admEpoch \in [Callers -> Epochs]
  /\ inHand \in [Callers -> Seq(Epochs)]
  /\ \A t \in Callers : /\ pc[t] \in {"claimed", "func"} => admState[t] # "NONE"
                        /\ pc[t] \in {"idle", "notify"} => admState[t] = "NONE"
                        /\ pc[t] = "emit" <=> inHand[t] # <<>>
  /\ crossed \in SUBSET Callers

Init ==
  /\ state = "CLOSED"
  /\ failureCount = 0
  /\ failAge = NoTime
  /\ epoch = 0
  /\ probeInFlight = {}
  /\ probeAge = NoTime
  /\ pending = <<>>
  /\ emits = [e \in Epochs |-> 0]
  /\ pc = [t \in Callers |-> "idle"]
  /\ admState = [t \in Callers |-> "NONE"]
  /\ admEpoch = [t \in Callers |-> 0]
  /\ inHand = [t \in Callers |-> <<>>]
  /\ crossed = {}

InFlight == {t \in Callers : admState[t] # "NONE"}

(***************************************************************************)
(* Every assignment to _state comes with an epoch bump and an entry in the *)
(* pending list; the calls in flight have then crossed a transition.       *)
(***************************************************************************)
Transition(t, new) ==
  /\ epoch < MaxEpoch
  /\ state' = new
  /\ epoch' = epoch + 1
  /\ pending' = Append(pending, epoch + 1)
  /\ crossed' = InFlight \ {t}

Admit(t, s, e, place) ==
  /\ admState' = [admState EXCEPT ![t] = s]
  /\ admEpoch' = [admEpoch EXCEPT ![t] = e]
  /\ pc' = [pc EXCEPT ![t] = place]

Reject(t) ==
  /\ pc' = [pc EXCEPT ![t] = "notify"]
  /\ UNCHANGED <<admState, admEpoch>>

(***************************************************************************)
(* _allow_call(): one action per outcome, all under the lock.              *)
(***************************************************************************)
\* Mutant: a probe has no deadline.
NeverOverdue == FALSE
\* Mutant: HALF_OPEN admits every caller.
AlwaysFree == TRUE

CoolDownElapsed == failAge # NoTime /\ failAge >= ResetTimeout
SlotFree == probeInFlight = {}
ProbeOverdue == ResetTimeout > 0 /\ probeAge # NoTime /\ probeAge >= ResetTimeout

AdmitClosed(t) ==
  /\ pc[t] = "idle"
  /\ state = "CLOSED"
  /\ Admit(t, "CLOSED", epoch, "func")
  /\ crossed' = crossed \ {t}
  /\ UNCHANGED <<breakerVars, noticeVars>>

\* The cool-down has elapsed: this caller turns OPEN into HALF_OPEN and claims
\* the only probe slot.
ClaimProbe(t) ==
  /\ pc[t] = "idle"
  /\ state = "OPEN"
  /\ CoolDownElapsed
  /\ Transition(t, "HALF_OPEN")
  /\ probeInFlight' = {"probe"}
  /\ probeAge' = 0
  /\ Admit(t, "HALF_OPEN", epoch + 1, "claimed")
  /\ UNCHANGED <<failureCount, failAge, emits, inHand>>

RejectOpen(t) ==
  /\ pc[t] = "idle"
  /\ state = "OPEN"
  /\ ~ CoolDownElapsed
  /\ Reject(t)
  /\ UNCHANGED <<breakerVars, noticeVars, crossed>>

\* The probe's deadline has passed: the breaker re-opens, the caller is rejected.
ReopenHung(t) ==
  /\ pc[t] = "idle"
  /\ state = "HALF_OPEN"
  /\ ~ SlotFree
  /\ ProbeOverdue
  /\ Transition(t, "OPEN")
  /\ failureCount' = 0
  /\ failAge' = 0
  /\ probeInFlight' = {}
  /\ probeAge' = NoTime
  /\ Reject(t)
  /\ UNCHANGED <<emits, inHand>>

RejectProbing(t) ==
  /\ pc[t] = "idle"
  /\ state = "HALF_OPEN"
  /\ ~ SlotFree
  /\ ~ ProbeOverdue
  /\ Reject(t)
  /\ UNCHANGED <<breakerVars, noticeVars, crossed>>

\* An uncounted outcome gave the slot back: the next caller claims it again.
ReclaimProbe(t) ==
  /\ pc[t] = "idle"
  /\ state = "HALF_OPEN"
  /\ SlotFree
  /\ probeInFlight' = {"probe"}
  /\ probeAge' = 0
  /\ Admit(t, "HALF_OPEN", epoch, "claimed")
  /\ crossed' = crossed \ {t}
  /\ UNCHANGED <<state, failureCount, failAge, epoch, noticeVars>>

AllowCall(t) ==
  \/ AdmitClosed(t)
  \/ ClaimProbe(t)
  \/ RejectOpen(t)
  \/ ReopenHung(t)
  \/ RejectProbing(t)
  \/ ReclaimProbe(t)

(***************************************************************************)
(* The outcome of the backend operation.                                   *)
(***************************************************************************)
\* Mutant: an outcome counts in any window of the state it was admitted in.
SameStateOnly(t) == admState[t] = state

\* The admission's epoch is still the breaker's: the outcome may count.
Current(t) == admEpoch[t] = epoch /\ admState[t] = state

Settled(t, place) ==
  /\ pc' = [pc EXCEPT ![t] = place]
  /\ admState' = [admState EXCEPT ![t] = "NONE"]
  /\ admEpoch' = [admEpoch EXCEPT ![t] = 0]

\* _record_success
Succeed(t) ==
  /\ pc[t] = "func"
  /\ \/ /\ Current(t)
        /\ admState[t] = "CLOSED"
        /\ failureCount' = 0
        /\ failAge' = NoTime
        /\ UNCHANGED <<state, epoch, probeInFlight, probeAge, pending, crossed>>
     \/ /\ Current(t)
        /\ admState[t] = "HALF_OPEN"
        /\ Transition(t, "CLOSED")
        /\ failureCount' = 0
        /\ failAge' = NoTime
        /\ probeInFlight' = {}
        /\ probeAge' = NoTime
     \/ /\ ~ Current(t)
        /\ UNCHANGED <<breakerVars, pending, crossed>>
  /\ Settled(t, "notify")
  /\ UNCHANGED <<emits, inHand>>

Trips(n) == n >= FailureThreshold

\* _record_failure
Fail(t) ==
  /\ pc[t] = "func"
  /\ \/ /\ Current(t)
        /\ admState[t] = "CLOSED"
        /\ failureCount' = failureCount + 1
        /\ failAge' = 0
        /\ IF Trips(failureCount + 1)
             THEN Transition(t, "OPEN")
             ELSE UNCHANGED <<state, epoch, pending, crossed>>
        /\ UNCHANGED <<probeInFlight, probeAge>>
     \/ /\ Current(t)
        /\ admState[t] = "HALF_OPEN"
        /\ Transition(t, "OPEN")
        /\ failureCount' = 0
        /\ failAge' = 0
        /\ probeInFlight' = {}
        /\ probeAge' = NoTime
     \/ /\ ~ Current(t)
        /\ UNCHANGED <<breakerVars, pending, crossed>>
  /\ Settled(t, "notify")
  /\ UNCHANGED <<emits, inHand>>

\* _release_probe
ReleaseProbe(t) ==
  IF admState[t] = "HALF_OPEN" /\ Current(t) THEN {} ELSE probeInFlight

\* A process signal, a caller error or a durability refusal: neither a failure
\* nor a success, and nothing to notify.
Abandon(t) ==
  /\ pc[t] = "func"
  /\ probeInFlight' = ReleaseProbe(t)
  /\ Settled(t, "idle")
  /\ UNCHANGED <<state, failureCount, failAge, epoch, probeAge, noticeVars, crossed>>

(***************************************************************************)
(* reset(), by an operator or a reconnect.                                 *)
(***************************************************************************)
ResetCount == 0

Reset(t) ==
  /\ pc[t] = "idle"
  /\ epoch < MaxEpoch
  /\ epoch' = epoch + 1
  /\ pending' = IF state # "CLOSED" THEN Append(pending, epoch + 1) ELSE pending
  /\ state' = "CLOSED"
  /\ failureCount' = ResetCount
  /\ failAge' = NoTime
  /\ probeInFlight' = {}
  /\ probeAge' = NoTime
  /\ crossed' = InFlight
  /\ Reject(t)
  /\ UNCHANGED <<emits, inHand>>

(***************************************************************************)
(* _notify_pending(): swap the list under the lock, then tell the observer *)
(* of each transition without it.  A raising observer is ignored.          *)
(***************************************************************************)
Resume(t) == IF admState[t] = "NONE" THEN "idle" ELSE "func"

Drain(t) ==
  /\ pc[t] \in {"claimed", "notify"}
  /\ inHand' = [inHand EXCEPT ![t] = pending]
  /\ pending' = <<>>
  /\ pc' = [pc EXCEPT ![t] = IF pending = <<>> THEN Resume(t) ELSE "emit"]
  /\ UNCHANGED <<breakerVars, emits, admState, admEpoch, crossed>>

\* Mutant: an exception of the observer ends the drain.
EmitStops(t) ==
  /\ pc[t] = "emit"
  /\ emits' = [emits EXCEPT ![Head(inHand[t])] = @ + 1]
  /\ inHand' = [inHand EXCEPT ![t] = <<>>]
  /\ pc' = [pc EXCEPT ![t] = Resume(t)]
  /\ UNCHANGED <<breakerVars, pending, admState, admEpoch, crossed>>

Emit(t) ==
  /\ pc[t] = "emit"
  /\ emits' = [emits EXCEPT ![Head(inHand[t])] = @ + 1]
  /\ inHand' = [inHand EXCEPT ![t] = Tail(@)]
  /\ pc' = [pc EXCEPT ![t] = IF Len(inHand[t]) = 1 THEN Resume(t) ELSE "emit"]
  /\ UNCHANGED <<breakerVars, pending, admState, admEpoch, crossed>>

\* The monotonic clock.
Older(age) == IF age \in 0..(ResetTimeout - 1) THEN age + 1 ELSE age

Tick ==
  /\ failAge' = Older(failAge)
  /\ probeAge' = Older(probeAge)
  /\ <<failAge, probeAge>>' # <<failAge, probeAge>>
  /\ UNCHANGED <<state, failureCount, epoch, probeInFlight, noticeVars, callVars, crossed>>

Next ==
  \/ \E t \in Callers :
       \/ AllowCall(t)
       \/ Succeed(t)
       \/ Fail(t)
       \/ Abandon(t)
       \/ Reset(t)
       \/ Drain(t)
       \/ Emit(t)
  \/ Tick

Spec == Init /\ [][Next]_vars

(***************************************************************************)
(* The clock advances; threads leave the notification; a crawl keeps       *)
(* calling, and an operation of a thread outside Hanging returns, because  *)
(* the drivers have timeouts.  Nothing is assumed of the outcomes.         *)
(***************************************************************************)
Return(t) == Succeed(t) \/ Fail(t) \/ Abandon(t)

Fairness ==
  /\ WF_vars(Tick)
  /\ \A t \in Callers : WF_vars(Drain(t) \/ Emit(t))
  /\ \A t \in Callers \ Hanging : WF_vars(AllowCall(t)) /\ WF_vars(Return(t))

FairSpec == Spec /\ Fairness

-----------------------------------------------------------------------------
(***************************************************************************)
(* Properties.                                                             *)
(***************************************************************************)

\* An OPEN breaker can always recover: it has a failure time to measure the
\* cool-down from (without one, line 420 rejects every call for ever), and a
\* CLOSED breaker is below its threshold, so the next failures can trip it.
Recoverable ==
  /\ state = "OPEN" => failAge # NoTime
  /\ state = "CLOSED" => failureCount < FailureThreshold

\* The probes of the current window: HALF_OPEN calls that crossed no transition.
Probes == {t \in InFlight \ crossed : admState[t] = "HALF_OPEN"}

\* "Only ONE thread issues the probe call" (lines 303-308), even when uncounted
\* outcomes hand the slot on, deadlines re-open the breaker and hung probes of
\* earlier windows are still running.
SingleProbe == Cardinality(Probes) <= 1

\* A claimed slot has a live owner, whose outcome will free it (lines 576-580:
\* "otherwise the breaker wedges HALF_OPEN forever"); outside HALF_OPEN the slot
\* is free.
SlotOwned == probeInFlight # {} <=> state = "HALF_OPEN" /\ Probes # {}

\* One probe per window, and a slot that is claimed exactly while it runs.
ProbeSlot == SingleProbe /\ SlotOwned

\* Each transition is in exactly one place: in the pending list, drained by one
\* thread, or emitted once (lines 313-314: "each transition is emitted exactly
\* once").
Occurs(e, s) == Cardinality({i \in DOMAIN s : s[i] = e})
Held(e) == {t \in Callers : Occurs(e, inHand[t]) = 1}

EmittedOnce ==
  \A e \in Epochs :
    /\ Occurs(e, pending) + Cardinality(Held(e)) + emits[e] <= 1
    /\ \A t \in Callers : Occurs(e, inHand[t]) <= 1
    /\ e > epoch => Occurs(e, pending) + Cardinality(Held(e)) + emits[e] = 0

\* A call that was in flight over a transition or a reset never moves the breaker
\* when it returns at last (lines 298-302: results "may only mutate the generation
\* under which it was admitted").
LateOutcomesFenced ==
  [][\A t \in crossed :
       admState[t] # "NONE" /\ admState'[t] = "NONE" => UNCHANGED breakerVars]_vars

\* Under continuing traffic an OPEN breaker lets a probe through.
OpenProbes == state = "OPEN" /\ epoch < MaxEpoch ~> state # "OPEN"

\* A probe that never returns does not wedge HALF_OPEN (lines 438-446).
HungProbeReleased ==
  state = "HALF_OPEN" /\ probeInFlight # {} /\ epoch < MaxEpoch
    ~> ~(state = "HALF_OPEN" /\ probeInFlight # {})

\* Every transition is reported to the observer.
TransitionsReported == \A e \in Epochs : Occurs(e, pending) = 1 ~> emits[e] = 1

\* The breaker can always leave OPEN, and its probe slot has one live owner.
BreakerSound == Recoverable /\ ProbeSlot

\* It does so: an OPEN breaker probes, and a probe that hangs loses its slot.
BreakerRecovers == OpenProbes /\ HungProbeReleased

\* Every transition is emitted to the observers exactly once, although it is
\* recorded under the lock and emitted outside of it (_notify_pending).
ReportedExactlyOnce == []EmittedOnce /\ TransitionsReported

=============================================================================
