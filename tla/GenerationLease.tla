--------------------------- MODULE GenerationLease ---------------------------
(***************************************************************************)
(* The generation gate of src/scrapy_extension/backends/_generation.py.    *)
(*                                                                         *)
(* A broker backend publishes one connection generation at a time.  Every  *)
(* SDK operation leases the current generation and holds it until the SDK  *)
(* call returns; a disconnect retires the generation, drains the leases    *)
(* and closes the retired handles in a finalizer.  The gate is a monitor:  *)
(* every action below except the finalizer itself is one critical section  *)
(* of its Condition.                                                       *)
(*                                                                         *)
(* A disconnect may be called from inside an SDK call of the same thread   *)
(* (a driver callback).  Waiting for its own lease would deadlock, so the  *)
(* drain only waits for the leases of other threads and hands its          *)
(* finalizer to the last release.                                          *)
(***************************************************************************)
EXTENDS Integers, Sequences, FiniteSets

CONSTANTS
  Threads,   \* threads that call the backend
  MaxGen,    \* bound: generations published in one behaviour
  MaxDepth   \* bound: nested SDK operations of one thread

ASSUME MaxGenAssumption == MaxGen \in Nat
ASSUME MaxDepthAssumption == MaxDepth \in Nat

Gens == 1..MaxGen
NoGen == 0

VARIABLES
  current,        \* _current: the published record, NoGen for None
  nextGen,        \* _next_generation
  accepting,      \* the records whose accepting flag is set
  activeLeases,   \* record.active_leases
  activeThreads,  \* record.active_threads, 0 for an absent key
  finRegistered,  \* the records whose finalizer_registered flag is set
  deferred,       \* len(record.deferred_finalizers)
  closed,         \* how often the record's finalizer has run
  stack,          \* stack[t]: the generations of the SDK calls t is inside of
  phase,          \* "run", "drain" (in drain's wait loop), "close" (finalizers)
  target,         \* the record that t drains or closes
  withFinalizer,  \* the threads whose drain carries a finalizer
  interrupted     \* the threads whose wait raised a control exception

recordVars == <<accepting, activeLeases, activeThreads, finRegistered,
                deferred, closed>>
threadVars == <<stack, phase, target, withFinalizer, interrupted>>
vars == <<current, nextGen, recordVars, threadVars>>

TypeOK ==
  /\ current \in {NoGen} \cup Gens
  /\ nextGen \in 0..MaxGen
  /\ accepting \in SUBSET Gens
  /\ activeLeases \in [Gens -> Nat]
  /\ activeThreads \in [Gens -> [Threads -> Nat]]
  /\ finRegistered \in SUBSET Gens
  /\ deferred \in [Gens -> Nat]
  /\ closed \in [Gens -> Nat]
  /\ stack \in [Threads -> Seq(Gens)]
  /\ phase \in [Threads -> {"run", "drain", "close"}]
  /\ target \in [Threads -> {NoGen} \cup Gens]
  /\ \A t \in Threads : phase[t] # "run" => target[t] \in Gens
  /\ withFinalizer \in SUBSET Threads
  /\ interrupted \in SUBSET Threads

Init ==
  /\ current = NoGen
  /\ nextGen = 0
  /\ accepting = {}
  /\ activeLeases = [g \in Gens |-> 0]
  /\ activeThreads = [g \in Gens |-> [t \in Threads |-> 0]]
  /\ finRegistered = {}
  /\ deferred = [g \in Gens |-> 0]
  /\ closed = [g \in Gens |-> 0]
  /\ stack = [t \in Threads |-> <<>>]
  /\ phase = [t \in Threads |-> "run"]
  /\ target = [t \in Threads |-> NoGen]
  /\ withFinalizer = {}
  /\ interrupted = {}

(***************************************************************************)
(* publish(): a fresh accepting record, unless one is already accepting.   *)
(***************************************************************************)
Publish(t) ==
  /\ phase[t] = "run"
  /\ current \notin accepting
  /\ nextGen < MaxGen
  /\ nextGen' = nextGen + 1
  /\ current' = nextGen + 1
  /\ accepting' = accepting \cup {nextGen + 1}
  /\ UNCHANGED <<activeLeases, activeThreads, finRegistered, deferred, closed,
                 threadVars>>

(***************************************************************************)
(* Entering lease(): admission under the gate's lock.  A call that finds   *)
(* no accepting record raises GenerationUnavailable and changes nothing.   *)
(***************************************************************************)
Admitting == current \in accepting

Lease(t) ==
  /\ phase[t] = "run"
  /\ Len(stack[t]) < MaxDepth
  /\ Admitting
  /\ activeLeases' = [activeLeases EXCEPT ![current] = @ + 1]
  /\ activeThreads' = [activeThreads EXCEPT ![current][t] = @ + 1]
  /\ stack' = [stack EXCEPT ![t] = Append(@, current)]
  /\ UNCHANGED <<current, nextGen, accepting, finRegistered, deferred, closed,
                 phase, target, withFinalizer, interrupted>>

(***************************************************************************)
(* Leaving lease(): give back the innermost lease.  The release that       *)
(* brings the record to zero takes its deferred finalizers and runs them   *)
(* after the lock is dropped.                                              *)
(***************************************************************************)
Innermost(t) == stack[t][Len(stack[t])]

\* Mutant: the last release leaves the deferred finalizers where they are.
NeverTakeDeferred(g, left) == FALSE

LeaveThread(n) == IF n <= 1 THEN 0 ELSE n - 1
LeaveTotal(n) == IF n > 0 THEN n - 1 ELSE n
TakesDeferred(g, left) == left = 0 /\ deferred[g] > 0

Release(t) ==
  LET g == Innermost(t) IN
  /\ phase[t] = "run"
  /\ stack[t] # <<>>
  /\ stack' = [stack EXCEPT ![t] = SubSeq(@, 1, Len(@) - 1)]
  /\ activeLeases' =
       [activeLeases EXCEPT ![g] = LeaveTotal(@)]
  /\ activeThreads' =
       [activeThreads EXCEPT ![g][t] = LeaveThread(@)]
  /\ IF TakesDeferred(g, LeaveTotal(activeLeases[g]))
       THEN /\ deferred' = [deferred EXCEPT ![g] = 0]
            /\ phase' = [phase EXCEPT ![t] = "close"]
            /\ target' = [target EXCEPT ![t] = g]
       ELSE UNCHANGED <<deferred, phase, target>>
  /\ UNCHANGED <<current, nextGen, accepting, finRegistered, closed,
                 withFinalizer, interrupted>>

(***************************************************************************)
(* retire() followed by drain() in the same thread, as every disconnect    *)
(* does: admission stops and the record is detached at one point, then the *)
(* thread enters drain's wait loop.                                        *)
(***************************************************************************)
BeginDrain(t, g, fin) ==
  /\ phase' = [phase EXCEPT ![t] = "drain"]
  /\ target' = [target EXCEPT ![t] = g]
  /\ withFinalizer' = IF fin THEN withFinalizer \cup {t} ELSE withFinalizer \ {t}

\* Mutant: retire() hands the record out without stopping its admission.
RetireStillAdmitting(t, fin) ==
  /\ phase[t] = "run"
  /\ current # NoGen
  /\ BeginDrain(t, current, fin)
  /\ UNCHANGED <<current, nextGen, recordVars, stack, interrupted>>

Retire(t, fin) ==
  /\ phase[t] = "run"
  /\ current # NoGen
  /\ accepting' = accepting \ {current}
  /\ current' = NoGen
  /\ BeginDrain(t, current, fin)
  /\ UNCHANGED <<nextGen, activeLeases, activeThreads, finRegistered, deferred,
                 closed, stack, interrupted>>

(***************************************************************************)
(* A second teardown caller presents a record that was already retired (a  *)
(* consumer-retirement worker of the Pulsar backend).  Such a worker is a  *)
(* thread of its own that is inside no SDK call.                           *)
(***************************************************************************)
Retired(g) == g <= nextGen /\ g \notin accepting

DrainAgain(t, g, fin) ==
  /\ phase[t] = "run"
  /\ Retired(g)
  /\ stack[t] = <<>>
  /\ BeginDrain(t, g, fin)
  /\ UNCHANGED <<current, nextGen, recordVars, stack, interrupted>>

(***************************************************************************)
(* Condition.wait raises KeyboardInterrupt or SystemExit: the signal is    *)
(* remembered and the wait goes on.                                        *)
(***************************************************************************)
InterruptWait(t) ==
  /\ phase[t] = "drain"
  /\ activeLeases[target[t]] > activeThreads[target[t]][t]
  /\ interrupted' = interrupted \cup {t}
  /\ UNCHANGED <<current, nextGen, recordVars, stack, phase, target,
                 withFinalizer>>

(***************************************************************************)
(* drain() leaves its wait loop: only the caller's own leases are left.    *)
(* The first finalizer presented for the record wins; it runs now if the   *)
(* record is free and is otherwise left to the last release.               *)
(***************************************************************************)
\* Mutant: the finalizer runs at once although the caller still holds a lease.
CloseNow(g) == TRUE

Registers(t, g) == t \in withFinalizer /\ g \notin finRegistered
Unleased(g) == activeLeases[g] = 0
Drained(t) == activeLeases[target[t]] <= activeThreads[target[t]][t]

FinishDrain(t) ==
  LET g == target[t] IN
  /\ phase[t] = "drain"
  /\ Drained(t)
  /\ IF Registers(t, g)
       THEN /\ finRegistered' = finRegistered \cup {g}
            /\ IF Unleased(g)
                 THEN /\ phase' = [phase EXCEPT ![t] = "close"]
                      /\ UNCHANGED deferred
                 ELSE /\ phase' = [phase EXCEPT ![t] = "run"]
                      /\ deferred' = [deferred EXCEPT ![g] = @ + 1]
       ELSE /\ phase' = [phase EXCEPT ![t] = "run"]
            /\ UNCHANGED <<finRegistered, deferred>>
  /\ interrupted' = interrupted \ {t}
  /\ UNCHANGED <<current, nextGen, accepting, activeLeases, activeThreads,
                 closed, stack, target, withFinalizer>>

(***************************************************************************)
(* _run_finalizer(), outside the lock: close the retired handles.  A       *)
(* failing close is recorded and logged; it is still the record's only     *)
(* run.                                                                    *)
(***************************************************************************)
RunFinalizer(t) ==
  /\ phase[t] = "close"
  /\ closed' = [closed EXCEPT ![target[t]] = @ + 1]
  /\ phase' = [phase EXCEPT ![t] = "run"]
  /\ UNCHANGED <<current, nextGen, accepting, activeLeases, activeThreads,
                 finRegistered, deferred, stack, target, withFinalizer,
                 interrupted>>

Next ==
  \E t \in Threads :
    \/ Publish(t)
    \/ Lease(t)
    \/ Release(t)
    \/ \E fin \in BOOLEAN : Retire(t, fin)
    \/ \E g \in Gens, fin \in BOOLEAN : DrainAgain(t, g, fin)
    \/ InterruptWait(t)
    \/ FinishDrain(t)
    \/ RunFinalizer(t)

Spec == Init /\ [][Next]_vars

(***************************************************************************)
(* Every admitted SDK call returns (brokers are configured with native     *)
(* timeouts): weak fairness of Release for the innermost call, strong for  *)
(* the outermost one, whose callback may still issue calls of its own.  A  *)
(* woken waiter and a finalizer run: ordinary thread scheduling.           *)
(***************************************************************************)
OutermostRelease(t) == Release(t) /\ Len(stack[t]) = 1

Fairness ==
  \A t \in Threads :
    /\ WF_vars(Release(t))
    /\ SF_vars(OutermostRelease(t))
    /\ WF_vars(FinishDrain(t))
    /\ WF_vars(RunFinalizer(t))

FairSpec == Spec /\ Fairness

-----------------------------------------------------------------------------
(***************************************************************************)
(* Properties.                                                             *)
(***************************************************************************)

\* The leases of generation g, as (thread, call depth) pairs.
LeaseSet(g) == {l \in Threads \X (1..MaxDepth) : /\ l[2] <= Len(stack[l[1]])
                                                  /\ stack[l[1]][l[2]] = g}

\* No handle is closed under an SDK call: while a finalizer of g is about to
\* run, and ever after, no thread is inside a call that leased g (the module
\* docstring: "only the detached record may be closed afterwards").
Closing(g) == closed[g] > 0 \/ \E t \in Threads : phase[t] = "close" /\ target[t] = g

NoCloseUnderLease ==
  \A g \in Gens : Closing(g) => \A t \in Threads : \A i \in DOMAIN stack[t] : stack[t][i] # g

\* However many teardown callers present a record, and whether the finalizer
\* runs at once or is deferred to the last release, its handles are closed at
\* most once (_generation.py lines 196-204).
Closers(g) == {t \in Threads : phase[t] = "close" /\ target[t] = g}

ClosedAtMostOnce ==
  \A g \in Gens : closed[g] + deferred[g] + Cardinality(Closers(g)) <= 1

\* A generation that is being drained, or whose handles are being closed, never
\* admits another operation: its lease count can only fall (retire() stops
\* admission before anybody waits, lines 83-91).
Draining(g) == \E t \in Threads : phase[t] = "drain" /\ target[t] = g

DrainedNeverAdmits ==
  [][\A g \in Gens : Draining(g) \/ Closing(g) => activeLeases'[g] <= activeLeases[g]]_vars

\* Disconnect terminates: a drain returns once the other threads' SDK calls
\* have, even when it was called from inside a leased call.
DrainReturns == \A t \in Threads : phase[t] = "drain" ~> phase[t] # "drain"

\* No deferred close is forgotten: once a finalizer is registered for a record
\* its handles are closed.
FinalizerRuns == \A g \in Gens : g \in finRegistered ~> closed[g] > 0

\* What a teardown may do to a handle: close it once, and never under a call.
HandlesProtected == NoCloseUnderLease /\ ClosedAtMostOnce

\* And a teardown ends: the drain returns and the close it owes is made, also
\* when a callback disconnects from inside its own lease.
TeardownEnds == DrainReturns /\ FinalizerRuns

=============================================================================
