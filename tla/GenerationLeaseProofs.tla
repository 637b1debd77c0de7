------------------------ MODULE GenerationLeaseProofs ------------------------
(***************************************************************************)
(* Proofs about the generation gate, for any set of threads, any number of *)
(* generations and any call depth, and about the five backends that run    *)
(* every operation under its lease (MCBackends): that they close no client *)
(* in use, what their pops hand out and what they keep.                    *)
(***************************************************************************)
EXTENDS GenerationLease, MCBackends, FiniteSetTheorems, SequenceTheorems, TLAPS

USE MaxGenAssumption, MaxDepthAssumption

-----------------------------------------------------------------------------
(* Type correctness. *)

\* The innermost lease of a thread is a lease record.
LEMMA InnermostType ==
  ASSUME NEW t \in Threads, TypeOK, stack[t] # <<>>
  PROVE  /\ Len(stack[t]) \in Nat \ {0}
         /\ Innermost(t) \in Gens
         /\ SubSeq(stack[t], 1, Len(stack[t]) - 1) \in Seq(Gens)
  BY DEF TypeOK, Innermost

\* Every step of the gate keeps the types.
LEMMA TypeStep == TypeOK /\ [Next]_vars => TypeOK'
<1> SUFFICES ASSUME TypeOK, [Next]_vars PROVE TypeOK'
  OBVIOUS
<1> USE DEF recordVars, threadVars
<1>1. ASSUME NEW t \in Threads, Publish(t) PROVE TypeOK'
  <2>1. nextGen' \in 0..MaxGen /\ nextGen + 1 \in Gens
    BY <1>1 DEF TypeOK, Publish, Gens
  <2>2. QED
    BY <1>1, <2>1 DEF TypeOK, Publish
<1>2. ASSUME NEW t \in Threads, Lease(t) PROVE TypeOK'
  BY <1>2 DEF TypeOK, Lease, Admitting
<1>3. ASSUME NEW t \in Threads, Release(t) PROVE TypeOK'
  <2>1. Innermost(t) \in Gens
    BY <1>3, InnermostType DEF Release
  <2>2. stack' \in [Threads -> Seq(Gens)]
    BY <1>3, InnermostType DEF Release, TypeOK
  <2>3. activeLeases' \in [Gens -> Nat] /\ activeThreads' \in [Gens -> [Threads -> Nat]]
    BY <1>3, <2>1 DEF Release, TypeOK, LeaveTotal, LeaveThread
  <2>4. /\ deferred' \in [Gens -> Nat]
        /\ phase' \in [Threads -> {"run", "drain", "close"}]
        /\ target' \in [Threads -> {NoGen} \cup Gens]
        /\ \A u \in Threads : phase'[u] # "run" => target'[u] \in Gens
    <3>1. CASE TakesDeferred(Innermost(t), LeaveTotal(activeLeases[Innermost(t)]))
      <4>1. /\ deferred' = [deferred EXCEPT ![Innermost(t)] = 0]
            /\ phase' = [phase EXCEPT ![t] = "close"]
            /\ target' = [target EXCEPT ![t] = Innermost(t)]
        BY <1>3, <3>1 DEF Release
      <4>2. deferred' \in [Gens -> Nat]
        BY <4>1 DEF TypeOK
      <4>3. QED
        BY <2>1, <4>1, <4>2 DEF TypeOK
    <3>2. CASE ~ TakesDeferred(Innermost(t), LeaveTotal(activeLeases[Innermost(t)]))
      BY <1>3, <3>2 DEF Release, TypeOK
    <3>3. QED
      BY <3>1, <3>2
  <2>5. QED
    BY <1>3, <2>2, <2>3, <2>4 DEF Release, TypeOK
<1>4. ASSUME NEW t \in Threads, NEW fin \in BOOLEAN, Retire(t, fin) PROVE TypeOK'
  BY <1>4 DEF TypeOK, Retire, BeginDrain, NoGen
<1>5. ASSUME NEW t \in Threads, NEW g \in Gens, NEW fin \in BOOLEAN, DrainAgain(t, g, fin)
      PROVE TypeOK'
  BY <1>5 DEF TypeOK, DrainAgain, BeginDrain
<1>6. ASSUME NEW t \in Threads, InterruptWait(t) PROVE TypeOK'
  BY <1>6 DEF TypeOK, InterruptWait
<1>7. ASSUME NEW t \in Threads, FinishDrain(t) PROVE TypeOK'
  <2>1. target[t] \in Gens
    BY <1>7 DEF TypeOK, FinishDrain
  <2>2. CASE Registers(t, target[t]) /\ Unleased(target[t])
    BY <1>7, <2>1, <2>2 DEF TypeOK, FinishDrain
  <2>3. CASE Registers(t, target[t]) /\ ~ Unleased(target[t])
    <3>1. /\ deferred' = [deferred EXCEPT ![target[t]] = @ + 1]
          /\ phase' = [phase EXCEPT ![t] = "run"]
          /\ finRegistered' = finRegistered \cup {target[t]}
      BY <1>7, <2>3 DEF FinishDrain
    <3>2. deferred' \in [Gens -> Nat]
      BY <2>1, <3>1 DEF TypeOK
    <3>3. QED
      BY <1>7, <2>1, <3>1, <3>2 DEF TypeOK, FinishDrain
  <2>4. CASE ~ Registers(t, target[t])
    BY <1>7, <2>1, <2>4 DEF TypeOK, FinishDrain
  <2>5. QED
    BY <2>2, <2>3, <2>4
<1>8. ASSUME NEW t \in Threads, RunFinalizer(t) PROVE TypeOK'
  BY <1>8 DEF TypeOK, RunFinalizer
<1>9. CASE UNCHANGED vars
  BY <1>9 DEF TypeOK, vars
<1>10. QED
  BY <1>1, <1>2, <1>3, <1>4, <1>5, <1>6, <1>7, <1>8, <1>9 DEF Next

\* The gate's bookkeeping keeps its types, for every instance.
THEOREM GateTypeCorrect == Spec => []TypeOK
<1>1. Init => TypeOK
  BY DEF Init, TypeOK, Gens, NoGen
<1>2. QED
  BY <1>1, TypeStep, PTL DEF Spec
-----------------------------------------------------------------------------
(***************************************************************************)
(* Safety of the close.  NoCloseUnderLease is not inductive: it needs the  *)
(* lease counter to be exact, and every record that is drained or closed   *)
(* to be out of admission for good.                                        *)
(***************************************************************************)
DepthBounded == \A t \in Threads : Len(stack[t]) <= MaxDepth

CountExact ==
  \A g \in Gens : /\ IsFiniteSet(LeaseSet(g))
                  /\ activeLeases[g] = Cardinality(LeaseSet(g))

OnlyRetired ==
  /\ current <= nextGen
  /\ \A g \in Gens : Draining(g) \/ Closing(g) \/ deferred[g] > 0 => Retired(g)

ClosingFree == \A g \in Gens : Closing(g) => LeaseSet(g) = {}

LeaseInv == TypeOK /\ DepthBounded /\ CountExact /\ OnlyRetired /\ ClosingFree

\* Only Lease and Release change which leases a record has.
LEMMA SameLeases ==
  ASSUME stack' = stack, NEW g
  PROVE  LeaseSet(g)' = LeaseSet(g)
  BY DEF LeaseSet

\* Two sets of pairs are equal when they have the same pairs.
LEMMA SamePairs ==
  \A A, B \in SUBSET (Threads \X (1..MaxDepth)) :
    (\A u \in Threads, i \in 1..MaxDepth : <<u, i>> \in A <=> <<u, i>> \in B) => A = B
<1>1. SUFFICES ASSUME NEW A \in SUBSET (Threads \X (1..MaxDepth)),
                      NEW B \in SUBSET (Threads \X (1..MaxDepth)),
                      \A u \in Threads, i \in 1..MaxDepth : <<u, i>> \in A <=> <<u, i>> \in B
               PROVE  A = B
  OBVIOUS
<1>2. ASSUME NEW x \in Threads \X (1..MaxDepth)
      PROVE  x \in A <=> x \in B
  <2>1. PICK u \in Threads, i \in 1..MaxDepth : x = <<u, i>>
    OBVIOUS
  <2>2. QED
    BY <1>1, <2>1
<1>3. QED
  BY <1>2

\* A lease adds one pair, to the current record only.
LEMMA LeaseAdds ==
  ASSUME TypeOK, DepthBounded, NEW t \in Threads, Lease(t), NEW g \in Gens
  PROVE  /\ LeaseSet(g)' = IF g = current THEN LeaseSet(g) \cup {<<t, Len(stack[t]) + 1>>}
                                          ELSE LeaseSet(g)
         /\ <<t, Len(stack[t]) + 1>> \notin LeaseSet(g)
<1> DEFINE n == Len(stack[t])
<1>0. /\ stack \in [Threads -> Seq(Gens)]
      /\ current \in Gens
      /\ n \in Nat /\ n + 1 \in 1..MaxDepth
      /\ stack[t] \in Seq(Gens)
  BY DEF TypeOK, Lease, Admitting
<1>1. /\ stack' = [stack EXCEPT ![t] = Append(stack[t], current)]
      /\ Len(stack'[t]) = n + 1
      /\ stack'[t][n + 1] = current
      /\ \A i \in 1..n : stack'[t][i] = stack[t][i]
      /\ \A u \in Threads : u # t => stack'[u] = stack[u]
  BY <1>0 DEF Lease
<1>2. ASSUME NEW u \in Threads, NEW i \in 1..MaxDepth
      PROVE  <<u, i>> \in LeaseSet(g)' <=>
               <<u, i>> \in LeaseSet(g) \/ (g = current /\ <<u, i>> = <<t, n + 1>>)
  <2>1. CASE u # t
    BY <1>1, <2>1 DEF LeaseSet
  <2>2. CASE u = t /\ i <= n
    BY <1>0, <1>1, <2>2 DEF LeaseSet
  <2>3. CASE u = t /\ i = n + 1
    BY <1>0, <1>1, <2>3 DEF LeaseSet
  <2>4. CASE u = t /\ i > n + 1
    BY <1>0, <1>1, <2>4 DEF LeaseSet
  <2>5. QED
    BY <1>0, <2>1, <2>2, <2>3, <2>4
<1>3. /\ LeaseSet(g) \in SUBSET (Threads \X (1..MaxDepth))
      /\ LeaseSet(g)' \in SUBSET (Threads \X (1..MaxDepth))
      /\ <<t, n + 1>> \in Threads \X (1..MaxDepth)
  BY <1>0 DEF LeaseSet
<1>4. <<t, n + 1>> \notin LeaseSet(g)
  BY <1>0 DEF LeaseSet
<1>5. CASE g = current
  <2>1. ASSUME NEW u \in Threads, NEW i \in 1..MaxDepth
        PROVE  <<u, i>> \in LeaseSet(g)' <=> <<u, i>> \in LeaseSet(g) \cup {<<t, n + 1>>}
    BY <1>2, <1>5
  <2>2. LeaseSet(g) \cup {<<t, n + 1>>} \in SUBSET (Threads \X (1..MaxDepth))
    BY <1>3
  <2>3. LeaseSet(g)' = LeaseSet(g) \cup {<<t, n + 1>>}
    BY <1>3, <2>1, <2>2, SamePairs, Zenon
  <2>4. QED
    BY <1>4, <1>5, <2>3
<1>6. CASE g # current
  <2>1. ASSUME NEW u \in Threads, NEW i \in 1..MaxDepth
        PROVE  <<u, i>> \in LeaseSet(g)' <=> <<u, i>> \in LeaseSet(g)
    BY <1>2, <1>6
  <2>2. LeaseSet(g)' = LeaseSet(g)
    BY <1>3, <2>1, SamePairs, Zenon
  <2>3. QED
    BY <1>4, <1>6, <2>2
<1>7. QED
  BY <1>5, <1>6

\* A release removes one pair, from the innermost record of its thread only.
LEMMA ReleaseRemoves ==
  ASSUME TypeOK, DepthBounded, NEW t \in Threads, Release(t), NEW g \in Gens
  PROVE  /\ LeaseSet(g)' = IF g = Innermost(t) THEN LeaseSet(g) \ {<<t, Len(stack[t])>>}
                                               ELSE LeaseSet(g)
         /\ g = Innermost(t) => <<t, Len(stack[t])>> \in LeaseSet(g)
<1> DEFINE n == Len(stack[t])
<1>0. /\ stack \in [Threads -> Seq(Gens)]
      /\ n \in 1..MaxDepth
      /\ stack[t] \in Seq(Gens)
  <2>1. stack[t] # <<>> /\ stack \in [Threads -> Seq(Gens)]
    BY DEF Release, TypeOK
  <2>2. n \in Nat \ {0} /\ n <= MaxDepth
    BY <2>1, InnermostType DEF DepthBounded
  <2>3. QED
    BY <2>1, <2>2
<1>1. /\ stack' = [stack EXCEPT ![t] = SubSeq(stack[t], 1, n - 1)]
      /\ Len(stack'[t]) = n - 1
      /\ \A i \in 1..(n - 1) : stack'[t][i] = stack[t][i]
      /\ \A u \in Threads : u # t => stack'[u] = stack[u]
  <2>1. stack' = [stack EXCEPT ![t] = SubSeq(stack[t], 1, n - 1)]
    BY <1>0 DEF Release
  <2>2. stack'[t] = SubSeq(stack[t], 1, n - 1)
    BY <1>0, <2>1
  <2>3. \A u \in Threads : u # t => stack'[u] = stack[u]
    BY <1>0, <2>1
  <2>4. Len(SubSeq(stack[t], 1, n - 1)) = n - 1
    <3>1. \A i \in 1..(n - 1) : stack[t][i] \in Gens
      BY <1>0
    <3>2. n \in Nat /\ n >= 1
      BY <1>0
    <3>3. Len(SubSeq(stack[t], 1, n - 1)) =
            IF 1 <= n - 1 THEN (n - 1) - 1 + 1 ELSE 0
      <4>1. n - 1 \in Int /\ 1 \in Int
        BY <3>2
      <4>2. QED
        BY <3>1, <4>1, SubSeqProperties
    <3>4. QED
      BY <3>2, <3>3
  <2>5. \A i \in 1..(n - 1) : SubSeq(stack[t], 1, n - 1)[i] = stack[t][i]
    BY <1>0
  <2>6. QED
    BY <2>1, <2>2, <2>3, <2>4, <2>5
<1>2. ASSUME NEW u \in Threads, NEW i \in 1..MaxDepth
      PROVE  <<u, i>> \in LeaseSet(g)' <=>
               <<u, i>> \in LeaseSet(g) /\ ~(g = Innermost(t) /\ <<u, i>> = <<t, n>>)
  <2>1. CASE u # t
    BY <1>1, <2>1 DEF LeaseSet
  <2>2. CASE u = t /\ i < n
    BY <1>0, <1>1, <2>2 DEF LeaseSet
  <2>3. CASE u = t /\ i = n
    BY <1>0, <1>1, <2>3 DEF LeaseSet, Innermost
  <2>4. CASE u = t /\ i > n
    BY <1>0, <1>1, <2>4 DEF LeaseSet
  <2>5. QED
    BY <1>0, <2>1, <2>2, <2>3, <2>4
<1>3. /\ LeaseSet(g) \in SUBSET (Threads \X (1..MaxDepth))
      /\ LeaseSet(g)' \in SUBSET (Threads \X (1..MaxDepth))
  BY DEF LeaseSet
<1>4. g = Innermost(t) => <<t, n>> \in LeaseSet(g)
  BY <1>0 DEF LeaseSet, Innermost
<1>5. CASE g = Innermost(t)
  <2>1. ASSUME NEW u \in Threads, NEW i \in 1..MaxDepth
        PROVE  <<u, i>> \in LeaseSet(g)' <=> <<u, i>> \in LeaseSet(g) \ {<<t, n>>}
    BY <1>2, <1>5
  <2>2. LeaseSet(g) \ {<<t, n>>} \in SUBSET (Threads \X (1..MaxDepth))
    BY <1>3
  <2>3. LeaseSet(g)' = LeaseSet(g) \ {<<t, n>>}
    BY <1>3, <2>1, <2>2, SamePairs, Zenon
  <2>4. QED
    BY <1>4, <1>5, <2>3
<1>6. CASE g # Innermost(t)
  <2>0. ASSUME NEW u \in Threads, NEW i \in 1..MaxDepth
        PROVE  <<u, i>> \in LeaseSet(g)' <=> <<u, i>> \in LeaseSet(g)
    BY <1>2, <1>6
  <2>1. LeaseSet(g)' = LeaseSet(g)
    BY <1>3, <2>0, SamePairs, Zenon
  <2>2. QED
    BY <1>6, <2>1
<1>7. QED
  BY <1>5, <1>6

\* A step that leaves the stacks, the counters and the admission alone.
LEMMA CountKept ==
  ASSUME CountExact, stack' = stack, activeLeases' = activeLeases
  PROVE  CountExact'
  BY SameLeases DEF CountExact

\* Granting a lease adds one to the counter and one lease to the record.
LEMMA CountAdds ==
  ASSUME TypeOK, DepthBounded, CountExact, NEW t \in Threads, Lease(t)
  PROVE  CountExact'
<1>1. /\ current \in Gens
      /\ activeLeases' = [activeLeases EXCEPT ![current] = @ + 1]
      /\ activeLeases \in [Gens -> Nat]
  BY DEF TypeOK, Lease, Admitting
<1> SUFFICES ASSUME NEW g \in Gens
             PROVE  /\ IsFiniteSet(LeaseSet(g)')
                    /\ activeLeases'[g] = Cardinality(LeaseSet(g)')
  BY DEF CountExact
<1>2. CASE g = current
  <2>1. LeaseSet(g)' = LeaseSet(g) \cup {<<t, Len(stack[t]) + 1>>}
        /\ <<t, Len(stack[t]) + 1>> \notin LeaseSet(g)
    BY <1>2, LeaseAdds
  <2>2. IsFiniteSet(LeaseSet(g)') /\ Cardinality(LeaseSet(g)') = Cardinality(LeaseSet(g)) + 1
    BY <2>1, FS_AddElement DEF CountExact
  <2>3. activeLeases'[g] = activeLeases[g] + 1
    BY <1>1, <1>2
  <2>4. QED
    BY <2>2, <2>3 DEF CountExact
<1>3. CASE g # current
  <2>1. LeaseSet(g)' = LeaseSet(g) /\ activeLeases'[g] = activeLeases[g]
    BY <1>1, <1>3, LeaseAdds
  <2>2. QED
    BY <2>1 DEF CountExact
<1>4. QED
  BY <1>2, <1>3

\* Releasing a lease takes one from the counter and one lease from the record.
LEMMA CountRemoves ==
  ASSUME TypeOK, DepthBounded, CountExact, NEW t \in Threads, Release(t)
  PROVE  /\ CountExact'
         /\ \A g \in Gens : g = Innermost(t) =>
              LeaveTotal(activeLeases[g]) = activeLeases'[g]
<1>1. /\ Innermost(t) \in Gens
      /\ activeLeases' = [activeLeases EXCEPT ![Innermost(t)] = LeaveTotal(@)]
      /\ activeLeases \in [Gens -> Nat]
  BY InnermostType DEF TypeOK, Release
<1>2. ASSUME NEW g \in Gens
      PROVE  /\ IsFiniteSet(LeaseSet(g)')
             /\ activeLeases'[g] = Cardinality(LeaseSet(g)')
  <2>1. CASE g = Innermost(t)
    <3>1. LeaseSet(g)' = LeaseSet(g) \ {<<t, Len(stack[t])>>}
          /\ <<t, Len(stack[t])>> \in LeaseSet(g)
      BY <2>1, ReleaseRemoves
    <3>2. /\ IsFiniteSet(LeaseSet(g)')
          /\ Cardinality(LeaseSet(g)') = Cardinality(LeaseSet(g)) - 1
      BY <3>1, FS_RemoveElement DEF CountExact
    <3>3. Cardinality(LeaseSet(g)') \in Nat
      BY <3>2, FS_CardinalityType
    <3>4. activeLeases[g] > 0 /\ activeLeases[g] = Cardinality(LeaseSet(g))
      BY <1>1, <3>2, <3>3 DEF CountExact
    <3>5. activeLeases'[g] = activeLeases[g] - 1
      BY <1>1, <2>1, <3>4 DEF LeaveTotal
    <3>6. QED
      BY <3>2, <3>4, <3>5
  <2>2. CASE g # Innermost(t)
    <3>1. LeaseSet(g)' = LeaseSet(g) /\ activeLeases'[g] = activeLeases[g]
      BY <1>1, <2>2, ReleaseRemoves
    <3>2. QED
      BY <3>1 DEF CountExact
  <2>3. QED
    BY <2>1, <2>2
<1>3. CountExact'
  BY <1>2 DEF CountExact
<1>4. activeLeases'[Innermost(t)] = LeaveTotal(activeLeases[Innermost(t)])
  BY <1>1
<1>5. QED
  BY <1>3, <1>4

\* No thread nests deeper than the bound.
LEMMA DepthStep == TypeOK /\ DepthBounded /\ [Next]_vars => DepthBounded'
<1> SUFFICES ASSUME TypeOK, DepthBounded, [Next]_vars PROVE DepthBounded'
  OBVIOUS
<1>1. ASSUME NEW t \in Threads, Lease(t) PROVE DepthBounded'
  <2>1. /\ stack' = [stack EXCEPT ![t] = Append(stack[t], current)]
        /\ stack \in [Threads -> Seq(Gens)] /\ current \in Gens
        /\ Len(stack[t]) < MaxDepth
    BY <1>1 DEF Lease, TypeOK, Admitting
  <2>2. Len(stack'[t]) <= MaxDepth
    BY <2>1
  <2>3. \A u \in Threads : u # t => stack'[u] = stack[u]
    BY <2>1
  <2>4. QED
    BY <2>2, <2>3 DEF DepthBounded
<1>2. ASSUME NEW t \in Threads, Release(t) PROVE DepthBounded'
  <2> DEFINE n == Len(stack[t])
  <2>1. /\ stack' = [stack EXCEPT ![t] = SubSeq(stack[t], 1, n - 1)]
        /\ stack \in [Threads -> Seq(Gens)]
        /\ stack[t] # <<>>
    BY <1>2 DEF Release, TypeOK
  <2>2. n \in Nat /\ n >= 1 /\ n <= MaxDepth /\ n - 1 \in Int
    BY <2>1, InnermostType DEF DepthBounded
  <2>3. \A i \in 1..(n - 1) : stack[t][i] \in Gens
    BY <2>1, <2>2
  <2>4. Len(SubSeq(stack[t], 1, n - 1)) = IF 1 <= n - 1 THEN (n - 1) - 1 + 1 ELSE 0
    BY <2>2, <2>3, SubSeqProperties
  <2>5. Len(stack'[t]) <= MaxDepth
    <3>1. stack'[t] = SubSeq(stack[t], 1, n - 1)
      BY <2>1
    <3>2. QED
      BY <2>2, <2>4, <3>1
  <2>6. \A u \in Threads : u # t => stack'[u] = stack[u]
    BY <2>1
  <2>7. QED
    BY <2>5, <2>6 DEF DepthBounded
<1>3. CASE stack' = stack
  BY <1>3 DEF DepthBounded
<1>4. QED
  BY <1>1, <1>2, <1>3 DEF Next, vars, threadVars, Publish, Retire, DrainAgain,
                         InterruptWait, FinishDrain, RunFinalizer
\* A record that is being torn down stays retired.
LEMMA RetiredStep ==
  ASSUME TypeOK, OnlyRetired, [Next]_vars, NEW g \in Gens, Retired(g)
  PROVE  Retired(g)'
  BY DEF TypeOK, OnlyRetired, Retired, Next, vars, recordVars, Publish, Lease, Release, Retire,
         DrainAgain, InterruptWait, FinishDrain, RunFinalizer, Gens

\* Only a retired record is torn down.
LEMMA OnlyRetiredStep == TypeOK /\ OnlyRetired /\ [Next]_vars => OnlyRetired'
<1> SUFFICES ASSUME TypeOK, OnlyRetired, [Next]_vars PROVE OnlyRetired'
  OBVIOUS
<1>0. current' <= nextGen'
  BY DEF TypeOK, OnlyRetired, Next, vars, recordVars, Publish, Lease, Release, Retire,
         DrainAgain, InterruptWait, FinishDrain, RunFinalizer, NoGen, Gens
<1> SUFFICES ASSUME NEW g \in Gens, (Draining(g) \/ Closing(g) \/ deferred[g] > 0)'
             PROVE  Retired(g)'
  BY <1>0 DEF OnlyRetired
<1>1. CASE Draining(g) \/ Closing(g) \/ deferred[g] > 0
  BY <1>1, RetiredStep DEF OnlyRetired
<1>2. CASE ~(Draining(g) \/ Closing(g) \/ deferred[g] > 0)
  <2>1. ASSUME NEW t \in Threads, Release(t) PROVE FALSE
    <3>1. Innermost(t) \in Gens
      BY <2>1, InnermostType DEF Release
    <3>2. CASE TakesDeferred(Innermost(t), LeaveTotal(activeLeases[Innermost(t)]))
      <4>1. deferred[Innermost(t)] > 0
        BY <3>2 DEF TakesDeferred
      <4>2. g # Innermost(t)
        BY <1>2, <4>1
      <4>3. /\ deferred' = [deferred EXCEPT ![Innermost(t)] = 0]
            /\ phase' = [phase EXCEPT ![t] = "close"]
            /\ target' = [target EXCEPT ![t] = Innermost(t)]
            /\ closed' = closed
        BY <2>1, <3>2 DEF Release
      <4>4. ~ Draining(g)' /\ ~ Closing(g)'
        BY <1>2, <4>2, <4>3 DEF Draining, Closing, TypeOK
      <4>5. ~ (deferred'[g] > 0)
        BY <1>2, <3>1, <4>2, <4>3 DEF TypeOK
      <4>6. QED
        BY <4>4, <4>5
    <3>3. CASE ~ TakesDeferred(Innermost(t), LeaveTotal(activeLeases[Innermost(t)]))
      BY <1>2, <2>1, <3>3 DEF Release, Draining, Closing
    <3>4. QED
      BY <3>2, <3>3
  <2>2. ASSUME NEW t \in Threads, NEW fin \in BOOLEAN, Retire(t, fin) PROVE Retired(g)'
    <3>1. g = current
      BY <1>2, <2>2 DEF Retire, BeginDrain, Draining, Closing, TypeOK
    <3>2. QED
      BY <2>2, <3>1 DEF Retire, Retired, OnlyRetired
  <2>3. ASSUME NEW t \in Threads, NEW h \in Gens, NEW fin \in BOOLEAN, DrainAgain(t, h, fin)
        PROVE Retired(g)'
    <3>1. g = h
      BY <1>2, <2>3 DEF DrainAgain, BeginDrain, Draining, Closing, TypeOK, recordVars
    <3>2. QED
      BY <2>3, <3>1 DEF DrainAgain, Retired, recordVars
  <2>4. ASSUME NEW t \in Threads, FinishDrain(t) PROVE FALSE
    <3>1. target[t] \in Gens /\ g # target[t]
      BY <1>2, <2>4 DEF FinishDrain, TypeOK, Draining
    <3>2. /\ closed' = closed /\ target' = target
          /\ \A u \in Threads : u # t => phase'[u] = phase[u]
          /\ deferred'[g] = deferred[g]
      BY <2>4, <3>1 DEF FinishDrain, TypeOK
    <3>3. ~ Draining(g)' /\ ~ Closing(g)'
      BY <1>2, <3>1, <3>2 DEF Draining, Closing
    <3>4. QED
      BY <1>2, <3>2, <3>3
  <2>5. ASSUME NEW t \in Threads, RunFinalizer(t) PROVE FALSE
    <3>1. target[t] \in Gens /\ g # target[t]
      BY <1>2, <2>5 DEF RunFinalizer, TypeOK, Closing
    <3>2. QED
      BY <1>2, <2>5, <3>1 DEF RunFinalizer, TypeOK, Closing, Draining
  <2>6. CASE UNCHANGED <<phase, target, closed, deferred>>
    BY <1>2, <2>6 DEF Draining, Closing
  <2>7. QED
    BY <2>1, <2>2, <2>3, <2>4, <2>5, <2>6
    DEF Next, vars, threadVars, recordVars, Publish, Lease, InterruptWait
<1>3. QED
  BY <1>1, <1>2
\* The exact count survives every step.
LEMMA CountStep == TypeOK /\ DepthBounded /\ CountExact /\ [Next]_vars => CountExact'
<1> SUFFICES ASSUME TypeOK, DepthBounded, CountExact, [Next]_vars PROVE CountExact'
  OBVIOUS
<1>1. CASE stack' = stack /\ activeLeases' = activeLeases
  BY <1>1, CountKept
<1>2. QED
  BY <1>1, CountAdds, CountRemoves
  DEF Next, vars, threadVars, recordVars, Publish, Retire, DrainAgain, InterruptWait,
      FinishDrain, RunFinalizer

\* A record in teardown only loses leases.
LEMMA NoNewLease ==
  ASSUME TypeOK, DepthBounded, [Next]_vars, NEW g \in Gens, Retired(g)
  PROVE  LeaseSet(g)' \subseteq LeaseSet(g)
<1>1. ASSUME NEW t \in Threads, Lease(t) PROVE LeaseSet(g)' = LeaseSet(g)
  <2>1. g # current
    BY <1>1 DEF Lease, Admitting, Retired
  <2>2. QED
    BY <1>1, <2>1, LeaseAdds
<1>2. ASSUME NEW t \in Threads, Release(t) PROVE LeaseSet(g)' \subseteq LeaseSet(g)
  BY <1>2, ReleaseRemoves
<1>3. CASE stack' = stack
  BY <1>3, SameLeases
<1>4. QED
  BY <1>1, <1>2, <1>3
  DEF Next, vars, threadVars, Publish, Retire, DrainAgain, InterruptWait, FinishDrain,
      RunFinalizer

\* A finalizer is taken only when the counter, hence the record, is free.
LEMMA ClosingFreeStep == LeaseInv /\ [Next]_vars => ClosingFree'
<1> SUFFICES ASSUME LeaseInv, [Next]_vars, NEW g \in Gens, Closing(g)' PROVE LeaseSet(g)' = {}
  BY DEF ClosingFree
<1> USE DEF LeaseInv
<1>1. CASE Closing(g)
  <2>1. LeaseSet(g) = {} /\ Retired(g)
    BY <1>1 DEF ClosingFree, OnlyRetired
  <2>2. QED
    BY <2>1, NoNewLease
<1>2. CASE ~ Closing(g)
  <2>0. CountExact'
    BY CountStep
  <2>1. ASSUME NEW t \in Threads, Release(t) PROVE activeLeases'[g] = 0
    <3>1. TakesDeferred(Innermost(t), LeaveTotal(activeLeases[Innermost(t)]))
      BY <1>2, <2>1 DEF Release, Closing
    <3>2. g = Innermost(t)
      BY <1>2, <2>1, <3>1 DEF Release, Closing, TypeOK
    <3>3. LeaveTotal(activeLeases[g]) = activeLeases'[g]
      BY <2>1, <3>2, CountRemoves
    <3>4. QED
      BY <3>1, <3>2, <3>3 DEF TakesDeferred
  <2>2. ASSUME NEW t \in Threads, FinishDrain(t) PROVE activeLeases'[g] = 0
    <3>1. /\ closed' = closed /\ target' = target /\ activeLeases' = activeLeases
          /\ \A u \in Threads : u # t => phase'[u] = phase[u]
          /\ phase'[t] = "close" => Unleased(target[t])
      BY <2>2 DEF FinishDrain, TypeOK
    <3>2. target[t] = g /\ phase'[t] = "close"
      BY <1>2, <3>1 DEF Closing
    <3>3. QED
      BY <3>1, <3>2 DEF Unleased
  <2>3. ASSUME NEW t \in Threads, RunFinalizer(t) PROVE FALSE
    <3>1. target[t] \in Gens /\ g # target[t]
      BY <1>2, <2>3 DEF RunFinalizer, TypeOK, Closing
    <3>2. QED
      BY <1>2, <2>3, <3>1 DEF RunFinalizer, TypeOK, Closing
  <2>4. ASSUME NEW t \in Threads, NEW h, NEW fin, BeginDrain(t, h, fin), closed' = closed
        PROVE FALSE
    BY <1>2, <2>4 DEF BeginDrain, Closing, TypeOK
  <2>5. ASSUME UNCHANGED <<phase, target, closed>> PROVE FALSE
    BY <1>2, <2>5 DEF Closing
  <2>6. activeLeases'[g] = 0
    BY <2>1, <2>2, <2>3, <2>4, <2>5
    DEF Next, vars, threadVars, recordVars, Publish, Lease, Retire, DrainAgain, InterruptWait
  <2>7. QED
    BY <2>0, <2>6, FS_EmptySet DEF CountExact
<1>3. QED
  BY <1>1, <1>2

\* The inductive invariant holds initially.
LEMMA LeaseInvInit == Init => LeaseInv
<1> SUFFICES ASSUME Init PROVE LeaseInv
  OBVIOUS
<1>1. TypeOK
  BY DEF Init, TypeOK, Gens, NoGen
<1>2. DepthBounded
  BY DEF Init, DepthBounded
<1>3. \A g : LeaseSet(g) = {}
  BY DEF Init, LeaseSet
<1>4. CountExact
  BY <1>3, FS_EmptySet DEF CountExact, Init
<1>5. OnlyRetired /\ ClosingFree
  BY <1>3 DEF OnlyRetired, ClosingFree, Init, Draining, Closing, NoGen
<1>6. QED
  BY <1>1, <1>2, <1>4, <1>5 DEF LeaseInv

\* The inductive invariant survives every step.
LEMMA LeaseInvStep == LeaseInv /\ [Next]_vars => LeaseInv'
  BY TypeStep, DepthStep, CountStep, OnlyRetiredStep, ClosingFreeStep DEF LeaseInv

\* The inductive invariant holds always.
LEMMA LeaseInvHolds == Spec => []LeaseInv
  BY LeaseInvInit, LeaseInvStep, PTL DEF Spec

\* No retired handle is closed while an SDK call that leased it is running, or
\* before such a call returns, for any number of threads and any nesting.
THEOREM NoCloseUnderLeaseHolds == Spec => []NoCloseUnderLease
<1>1. LeaseInv => NoCloseUnderLease
  <2> SUFFICES ASSUME LeaseInv, NEW g \in Gens, Closing(g), NEW t \in Threads,
                      NEW i \in DOMAIN stack[t], stack[t][i] = g
               PROVE  FALSE
    BY DEF NoCloseUnderLease
  <2>1. LeaseSet(g) = {}
    BY DEF LeaseInv, ClosingFree
  <2>2. stack[t] \in Seq(Gens) /\ Len(stack[t]) <= MaxDepth /\ Len(stack[t]) \in Nat
    BY DEF LeaseInv, TypeOK, DepthBounded
  <2>3. i \in 1..Len(stack[t]) /\ i \in 1..MaxDepth
    BY <2>2
  <2>4. <<t, i>> \in LeaseSet(g)
    BY <2>2, <2>3 DEF LeaseSet
  <2>5. QED
    BY <2>1, <2>4
<1>2. QED
  BY <1>1, LeaseInvHolds, PTL

\* A generation in teardown never admits another operation: its lease count
\* never grows, whatever the other threads do.
THEOREM DrainedNeverAdmitsHolds == Spec => DrainedNeverAdmits
<1>1. ASSUME LeaseInv, LeaseInv', [Next]_vars, NEW g \in Gens, Draining(g) \/ Closing(g)
      PROVE  activeLeases'[g] <= activeLeases[g]
  <2>1. LeaseSet(g)' \subseteq LeaseSet(g)
    BY <1>1, NoNewLease DEF LeaseInv, OnlyRetired
  <2>2. /\ IsFiniteSet(LeaseSet(g))
        /\ activeLeases[g] = Cardinality(LeaseSet(g))
        /\ activeLeases'[g] = Cardinality(LeaseSet(g)')
    BY <1>1 DEF LeaseInv, CountExact
  <2>3. QED
    BY <2>1, <2>2, FS_Subset
<1>2. LeaseInv /\ LeaseInv' /\ [Next]_vars =>
        [\A g \in Gens : Draining(g) \/ Closing(g) => activeLeases'[g] <= activeLeases[g]]_vars
  BY <1>1
<1>3. QED
  BY <1>2, LeaseInvHolds, PTL DEF Spec, DrainedNeverAdmits
-----------------------------------------------------------------------------
(***************************************************************************)
(* A finalizer is a token of its record: none before it is registered, and *)
(* then exactly one, which is deferred, in the hands of one thread, or     *)
(* spent.                                                                  *)
(***************************************************************************)
Unregistered(g) == closed[g] = 0 /\ deferred[g] = 0 /\ Closers(g) = {}
IsDeferred(g) == closed[g] = 0 /\ deferred[g] = 1 /\ Closers(g) = {}
InHand(g) == closed[g] = 0 /\ deferred[g] = 0 /\ \E t \in Threads : Closers(g) = {t}
Spent(g) == closed[g] = 1 /\ deferred[g] = 0 /\ Closers(g) = {}

OneToken ==
  \A g \in Gens :
    \/ Unregistered(g) /\ g \notin finRegistered
    \/ g \in finRegistered /\ (IsDeferred(g) \/ InHand(g) \/ Spent(g))

\* A step that moves no finalizer.
LEMMA TokenKept ==
  ASSUME OneToken, closed' = closed, deferred' = deferred, finRegistered' = finRegistered,
         \A g \in Gens : Closers(g)' = Closers(g)
  PROVE  OneToken'
  BY DEF OneToken, Unregistered, IsDeferred, InHand, Spent

\* A release hands a deferred finalizer to at most one thread.
LEMMA TokenRelease ==
  ASSUME TypeOK, OneToken, NEW t \in Threads, Release(t)
  PROVE  OneToken'
<1> DEFINE g == Innermost(t)
<1>0. g \in Gens /\ phase[t] = "run"
  BY InnermostType DEF Release
<1>1. CASE TakesDeferred(g, LeaveTotal(activeLeases[g]))
  <2>1. /\ deferred' = [deferred EXCEPT ![g] = 0]
        /\ phase' = [phase EXCEPT ![t] = "close"]
        /\ target' = [target EXCEPT ![t] = g]
        /\ closed' = closed /\ finRegistered' = finRegistered
    BY <1>1 DEF Release
  <2>2. IsDeferred(g) /\ g \in finRegistered
    BY <1>0, <1>1 DEF OneToken, TakesDeferred, Unregistered, InHand, Spent
  <2>3. \A h \in Gens : Closers(h)' = IF h = g THEN Closers(h) \cup {t} ELSE Closers(h)
    BY <1>0, <2>1 DEF Closers, TypeOK
  <2>4. ASSUME NEW h \in Gens, h = g
        PROVE  h \in finRegistered' /\ closed'[h] = 0 /\ deferred'[h] = 0 /\ Closers(h)' = {t}
    BY <1>0, <2>1, <2>2, <2>3, <2>4 DEF IsDeferred, TypeOK
  <2>5. ASSUME NEW h \in Gens, h # g
        PROVE  /\ closed'[h] = closed[h] /\ deferred'[h] = deferred[h]
               /\ Closers(h)' = Closers(h)
    BY <1>0, <2>1, <2>3, <2>5 DEF TypeOK
  <2>6. ASSUME NEW h \in Gens, h = g
        PROVE  h \in finRegistered' /\ InHand(h)'
    BY <2>4, <2>6 DEF InHand
  <2>7. QED
    BY <2>1, <2>5, <2>6 DEF OneToken, Unregistered, IsDeferred, InHand, Spent
<1>2. CASE ~ TakesDeferred(g, LeaveTotal(activeLeases[g]))
  <2>1. UNCHANGED <<deferred, phase, target, closed, finRegistered>>
    BY <1>2 DEF Release
  <2>2. QED
    BY <2>1, TokenKept DEF Closers
<1>3. QED
  BY <1>1, <1>2

\* A drain registers, defers or takes a finalizer, never two of these.
LEMMA TokenDrain ==
  ASSUME TypeOK, OneToken, NEW t \in Threads, FinishDrain(t)
  PROVE  OneToken'
<1> DEFINE g == target[t]
<1>0. g \in Gens /\ phase[t] = "drain" /\ target' = target /\ closed' = closed
  BY DEF FinishDrain, TypeOK
<1>1. CASE Registers(t, g)
  <2>0. g \notin finRegistered /\ finRegistered' = finRegistered \cup {g} /\ Unregistered(g)
    BY <1>0, <1>1 DEF FinishDrain, Registers, OneToken
  <2>1. CASE Unleased(g)
    <3>1. phase' = [phase EXCEPT ![t] = "close"] /\ deferred' = deferred
      BY <1>1, <2>1 DEF FinishDrain
    <3>2. \A h \in Gens : Closers(h)' = IF h = g THEN Closers(h) \cup {t} ELSE Closers(h)
      BY <1>0, <3>1 DEF Closers, TypeOK
    <3>3. ASSUME NEW h \in Gens, h = g PROVE h \in finRegistered' /\ InHand(h)'
      <4>1. Closers(h)' = {t}
        BY <2>0, <3>2, <3>3 DEF Unregistered
      <4>2. QED
        BY <1>0, <2>0, <3>1, <3>3, <4>1 DEF InHand, Unregistered
    <3>4. QED
      BY <1>0, <2>0, <3>1, <3>2, <3>3 DEF OneToken, Unregistered, IsDeferred, InHand, Spent
  <2>2. CASE ~ Unleased(g)
    <3>1. phase' = [phase EXCEPT ![t] = "run"] /\ deferred' = [deferred EXCEPT ![g] = @ + 1]
      BY <1>1, <2>2 DEF FinishDrain
    <3>2. \A h \in Gens : Closers(h)' = Closers(h)
      BY <1>0, <3>1 DEF Closers, TypeOK
    <3>3. ASSUME NEW h \in Gens, h = g PROVE h \in finRegistered' /\ IsDeferred(h)'
      <4>1. deferred'[h] = 1
        BY <1>0, <2>0, <3>1, <3>3 DEF Unregistered, TypeOK
      <4>2. QED
        BY <1>0, <2>0, <3>2, <3>3, <4>1 DEF IsDeferred, Unregistered
    <3>4. \A h \in Gens : h # g => deferred'[h] = deferred[h]
      BY <1>0, <3>1 DEF TypeOK
    <3>5. QED
      BY <1>0, <2>0, <3>2, <3>3, <3>4 DEF OneToken, Unregistered, IsDeferred, InHand, Spent
  <2>3. QED
    BY <2>1, <2>2
<1>2. CASE ~ Registers(t, g)
  <2>1. phase' = [phase EXCEPT ![t] = "run"] /\ UNCHANGED <<finRegistered, deferred>>
    BY <1>2 DEF FinishDrain
  <2>2. \A h \in Gens : Closers(h)' = Closers(h)
    BY <1>0, <2>1 DEF Closers, TypeOK
  <2>3. QED
    BY <1>0, <2>1, <2>2, TokenKept
<1>3. QED
  BY <1>1, <1>2

\* Running a finalizer uses it up.
LEMMA TokenFinalizer ==
  ASSUME TypeOK, OneToken, NEW t \in Threads, RunFinalizer(t)
  PROVE  OneToken'
<1> DEFINE g == target[t]
<1>1. /\ g \in Gens /\ phase[t] = "close"
      /\ closed' = [closed EXCEPT ![g] = @ + 1]
      /\ phase' = [phase EXCEPT ![t] = "run"]
      /\ UNCHANGED <<target, deferred, finRegistered>>
  BY DEF RunFinalizer, TypeOK
<1>2. t \in Closers(g)
  BY <1>1 DEF Closers
<1>3. InHand(g) /\ g \in finRegistered /\ Closers(g) = {t}
  BY <1>1, <1>2 DEF OneToken, Unregistered, IsDeferred, InHand, Spent
<1>4. \A h \in Gens : Closers(h)' = IF h = g THEN Closers(h) \ {t} ELSE Closers(h)
  BY <1>1 DEF Closers, TypeOK
<1>5. ASSUME NEW h \in Gens, h = g PROVE h \in finRegistered' /\ Spent(h)'
  <2>1. closed'[h] = 1 /\ Closers(h)' = {}
    BY <1>1, <1>3, <1>4, <1>5 DEF InHand, TypeOK
  <2>2. QED
    BY <1>1, <1>3, <1>5, <2>1 DEF Spent, InHand
<1>6. \A h \in Gens : h # g => closed'[h] = closed[h]
  BY <1>1 DEF TypeOK
<1>7. QED
  BY <1>1, <1>4, <1>5, <1>6 DEF OneToken, Unregistered, IsDeferred, InHand, Spent

\* There is never more than one finalizer per record.
LEMMA TokenStep == TypeOK /\ OneToken /\ [Next]_vars => OneToken'
<1> SUFFICES ASSUME TypeOK, OneToken, [Next]_vars PROVE OneToken'
  OBVIOUS
<1>1. ASSUME NEW t \in Threads, phase[t] = "run", NEW h, NEW fin, BeginDrain(t, h, fin),
             UNCHANGED <<closed, deferred, finRegistered>>
      PROVE OneToken'
  <2>1. \A k \in Gens : Closers(k)' = Closers(k)
    BY <1>1 DEF BeginDrain, Closers, TypeOK
  <2>2. QED
    BY <1>1, <2>1, TokenKept
<1>2. CASE UNCHANGED <<phase, target, closed, deferred, finRegistered>>
  BY <1>2, TokenKept DEF Closers
<1>3. ASSUME NEW t \in Threads, NEW fin \in BOOLEAN, Retire(t, fin) PROVE OneToken'
  BY <1>1, <1>3 DEF Retire
<1>4. ASSUME NEW t \in Threads, NEW h \in Gens, NEW fin \in BOOLEAN, DrainAgain(t, h, fin)
      PROVE  OneToken'
  BY <1>1, <1>4 DEF DrainAgain, recordVars
<1>5. QED
  BY <1>2, <1>3, <1>4, TokenRelease, TokenDrain, TokenFinalizer
  DEF Next, vars, threadVars, recordVars, Publish, Lease, InterruptWait

\* The handles of a record are closed at most once, however many teardown
\* callers present it and whichever release inherits the deferred finalizer.
THEOREM ClosedAtMostOnceHolds == Spec => []ClosedAtMostOnce
<1>1. Init => OneToken
  BY DEF Init, OneToken, Unregistered, Closers
<1>2. TypeOK /\ OneToken => ClosedAtMostOnce
  <2> SUFFICES ASSUME TypeOK, OneToken, NEW g \in Gens
               PROVE  closed[g] + deferred[g] + Cardinality(Closers(g)) <= 1
    BY DEF ClosedAtMostOnce
  <2>1. CASE Closers(g) = {}
    <3>1. Cardinality(Closers(g)) = 0
      BY <2>1, FS_EmptySet
    <3>2. closed[g] + deferred[g] <= 1 /\ closed[g] \in Nat /\ deferred[g] \in Nat
      BY <2>1 DEF OneToken, Unregistered, IsDeferred, InHand, Spent, TypeOK
    <3>3. QED
      BY <3>1, <3>2
  <2>2. CASE InHand(g)
    <3>1. Cardinality(Closers(g)) = 1
      BY <2>2, FS_Singleton DEF InHand
    <3>2. QED
      BY <2>2, <3>1 DEF InHand
  <2>3. QED
    BY <2>1, <2>2 DEF OneToken, Unregistered, IsDeferred, Spent
<1>3. QED
  BY <1>1, <1>2, TokenStep, GateTypeCorrect, PTL DEF Spec

\* The handles of every generation are protected, for any threads, generations
\* and depth of nesting.
THEOREM HandlesAreProtected == Spec => []HandlesProtected
  BY NoCloseUnderLeaseHolds, ClosedAtMostOnceHolds, PTL DEF HandlesProtected

----------------------------------------------------------------------------
(* The five stores: what the server holds and what the threads were told. *)

QueueEntries == [msg : Messages, pri : StorePriorities, seq : Nat]
StoredItems == [key : Keys, rev : Nat, expires : Nat]

ServerTypes ==
  /\ broker \in [queue : SUBSET QueueEntries, pushes : Nat, members : SUBSET {"item"},
                 writes : Nat, domain : {"none", "ours", "other"},
                 kv : [Keys -> SUBSET StoredItems], now : Nat]
  /\ hist \in [accepted : SUBSET Messages, given : [Messages -> Nat], lost : SUBSET Messages,
               stored : SUBSET StoredItems, ended : SUBSET StoredItems]

\* A message has one entry in the queue, and answers are only about messages
\* that were stored.
PopsSound ==
  /\ \A e, f \in broker.queue : e.msg = f.msg => e = f
  /\ \A e \in broker.queue : e.msg \in hist.accepted
  /\ \A m \in Messages : m \notin hist.accepted => hist.given[m] = 0 /\ m \notin hist.lost
  /\ Server!PopsAccounted

\* A key has one value.
KeptSound ==
  /\ \A k \in Keys : \A x, y \in broker.kv[k] : x = y
  /\ Server!StoredIsKept

ServerInv == ServerTypes /\ PopsSound /\ KeptSound

\* A client that was closed is neither published nor in use, and the next one
\* is new; a thread with no lease uses none.
Handles ==
  /\ conn \in [gen : Nat, made : Nat, leaving : BOOLEAN, retired : Nat, epoch : Nat,
               closed : SUBSET Nat]
  /\ conn.gen <= conn.made /\ conn.retired <= conn.made
  /\ \A g \in conn.closed : g # 0 /\ g <= conn.made
  /\ conn.gen \notin conn.closed
  /\ conn.retired # 0 => conn.gen # conn.retired
  /\ op = [c \in Clients |-> op[c]]
  /\ \A c \in Clients : /\ op[c].gen \in Nat /\ op[c].gen \notin conn.closed
                        /\ op[c].gen <= conn.made
                        /\ op[c].kind \in {"idle", "connect"} => op[c].gen = 0

\* The fields of an operation that waits for something: what a read found
\* expired stays so.
Shaped(r) ==
  /\ r.kind = "connect" /\ which \in {"redis", "elasticsearch"} =>
       r \in [kind : {"connect"}, gen : {0}, epoch : Nat, then : {"use", "idle"}]
  /\ r.kind \in {"wants", "connected"} =>
       r \in [kind : {"wants", "connected"}, gen : {0}, epoch : Nat, then : {"use", "idle"}]
  /\ r.kind = "clear" => r \in [kind : {"clear"}, gen : Nat, todo : SUBSET StoredItems]
  /\ r.kind = "reap" =>
       r.key \in Keys /\ \A s \in r.seen : s.expires \in Nat /\ Server!Expired(s)

OpsShaped == \A c \in Clients : Shaped(op[c])

StoreInv == ServerInv /\ Handles /\ OpsShaped

LEMMA ServerStart ==
  ASSUME NEW d \in SUBSET {"none", "ours", "other"}, Server!Starts(d)
  PROVE  ServerInv
  BY DEF Server!Starts, Server!EmptyServer, ServerInv, ServerTypes, PopsSound, KeptSound,
         Server!PopsAccounted, Server!StoredIsKept, Server!Never

\* A message is stored, or not.
LEMMA EnqueuesKeeps ==
  ASSUME ServerInv, NEW m \in Messages, NEW p \in StorePriorities, NEW stored \in BOOLEAN,
         Server!Enqueues(m, p, stored)
  PROVE  ServerInv' /\ broker.now <= broker'.now
  <1> USE DEF Server!Enqueues, ServerInv, ServerTypes, QueueEntries, StoredItems
  <1>1. ServerTypes' /\ broker.now <= broker'.now
    <2>1. CASE stored
      <3> DEFINE e == [msg |-> m, pri |-> p, seq |-> broker.pushes]
      <3>1. /\ hist' = [hist EXCEPT !.accepted = @ \union {m}]
            /\ broker' = [broker EXCEPT !.pushes = @ + 1, !.queue = @ \union {e}]
        BY <2>1, Zenon DEF Server!Enqueues
      <3>2. e \in QueueEntries
        OBVIOUS
      <3> HIDE DEF e, Server!Enqueues
      <3>3. broker.queue \union {e} \in SUBSET QueueEntries /\ hist.accepted \union {m} \in SUBSET Messages
            /\ broker.pushes + 1 \in Nat
        BY <3>2
      <3>4. broker'.now = broker.now /\ broker.now \in Nat
        BY <3>1
      <3> HIDE DEF QueueEntries, StoredItems
      <3>5. hist' \in [accepted : SUBSET Messages, given : [Messages -> Nat], lost : SUBSET Messages,
                       stored : SUBSET StoredItems, ended : SUBSET StoredItems]
        BY <3>1, <3>3
      <3>6. broker' \in [queue : SUBSET QueueEntries, pushes : Nat, members : SUBSET {"item"},
                         writes : Nat, domain : {"none", "ours", "other"},
                         kv : [Keys -> SUBSET StoredItems], now : Nat]
        BY <3>1, <3>3
      <3> QED BY <3>4, <3>5, <3>6
    <2>2. CASE ~stored
      BY <2>2
    <2> QED BY <2>1, <2>2
  <1>2. PopsSound'
    <2>1. CASE stored
      <3> DEFINE e == [msg |-> m, pri |-> p, seq |-> broker.pushes]
      <3>1. /\ hist' = [hist EXCEPT !.accepted = @ \union {m}] /\ m \notin hist.accepted
            /\ broker' = [broker EXCEPT !.pushes = @ + 1, !.queue = @ \union {e}]
        BY <2>1, Zenon DEF Server!Enqueues
      <3>2. e.msg = m
        OBVIOUS
      <3>3. broker'.queue = broker.queue \union {e} /\ hist'.accepted = hist.accepted \union {m}
            /\ hist'.given = hist.given /\ hist'.lost = hist.lost
        BY <3>1
      <3> HIDE DEF e, Server!Enqueues
      <3>4. m \notin {f.msg : f \in broker.queue} /\ hist.given[m] = 0 /\ m \notin hist.lost
        BY <3>1 DEF PopsSound
      <3>5. \A n \in hist.accepted : n # m /\
              (n \in {f.msg : f \in broker'.queue} <=> n \in {f.msg : f \in broker.queue})
        BY <3>1, <3>2, <3>3
      <3>6. m \in {f.msg : f \in broker'.queue}
        BY <3>2, <3>3
      <3>7. Server!PopsAccounted'
        BY <3>3, <3>4, <3>5, <3>6 DEF PopsSound, Server!PopsAccounted
      <3> QED BY <3>1, <3>2, <3>3, <3>4, <3>7 DEF PopsSound
    <2>2. CASE ~stored
      BY <2>2 DEF PopsSound, Server!PopsAccounted
    <2> QED BY <2>1, <2>2
  <1>3. KeptSound'
    BY <1>1 DEF KeptSound, Server!StoredIsKept, Server!Present, Server!Expired
  <1> QED BY <1>1, <1>2, <1>3

\* An entry leaves the queue.
LEMMA DequeuesKeeps ==
  ASSUME ServerInv, NEW e \in broker.queue, NEW heard \in BOOLEAN, Server!Dequeues(e, heard)
  PROVE  ServerInv' /\ broker.now <= broker'.now
  <1> USE DEF Server!Dequeues, ServerInv, ServerTypes, QueueEntries, StoredItems
  <1>1. ServerTypes' /\ broker.now <= broker'.now
    OBVIOUS
  <1>2. PopsSound'
    BY <1>1 DEF PopsSound, Server!PopsAccounted
  <1>3. KeptSound'
    BY <1>1 DEF KeptSound, Server!StoredIsKept, Server!Present, Server!Expired
  <1> QED BY <1>1, <1>2, <1>3

\* A part of the queue is cleared.
LEMMA ClearsSomeKeeps ==
  ASSUME ServerInv, NEW E \in SUBSET broker.queue,
         broker' = [broker EXCEPT !.queue = @ \ E],
         hist' = [hist EXCEPT !.lost = @ \union {e.msg : e \in E}]
  PROVE  ServerInv' /\ broker.now <= broker'.now
  <1> USE DEF ServerInv, ServerTypes, QueueEntries, StoredItems
  <1>1. ServerTypes' /\ broker.now <= broker'.now
    OBVIOUS
  <1>2. PopsSound'
    BY <1>1 DEF PopsSound, Server!PopsAccounted
  <1>3. KeptSound'
    BY <1>1 DEF KeptSound, Server!StoredIsKept, Server!Present, Server!Expired
  <1> QED BY <1>1, <1>2, <1>3

\* The set changes.
LEMMA MembersKeeps ==
  ASSUME ServerInv, Server!Adds \/ Server!Removes
  PROVE  ServerInv' /\ broker.now <= broker'.now
  <1> USE DEF Server!Adds, Server!Removes, ServerInv, ServerTypes, QueueEntries, StoredItems
  <1>1. ServerTypes' /\ broker.now <= broker'.now
    OBVIOUS
  <1>2. PopsSound'
    BY <1>1 DEF PopsSound, Server!PopsAccounted
  <1>3. KeptSound'
    BY <1>1 DEF KeptSound, Server!StoredIsKept, Server!Present, Server!Expired
  <1> QED BY <1>1, <1>2, <1>3

\* The physical names are claimed.
LEMMA DomainKeeps ==
  ASSUME ServerInv, broker' = [broker EXCEPT !.domain = "ours"], UNCHANGED hist
  PROVE  ServerInv' /\ broker.now <= broker'.now
  <1> USE DEF ServerInv, ServerTypes, QueueEntries, StoredItems
  <1>1. ServerTypes' /\ broker.now <= broker'.now
    OBVIOUS
  <1>2. PopsSound'
    BY <1>1 DEF PopsSound, Server!PopsAccounted
  <1>3. KeptSound'
    BY <1>1 DEF KeptSound, Server!StoredIsKept, Server!Present, Server!Expired
  <1> QED BY <1>1, <1>2, <1>3

\* Time passes.
LEMMA ServerTickKeeps ==
  ASSUME ServerInv, Server!Tick
  PROVE  ServerInv' /\ broker.now <= broker'.now
  <1> USE DEF Server!Tick, ServerInv, ServerTypes, QueueEntries, StoredItems
  <1>1. ServerTypes' /\ broker.now <= broker'.now
    OBVIOUS
  <1>2. PopsSound'
    BY <1>1 DEF PopsSound, Server!PopsAccounted
  <1>3. KeptSound'
    BY <1>1 DEF KeptSound, Server!StoredIsKept, Server!Present, Server!Expired
  <1> QED BY <1>1, <1>2, <1>3

\* A value is written.
LEMMA WritesKeeps ==
  ASSUME ServerInv, NEW k \in Keys, NEW ttl \in {0, 1}, Server!Writes(k, ttl)
  PROVE  ServerInv' /\ broker.now <= broker'.now
  <1> USE DEF Server!Writes, Server!Present, Server!Never, ServerInv, ServerTypes, QueueEntries, StoredItems
  <1>1. ServerTypes' /\ broker.now <= broker'.now
    <2> DEFINE i == [key |-> k, rev |-> broker.writes + 1,
                     expires |-> IF ttl = Server!Never THEN Server!Never ELSE broker.now + ttl]
    <2>1. i \in StoredItems
      OBVIOUS
    <2>2. /\ broker' = [broker EXCEPT !.writes = @ + 1, !.kv[k] = {i}]
          /\ hist' = [hist EXCEPT !.stored = @ \union {i}, !.ended = @ \union broker.kv[k]]
      BY Zenon DEF Server!Writes, Server!Present
    <2> HIDE DEF i, Server!Writes
    <2>3. /\ hist.stored \union {i} \in SUBSET StoredItems /\ hist.ended \union broker.kv[k] \in SUBSET StoredItems
          /\ [broker.kv EXCEPT ![k] = {i}] \in [Keys -> SUBSET StoredItems] /\ broker.writes + 1 \in Nat
      BY <2>1
    <2>4. broker'.now = broker.now /\ broker.now \in Nat
      BY <2>2
    <2> HIDE DEF StoredItems
    <2>5. /\ broker' = [broker EXCEPT !.writes = @ + 1, !.kv = [broker.kv EXCEPT ![k] = {i}]]
      BY <2>2
    <2>6. ServerTypes'
      BY <2>2, <2>3, <2>5
    <2> QED BY <2>4, <2>6
  <1>2. PopsSound'
    BY <1>1 DEF PopsSound, Server!PopsAccounted
  <1>3. KeptSound'
    BY <1>1 DEF KeptSound, Server!StoredIsKept, Server!Present, Server!Expired
  <1> QED BY <1>1, <1>2, <1>3

\* Keys are deleted.
LEMMA DeletesKeeps ==
  ASSUME ServerInv, NEW K \in SUBSET Keys, Server!Deletes(K)
  PROVE  ServerInv' /\ broker.now <= broker'.now
  <1> USE DEF Server!Deletes, Server!Present, ServerInv, ServerTypes, QueueEntries, StoredItems
  <1>1. ServerTypes' /\ broker.now <= broker'.now
    OBVIOUS
  <1>2. PopsSound'
    BY <1>1 DEF PopsSound, Server!PopsAccounted
  <1>3. KeptSound'
    BY <1>1 DEF KeptSound, Server!StoredIsKept, Server!Present, Server!Expired
  <1> QED BY <1>1, <1>2, <1>3

\* Expired values are removed.
LEMMA ReapsKeeps ==
  ASSUME ServerInv, NEW k \in Keys, NEW items, Server!Reaps(k, items),
         \A x \in items : x \in broker.kv[k] => Server!Expired(x)
  PROVE  ServerInv' /\ broker.now <= broker'.now
  <1> USE DEF Server!Reaps, ServerInv, ServerTypes, QueueEntries, StoredItems
  <1>1. ServerTypes' /\ broker.now <= broker'.now
    OBVIOUS
  <1>2. PopsSound'
    BY <1>1 DEF PopsSound, Server!PopsAccounted
  <1>3. KeptSound'
    BY <1>1 DEF KeptSound, Server!StoredIsKept, Server!Present, Server!Expired
  <1> QED BY <1>1, <1>2, <1>3

\* An item is deleted.
LEMMA DeleteItemKeeps ==
  ASSUME ServerInv, NEW i \in StoredItems, i \in broker.kv[i.key],
         broker' = [broker EXCEPT !.kv[i.key] = @ \ {i}],
         hist' = [hist EXCEPT !.ended = @ \union {i}]
  PROVE  ServerInv' /\ broker.now <= broker'.now
  <1> USE DEF ServerInv, ServerTypes, QueueEntries, StoredItems
  <1>1. ServerTypes' /\ broker.now <= broker'.now
    OBVIOUS
  <1>2. PopsSound'
    BY <1>1 DEF PopsSound, Server!PopsAccounted
  <1>3. KeptSound'
    BY <1>1 DEF KeptSound, Server!StoredIsKept, Server!Present, Server!Expired
  <1> QED BY <1>1, <1>2, <1>3

----------------------------------------------------------------------------
(* A step of a server, and the threads and clients that take it. *)

ServerStep ==
  \/ UNCHANGED <<broker, hist>>
  \/ \E m \in Messages, p \in StorePriorities, stored \in BOOLEAN : Server!Enqueues(m, p, stored)
  \/ \E e \in broker.queue, heard \in BOOLEAN : Server!Dequeues(e, heard)
  \/ \E E \in SUBSET broker.queue : /\ broker' = [broker EXCEPT !.queue = @ \ E]
                                    /\ hist' = [hist EXCEPT !.lost = @ \union {e.msg : e \in E}]
  \/ Server!Adds \/ Server!Removes
  \/ broker' = [broker EXCEPT !.domain = "ours"] /\ UNCHANGED hist
  \/ Server!Tick
  \/ \E k \in Keys, ttl \in {0, 1} : Server!Writes(k, ttl)
  \/ \E K \in SUBSET Keys : Server!Deletes(K)
  \/ \E k \in Keys : \E items : /\ Server!Reaps(k, items)
                                /\ \A x \in items : x \in broker.kv[k] => Server!Expired(x)
  \/ \E i \in StoredItems : /\ i \in broker.kv[i.key]
                            /\ broker' = [broker EXCEPT !.kv[i.key] = @ \ {i}]
                            /\ hist' = [hist EXCEPT !.ended = @ \union {i}]

LEMMA ServerStepKeeps ==
  ASSUME ServerInv, ServerStep
  PROVE  ServerInv' /\ broker.now <= broker'.now
  <1>1. CASE UNCHANGED <<broker, hist>>
    <2>1. broker.now <= broker'.now
      BY <1>1 DEF ServerInv, ServerTypes
    <2>2. ServerTypes' /\ PopsSound'
      BY <1>1 DEF ServerInv, ServerTypes, PopsSound, Server!PopsAccounted
    <2>3. KeptSound'
      BY <1>1 DEF ServerInv, KeptSound, Server!StoredIsKept, Server!Present, Server!Expired
    <2> QED BY <2>1, <2>2, <2>3 DEF ServerInv
  <1>2. CASE \E m \in Messages, p \in StorePriorities, stored \in BOOLEAN : Server!Enqueues(m, p, stored)
    BY <1>2, EnqueuesKeeps
  <1>3. CASE \E e \in broker.queue, heard \in BOOLEAN : Server!Dequeues(e, heard)
    BY <1>3, DequeuesKeeps
  <1>4. CASE \E E \in SUBSET broker.queue : /\ broker' = [broker EXCEPT !.queue = @ \ E]
                                            /\ hist' = [hist EXCEPT !.lost = @ \union {e.msg : e \in E}]
    BY <1>4, ClearsSomeKeeps
  <1>5. CASE Server!Adds \/ Server!Removes
    BY <1>5, MembersKeeps
  <1>6. CASE broker' = [broker EXCEPT !.domain = "ours"] /\ UNCHANGED hist
    BY <1>6, DomainKeeps
  <1>7. CASE Server!Tick
    BY <1>7, ServerTickKeeps
  <1>8. CASE \E k \in Keys, ttl \in {0, 1} : Server!Writes(k, ttl)
    BY <1>8, WritesKeeps
  <1>9. CASE \E K \in SUBSET Keys : Server!Deletes(K)
    BY <1>9, DeletesKeeps
  <1>10. CASE \E k \in Keys : \E items : /\ Server!Reaps(k, items)
                                         /\ \A x \in items : x \in broker.kv[k] => Server!Expired(x)
    BY <1>10, ReapsKeeps
  <1>11. CASE \E i \in StoredItems : /\ i \in broker.kv[i.key]
                                     /\ broker' = [broker EXCEPT !.kv[i.key] = @ \ {i}]
                                     /\ hist' = [hist EXCEPT !.ended = @ \union {i}]
    BY <1>11, DeleteItemKeeps
  <1> QED
    BY <1>1, <1>2, <1>3, <1>4, <1>5, <1>6, <1>7, <1>8, <1>9, <1>10, <1>11 DEF ServerStep

\* What has expired stays so.
LEMMA StillExpired ==
  ASSUME ServerInv, ServerInv', broker.now <= broker'.now
  PROVE  \A s : s.expires \in Nat /\ Server!Expired(s) =>
                  s.expires # 0 /\ s.expires <= broker'.now
  BY DEF Server!Expired, Server!Never, ServerInv, ServerTypes

\* A thread goes on, with no client, with its own or with the published one.
LEMMA ThreadGoesOn ==
  ASSUME StoreInv, ServerStep, which' = which, conn' = conn,
         NEW c \in Clients, NEW r, op' = [op EXCEPT ![c] = r],
         r.gen \in {0, op[c].gen, conn.gen}, r.kind \in {"idle", "connect"} => r.gen = 0,
         Shaped(r)
  PROVE  StoreInv'
  <1>1. op' = [x \in Clients |-> op'[x]] /\ op'[c] = r /\ \A x \in Clients : x # c => op'[x] = op[x]
    BY DEF StoreInv, Handles
  <1>2. Handles'
    BY <1>1 DEF StoreInv, Handles
  <1>3. ServerInv' /\ broker.now <= broker'.now
    BY ServerStepKeeps DEF StoreInv
  <1>4. \A s : s.expires \in Nat /\ Server!Expired(s) => s.expires # 0 /\ s.expires <= broker'.now
    BY <1>3, StillExpired DEF StoreInv
  <1>5. OpsShaped'
    BY <1>1, <1>4, Zenon DEF StoreInv, OpsShaped, Shaped, Server!Expired, Server!Never
  <1> QED BY <1>2, <1>3, <1>5 DEF StoreInv

\* The operation of a thread ends.
LEMMA ThreadEnds ==
  ASSUME StoreInv, ServerStep, which' = which, conn' = conn,
         NEW c \in Clients, op' = [op EXCEPT ![c] = [kind |-> "idle", gen |-> 0]]
  PROVE  StoreInv'
  <1> DEFINE r == [kind |-> "idle", gen |-> 0]
  <1>1. r.kind = "idle" /\ r.gen = 0 /\ Shaped(r)
    BY DEF Shaped
  <1> HIDE DEF r
  <1>2. op' = [op EXCEPT ![c] = r]
    BY DEF r
  <1> QED BY <1>1, <1>2, ThreadGoesOn

\* No thread takes part in the step.
LEMMA ThreadsRest ==
  ASSUME StoreInv, ServerStep, which' = which, UNCHANGED <<conn, op>>
  PROVE  StoreInv'
  <1>1. ServerInv' /\ broker.now <= broker'.now
    BY ServerStepKeeps DEF StoreInv
  <1>2. \A s : s.expires \in Nat /\ Server!Expired(s) => s.expires # 0 /\ s.expires <= broker'.now
    BY <1>1, StillExpired DEF StoreInv
  <1>3. OpsShaped'
    BY <1>2, Zenon DEF StoreInv, OpsShaped, Shaped, Server!Expired, Server!Never
  <1>4. Handles'
    BY DEF StoreInv, Handles
  <1> QED BY <1>1, <1>3, <1>4 DEF StoreInv

\* A new client is published, and the thread that built it goes on.
LEMMA ClientPublished ==
  ASSUME StoreInv, ServerStep, which' = which, NEW c \in Clients, NEW r,
         conn' = [conn EXCEPT !.gen = conn.made + 1, !.made = @ + 1],
         op' = [op EXCEPT ![c] = r],
         r.gen \in {0, conn.made + 1}, r.kind \in {"idle", "connect"} => r.gen = 0,
         Shaped(r)
  PROVE  StoreInv'
  <1>1. op' = [x \in Clients |-> op'[x]] /\ op'[c] = r /\ \A x \in Clients : x # c => op'[x] = op[x]
    BY DEF StoreInv, Handles
  <1>2. Handles'
    <2>0. /\ conn \in [gen : Nat, made : Nat, leaving : BOOLEAN, retired : Nat, epoch : Nat,
                       closed : SUBSET Nat]
          /\ conn.made + 1 \in Nat /\ conn.retired <= conn.made
      BY DEF StoreInv, Handles
    <2>1. /\ conn' \in [gen : Nat, made : Nat, leaving : BOOLEAN, retired : Nat, epoch : Nat,
                        closed : SUBSET Nat]
          /\ conn'.gen = conn.made + 1 /\ conn'.made = conn.made + 1 /\ conn.made \in Nat
          /\ conn'.closed = conn.closed /\ conn'.retired = conn.retired /\ conn.closed \in SUBSET Nat
          /\ conn.retired \in Nat /\ conn.retired <= conn.made
      BY <2>0
    <2>2. \A g \in conn.closed : g \in Nat /\ g # 0 /\ g <= conn.made
      BY <2>1 DEF StoreInv, Handles
    <2>3. \A x \in Clients : op[x].gen \in Nat /\ op[x].gen <= conn.made
      BY DEF StoreInv, Handles
    <2>4. conn.made + 1 \notin conn.closed /\ 0 \notin conn.closed
      BY <2>1, <2>2
    <2>5. \A x \in Clients : /\ op'[x].gen \in Nat /\ op'[x].gen \notin conn'.closed
                             /\ op'[x].gen <= conn'.made
                             /\ op'[x].kind \in {"idle", "connect"} => op'[x].gen = 0
      BY <1>1, <2>1, <2>3, <2>4 DEF StoreInv, Handles
    <2>6. /\ conn'.gen <= conn'.made /\ conn'.retired <= conn'.made /\ conn'.gen # conn'.retired
          /\ \A g \in conn'.closed : g # 0 /\ g <= conn'.made
          /\ conn'.gen \notin conn'.closed
      BY <2>1, <2>2, <2>4
    <2> QED BY <1>1, <2>1, <2>5, <2>6 DEF Handles
  <1>3. ServerInv' /\ broker.now <= broker'.now
    BY ServerStepKeeps DEF StoreInv
  <1>4. \A s : s.expires \in Nat /\ Server!Expired(s) => s.expires # 0 /\ s.expires <= broker'.now
    BY <1>3, StillExpired DEF StoreInv
  <1>5. OpsShaped'
    BY <1>1, <1>4, Zenon DEF StoreInv, OpsShaped, Shaped, Server!Expired, Server!Never
  <1> QED BY <1>2, <1>3, <1>5 DEF StoreInv

\* The client is withdrawn, or one that nobody uses is closed.
LEMMA ClientWithdrawn ==
  ASSUME StoreInv, UNCHANGED <<which, broker, hist, op>>,
         conn' \in [gen : Nat, made : Nat, leaving : BOOLEAN, retired : Nat, epoch : Nat,
                    closed : SUBSET Nat],
         conn'.made = conn.made, conn'.gen \in {0, conn.gen},
         conn'.retired \in {0, conn.retired, conn.gen},
         conn'.retired # 0 => conn'.gen # conn'.retired,
         \A g \in conn'.closed : \/ g \in conn.closed
                                 \/ /\ g # 0 /\ g \in {conn.gen, conn.retired} /\ g # conn'.gen
                                    /\ \A c \in Clients : op[c].gen # g
  PROVE  StoreInv'
  <1>1. Handles'
    <2>1. /\ conn.gen \in Nat /\ conn.made \in Nat /\ conn.retired \in Nat /\ conn.closed \in SUBSET Nat
      BY DEF StoreInv, Handles
    <2>2. \A g \in conn'.closed : g # 0 /\ g <= conn'.made
      BY <2>1 DEF StoreInv, Handles
    <2>3. conn'.gen <= conn'.made /\ conn'.retired <= conn'.made
      BY <2>1 DEF StoreInv, Handles
    <2>4. conn'.gen \notin conn'.closed
      BY <2>1, <2>2 DEF StoreInv, Handles
    <2>5. ASSUME NEW c \in Clients, op'[c].gen \in conn'.closed PROVE FALSE
      <3>1. op'[c].gen = op[c].gen /\ op[c].gen \notin conn.closed
        BY DEF StoreInv, Handles
      <3> QED BY <2>5, <3>1
    <2>6. /\ op' = op /\ op = [c \in Clients |-> op[c]]
          /\ \A c \in Clients : /\ op[c].gen \in Nat /\ op[c].gen <= conn.made
                                /\ op[c].kind \in {"idle", "connect"} => op[c].gen = 0
      BY DEF StoreInv, Handles
    <2> QED BY <2>2, <2>3, <2>4, <2>5, <2>6 DEF Handles
  <1>2. ServerInv'
    BY ServerStepKeeps DEF StoreInv, ServerStep
  <1>3. OpsShaped'
    BY Zenon DEF StoreInv, OpsShaped, Shaped, Server!Expired
  <1> QED BY <1>1, <1>2, <1>3 DEF StoreInv


----------------------------------------------------------------------------
(* The five stores, action by action. *)

\* Redis: connects race, and a disconnect withdraws the client first.
LEMMA RedisStep ==
  ASSUME StoreInv, which = "redis", which' = which, Redis!Next
  PROVE  StoreInv'
  <1>1. ASSUME NEW c \in Clients, NEW then \in {"use", "idle"}, Redis!ConnectBegin(c, then) PROVE StoreInv'
    <2> DEFINE r == [kind |-> "connect", gen |-> 0, epoch |-> conn.epoch, then |-> then]
    <2>1. op' = [op EXCEPT ![c] = r] /\ UNCHANGED <<conn, broker, hist>>
      BY <1>1, Zenon DEF Redis!ConnectBegin, Redis!NoGen
    <2>2. r.kind \in {"connect", "wants"} /\ r.gen = 0 /\ Shaped(r)
      BY DEF Shaped, StoreInv, Handles
    <2> HIDE DEF r
    <2> QED BY <2>1, <2>2, ThreadGoesOn DEF ServerStep
  <1>2. ASSUME NEW c \in Clients, Redis!ConnectDone(c) PROVE StoreInv'
    <2>1. /\ op[c].kind = "connect" /\ UNCHANGED <<broker, hist>>
          /\ conn' = [conn EXCEPT !.gen = conn.made + 1, !.made = @ + 1]
          /\ op' = [op EXCEPT ![c] = IF op[c].then = "idle" THEN [kind |-> "idle", gen |-> 0]
                                     ELSE [kind |-> op[c].then, gen |-> conn.made + 1]]
      BY <1>2, Zenon DEF Redis!ConnectDone, Redis!Continues, Redis!Idle, Redis!NoGen
    <2>2. op[c].then \in {"use", "idle"}
      BY <2>1 DEF StoreInv, OpsShaped, Shaped
    <2>3. ServerStep
      BY <2>1 DEF ServerStep
    <2>4. CASE op[c].then = "idle"
      <3> DEFINE r == [kind |-> "idle", gen |-> 0]
      <3>1. r.kind = "idle" /\ r.gen = 0 /\ Shaped(r) /\ op' = [op EXCEPT ![c] = r]
        BY <2>1, <2>4 DEF Shaped
      <3> HIDE DEF r
      <3> QED BY <2>1, <2>3, <3>1, ClientPublished
    <2>5. CASE op[c].then = "use"
      <3> DEFINE r == [kind |-> "use", gen |-> conn.made + 1]
      <3>1. r.kind = "use" /\ r.gen = conn.made + 1 /\ Shaped(r) /\ op' = [op EXCEPT ![c] = r]
        BY <2>1, <2>5 DEF Shaped
      <3> HIDE DEF r
      <3> QED BY <2>1, <2>3, <3>1, ClientPublished
    <2> QED BY <2>2, <2>4, <2>5
  <1>3. ASSUME NEW c \in Clients, Redis!ConnectJoins(c) PROVE StoreInv'
    <2>1. /\ op[c].kind = "connect" /\ UNCHANGED <<conn, broker, hist>>
          /\ op' = [op EXCEPT ![c] = IF op[c].then = "idle" THEN [kind |-> "idle", gen |-> 0]
                                     ELSE [kind |-> op[c].then, gen |-> conn.gen]]
      BY <1>3, Zenon DEF Redis!ConnectJoins, Redis!Continues, Redis!Idle, Redis!NoGen
    <2>2. op[c].then \in {"use", "idle"}
      BY <2>1 DEF StoreInv, OpsShaped, Shaped
    <2>3. ServerStep
      BY <2>1 DEF ServerStep
    <2>4. CASE op[c].then = "idle"
      BY <2>1, <2>3, <2>4, ThreadEnds
    <2>5. CASE op[c].then = "use"
      <3> DEFINE r == [kind |-> "use", gen |-> conn.gen]
      <3>1. r.kind = "use" /\ r.gen = conn.gen /\ Shaped(r) /\ op' = [op EXCEPT ![c] = r]
        BY <2>1, <2>5 DEF Shaped
      <3> HIDE DEF r
      <3> QED BY <2>1, <2>3, <3>1, ThreadGoesOn
    <2> QED BY <2>2, <2>4, <2>5
  <1>4. ASSUME NEW c \in Clients, Redis!ConnectAborted(c) PROVE StoreInv'
    <2>1. UNCHANGED <<broker, hist>>
      BY <1>4, Zenon DEF Redis!ConnectAborted
    <2>2. op' = [op EXCEPT ![c] = [kind |-> "idle", gen |-> 0]] /\ conn' = conn
      BY <1>4, Zenon DEF Redis!ConnectAborted, Redis!Ends, Redis!Idle, Redis!NoGen
    <2>3. ServerStep
      BY <2>1 DEF ServerStep
    <2> QED BY <2>2, <2>3, ThreadEnds
  <1>5. ASSUME Redis!DisconnectBegin PROVE StoreInv'
    <2>1. /\ UNCHANGED <<broker, op, hist>>
          /\ conn' = [conn EXCEPT !.epoch = @ + 1, !.leaving = TRUE, !.retired = conn.gen, !.gen = 0]
      BY <1>5, Zenon DEF Redis!DisconnectBegin, Redis!NoGen
    <2>2. /\ conn \in [gen : Nat, made : Nat, leaving : BOOLEAN, retired : Nat, epoch : Nat, closed : SUBSET Nat]
          /\ conn.epoch + 1 \in Nat
          /\ conn.retired # 0 => conn.gen # conn.retired
      BY DEF StoreInv, Handles
    <2>4. conn' \in [gen : Nat, made : Nat, leaving : BOOLEAN, retired : Nat, epoch : Nat, closed : SUBSET Nat]
      BY <2>1, <2>2
    <2>5. conn'.closed = conn.closed
      BY <2>1, <2>2
    <2>6. conn'.made = conn.made /\ conn'.gen = 0 /\ conn'.retired = conn.gen
      BY <2>1, <2>2
    <2> QED BY <2>1, <2>2, <2>4, <2>5, <2>6, ClientWithdrawn
  <1>6. ASSUME Redis!DisconnectEnd PROVE StoreInv'
    <2>1. /\ UNCHANGED <<broker, op, hist>>
          /\ conn' = [conn EXCEPT !.leaving = FALSE, !.retired = 0, !.closed = @ \union ({conn.retired} \ {0})]
      BY <1>6, Zenon DEF Redis!DisconnectEnd, Redis!NoGen
    <2>2. /\ conn \in [gen : Nat, made : Nat, leaving : BOOLEAN, retired : Nat, epoch : Nat, closed : SUBSET Nat]
          /\ conn.epoch + 1 \in Nat
          /\ conn.retired # 0 => conn.gen # conn.retired
      BY DEF StoreInv, Handles
    <2>3. conn.retired # 0 => \A c \in Clients : op[c].gen # conn.retired
      BY <1>6 DEF Redis!DisconnectEnd, Redis!Leased, Redis!NoGen
    <2>4. conn' \in [gen : Nat, made : Nat, leaving : BOOLEAN, retired : Nat, epoch : Nat, closed : SUBSET Nat]
      BY <2>1, <2>2
    <2>5. conn'.closed = conn.closed \union ({conn.retired} \ {0})
      BY <2>1, <2>2
    <2>6. conn'.made = conn.made /\ conn'.gen = conn.gen /\ conn'.retired = 0
      BY <2>1, <2>2
    <2> QED BY <2>1, <2>2, <2>3, <2>4, <2>5, <2>6, ClientWithdrawn
  <1>7. ASSUME NEW c \in Clients, Redis!Lease(c) PROVE StoreInv'
    <2> DEFINE r == [kind |-> "use", gen |-> conn.gen]
    <2>1. op' = [op EXCEPT ![c] = r] /\ UNCHANGED <<conn, broker, hist>>
      BY <1>7, Zenon DEF Redis!Lease, Redis!Leases
    <2>2. r.kind = "use" /\ r.gen = conn.gen /\ Shaped(r)
      BY DEF Shaped
    <2> HIDE DEF r
    <2> QED BY <2>1, <2>2, ThreadGoesOn DEF ServerStep
  <1>8. ASSUME NEW c \in Clients, NEW m \in Messages, NEW p \in StorePriorities, NEW stored \in BOOLEAN, Redis!Push(c, m, p, stored) PROVE StoreInv'
    <2>1. Server!Enqueues(m, p, stored)
      BY <1>8, Zenon DEF Redis!Push, Redis!Enqueues, Server!Enqueues
    <2>2. op' = [op EXCEPT ![c] = [kind |-> "idle", gen |-> 0]] /\ conn' = conn
      BY <1>8, Zenon DEF Redis!Push, Redis!Enqueues, Redis!Ends, Redis!Idle, Redis!NoGen
    <2>3. ServerStep
      BY <2>1 DEF ServerStep
    <2> QED BY <2>2, <2>3, ThreadEnds
  <1>9. ASSUME NEW c \in Clients, NEW e \in broker.queue, NEW heard \in BOOLEAN, Redis!Pop(c, e, heard) PROVE StoreInv'
    <2>1. Server!Dequeues(e, heard)
      BY <1>9, Zenon DEF Redis!Pop, Redis!Dequeues, Server!Dequeues
    <2>2. op' = [op EXCEPT ![c] = [kind |-> "idle", gen |-> 0]] /\ conn' = conn
      BY <1>9, Zenon DEF Redis!Pop, Redis!Dequeues, Redis!Ends, Redis!Idle, Redis!NoGen
    <2>3. ServerStep
      BY <2>1 DEF ServerStep
    <2> QED BY <2>2, <2>3, ThreadEnds
  <1>10. ASSUME NEW c \in Clients, Redis!PopEmpty(c) PROVE StoreInv'
    <2>1. UNCHANGED <<broker, hist>>
      BY <1>10, Zenon DEF Redis!PopEmpty, Redis!Returns
    <2>2. op' = [op EXCEPT ![c] = [kind |-> "idle", gen |-> 0]] /\ conn' = conn
      BY <1>10, Zenon DEF Redis!PopEmpty, Redis!Returns, Redis!Ends, Redis!Idle, Redis!NoGen
    <2>3. ServerStep
      BY <2>1 DEF ServerStep
    <2> QED BY <2>2, <2>3, ThreadEnds
  <1>11. ASSUME NEW c \in Clients, Redis!ClearQueue(c) PROVE StoreInv'
    <2>1. /\ broker' = [broker EXCEPT !.queue = @ \ broker.queue]
          /\ hist' = [hist EXCEPT !.lost = @ \union {e.msg : e \in broker.queue}]
      BY <1>11, SMT DEF Redis!ClearQueue, Redis!ClearsQueue
    <2>2. op' = [op EXCEPT ![c] = [kind |-> "idle", gen |-> 0]] /\ conn' = conn
      BY <1>11, Zenon DEF Redis!ClearQueue, Redis!ClearsQueue, Redis!Ends, Redis!Idle, Redis!NoGen
    <2>3. ServerStep
      BY <2>1 DEF ServerStep
    <2> QED BY <2>2, <2>3, ThreadEnds
  <1>12. ASSUME NEW c \in Clients, Redis!QueueLen(c) PROVE StoreInv'
    <2>1. UNCHANGED <<broker, hist>>
      BY <1>12, Zenon DEF Redis!QueueLen, Redis!Returns
    <2>2. op' = [op EXCEPT ![c] = [kind |-> "idle", gen |-> 0]] /\ conn' = conn
      BY <1>12, Zenon DEF Redis!QueueLen, Redis!Returns, Redis!Ends, Redis!Idle, Redis!NoGen
    <2>3. ServerStep
      BY <2>1 DEF ServerStep
    <2> QED BY <2>2, <2>3, ThreadEnds
  <1>13. ASSUME NEW c \in Clients, Redis!Contains(c) PROVE StoreInv'
    <2>1. UNCHANGED <<broker, hist>>
      BY <1>13, Zenon DEF Redis!Contains, Redis!Returns
    <2>2. op' = [op EXCEPT ![c] = [kind |-> "idle", gen |-> 0]] /\ conn' = conn
      BY <1>13, Zenon DEF Redis!Contains, Redis!Returns, Redis!Ends, Redis!Idle, Redis!NoGen
    <2>3. ServerStep
      BY <2>1 DEF ServerStep
    <2> QED BY <2>2, <2>3, ThreadEnds
  <1>14. ASSUME NEW c \in Clients, Redis!SetLen(c) PROVE StoreInv'
    <2>1. UNCHANGED <<broker, hist>>
      BY <1>14, Zenon DEF Redis!SetLen, Redis!Returns
    <2>2. op' = [op EXCEPT ![c] = [kind |-> "idle", gen |-> 0]] /\ conn' = conn
      BY <1>14, Zenon DEF Redis!SetLen, Redis!Returns, Redis!Ends, Redis!Idle, Redis!NoGen
    <2>3. ServerStep
      BY <2>1 DEF ServerStep
    <2> QED BY <2>2, <2>3, ThreadEnds
  <1>15. ASSUME NEW c \in Clients, Redis!Retrieve(c) PROVE StoreInv'
    <2>1. UNCHANGED <<broker, hist>>
      BY <1>15, Zenon DEF Redis!Retrieve, Redis!Returns
    <2>2. op' = [op EXCEPT ![c] = [kind |-> "idle", gen |-> 0]] /\ conn' = conn
      BY <1>15, Zenon DEF Redis!Retrieve, Redis!Returns, Redis!Ends, Redis!Idle, Redis!NoGen
    <2>3. ServerStep
      BY <2>1 DEF ServerStep
    <2> QED BY <2>2, <2>3, ThreadEnds
  <1>16. ASSUME NEW c \in Clients, Redis!Exists(c) PROVE StoreInv'
    <2>1. UNCHANGED <<broker, hist>>
      BY <1>16, Zenon DEF Redis!Exists, Redis!Returns
    <2>2. op' = [op EXCEPT ![c] = [kind |-> "idle", gen |-> 0]] /\ conn' = conn
      BY <1>16, Zenon DEF Redis!Exists, Redis!Returns, Redis!Ends, Redis!Idle, Redis!NoGen
    <2>3. ServerStep
      BY <2>1 DEF ServerStep
    <2> QED BY <2>2, <2>3, ThreadEnds
  <1>17. ASSUME NEW c \in Clients, Redis!Ttl(c) PROVE StoreInv'
    <2>1. UNCHANGED <<broker, hist>>
      BY <1>17, Zenon DEF Redis!Ttl, Redis!Returns
    <2>2. op' = [op EXCEPT ![c] = [kind |-> "idle", gen |-> 0]] /\ conn' = conn
      BY <1>17, Zenon DEF Redis!Ttl, Redis!Returns, Redis!Ends, Redis!Idle, Redis!NoGen
    <2>3. ServerStep
      BY <2>1 DEF ServerStep
    <2> QED BY <2>2, <2>3, ThreadEnds
  <1>18. ASSUME NEW c \in Clients, Redis!Add(c) PROVE StoreInv'
    <2>1. Server!Adds
      BY <1>18, Zenon DEF Redis!Add, Redis!Adds, Server!Adds
    <2>2. op' = [op EXCEPT ![c] = [kind |-> "idle", gen |-> 0]] /\ conn' = conn
      BY <1>18, Zenon DEF Redis!Add, Redis!Adds, Redis!Ends, Redis!Idle, Redis!NoGen
    <2>3. ServerStep
      BY <2>1 DEF ServerStep
    <2> QED BY <2>2, <2>3, ThreadEnds
  <1>19. ASSUME NEW c \in Clients, Redis!Remove(c) PROVE StoreInv'
    <2>1. Server!Removes
      BY <1>19, Zenon DEF Redis!Remove, Redis!Removes, Server!Removes
    <2>2. op' = [op EXCEPT ![c] = [kind |-> "idle", gen |-> 0]] /\ conn' = conn
      BY <1>19, Zenon DEF Redis!Remove, Redis!Removes, Redis!Ends, Redis!Idle, Redis!NoGen
    <2>3. ServerStep
      BY <2>1 DEF ServerStep
    <2> QED BY <2>2, <2>3, ThreadEnds
  <1>20. ASSUME NEW c \in Clients, Redis!ClearSet(c) PROVE StoreInv'
    <2>1. Server!Removes
      BY <1>20, Zenon DEF Redis!ClearSet, Redis!Removes, Server!Removes
    <2>2. op' = [op EXCEPT ![c] = [kind |-> "idle", gen |-> 0]] /\ conn' = conn
      BY <1>20, Zenon DEF Redis!ClearSet, Redis!Removes, Redis!Ends, Redis!Idle, Redis!NoGen
    <2>3. ServerStep
      BY <2>1 DEF ServerStep
    <2> QED BY <2>2, <2>3, ThreadEnds
  <1>21. ASSUME NEW c \in Clients, NEW k \in Keys, NEW ttl \in {0, 1}, Redis!Store(c, k, ttl) PROVE StoreInv'
    <2>1. Server!Writes(k, ttl)
      BY <1>21, Zenon DEF Redis!Store, Redis!Writes, Redis!Present, Redis!Never, Server!Writes, Server!Present, Server!Never
    <2>2. op' = [op EXCEPT ![c] = [kind |-> "idle", gen |-> 0]] /\ conn' = conn
      BY <1>21, Zenon DEF Redis!Store, Redis!Writes, Redis!Present, Redis!Never, Redis!Ends, Redis!Idle, Redis!NoGen
    <2>3. ServerStep
      BY <2>1 DEF ServerStep
    <2> QED BY <2>2, <2>3, ThreadEnds
  <1>22. ASSUME NEW c \in Clients, NEW k \in Keys, Redis!Delete(c, k) PROVE StoreInv'
    <2>1. Server!Deletes({k})
      BY <1>22, Zenon DEF Redis!Delete, Redis!Deletes, Redis!Present, Server!Deletes, Server!Present
    <2>2. op' = [op EXCEPT ![c] = [kind |-> "idle", gen |-> 0]] /\ conn' = conn
      BY <1>22, Zenon DEF Redis!Delete, Redis!Deletes, Redis!Present, Redis!Ends, Redis!Idle, Redis!NoGen
    <2>3. ServerStep
      BY <2>1 DEF ServerStep
    <2> QED BY <2>2, <2>3, ThreadEnds
  <1>23. ASSUME NEW c \in Clients, NEW K \in SUBSET Keys, Redis!ClearStorage(c, K) PROVE StoreInv'
    <2>1. Server!Deletes(K)
      BY <1>23, Zenon DEF Redis!ClearStorage, Redis!Deletes, Redis!Present, Server!Deletes, Server!Present
    <2>2. op' = [op EXCEPT ![c] = [kind |-> "idle", gen |-> 0]] /\ conn' = conn
      BY <1>23, Zenon DEF Redis!ClearStorage, Redis!Deletes, Redis!Present, Redis!Ends, Redis!Idle, Redis!NoGen
    <2>3. ServerStep
      BY <2>1 DEF ServerStep
    <2> QED BY <2>2, <2>3, ThreadEnds
  <1>24. ASSUME NEW k \in Keys, Redis!ServerExpires(k) PROVE StoreInv'
    <2>1. Server!Reaps(k, broker.kv[k]) /\ UNCHANGED <<conn, op>>
      BY <1>24, Zenon DEF Redis!ServerExpires, Redis!Reaps, Redis!Present, Server!Reaps
    <2>2. \E i \in broker.kv[k] : Server!Expired(i)
      BY <1>24, Zenon DEF Redis!ServerExpires, Redis!Present, Redis!Expired, Server!Expired, Redis!Never, Server!Never
    <2>3. \A x \in broker.kv[k] : Server!Expired(x)
      BY <2>2 DEF StoreInv, ServerInv, KeptSound
    <2>4. ServerStep
      BY <2>1, <2>3 DEF ServerStep
    <2> QED BY <2>1, <2>4, ThreadsRest
  <1>25. ASSUME Redis!Tick PROVE StoreInv'
    <2>1. Server!Tick /\ UNCHANGED <<conn, op>>
      BY <1>25, Zenon DEF Redis!Tick, Server!Tick
    <2> QED BY <2>1, ThreadsRest DEF ServerStep
  <1>26. ASSUME NEW k \in Keys, NEW ttl \in {0, 1}, Redis!OtherStores(k, ttl) PROVE StoreInv'
    <2>1. Server!Writes(k, ttl) /\ UNCHANGED <<conn, op>>
      BY <1>26, Zenon DEF Redis!OtherStores, Redis!Writes, Redis!Present, Redis!Never,
         Server!Writes, Server!Present, Server!Never
    <2>2. ServerStep
      BY <2>1 DEF ServerStep
    <2> QED BY <2>1, <2>2, ThreadsRest
  <1> QED
    BY <1>1, <1>2, <1>3, <1>4, <1>5, <1>6, <1>7, <1>8, <1>9, <1>10, <1>11, <1>12, <1>13, <1>14, <1>15, <1>16, <1>17, <1>18, <1>19, <1>20, <1>21, <1>22, <1>23, <1>24, <1>25, <1>26, Zenon
    DEF Redis!Next, Redis!Connections, Redis!Operations, Redis!Never, Redis!Reads


\* A read goes on to reap what it found expired.
LEMMA MongoDBLooks ==
  ASSUME StoreInv, which' = which, NEW c \in Clients, NEW k \in Keys, MongoDB!Looks(c, k)
  PROVE  StoreInv'
  <1> DEFINE seen == {i \in broker.kv[k] : Server!Expired(i)}
             r == [kind |-> "reap", gen |-> op[c].gen, key |-> k, seen |-> seen]
  <1>1. UNCHANGED <<conn, broker, hist>> /\ ServerStep
    BY DEF MongoDB!Looks, ServerStep
  <1>2. {i \in MongoDB!Present(k) : MongoDB!Expired(i)} = seen
    BY Zenon DEF MongoDB!Expired, Server!Expired, MongoDB!Never, Server!Never, MongoDB!Present
  <1>3. \/ op' = [op EXCEPT ![c] = [kind |-> "idle", gen |-> 0]]
        \/ op' = [op EXCEPT ![c] = r]
    <2>1. CASE seen = {}
      BY <1>2, <2>1, Zenon DEF MongoDB!Looks, MongoDB!Idle, MongoDB!NoGen
    <2>2. CASE seen # {}
      <3>1. op' = [op EXCEPT ![c] = [kind |-> "reap", gen |-> op[c].gen, key |-> k,
                                     seen |-> {i \in MongoDB!Present(k) : MongoDB!Expired(i)}]]
        BY <1>2, <2>2 DEF MongoDB!Looks
      <3> QED BY <3>1, <1>2
    <2> QED BY <2>1, <2>2
  <1>4. CASE op' = [op EXCEPT ![c] = [kind |-> "idle", gen |-> 0]]
    BY <1>1, <1>4, ThreadEnds
  <1>5. CASE op' = [op EXCEPT ![c] = r]
    <2>1. \A s \in seen : s.expires \in Nat /\ Server!Expired(s)
      BY DEF StoreInv, ServerInv, ServerTypes, StoredItems
    <2>2. r.kind = "reap" /\ r.gen = op[c].gen /\ r.key = k /\ r.seen = seen
      OBVIOUS
    <2> HIDE DEF r, seen
    <2>3. Shaped(r)
      BY <2>1, <2>2 DEF Shaped
    <2> QED BY <1>1, <1>5, <2>2, <2>3, ThreadGoesOn
  <1> QED BY <1>3, <1>4, <1>5

\* MongoDB: a disconnect waits until every thread is idle.
LEMMA MongoDBStep ==
  ASSUME StoreInv, which = "mongodb", which' = which, MongoDB!Next
  PROVE  StoreInv'
  <1>1. ASSUME NEW c \in Clients, MongoDB!ConnectBegin(c) PROVE StoreInv'
    <2> DEFINE r == [kind |-> "connect", gen |-> 0]
    <2>1. op' = [op EXCEPT ![c] = r] /\ UNCHANGED <<conn, broker, hist>>
      BY <1>1, Zenon DEF MongoDB!ConnectBegin, MongoDB!NoGen
    <2>2. r.kind \in {"connect", "wants"} /\ r.gen = 0 /\ Shaped(r)
      BY DEF Shaped, StoreInv, Handles
    <2> HIDE DEF r
    <2> QED BY <2>1, <2>2, ThreadGoesOn DEF ServerStep
  <1>2. ASSUME NEW c \in Clients, MongoDB!ConnectDone(c) PROVE StoreInv'
    <2> DEFINE r == [kind |-> "idle", gen |-> 0]
    <2>1. /\ op' = [op EXCEPT ![c] = r] /\ broker' = [broker EXCEPT !.domain = "ours"] /\ UNCHANGED hist
          /\ conn' = [conn EXCEPT !.gen = conn.made + 1, !.made = @ + 1]
      BY <1>2, Zenon DEF MongoDB!ConnectDone, MongoDB!Ends, MongoDB!Idle, MongoDB!NoGen, MongoDB!DomainClaimed
    <2>2. r.kind = "idle" /\ r.gen = 0 /\ Shaped(r)
      BY DEF Shaped
    <2>3. ServerStep
      BY <2>1 DEF ServerStep
    <2> HIDE DEF r
    <2> QED BY <2>1, <2>2, <2>3, ClientPublished
  <1>3. ASSUME NEW c \in Clients, MongoDB!ConnectFails(c) PROVE StoreInv'
    <2>1. UNCHANGED <<broker, hist>>
      BY <1>3, Zenon DEF MongoDB!ConnectFails
    <2>2. op' = [op EXCEPT ![c] = [kind |-> "idle", gen |-> 0]] /\ conn' = conn
      BY <1>3, Zenon DEF MongoDB!ConnectFails, MongoDB!Ends, MongoDB!Idle, MongoDB!NoGen
    <2>3. ServerStep
      BY <2>1 DEF ServerStep
    <2> QED BY <2>2, <2>3, ThreadEnds
  <1>4. ASSUME MongoDB!DisconnectBegin PROVE StoreInv'
    <2>1. /\ UNCHANGED <<broker, op, hist>>
          /\ conn' = [conn EXCEPT !.epoch = @ + 1, !.leaving = TRUE]
      BY <1>4, Zenon DEF MongoDB!DisconnectBegin, MongoDB!NoGen
    <2>2. /\ conn \in [gen : Nat, made : Nat, leaving : BOOLEAN, retired : Nat, epoch : Nat, closed : SUBSET Nat]
          /\ conn.epoch + 1 \in Nat
          /\ conn.retired # 0 => conn.gen # conn.retired
      BY DEF StoreInv, Handles
    <2>4. conn' \in [gen : Nat, made : Nat, leaving : BOOLEAN, retired : Nat, epoch : Nat, closed : SUBSET Nat]
      BY <2>1, <2>2
    <2>5. conn'.closed = conn.closed
      BY <2>1, <2>2
    <2>6. conn'.made = conn.made /\ conn'.gen = conn.gen /\ conn'.retired = conn.retired
      BY <2>1, <2>2
    <2> QED BY <2>1, <2>2, <2>4, <2>5, <2>6, ClientWithdrawn
  <1>5. ASSUME MongoDB!DisconnectEnd PROVE StoreInv'
    <2>1. /\ UNCHANGED <<broker, op, hist>>
          /\ conn' = [conn EXCEPT !.leaving = FALSE, !.gen = 0, !.closed = @ \union ({conn.gen} \ {0})]
      BY <1>5, Zenon DEF MongoDB!DisconnectEnd, MongoDB!NoGen
    <2>2. /\ conn \in [gen : Nat, made : Nat, leaving : BOOLEAN, retired : Nat, epoch : Nat, closed : SUBSET Nat]
          /\ conn.epoch + 1 \in Nat
          /\ conn.retired # 0 => conn.gen # conn.retired
      BY DEF StoreInv, Handles
    <2>3. \A c \in Clients : op[c].gen = 0
      BY <1>5 DEF MongoDB!DisconnectEnd, MongoDB!Idle, MongoDB!NoGen
    <2>4. conn' \in [gen : Nat, made : Nat, leaving : BOOLEAN, retired : Nat, epoch : Nat, closed : SUBSET Nat]
      BY <2>1, <2>2
    <2>5. conn'.closed = conn.closed \union ({conn.gen} \ {0})
      BY <2>1, <2>2
    <2>6. conn'.made = conn.made /\ conn'.gen = 0 /\ conn'.retired = conn.retired
      BY <2>1, <2>2
    <2> QED BY <2>1, <2>2, <2>3, <2>4, <2>5, <2>6, ClientWithdrawn
  <1>6. ASSUME NEW c \in Clients, MongoDB!Lease(c) PROVE StoreInv'
    <2> DEFINE r == [kind |-> "use", gen |-> conn.gen]
    <2>1. op' = [op EXCEPT ![c] = r] /\ UNCHANGED <<conn, broker, hist>>
      BY <1>6, Zenon DEF MongoDB!Lease, MongoDB!Leases
    <2>2. r.kind = "use" /\ r.gen = conn.gen /\ Shaped(r)
      BY DEF Shaped
    <2> HIDE DEF r
    <2> QED BY <2>1, <2>2, ThreadGoesOn DEF ServerStep
  <1>7. ASSUME NEW c \in Clients, NEW m \in Messages, NEW p \in StorePriorities, NEW stored \in BOOLEAN, MongoDB!Push(c, m, p, stored) PROVE StoreInv'
    <2>1. Server!Enqueues(m, p, stored)
      BY <1>7, Zenon DEF MongoDB!Push, MongoDB!Enqueues, Server!Enqueues
    <2>2. op' = [op EXCEPT ![c] = [kind |-> "idle", gen |-> 0]] /\ conn' = conn
      BY <1>7, Zenon DEF MongoDB!Push, MongoDB!Enqueues, MongoDB!Ends, MongoDB!Idle, MongoDB!NoGen
    <2>3. ServerStep
      BY <2>1 DEF ServerStep
    <2> QED BY <2>2, <2>3, ThreadEnds
  <1>8. ASSUME NEW c \in Clients, NEW e \in broker.queue, NEW heard \in BOOLEAN, MongoDB!Pop(c, e, heard) PROVE StoreInv'
    <2>1. Server!Dequeues(e, heard)
      BY <1>8, Zenon DEF MongoDB!Pop, MongoDB!Dequeues, Server!Dequeues
    <2>2. op' = [op EXCEPT ![c] = [kind |-> "idle", gen |-> 0]] /\ conn' = conn
      BY <1>8, Zenon DEF MongoDB!Pop, MongoDB!Dequeues, MongoDB!Ends, MongoDB!Idle, MongoDB!NoGen
    <2>3. ServerStep
      BY <2>1 DEF ServerStep
    <2> QED BY <2>2, <2>3, ThreadEnds
  <1>9. ASSUME NEW c \in Clients, MongoDB!PopEmpty(c) PROVE StoreInv'
    <2>1. UNCHANGED <<broker, hist>>
      BY <1>9, Zenon DEF MongoDB!PopEmpty, MongoDB!Returns
    <2>2. op' = [op EXCEPT ![c] = [kind |-> "idle", gen |-> 0]] /\ conn' = conn
      BY <1>9, Zenon DEF MongoDB!PopEmpty, MongoDB!Returns, MongoDB!Ends, MongoDB!Idle, MongoDB!NoGen
    <2>3. ServerStep
      BY <2>1 DEF ServerStep
    <2> QED BY <2>2, <2>3, ThreadEnds
  <1>10. ASSUME NEW c \in Clients, MongoDB!ClearQueue(c) PROVE StoreInv'
    <2>1. /\ broker' = [broker EXCEPT !.queue = @ \ broker.queue]
          /\ hist' = [hist EXCEPT !.lost = @ \union {e.msg : e \in broker.queue}]
      BY <1>10, SMT DEF MongoDB!ClearQueue, MongoDB!ClearsQueue
    <2>2. op' = [op EXCEPT ![c] = [kind |-> "idle", gen |-> 0]] /\ conn' = conn
      BY <1>10, Zenon DEF MongoDB!ClearQueue, MongoDB!ClearsQueue, MongoDB!Ends, MongoDB!Idle, MongoDB!NoGen
    <2>3. ServerStep
      BY <2>1 DEF ServerStep
    <2> QED BY <2>2, <2>3, ThreadEnds
  <1>11. ASSUME NEW c \in Clients, MongoDB!QueueLen(c) PROVE StoreInv'
    <2>1. UNCHANGED <<broker, hist>>
      BY <1>11, Zenon DEF MongoDB!QueueLen, MongoDB!Returns
    <2>2. op' = [op EXCEPT ![c] = [kind |-> "idle", gen |-> 0]] /\ conn' = conn
      BY <1>11, Zenon DEF MongoDB!QueueLen, MongoDB!Returns, MongoDB!Ends, MongoDB!Idle, MongoDB!NoGen
    <2>3. ServerStep
      BY <2>1 DEF ServerStep
    <2> QED BY <2>2, <2>3, ThreadEnds
  <1>12. ASSUME NEW c \in Clients, MongoDB!Contains(c) PROVE StoreInv'
    <2>1. UNCHANGED <<broker, hist>>
      BY <1>12, Zenon DEF MongoDB!Contains, MongoDB!Returns
    <2>2. op' = [op EXCEPT ![c] = [kind |-> "idle", gen |-> 0]] /\ conn' = conn
      BY <1>12, Zenon DEF MongoDB!Contains, MongoDB!Returns, MongoDB!Ends, MongoDB!Idle, MongoDB!NoGen
    <2>3. ServerStep
      BY <2>1 DEF ServerStep
    <2> QED BY <2>2, <2>3, ThreadEnds
  <1>13. ASSUME NEW c \in Clients, MongoDB!SetLen(c) PROVE StoreInv'
    <2>1. UNCHANGED <<broker, hist>>
      BY <1>13, Zenon DEF MongoDB!SetLen, MongoDB!Returns
    <2>2. op' = [op EXCEPT ![c] = [kind |-> "idle", gen |-> 0]] /\ conn' = conn
      BY <1>13, Zenon DEF MongoDB!SetLen, MongoDB!Returns, MongoDB!Ends, MongoDB!Idle, MongoDB!NoGen
    <2>3. ServerStep
      BY <2>1 DEF ServerStep
    <2> QED BY <2>2, <2>3, ThreadEnds
  <1>14. ASSUME NEW c \in Clients, MongoDB!Add(c) PROVE StoreInv'
    <2>1. Server!Adds
      BY <1>14, Zenon DEF MongoDB!Add, MongoDB!Adds, Server!Adds
    <2>2. op' = [op EXCEPT ![c] = [kind |-> "idle", gen |-> 0]] /\ conn' = conn
      BY <1>14, Zenon DEF MongoDB!Add, MongoDB!Adds, MongoDB!Ends, MongoDB!Idle, MongoDB!NoGen
    <2>3. ServerStep
      BY <2>1 DEF ServerStep
    <2> QED BY <2>2, <2>3, ThreadEnds
  <1>15. ASSUME NEW c \in Clients, MongoDB!Remove(c) PROVE StoreInv'
    <2>1. Server!Removes
      BY <1>15, Zenon DEF MongoDB!Remove, MongoDB!Removes, Server!Removes
    <2>2. op' = [op EXCEPT ![c] = [kind |-> "idle", gen |-> 0]] /\ conn' = conn
      BY <1>15, Zenon DEF MongoDB!Remove, MongoDB!Removes, MongoDB!Ends, MongoDB!Idle, MongoDB!NoGen
    <2>3. ServerStep
      BY <2>1 DEF ServerStep
    <2> QED BY <2>2, <2>3, ThreadEnds
  <1>16. ASSUME NEW c \in Clients, MongoDB!ClearSet(c) PROVE StoreInv'
    <2>1. Server!Removes
      BY <1>16, Zenon DEF MongoDB!ClearSet, MongoDB!Removes, Server!Removes
    <2>2. op' = [op EXCEPT ![c] = [kind |-> "idle", gen |-> 0]] /\ conn' = conn
      BY <1>16, Zenon DEF MongoDB!ClearSet, MongoDB!Removes, MongoDB!Ends, MongoDB!Idle, MongoDB!NoGen
    <2>3. ServerStep
      BY <2>1 DEF ServerStep
    <2> QED BY <2>2, <2>3, ThreadEnds
  <1>17. ASSUME NEW c \in Clients, NEW k \in Keys, NEW ttl \in {0, 1}, MongoDB!Store(c, k, ttl) PROVE StoreInv'
    <2>1. Server!Writes(k, ttl)
      BY <1>17, Zenon DEF MongoDB!Store, MongoDB!Writes, MongoDB!Present, MongoDB!Never, Server!Writes, Server!Present, Server!Never
    <2>2. op' = [op EXCEPT ![c] = [kind |-> "idle", gen |-> 0]] /\ conn' = conn
      BY <1>17, Zenon DEF MongoDB!Store, MongoDB!Writes, MongoDB!Present, MongoDB!Never, MongoDB!Ends, MongoDB!Idle, MongoDB!NoGen
    <2>3. ServerStep
      BY <2>1 DEF ServerStep
    <2> QED BY <2>2, <2>3, ThreadEnds
  <1>18. ASSUME NEW c \in Clients, NEW k \in Keys, MongoDB!Delete(c, k) PROVE StoreInv'
    <2>1. Server!Deletes({k})
      BY <1>18, Zenon DEF MongoDB!Delete, MongoDB!Deletes, MongoDB!Present, Server!Deletes, Server!Present
    <2>2. op' = [op EXCEPT ![c] = [kind |-> "idle", gen |-> 0]] /\ conn' = conn
      BY <1>18, Zenon DEF MongoDB!Delete, MongoDB!Deletes, MongoDB!Present, MongoDB!Ends, MongoDB!Idle, MongoDB!NoGen
    <2>3. ServerStep
      BY <2>1 DEF ServerStep
    <2> QED BY <2>2, <2>3, ThreadEnds
  <1>19. ASSUME NEW c \in Clients, NEW K \in SUBSET Keys, MongoDB!ClearStorage(c, K) PROVE StoreInv'
    <2>1. Server!Deletes(K)
      BY <1>19, Zenon DEF MongoDB!ClearStorage, MongoDB!Deletes, MongoDB!Present, Server!Deletes, Server!Present
    <2>2. op' = [op EXCEPT ![c] = [kind |-> "idle", gen |-> 0]] /\ conn' = conn
      BY <1>19, Zenon DEF MongoDB!ClearStorage, MongoDB!Deletes, MongoDB!Present, MongoDB!Ends, MongoDB!Idle, MongoDB!NoGen
    <2>3. ServerStep
      BY <2>1 DEF ServerStep
    <2> QED BY <2>2, <2>3, ThreadEnds
  <1>20. ASSUME NEW c \in Clients, NEW k \in Keys, MongoDB!Retrieve(c, k) PROVE StoreInv'
    <2>1. MongoDB!Looks(c, k)
      BY <1>20 DEF MongoDB!Retrieve
    <2> QED BY <2>1, MongoDBLooks
  <1>21. ASSUME NEW c \in Clients, NEW k \in Keys, MongoDB!Exists(c, k) PROVE StoreInv'
    <2>1. MongoDB!Looks(c, k)
      BY <1>21 DEF MongoDB!Exists
    <2> QED BY <2>1, MongoDBLooks
  <1>22. ASSUME NEW c \in Clients, NEW k \in Keys, MongoDB!Ttl(c, k) PROVE StoreInv'
    <2>1. MongoDB!Looks(c, k)
      BY <1>22 DEF MongoDB!Ttl
    <2> QED BY <2>1, MongoDBLooks
  <1>23. ASSUME NEW c \in Clients, MongoDB!LazyReap(c) PROVE StoreInv'
    <2> DEFINE k == op[c].key
               items == {i \in broker.kv[k] : \E s \in op[c].seen : i.expires = s.expires}
    <2>1. /\ Server!Reaps(k, items) /\ op' = [op EXCEPT ![c] = [kind |-> "idle", gen |-> 0]] /\ conn' = conn
          /\ op[c].kind = "reap"
      BY <1>23, Zenon DEF MongoDB!LazyReap, MongoDB!Reaps, MongoDB!Present, Server!Reaps, MongoDB!Ends, MongoDB!Idle, MongoDB!NoGen
    <2>2. k \in Keys /\ \A s \in op[c].seen : s.expires # 0 /\ s.expires <= broker.now
      BY <2>1 DEF StoreInv, OpsShaped, Shaped, Server!Expired, Server!Never
    <2>3. \A x \in items : x \in broker.kv[k] => Server!Expired(x)
      BY <2>2 DEF Server!Expired, Server!Never
    <2> HIDE DEF k, items
    <2>4. ServerStep
      BY <2>1, <2>2, <2>3 DEF ServerStep
    <2> QED BY <2>1, <2>4, ThreadEnds
  <1>24. ASSUME NEW k \in Keys, MongoDB!ServerExpires(k) PROVE StoreInv'
    <2>1. Server!Reaps(k, broker.kv[k]) /\ UNCHANGED <<conn, op>>
      BY <1>24, Zenon DEF MongoDB!ServerExpires, MongoDB!Reaps, MongoDB!Present, Server!Reaps
    <2>2. \E i \in broker.kv[k] : Server!Expired(i)
      BY <1>24, Zenon DEF MongoDB!ServerExpires, MongoDB!Present, MongoDB!Expired, Server!Expired, MongoDB!Never, Server!Never
    <2>3. \A x \in broker.kv[k] : Server!Expired(x)
      BY <2>2 DEF StoreInv, ServerInv, KeptSound
    <2>4. ServerStep
      BY <2>1, <2>3 DEF ServerStep
    <2> QED BY <2>1, <2>4, ThreadsRest
  <1>25. ASSUME MongoDB!Tick PROVE StoreInv'
    <2>1. Server!Tick /\ UNCHANGED <<conn, op>>
      BY <1>25, Zenon DEF MongoDB!Tick, Server!Tick
    <2> QED BY <2>1, ThreadsRest DEF ServerStep
  <1>26. ASSUME NEW k \in Keys, NEW ttl \in {0, 1}, MongoDB!OtherStores(k, ttl) PROVE StoreInv'
    <2>1. Server!Writes(k, ttl) /\ UNCHANGED <<conn, op>>
      BY <1>26, Zenon DEF MongoDB!OtherStores, MongoDB!Writes, MongoDB!Present, MongoDB!Never,
         Server!Writes, Server!Present, Server!Never
    <2>2. ServerStep
      BY <2>1 DEF ServerStep
    <2> QED BY <2>1, <2>2, ThreadsRest
  <1> QED
    BY <1>1, <1>2, <1>3, <1>4, <1>5, <1>6, <1>7, <1>8, <1>9, <1>10, <1>11, <1>12, <1>13, <1>14, <1>15, <1>16, <1>17, <1>18, <1>19, <1>20, <1>21, <1>22, <1>23, <1>24, <1>25, <1>26, Zenon
    DEF MongoDB!Next, MongoDB!Connections, MongoDB!Operations, MongoDB!Never


\* A read goes on to reap what it found expired.
LEMMA ElasticSearchLooks ==
  ASSUME StoreInv, which' = which, NEW c \in Clients, NEW k \in Keys, ElasticSearch!Looks(c, k)
  PROVE  StoreInv'
  <1> DEFINE seen == {i \in broker.kv[k] : Server!Expired(i)}
             r == [kind |-> "reap", gen |-> op[c].gen, key |-> k, seen |-> seen]
  <1>1. UNCHANGED <<conn, broker, hist>> /\ ServerStep
    BY DEF ElasticSearch!Looks, ServerStep
  <1>2. {i \in ElasticSearch!Present(k) : ElasticSearch!Expired(i)} = seen
    BY Zenon DEF ElasticSearch!Expired, Server!Expired, ElasticSearch!Never, Server!Never, ElasticSearch!Present
  <1>3. \/ op' = [op EXCEPT ![c] = [kind |-> "idle", gen |-> 0]]
        \/ op' = [op EXCEPT ![c] = r]
    <2>1. CASE seen = {}
      BY <1>2, <2>1, Zenon DEF ElasticSearch!Looks, ElasticSearch!Idle, ElasticSearch!NoGen
    <2>2. CASE seen # {}
      <3>1. op' = [op EXCEPT ![c] = [kind |-> "reap", gen |-> op[c].gen, key |-> k,
                                     seen |-> {i \in ElasticSearch!Present(k) : ElasticSearch!Expired(i)}]]
        BY <1>2, <2>2 DEF ElasticSearch!Looks
      <3> QED BY <3>1, <1>2
    <2> QED BY <2>1, <2>2
  <1>4. CASE op' = [op EXCEPT ![c] = [kind |-> "idle", gen |-> 0]]
    BY <1>1, <1>4, ThreadEnds
  <1>5. CASE op' = [op EXCEPT ![c] = r]
    <2>1. \A s \in seen : s.expires \in Nat /\ Server!Expired(s)
      BY DEF StoreInv, ServerInv, ServerTypes, StoredItems
    <2>2. r.kind = "reap" /\ r.gen = op[c].gen /\ r.key = k /\ r.seen = seen
      OBVIOUS
    <2> HIDE DEF r, seen
    <2>3. Shaped(r)
      BY <2>1, <2>2 DEF Shaped
    <2> QED BY <1>1, <1>5, <2>2, <2>3, ThreadGoesOn
  <1> QED BY <1>3, <1>4, <1>5

\* Elasticsearch: a pop searches, and deletes what it found if it is still there.
LEMMA ElasticSearchStep ==
  ASSUME StoreInv, which = "elasticsearch", which' = which, ElasticSearch!Next
  PROVE  StoreInv'
  <1>1. ASSUME NEW c \in Clients, ElasticSearch!ConnectBegin(c) PROVE StoreInv'
    <2> DEFINE r == [kind |-> "connect", gen |-> 0, epoch |-> conn.epoch, then |-> "idle"]
    <2>1. op' = [op EXCEPT ![c] = r] /\ UNCHANGED <<conn, broker, hist>>
      BY <1>1, Zenon DEF ElasticSearch!ConnectBegin, ElasticSearch!NoGen
    <2>2. r.kind \in {"connect", "wants"} /\ r.gen = 0 /\ Shaped(r)
      BY DEF Shaped, StoreInv, Handles
    <2> HIDE DEF r
    <2> QED BY <2>1, <2>2, ThreadGoesOn DEF ServerStep
  <1>2. ASSUME NEW c \in Clients, ElasticSearch!ConnectDone(c) PROVE StoreInv'
    <2>1. /\ op[c].kind = "connect" /\ UNCHANGED <<broker, hist>>
          /\ conn' = [conn EXCEPT !.gen = conn.made + 1, !.made = @ + 1]
          /\ op' = [op EXCEPT ![c] = IF op[c].then = "idle" THEN [kind |-> "idle", gen |-> 0]
                                     ELSE [op[c] EXCEPT !.kind = "connected"]]
      BY <1>2, Zenon DEF ElasticSearch!ConnectDone, ElasticSearch!Idle, ElasticSearch!NoGen
    <2>2. op[c] \in [kind : {"connect"}, gen : {0}, epoch : Nat, then : {"use", "idle"}]
      BY <2>1 DEF StoreInv, OpsShaped, Shaped
    <2>3. ServerStep
      BY <2>1 DEF ServerStep
    <2>4. CASE op[c].then = "idle"
      <3> DEFINE r == [kind |-> "idle", gen |-> 0]
      <3>1. r.kind = "idle" /\ r.gen = 0 /\ Shaped(r) /\ op' = [op EXCEPT ![c] = r]
        BY <2>1, <2>4 DEF Shaped
      <3> HIDE DEF r
      <3> QED BY <2>1, <2>3, <3>1, ClientPublished
    <2>5. CASE op[c].then # "idle"
      <3> DEFINE r == [op[c] EXCEPT !.kind = "connected"]
      <3>1. r.kind = "connected" /\ r.gen = 0 /\ Shaped(r)
        BY <2>2 DEF Shaped
      <3>2. op' = [op EXCEPT ![c] = r]
        BY <2>1, <2>5
      <3> HIDE DEF r
      <3> QED BY <2>1, <2>3, <3>1, <3>2, ClientPublished
    <2> QED BY <2>4, <2>5
  <1>3. ASSUME NEW c \in Clients, ElasticSearch!ConnectFails(c) PROVE StoreInv'
    <2>1. UNCHANGED <<broker, hist>>
      BY <1>3, Zenon DEF ElasticSearch!ConnectFails
    <2>2. op' = [op EXCEPT ![c] = [kind |-> "idle", gen |-> 0]] /\ conn' = conn
      BY <1>3, Zenon DEF ElasticSearch!ConnectFails, ElasticSearch!Ends, ElasticSearch!Idle, ElasticSearch!NoGen
    <2>3. ServerStep
      BY <2>1 DEF ServerStep
    <2> QED BY <2>2, <2>3, ThreadEnds
  <1>4. ASSUME NEW c \in Clients, ElasticSearch!Lease(c) PROVE StoreInv'
    <2> DEFINE r == [kind |-> "use", gen |-> conn.gen]
    <2>1. op' = [op EXCEPT ![c] = r] /\ UNCHANGED <<conn, broker, hist>>
      BY <1>4, Zenon DEF ElasticSearch!Lease, ElasticSearch!Leases
    <2>2. r.kind = "use" /\ r.gen = conn.gen /\ Shaped(r)
      BY DEF Shaped
    <2> HIDE DEF r
    <2> QED BY <2>1, <2>2, ThreadGoesOn DEF ServerStep
  <1>5. ASSUME NEW c \in Clients, ElasticSearch!LeaseWants(c) PROVE StoreInv'
    <2> DEFINE r == [kind |-> "wants", gen |-> 0, epoch |-> conn.epoch, then |-> "use"]
    <2>1. op' = [op EXCEPT ![c] = r] /\ UNCHANGED <<conn, broker, hist>>
      BY <1>5, Zenon DEF ElasticSearch!LeaseWants, ElasticSearch!NoGen
    <2>2. r.kind \in {"connect", "wants"} /\ r.gen = 0 /\ Shaped(r)
      BY DEF Shaped, StoreInv, Handles
    <2> HIDE DEF r
    <2> QED BY <2>1, <2>2, ThreadGoesOn DEF ServerStep
  <1>6. ASSUME NEW c \in Clients, ElasticSearch!LeaseConnects(c) PROVE StoreInv'
    <2>1. /\ op[c].kind = "wants" /\ UNCHANGED <<conn, broker, hist>>
          /\ op' = [op EXCEPT ![c] = IF op[c].epoch # conn.epoch THEN [kind |-> "idle", gen |-> 0]
                      ELSE [op[c] EXCEPT !.kind = IF conn.gen = 0 THEN "connect" ELSE "connected"]]
      BY <1>6, Zenon DEF ElasticSearch!LeaseConnects, ElasticSearch!Idle, ElasticSearch!NoGen
    <2>2. op[c] \in [kind : {"wants", "connected"}, gen : {0}, epoch : Nat, then : {"use", "idle"}]
      BY <2>1 DEF StoreInv, OpsShaped, Shaped
    <2>3. ServerStep
      BY <2>1 DEF ServerStep
    <2>4. CASE op[c].epoch # conn.epoch
      BY <2>1, <2>3, <2>4, ThreadEnds
    <2>5. CASE op[c].epoch = conn.epoch
      <3>1. PICK kind \in {"connect", "connected"} : op' = [op EXCEPT ![c] = [op[c] EXCEPT !.kind = kind]]
        BY <2>1, <2>5
      <3> DEFINE r == [op[c] EXCEPT !.kind = kind]
      <3>2. r.kind = kind /\ r.gen = 0 /\ Shaped(r)
        BY <2>2 DEF Shaped
      <3> HIDE DEF r
      <3>3. op' = [op EXCEPT ![c] = r]
        BY <3>1 DEF r
      <3> QED BY <2>1, <2>3, <3>2, <3>3, ThreadGoesOn
    <2> QED BY <2>4, <2>5
  <1>7. ASSUME NEW c \in Clients, ElasticSearch!LeaseFollows(c) PROVE StoreInv'
    <2> DEFINE r == [kind |-> "use", gen |-> conn.gen]
    <2>1. /\ UNCHANGED <<conn, broker, hist>>
          /\ \/ op' = [op EXCEPT ![c] = r]
             \/ op' = [op EXCEPT ![c] = [kind |-> "idle", gen |-> 0]]
      BY <1>7, Zenon DEF ElasticSearch!LeaseFollows, ElasticSearch!Leases, ElasticSearch!Ends, ElasticSearch!Idle, ElasticSearch!NoGen
    <2>2. r.kind = "use" /\ r.gen = conn.gen /\ Shaped(r)
      BY DEF Shaped
    <2>3. ServerStep
      BY <2>1 DEF ServerStep
    <2> HIDE DEF r
    <2> QED BY <2>1, <2>2, <2>3, ThreadGoesOn, ThreadEnds
  <1>8. ASSUME ElasticSearch!DisconnectBegin PROVE StoreInv'
    <2>1. /\ UNCHANGED <<broker, op, hist>>
          /\ conn' = [conn EXCEPT !.epoch = @ + 1, !.leaving = TRUE]
      BY <1>8, Zenon DEF ElasticSearch!DisconnectBegin, ElasticSearch!NoGen
    <2>2. /\ conn \in [gen : Nat, made : Nat, leaving : BOOLEAN, retired : Nat, epoch : Nat, closed : SUBSET Nat]
          /\ conn.epoch + 1 \in Nat
          /\ conn.retired # 0 => conn.gen # conn.retired
      BY DEF StoreInv, Handles
    <2>4. conn' \in [gen : Nat, made : Nat, leaving : BOOLEAN, retired : Nat, epoch : Nat, closed : SUBSET Nat]
      BY <2>1, <2>2
    <2>5. conn'.closed = conn.closed
      BY <2>1, <2>2
    <2>6. conn'.made = conn.made /\ conn'.gen = conn.gen /\ conn'.retired = conn.retired
      BY <2>1, <2>2
    <2> QED BY <2>1, <2>2, <2>4, <2>5, <2>6, ClientWithdrawn
  <1>9. ASSUME ElasticSearch!DisconnectEnd PROVE StoreInv'
    <2>1. /\ UNCHANGED <<broker, op, hist>>
          /\ conn' = [conn EXCEPT !.leaving = FALSE, !.gen = 0, !.closed = @ \union ({conn.gen} \ {0})]
      BY <1>9, Zenon DEF ElasticSearch!DisconnectEnd, ElasticSearch!NoGen
    <2>2. /\ conn \in [gen : Nat, made : Nat, leaving : BOOLEAN, retired : Nat, epoch : Nat, closed : SUBSET Nat]
          /\ conn.epoch + 1 \in Nat
          /\ conn.retired # 0 => conn.gen # conn.retired
      BY DEF StoreInv, Handles
    <2>3. conn.gen # 0 => \A c \in Clients : op[c].gen # conn.gen
      BY <1>9 DEF ElasticSearch!DisconnectEnd, ElasticSearch!Leased, ElasticSearch!NoGen
    <2>4. conn' \in [gen : Nat, made : Nat, leaving : BOOLEAN, retired : Nat, epoch : Nat, closed : SUBSET Nat]
      BY <2>1, <2>2
    <2>5. conn'.closed = conn.closed \union ({conn.gen} \ {0})
      BY <2>1, <2>2
    <2>6. conn'.made = conn.made /\ conn'.gen = 0 /\ conn'.retired = conn.retired
      BY <2>1, <2>2
    <2> QED BY <2>1, <2>2, <2>3, <2>4, <2>5, <2>6, ClientWithdrawn
  <1>10. ASSUME NEW c \in Clients, NEW m \in Messages, NEW p \in StorePriorities, NEW stored \in BOOLEAN, ElasticSearch!Push(c, m, p, stored) PROVE StoreInv'
    <2>1. Server!Enqueues(m, p, stored)
      BY <1>10, Zenon DEF ElasticSearch!Push, ElasticSearch!Enqueues, Server!Enqueues
    <2>2. op' = [op EXCEPT ![c] = [kind |-> "idle", gen |-> 0]] /\ conn' = conn
      BY <1>10, Zenon DEF ElasticSearch!Push, ElasticSearch!Enqueues, ElasticSearch!Ends, ElasticSearch!Idle, ElasticSearch!NoGen
    <2>3. ServerStep
      BY <2>1 DEF ServerStep
    <2> QED BY <2>2, <2>3, ThreadEnds
  <1>11. ASSUME NEW c \in Clients, NEW e \in broker.queue, NEW a \in 1..ElasticSearch!MaxAttempts, ElasticSearch!PopSearches(c, e, a)
        PROVE  StoreInv'
    <2> DEFINE r == [kind |-> "found", gen |-> op[c].gen, entry |-> e, attempt |-> a]
    <2>1. op' = [op EXCEPT ![c] = r] /\ UNCHANGED <<conn, broker, hist>>
      BY <1>11, Zenon DEF ElasticSearch!PopSearches
    <2>2. r.kind = "found" /\ r.gen = op[c].gen /\ Shaped(r)
      BY DEF Shaped
    <2> HIDE DEF r
    <2> QED BY <2>1, <2>2, ThreadGoesOn DEF ServerStep
  <1>12. ASSUME NEW c \in Clients, ElasticSearch!PopFindsNothing(c) PROVE StoreInv'
    <2>1. UNCHANGED <<broker, hist>>
      BY <1>12, Zenon DEF ElasticSearch!PopFindsNothing
    <2>2. op' = [op EXCEPT ![c] = [kind |-> "idle", gen |-> 0]] /\ conn' = conn
      BY <1>12, Zenon DEF ElasticSearch!PopFindsNothing, ElasticSearch!Ends, ElasticSearch!Idle, ElasticSearch!NoGen
    <2>3. ServerStep
      BY <2>1 DEF ServerStep
    <2> QED BY <2>2, <2>3, ThreadEnds
  <1>13. ASSUME NEW c \in Clients, NEW heard \in BOOLEAN, ElasticSearch!PopDeletes(c, heard) PROVE StoreInv'
    <2>1. op[c].entry \in broker.queue /\ Server!Dequeues(op[c].entry, heard)
      BY <1>13, Zenon DEF ElasticSearch!PopDeletes, ElasticSearch!Dequeues, Server!Dequeues
    <2>2. op' = [op EXCEPT ![c] = [kind |-> "idle", gen |-> 0]] /\ conn' = conn
      BY <1>13, Zenon DEF ElasticSearch!PopDeletes, ElasticSearch!Dequeues, ElasticSearch!Ends, ElasticSearch!Idle, ElasticSearch!NoGen
    <2>3. ServerStep
      BY <2>1 DEF ServerStep
    <2> QED BY <2>2, <2>3, ThreadEnds
  <1>14. ASSUME NEW c \in Clients, ElasticSearch!PopConflicts(c) PROVE StoreInv'
    <2> DEFINE r == [kind |-> "again", gen |-> op[c].gen, attempt |-> op[c].attempt + 1]
    <2>1. UNCHANGED <<conn, broker, hist>> /\ ServerStep
      BY <1>14 DEF ElasticSearch!PopConflicts, ServerStep
    <2>2. \/ op' = [op EXCEPT ![c] = r]
          \/ op' = [op EXCEPT ![c] = [kind |-> "idle", gen |-> 0]]
      <3>1. CASE op[c].attempt = ElasticSearch!MaxAttempts
        BY <1>14, <3>1, Zenon DEF ElasticSearch!PopConflicts, ElasticSearch!Idle, ElasticSearch!NoGen
      <3>2. CASE op[c].attempt # ElasticSearch!MaxAttempts
        BY <1>14, <3>2, Zenon DEF ElasticSearch!PopConflicts
      <3> QED BY <3>1, <3>2
    <2>3. r.kind = "again" /\ r.gen = op[c].gen /\ Shaped(r)
      BY DEF Shaped
    <2> HIDE DEF r
    <2> QED BY <2>1, <2>2, <2>3, ThreadGoesOn, ThreadEnds
  <1>15. ASSUME NEW c \in Clients, ElasticSearch!PopRaises(c) PROVE StoreInv'
    <2>1. UNCHANGED <<broker, hist>>
      BY <1>15, Zenon DEF ElasticSearch!PopRaises
    <2>2. op' = [op EXCEPT ![c] = [kind |-> "idle", gen |-> 0]] /\ conn' = conn
      BY <1>15, Zenon DEF ElasticSearch!PopRaises, ElasticSearch!Ends, ElasticSearch!Idle, ElasticSearch!NoGen
    <2>3. ServerStep
      BY <2>1 DEF ServerStep
    <2> QED BY <2>2, <2>3, ThreadEnds
  <1>16. ASSUME NEW c \in Clients, ElasticSearch!QueueLen(c) PROVE StoreInv'
    <2>1. UNCHANGED <<broker, hist>>
      BY <1>16, Zenon DEF ElasticSearch!QueueLen, ElasticSearch!Returns
    <2>2. op' = [op EXCEPT ![c] = [kind |-> "idle", gen |-> 0]] /\ conn' = conn
      BY <1>16, Zenon DEF ElasticSearch!QueueLen, ElasticSearch!Returns, ElasticSearch!Ends, ElasticSearch!Idle, ElasticSearch!NoGen
    <2>3. ServerStep
      BY <2>1 DEF ServerStep
    <2> QED BY <2>2, <2>3, ThreadEnds
  <1>17. ASSUME NEW c \in Clients, NEW E \in SUBSET broker.queue, ElasticSearch!ClearQueue(c, E) PROVE StoreInv'
    <2>1. /\ broker' = [broker EXCEPT !.queue = @ \ E]
          /\ hist' = [hist EXCEPT !.lost = @ \union {e.msg : e \in E}]
      BY <1>17, Zenon DEF ElasticSearch!ClearQueue
    <2>2. op' = [op EXCEPT ![c] = [kind |-> "idle", gen |-> 0]] /\ conn' = conn
      BY <1>17, Zenon DEF ElasticSearch!ClearQueue, ElasticSearch!Ends, ElasticSearch!Idle, ElasticSearch!NoGen
    <2>3. ServerStep
      BY <2>1 DEF ServerStep
    <2> QED BY <2>2, <2>3, ThreadEnds
  <1>18. ASSUME NEW c \in Clients, ElasticSearch!Contains(c) PROVE StoreInv'
    <2>1. UNCHANGED <<broker, hist>>
      BY <1>18, Zenon DEF ElasticSearch!Contains, ElasticSearch!Returns
    <2>2. op' = [op EXCEPT ![c] = [kind |-> "idle", gen |-> 0]] /\ conn' = conn
      BY <1>18, Zenon DEF ElasticSearch!Contains, ElasticSearch!Returns, ElasticSearch!Ends, ElasticSearch!Idle, ElasticSearch!NoGen
    <2>3. ServerStep
      BY <2>1 DEF ServerStep
    <2> QED BY <2>2, <2>3, ThreadEnds
  <1>19. ASSUME NEW c \in Clients, ElasticSearch!SetLen(c) PROVE StoreInv'
    <2>1. UNCHANGED <<broker, hist>>
      BY <1>19, Zenon DEF ElasticSearch!SetLen, ElasticSearch!Returns
    <2>2. op' = [op EXCEPT ![c] = [kind |-> "idle", gen |-> 0]] /\ conn' = conn
      BY <1>19, Zenon DEF ElasticSearch!SetLen, ElasticSearch!Returns, ElasticSearch!Ends, ElasticSearch!Idle, ElasticSearch!NoGen
    <2>3. ServerStep
      BY <2>1 DEF ServerStep
    <2> QED BY <2>2, <2>3, ThreadEnds
  <1>20. ASSUME NEW c \in Clients, ElasticSearch!Add(c) PROVE StoreInv'
    <2>1. Server!Adds
      BY <1>20, Zenon DEF ElasticSearch!Add, ElasticSearch!Adds, Server!Adds
    <2>2. op' = [op EXCEPT ![c] = [kind |-> "idle", gen |-> 0]] /\ conn' = conn
      BY <1>20, Zenon DEF ElasticSearch!Add, ElasticSearch!Adds, ElasticSearch!Ends, ElasticSearch!Idle, ElasticSearch!NoGen
    <2>3. ServerStep
      BY <2>1 DEF ServerStep
    <2> QED BY <2>2, <2>3, ThreadEnds
  <1>21. ASSUME NEW c \in Clients, ElasticSearch!Remove(c) PROVE StoreInv'
    <2>1. Server!Removes
      BY <1>21, Zenon DEF ElasticSearch!Remove, ElasticSearch!Removes, Server!Removes
    <2>2. op' = [op EXCEPT ![c] = [kind |-> "idle", gen |-> 0]] /\ conn' = conn
      BY <1>21, Zenon DEF ElasticSearch!Remove, ElasticSearch!Removes, ElasticSearch!Ends, ElasticSearch!Idle, ElasticSearch!NoGen
    <2>3. ServerStep
      BY <2>1 DEF ServerStep
    <2> QED BY <2>2, <2>3, ThreadEnds
  <1>22. ASSUME NEW c \in Clients, ElasticSearch!ClearSet(c) PROVE StoreInv'
    <2>1. Server!Removes
      BY <1>22, Zenon DEF ElasticSearch!ClearSet, ElasticSearch!Removes, Server!Removes
    <2>2. op' = [op EXCEPT ![c] = [kind |-> "idle", gen |-> 0]] /\ conn' = conn
      BY <1>22, Zenon DEF ElasticSearch!ClearSet, ElasticSearch!Removes, ElasticSearch!Ends, ElasticSearch!Idle, ElasticSearch!NoGen
    <2>3. ServerStep
      BY <2>1 DEF ServerStep
    <2> QED BY <2>2, <2>3, ThreadEnds
  <1>23. ASSUME NEW c \in Clients, NEW k \in Keys, NEW ttl \in {0, 1}, ElasticSearch!Store(c, k, ttl) PROVE StoreInv'
    <2>1. Server!Writes(k, ttl)
      BY <1>23, Zenon DEF ElasticSearch!Store, ElasticSearch!Writes, ElasticSearch!Present, ElasticSearch!Never, Server!Writes, Server!Present, Server!Never
    <2>2. op' = [op EXCEPT ![c] = [kind |-> "idle", gen |-> 0]] /\ conn' = conn
      BY <1>23, Zenon DEF ElasticSearch!Store, ElasticSearch!Writes, ElasticSearch!Present, ElasticSearch!Never, ElasticSearch!Ends, ElasticSearch!Idle, ElasticSearch!NoGen
    <2>3. ServerStep
      BY <2>1 DEF ServerStep
    <2> QED BY <2>2, <2>3, ThreadEnds
  <1>24. ASSUME NEW c \in Clients, NEW k \in Keys, ElasticSearch!Delete(c, k) PROVE StoreInv'
    <2>1. Server!Deletes({k})
      BY <1>24, Zenon DEF ElasticSearch!Delete, ElasticSearch!Deletes, ElasticSearch!Present, Server!Deletes, Server!Present
    <2>2. op' = [op EXCEPT ![c] = [kind |-> "idle", gen |-> 0]] /\ conn' = conn
      BY <1>24, Zenon DEF ElasticSearch!Delete, ElasticSearch!Deletes, ElasticSearch!Present, ElasticSearch!Ends, ElasticSearch!Idle, ElasticSearch!NoGen
    <2>3. ServerStep
      BY <2>1 DEF ServerStep
    <2> QED BY <2>2, <2>3, ThreadEnds
  <1>25. ASSUME NEW c \in Clients, NEW K \in SUBSET Keys, ElasticSearch!ClearStorage(c, K) PROVE StoreInv'
    <2>1. Server!Deletes(K)
      BY <1>25, Zenon DEF ElasticSearch!ClearStorage, ElasticSearch!Deletes, ElasticSearch!Present, Server!Deletes, Server!Present
    <2>2. op' = [op EXCEPT ![c] = [kind |-> "idle", gen |-> 0]] /\ conn' = conn
      BY <1>25, Zenon DEF ElasticSearch!ClearStorage, ElasticSearch!Deletes, ElasticSearch!Present, ElasticSearch!Ends, ElasticSearch!Idle, ElasticSearch!NoGen
    <2>3. ServerStep
      BY <2>1 DEF ServerStep
    <2> QED BY <2>2, <2>3, ThreadEnds
  <1>26. ASSUME NEW c \in Clients, NEW k \in Keys, ElasticSearch!Retrieve(c, k) PROVE StoreInv'
    <2>1. ElasticSearch!Looks(c, k)
      BY <1>26 DEF ElasticSearch!Retrieve
    <2> QED BY <2>1, ElasticSearchLooks
  <1>27. ASSUME NEW c \in Clients, NEW k \in Keys, ElasticSearch!Exists(c, k) PROVE StoreInv'
    <2>1. ElasticSearch!Looks(c, k)
      BY <1>27 DEF ElasticSearch!Exists
    <2> QED BY <2>1, ElasticSearchLooks
  <1>28. ASSUME NEW c \in Clients, NEW k \in Keys, ElasticSearch!Ttl(c, k) PROVE StoreInv'
    <2>1. ElasticSearch!Looks(c, k)
      BY <1>28 DEF ElasticSearch!Ttl
    <2> QED BY <2>1, ElasticSearchLooks
  <1>29. ASSUME NEW c \in Clients, ElasticSearch!LazyReap(c) PROVE StoreInv'
    <2> DEFINE k == op[c].key
               items == op[c].seen
    <2>1. /\ Server!Reaps(k, items) /\ op' = [op EXCEPT ![c] = [kind |-> "idle", gen |-> 0]] /\ conn' = conn
          /\ op[c].kind = "reap"
      BY <1>29, Zenon DEF ElasticSearch!LazyReap, ElasticSearch!Reaps, ElasticSearch!Present, Server!Reaps, ElasticSearch!Ends, ElasticSearch!Idle, ElasticSearch!NoGen
    <2>2. k \in Keys /\ \A s \in op[c].seen : s.expires # 0 /\ s.expires <= broker.now
      BY <2>1 DEF StoreInv, OpsShaped, Shaped, Server!Expired, Server!Never
    <2>3. \A x \in items : x \in broker.kv[k] => Server!Expired(x)
      BY <2>2 DEF Server!Expired, Server!Never
    <2> HIDE DEF k, items
    <2>4. ServerStep
      BY <2>1, <2>2, <2>3 DEF ServerStep
    <2> QED BY <2>1, <2>4, ThreadEnds
  <1>30. ASSUME ElasticSearch!Tick PROVE StoreInv'
    <2>1. Server!Tick /\ UNCHANGED <<conn, op>>
      BY <1>30, Zenon DEF ElasticSearch!Tick, Server!Tick
    <2> QED BY <2>1, ThreadsRest DEF ServerStep
  <1>31. ASSUME NEW k \in Keys, NEW ttl \in {0, 1}, ElasticSearch!OtherStores(k, ttl) PROVE StoreInv'
    <2>1. Server!Writes(k, ttl) /\ UNCHANGED <<conn, op>>
      BY <1>31, Zenon DEF ElasticSearch!OtherStores, ElasticSearch!Writes, ElasticSearch!Present, ElasticSearch!Never,
         Server!Writes, Server!Present, Server!Never
    <2>2. ServerStep
      BY <2>1 DEF ServerStep
    <2> QED BY <2>1, <2>2, ThreadsRest
  <1> QED
    BY <1>1, <1>2, <1>3, <1>4, <1>5, <1>6, <1>7, <1>8, <1>9, <1>10, <1>11, <1>12, <1>13, <1>14, <1>15, <1>16, <1>17, <1>18, <1>19, <1>20, <1>21, <1>22, <1>23, <1>24, <1>25, <1>26, <1>27, <1>28, <1>29, <1>30, <1>31, Zenon
    DEF ElasticSearch!Next, ElasticSearch!Connections, ElasticSearch!Operations, ElasticSearch!Never, ElasticSearch!MaxAttempts


\* A read goes on to reap what it found expired.
LEMMA DynamoDBLooks ==
  ASSUME StoreInv, which' = which, NEW c \in Clients, NEW k \in Keys, DynamoDB!Looks(c, k)
  PROVE  StoreInv'
  <1> DEFINE seen == {i \in broker.kv[k] : Server!Expired(i)}
             r == [kind |-> "reap", gen |-> op[c].gen, key |-> k, seen |-> seen]
  <1>1. UNCHANGED <<conn, broker, hist>> /\ ServerStep
    BY DEF DynamoDB!Looks, ServerStep
  <1>2. {i \in DynamoDB!Present(k) : DynamoDB!Expired(i)} = seen
    BY Zenon DEF DynamoDB!Expired, Server!Expired, DynamoDB!Never, Server!Never, DynamoDB!Present
  <1>3. \/ op' = [op EXCEPT ![c] = [kind |-> "idle", gen |-> 0]]
        \/ op' = [op EXCEPT ![c] = r]
    <2>1. CASE seen = {}
      BY <1>2, <2>1, Zenon DEF DynamoDB!Looks, DynamoDB!Idle, DynamoDB!NoGen
    <2>2. CASE seen # {}
      <3>1. op' = [op EXCEPT ![c] = [kind |-> "reap", gen |-> op[c].gen, key |-> k,
                                     seen |-> {i \in DynamoDB!Present(k) : DynamoDB!Expired(i)}]]
        BY <1>2, <2>2 DEF DynamoDB!Looks
      <3> QED BY <3>1, <1>2
    <2> QED BY <2>1, <2>2
  <1>4. CASE op' = [op EXCEPT ![c] = [kind |-> "idle", gen |-> 0]]
    BY <1>1, <1>4, ThreadEnds
  <1>5. CASE op' = [op EXCEPT ![c] = r]
    <2>1. \A s \in seen : s.expires \in Nat /\ Server!Expired(s)
      BY DEF StoreInv, ServerInv, ServerTypes, StoredItems
    <2>2. r.kind = "reap" /\ r.gen = op[c].gen /\ r.key = k /\ r.seen = seen
      OBVIOUS
    <2> HIDE DEF r, seen
    <2>3. Shaped(r)
      BY <2>1, <2>2 DEF Shaped
    <2> QED BY <1>1, <1>5, <2>2, <2>3, ThreadGoesOn
  <1> QED BY <1>3, <1>4, <1>5

\* DynamoDB: operations run one at a time, and a disconnect waits for the lock.
LEMMA DynamoDBStep ==
  ASSUME StoreInv, which = "dynamodb", which' = which, DynamoDB!Next
  PROVE  StoreInv'
  <1>1. ASSUME NEW c \in Clients, DynamoDB!ConnectBegin(c) PROVE StoreInv'
    <2> DEFINE r == [kind |-> "connect", gen |-> 0, epoch |-> conn.epoch]
    <2>1. op' = [op EXCEPT ![c] = r] /\ UNCHANGED <<conn, broker, hist>>
      BY <1>1, Zenon DEF DynamoDB!ConnectBegin, DynamoDB!NoGen
    <2>2. r.kind \in {"connect", "wants"} /\ r.gen = 0 /\ Shaped(r)
      BY DEF Shaped, StoreInv, Handles
    <2> HIDE DEF r
    <2> QED BY <2>1, <2>2, ThreadGoesOn DEF ServerStep
  <1>2. ASSUME NEW c \in Clients, DynamoDB!ConnectDone(c) PROVE StoreInv'
    <2> DEFINE r == [kind |-> "idle", gen |-> 0]
    <2>1. /\ op' = [op EXCEPT ![c] = r] /\ UNCHANGED <<broker, hist>>
          /\ conn' = [conn EXCEPT !.gen = conn.made + 1, !.made = @ + 1]
      BY <1>2, Zenon DEF DynamoDB!ConnectDone, DynamoDB!Ends, DynamoDB!Idle, DynamoDB!NoGen
    <2>2. r.kind = "idle" /\ r.gen = 0 /\ Shaped(r)
      BY DEF Shaped
    <2>3. ServerStep
      BY <2>1 DEF ServerStep
    <2> HIDE DEF r
    <2> QED BY <2>1, <2>2, <2>3, ClientPublished
  <1>3. ASSUME NEW c \in Clients, DynamoDB!ConnectDropped(c) PROVE StoreInv'
    <2>1. UNCHANGED <<broker, hist>>
      BY <1>3, Zenon DEF DynamoDB!ConnectDropped
    <2>2. op' = [op EXCEPT ![c] = [kind |-> "idle", gen |-> 0]] /\ conn' = conn
      BY <1>3, Zenon DEF DynamoDB!ConnectDropped, DynamoDB!Ends, DynamoDB!Idle, DynamoDB!NoGen
    <2>3. ServerStep
      BY <2>1 DEF ServerStep
    <2> QED BY <2>2, <2>3, ThreadEnds
  <1>4. ASSUME DynamoDB!DisconnectBegin PROVE StoreInv'
    <2>1. /\ UNCHANGED <<broker, op, hist>>
          /\ conn' = [conn EXCEPT !.leaving = TRUE]
      BY <1>4, Zenon DEF DynamoDB!DisconnectBegin, DynamoDB!NoGen
    <2>2. /\ conn \in [gen : Nat, made : Nat, leaving : BOOLEAN, retired : Nat, epoch : Nat, closed : SUBSET Nat]
          /\ conn.epoch + 1 \in Nat
          /\ conn.retired # 0 => conn.gen # conn.retired
      BY DEF StoreInv, Handles
    <2>4. conn' \in [gen : Nat, made : Nat, leaving : BOOLEAN, retired : Nat, epoch : Nat, closed : SUBSET Nat]
      BY <2>1, <2>2
    <2>5. conn'.closed = conn.closed
      BY <2>1, <2>2
    <2>6. conn'.made = conn.made /\ conn'.gen = conn.gen /\ conn'.retired = conn.retired
      BY <2>1, <2>2
    <2> QED BY <2>1, <2>2, <2>4, <2>5, <2>6, ClientWithdrawn
  <1>5. ASSUME DynamoDB!DisconnectEnd PROVE StoreInv'
    <2>1. /\ UNCHANGED <<broker, op, hist>>
          /\ conn' = [conn EXCEPT !.leaving = FALSE, !.epoch = @ + 1, !.gen = 0, !.closed = @ \union ({conn.gen} \ {0})]
      BY <1>5, Zenon DEF DynamoDB!DisconnectEnd, DynamoDB!NoGen
    <2>2. /\ conn \in [gen : Nat, made : Nat, leaving : BOOLEAN, retired : Nat, epoch : Nat, closed : SUBSET Nat]
          /\ conn.epoch + 1 \in Nat
          /\ conn.retired # 0 => conn.gen # conn.retired
      BY DEF StoreInv, Handles
    <2>3. \A c \in Clients : op[c].gen = 0
      BY <1>5 DEF DynamoDB!DisconnectEnd, DynamoDB!OperationLockFree, StoreInv, Handles
    <2>4. conn' \in [gen : Nat, made : Nat, leaving : BOOLEAN, retired : Nat, epoch : Nat, closed : SUBSET Nat]
      BY <2>1, <2>2
    <2>5. conn'.closed = conn.closed \union ({conn.gen} \ {0})
      BY <2>1, <2>2
    <2>6. conn'.made = conn.made /\ conn'.gen = 0 /\ conn'.retired = conn.retired
      BY <2>1, <2>2
    <2> QED BY <2>1, <2>2, <2>3, <2>4, <2>5, <2>6, ClientWithdrawn
  <1>6. ASSUME NEW c \in Clients, DynamoDB!Lease(c) PROVE StoreInv'
    <2> DEFINE r == [kind |-> "use", gen |-> conn.gen]
    <2>1. op' = [op EXCEPT ![c] = r] /\ UNCHANGED <<conn, broker, hist>>
      BY <1>6, Zenon DEF DynamoDB!Lease, DynamoDB!Leases
    <2>2. r.kind = "use" /\ r.gen = conn.gen /\ Shaped(r)
      BY DEF Shaped
    <2> HIDE DEF r
    <2> QED BY <2>1, <2>2, ThreadGoesOn DEF ServerStep
  <1>7. ASSUME NEW c \in Clients, NEW k \in Keys, NEW ttl \in {0, 1}, DynamoDB!Store(c, k, ttl) PROVE StoreInv'
    <2>1. Server!Writes(k, ttl)
      BY <1>7, Zenon DEF DynamoDB!Store, DynamoDB!Writes, DynamoDB!Present, DynamoDB!Never, Server!Writes, Server!Present, Server!Never
    <2>2. op' = [op EXCEPT ![c] = [kind |-> "idle", gen |-> 0]] /\ conn' = conn
      BY <1>7, Zenon DEF DynamoDB!Store, DynamoDB!Writes, DynamoDB!Present, DynamoDB!Never, DynamoDB!Ends, DynamoDB!Idle, DynamoDB!NoGen
    <2>3. ServerStep
      BY <2>1 DEF ServerStep
    <2> QED BY <2>2, <2>3, ThreadEnds
  <1>8. ASSUME NEW c \in Clients, NEW k \in Keys, DynamoDB!Delete(c, k) PROVE StoreInv'
    <2>1. Server!Deletes({k})
      BY <1>8, Zenon DEF DynamoDB!Delete, DynamoDB!Deletes, DynamoDB!Present, Server!Deletes, Server!Present
    <2>2. op' = [op EXCEPT ![c] = [kind |-> "idle", gen |-> 0]] /\ conn' = conn
      BY <1>8, Zenon DEF DynamoDB!Delete, DynamoDB!Deletes, DynamoDB!Present, DynamoDB!Ends, DynamoDB!Idle, DynamoDB!NoGen
    <2>3. ServerStep
      BY <2>1 DEF ServerStep
    <2> QED BY <2>2, <2>3, ThreadEnds
  <1>9. ASSUME NEW c \in Clients, NEW k \in Keys, DynamoDB!Retrieve(c, k) PROVE StoreInv'
    <2>1. DynamoDB!Looks(c, k)
      BY <1>9 DEF DynamoDB!Retrieve
    <2> QED BY <2>1, DynamoDBLooks
  <1>10. ASSUME NEW c \in Clients, NEW k \in Keys, DynamoDB!Exists(c, k) PROVE StoreInv'
    <2>1. DynamoDB!Looks(c, k)
      BY <1>10 DEF DynamoDB!Exists
    <2> QED BY <2>1, DynamoDBLooks
  <1>11. ASSUME NEW c \in Clients, NEW k \in Keys, DynamoDB!Ttl(c, k) PROVE StoreInv'
    <2>1. DynamoDB!Looks(c, k)
      BY <1>11 DEF DynamoDB!Ttl
    <2> QED BY <2>1, DynamoDBLooks
  <1>12. ASSUME NEW c \in Clients, DynamoDB!LazyReap(c) PROVE StoreInv'
    <2> DEFINE k == op[c].key
               items == {i \in broker.kv[k] : \E s \in op[c].seen : i.expires = s.expires}
    <2>1. /\ Server!Reaps(k, items) /\ op' = [op EXCEPT ![c] = [kind |-> "idle", gen |-> 0]] /\ conn' = conn
          /\ op[c].kind = "reap"
      BY <1>12, Zenon DEF DynamoDB!LazyReap, DynamoDB!Reaps, DynamoDB!Present, Server!Reaps, DynamoDB!Ends, DynamoDB!Idle, DynamoDB!NoGen
    <2>2. k \in Keys /\ \A s \in op[c].seen : s.expires # 0 /\ s.expires <= broker.now
      BY <2>1 DEF StoreInv, OpsShaped, Shaped, Server!Expired, Server!Never
    <2>3. \A x \in items : x \in broker.kv[k] => Server!Expired(x)
      BY <2>2 DEF Server!Expired, Server!Never
    <2> HIDE DEF k, items
    <2>4. ServerStep
      BY <2>1, <2>2, <2>3 DEF ServerStep
    <2> QED BY <2>1, <2>4, ThreadEnds
  <1>13. ASSUME NEW c \in Clients, DynamoDB!ClearScans(c) PROVE StoreInv'
    <2> DEFINE todo == UNION {broker.kv[k] : k \in Keys}
               r == [kind |-> "clear", gen |-> op[c].gen, todo |-> todo]
    <2>1. op' = [op EXCEPT ![c] = r] /\ UNCHANGED <<conn, broker, hist>>
      BY <1>13, Zenon DEF DynamoDB!ClearScans, DynamoDB!Present
    <2>2. todo \in SUBSET StoredItems /\ op[c].gen \in Nat
      <3>1. \A k \in Keys : broker.kv[k] \in SUBSET StoredItems
        BY DEF StoreInv, ServerInv, ServerTypes
      <3> QED BY <3>1 DEF StoreInv, Handles
    <2> HIDE DEF todo
    <2>3. r.kind = "clear" /\ r.gen = op[c].gen /\ Shaped(r)
      BY <2>2 DEF Shaped
    <2> HIDE DEF r
    <2> QED BY <2>1, <2>3, ThreadGoesOn DEF ServerStep
  <1>14. ASSUME NEW c \in Clients, DynamoDB!ClearEnds(c) PROVE StoreInv'
    <2>1. UNCHANGED <<broker, hist>>
      BY <1>14, Zenon DEF DynamoDB!ClearEnds
    <2>2. op' = [op EXCEPT ![c] = [kind |-> "idle", gen |-> 0]] /\ conn' = conn
      BY <1>14, Zenon DEF DynamoDB!ClearEnds, DynamoDB!Ends, DynamoDB!Idle, DynamoDB!NoGen
    <2>3. ServerStep
      BY <2>1 DEF ServerStep
    <2> QED BY <2>2, <2>3, ThreadEnds
  <1>15. ASSUME NEW c \in Clients, NEW i \in hist.stored, DynamoDB!DeleteClearItem(c, i) PROVE StoreInv'
    <2>1. /\ op[c].kind = "clear" /\ i \in broker.kv[i.key] /\ conn' = conn
          /\ broker' = [broker EXCEPT !.kv[i.key] = @ \ {i}]
          /\ hist' = [hist EXCEPT !.ended = @ \union {i}]
          /\ op' = [op EXCEPT ![c].todo = @ \ {i}]
      BY <1>15, Zenon DEF DynamoDB!DeleteClearItem, DynamoDB!Present
    <2>2. i \in StoredItems
      BY DEF StoreInv, ServerInv, ServerTypes
    <2>3. ServerStep
      BY <2>1, <2>2 DEF ServerStep
    <2> DEFINE r == [op[c] EXCEPT !.todo = @ \ {i}]
    <2>4. op' = [op EXCEPT ![c] = r]
      BY <2>1
    <2>5. op[c] \in [kind : {"clear"}, gen : Nat, todo : SUBSET StoredItems]
      BY <2>1 DEF StoreInv, OpsShaped, Shaped
    <2>6. r.kind = "clear" /\ r.gen = op[c].gen /\ Shaped(r)
      BY <2>5 DEF Shaped
    <2> HIDE DEF r
    <2> QED BY <2>1, <2>3, <2>4, <2>6, ThreadGoesOn
  <1>16. ASSUME NEW k \in Keys, DynamoDB!ServerExpires(k) PROVE StoreInv'
    <2>1. Server!Reaps(k, broker.kv[k]) /\ UNCHANGED <<conn, op>>
      BY <1>16, Zenon DEF DynamoDB!ServerExpires, DynamoDB!Reaps, DynamoDB!Present, Server!Reaps
    <2>2. \E i \in broker.kv[k] : Server!Expired(i)
      BY <1>16, Zenon DEF DynamoDB!ServerExpires, DynamoDB!Present, DynamoDB!Expired, Server!Expired, DynamoDB!Never, Server!Never
    <2>3. \A x \in broker.kv[k] : Server!Expired(x)
      BY <2>2 DEF StoreInv, ServerInv, KeptSound
    <2>4. ServerStep
      BY <2>1, <2>3 DEF ServerStep
    <2> QED BY <2>1, <2>4, ThreadsRest
  <1>17. ASSUME DynamoDB!Tick PROVE StoreInv'
    <2>1. Server!Tick /\ UNCHANGED <<conn, op>>
      BY <1>17, Zenon DEF DynamoDB!Tick, Server!Tick
    <2> QED BY <2>1, ThreadsRest DEF ServerStep
  <1>18. ASSUME NEW k \in Keys, NEW ttl \in {0, 1}, DynamoDB!OtherStores(k, ttl) PROVE StoreInv'
    <2>1. Server!Writes(k, ttl) /\ UNCHANGED <<conn, op>>
      BY <1>18, Zenon DEF DynamoDB!OtherStores, DynamoDB!Writes, DynamoDB!Present, DynamoDB!Never,
         Server!Writes, Server!Present, Server!Never
    <2>2. ServerStep
      BY <2>1 DEF ServerStep
    <2> QED BY <2>1, <2>2, ThreadsRest
  <1> QED
    BY <1>1, <1>2, <1>3, <1>4, <1>5, <1>6, <1>7, <1>8, <1>9, <1>10, <1>11, <1>12, <1>13, <1>14, <1>15, <1>16, <1>17, <1>18, Zenon
    DEF DynamoDB!Next, DynamoDB!Connections, DynamoDB!Operations, DynamoDB!Never

\* Memcached: the snapshot is unpublished, and closed when nobody uses it.
LEMMA MemcachedStep ==
  ASSUME StoreInv, which = "memcached", which' = which, Memcached!Next
  PROVE  StoreInv'
  <1>1. ASSUME NEW c \in Clients, Memcached!ConnectBegin(c) PROVE StoreInv'
    <2> DEFINE r == [kind |-> "connect", gen |-> 0, epoch |-> conn.epoch]
    <2>1. op' = [op EXCEPT ![c] = r] /\ UNCHANGED <<conn, broker, hist>>
      BY <1>1, Zenon DEF Memcached!ConnectBegin, Memcached!NoGen
    <2>2. r.kind \in {"connect", "wants"} /\ r.gen = 0 /\ Shaped(r)
      BY DEF Shaped, StoreInv, Handles
    <2> HIDE DEF r
    <2> QED BY <2>1, <2>2, ThreadGoesOn DEF ServerStep
  <1>2. ASSUME NEW c \in Clients, Memcached!ConnectDone(c) PROVE StoreInv'
    <2> DEFINE r == [kind |-> "idle", gen |-> 0]
    <2>1. /\ op' = [op EXCEPT ![c] = r] /\ UNCHANGED <<broker, hist>>
          /\ conn' = [conn EXCEPT !.gen = conn.made + 1, !.made = @ + 1]
      BY <1>2, Zenon DEF Memcached!ConnectDone, Memcached!Ends, Memcached!Idle, Memcached!NoGen
    <2>2. r.kind = "idle" /\ r.gen = 0 /\ Shaped(r)
      BY DEF Shaped
    <2>3. ServerStep
      BY <2>1 DEF ServerStep
    <2> HIDE DEF r
    <2> QED BY <2>1, <2>2, <2>3, ClientPublished
  <1>3. ASSUME NEW c \in Clients, Memcached!ConnectDropped(c) PROVE StoreInv'
    <2>1. UNCHANGED <<broker, hist>>
      BY <1>3, Zenon DEF Memcached!ConnectDropped
    <2>2. op' = [op EXCEPT ![c] = [kind |-> "idle", gen |-> 0]] /\ conn' = conn
      BY <1>3, Zenon DEF Memcached!ConnectDropped, Memcached!Ends, Memcached!Idle, Memcached!NoGen
    <2>3. ServerStep
      BY <2>1 DEF ServerStep
    <2> QED BY <2>2, <2>3, ThreadEnds
  <1>4. ASSUME Memcached!DisconnectBegin PROVE StoreInv'
    <2>1. /\ UNCHANGED <<broker, op, hist>>
          /\ conn' = [conn EXCEPT !.leaving = TRUE, !.epoch = @ + 1, !.retired = conn.gen, !.gen = 0]
      BY <1>4, Zenon DEF Memcached!DisconnectBegin, Memcached!NoGen
    <2>2. /\ conn \in [gen : Nat, made : Nat, leaving : BOOLEAN, retired : Nat, epoch : Nat, closed : SUBSET Nat]
          /\ conn.epoch + 1 \in Nat
          /\ conn.retired # 0 => conn.gen # conn.retired
      BY DEF StoreInv, Handles
    <2>4. conn' \in [gen : Nat, made : Nat, leaving : BOOLEAN, retired : Nat, epoch : Nat, closed : SUBSET Nat]
      BY <2>1, <2>2
    <2>5. conn'.closed = conn.closed
      BY <2>1, <2>2
    <2>6. conn'.made = conn.made /\ conn'.gen = 0 /\ conn'.retired = conn.gen
      BY <2>1, <2>2
    <2> QED BY <2>1, <2>2, <2>4, <2>5, <2>6, ClientWithdrawn
  <1>5. ASSUME Memcached!DisconnectEnd PROVE StoreInv'
    <2>1. /\ UNCHANGED <<broker, op, hist>>
          /\ conn' = [conn EXCEPT !.leaving = FALSE, !.retired = 0, !.closed = @ \union ({conn.retired} \ {0})]
      BY <1>5, Zenon DEF Memcached!DisconnectEnd, Memcached!NoGen
    <2>2. /\ conn \in [gen : Nat, made : Nat, leaving : BOOLEAN, retired : Nat, epoch : Nat, closed : SUBSET Nat]
          /\ conn.epoch + 1 \in Nat
          /\ conn.retired # 0 => conn.gen # conn.retired
      BY DEF StoreInv, Handles
    <2>3. \A c \in Clients : op[c].gen = 0
      BY <1>5 DEF Memcached!DisconnectEnd, Memcached!NoGen
    <2>4. conn' \in [gen : Nat, made : Nat, leaving : BOOLEAN, retired : Nat, epoch : Nat, closed : SUBSET Nat]
      BY <2>1, <2>2
    <2>5. conn'.closed = conn.closed \union ({conn.retired} \ {0})
      BY <2>1, <2>2
    <2>6. conn'.made = conn.made /\ conn'.gen = conn.gen /\ conn'.retired = 0
      BY <2>1, <2>2
    <2> QED BY <2>1, <2>2, <2>3, <2>4, <2>5, <2>6, ClientWithdrawn
  <1>6. ASSUME NEW c \in Clients, Memcached!Lease(c) PROVE StoreInv'
    <2> DEFINE r == [kind |-> "use", gen |-> conn.gen]
    <2>1. op' = [op EXCEPT ![c] = r] /\ UNCHANGED <<conn, broker, hist>>
      BY <1>6, Zenon DEF Memcached!Lease, Memcached!Leases
    <2>2. r.kind = "use" /\ r.gen = conn.gen /\ Shaped(r)
      BY DEF Shaped
    <2> HIDE DEF r
    <2> QED BY <2>1, <2>2, ThreadGoesOn DEF ServerStep
  <1>7. ASSUME NEW c \in Clients, Memcached!Retrieve(c) PROVE StoreInv'
    <2>1. UNCHANGED <<broker, hist>>
      BY <1>7, Zenon DEF Memcached!Retrieve, Memcached!Returns
    <2>2. op' = [op EXCEPT ![c] = [kind |-> "idle", gen |-> 0]] /\ conn' = conn
      BY <1>7, Zenon DEF Memcached!Retrieve, Memcached!Returns, Memcached!Ends, Memcached!Idle, Memcached!NoGen
    <2>3. ServerStep
      BY <2>1 DEF ServerStep
    <2> QED BY <2>2, <2>3, ThreadEnds
  <1>8. ASSUME NEW c \in Clients, Memcached!Exists(c) PROVE StoreInv'
    <2>1. UNCHANGED <<broker, hist>>
      BY <1>8, Zenon DEF Memcached!Exists, Memcached!Returns
    <2>2. op' = [op EXCEPT ![c] = [kind |-> "idle", gen |-> 0]] /\ conn' = conn
      BY <1>8, Zenon DEF Memcached!Exists, Memcached!Returns, Memcached!Ends, Memcached!Idle, Memcached!NoGen
    <2>3. ServerStep
      BY <2>1 DEF ServerStep
    <2> QED BY <2>2, <2>3, ThreadEnds
  <1>9. ASSUME NEW c \in Clients, NEW k \in Keys, NEW ttl \in {0, 1}, Memcached!Store(c, k, ttl) PROVE StoreInv'
    <2>1. Server!Writes(k, ttl)
      BY <1>9, Zenon DEF Memcached!Store, Memcached!Writes, Memcached!Present, Memcached!Never, Server!Writes, Server!Present, Server!Never
    <2>2. op' = [op EXCEPT ![c] = [kind |-> "idle", gen |-> 0]] /\ conn' = conn
      BY <1>9, Zenon DEF Memcached!Store, Memcached!Writes, Memcached!Present, Memcached!Never, Memcached!Ends, Memcached!Idle, Memcached!NoGen
    <2>3. ServerStep
      BY <2>1 DEF ServerStep
    <2> QED BY <2>2, <2>3, ThreadEnds
  <1>10. ASSUME NEW c \in Clients, NEW k \in Keys, Memcached!Delete(c, k) PROVE StoreInv'
    <2>1. Server!Deletes({k})
      BY <1>10, Zenon DEF Memcached!Delete, Memcached!Deletes, Memcached!Present, Server!Deletes, Server!Present
    <2>2. op' = [op EXCEPT ![c] = [kind |-> "idle", gen |-> 0]] /\ conn' = conn
      BY <1>10, Zenon DEF Memcached!Delete, Memcached!Deletes, Memcached!Present, Memcached!Ends, Memcached!Idle, Memcached!NoGen
    <2>3. ServerStep
      BY <2>1 DEF ServerStep
    <2> QED BY <2>2, <2>3, ThreadEnds
  <1>11. ASSUME NEW c \in Clients, Memcached!ClearStorage(c) PROVE StoreInv'
    <2>1. Server!Deletes(Keys)
      BY <1>11, Zenon DEF Memcached!ClearStorage, Memcached!Deletes, Memcached!Present, Server!Deletes, Server!Present
    <2>2. op' = [op EXCEPT ![c] = [kind |-> "idle", gen |-> 0]] /\ conn' = conn
      BY <1>11, Zenon DEF Memcached!ClearStorage, Memcached!Deletes, Memcached!Present, Memcached!Ends, Memcached!Idle, Memcached!NoGen
    <2>3. ServerStep
      BY <2>1 DEF ServerStep
    <2> QED BY <2>2, <2>3, ThreadEnds
  <1>12. ASSUME NEW k \in Keys, Memcached!ServerExpires(k) PROVE StoreInv'
    <2>1. Server!Deletes({k}) /\ UNCHANGED <<conn, op>>
      BY <1>12, Zenon DEF Memcached!ServerExpires, Memcached!Deletes, Memcached!Present, Server!Deletes, Server!Present
    <2>2. ServerStep
      BY <2>1 DEF ServerStep
    <2> QED BY <2>1, <2>2, ThreadsRest
  <1>13. ASSUME Memcached!Tick PROVE StoreInv'
    <2>1. Server!Tick /\ UNCHANGED <<conn, op>>
      BY <1>13, Zenon DEF Memcached!Tick, Server!Tick
    <2> QED BY <2>1, ThreadsRest DEF ServerStep
  <1>14. ASSUME NEW k \in Keys, NEW ttl \in {0, 1}, Memcached!OtherStores(k, ttl) PROVE StoreInv'
    <2>1. Server!Writes(k, ttl) /\ UNCHANGED <<conn, op>>
      BY <1>14, Zenon DEF Memcached!OtherStores, Memcached!Writes, Memcached!Present, Memcached!Never,
         Server!Writes, Server!Present, Server!Never
    <2>2. ServerStep
      BY <2>1 DEF ServerStep
    <2> QED BY <2>1, <2>2, ThreadsRest
  <1> QED
    BY <1>1, <1>2, <1>3, <1>4, <1>5, <1>6, <1>7, <1>8, <1>9, <1>10, <1>11, <1>12, <1>13, <1>14, Zenon
    DEF Memcached!Next, Memcached!Connections, Memcached!Operations, Memcached!Never


LEMMA StoresStart ==
  ASSUME MCInit, which \in Stores
  PROVE  StoreInv
  <1>1. PICK d \in SUBSET {"none", "ours", "other"} : Server!Starts(d)
    <2>1. CASE which = "redis"
      <3>1. Redis!Init
        BY <2>1, Zenon DEF MCInit
      <3>2. Server!Starts({"none"})
        BY <3>1, Zenon DEF Redis!Init, Redis!Starts, Redis!NoConnection, Redis!EmptyServer, Redis!Idle, Redis!NoGen,
           Server!Starts, Server!NoConnection, Server!EmptyServer, Server!Idle, Server!NoGen
      <3> QED BY <3>2
    <2>2. CASE which = "mongodb"
      <3>1. MongoDB!Init
        BY <2>2, Zenon DEF MCInit
      <3>2. Server!Starts({"none", "ours", "other"})
        BY <3>1, Zenon DEF MongoDB!Init, MongoDB!Starts, MongoDB!NoConnection, MongoDB!EmptyServer, MongoDB!Idle, MongoDB!NoGen,
           Server!Starts, Server!NoConnection, Server!EmptyServer, Server!Idle, Server!NoGen
      <3> QED BY <3>2
    <2>3. CASE which = "elasticsearch"
      <3>1. ElasticSearch!Init
        BY <2>3, Zenon DEF MCInit
      <3>2. Server!Starts({"none"})
        BY <3>1, Zenon DEF ElasticSearch!Init, ElasticSearch!Starts, ElasticSearch!NoConnection, ElasticSearch!EmptyServer, ElasticSearch!Idle, ElasticSearch!NoGen,
           Server!Starts, Server!NoConnection, Server!EmptyServer, Server!Idle, Server!NoGen
      <3> QED BY <3>2
    <2>4. CASE which = "dynamodb"
      <3>1. DynamoDB!Init
        BY <2>4, Zenon DEF MCInit
      <3>2. Server!Starts({"none"})
        BY <3>1, Zenon DEF DynamoDB!Init, DynamoDB!Starts, DynamoDB!NoConnection, DynamoDB!EmptyServer, DynamoDB!Idle, DynamoDB!NoGen,
           Server!Starts, Server!NoConnection, Server!EmptyServer, Server!Idle, Server!NoGen
      <3> QED BY <3>2
    <2>5. CASE which = "memcached"
      <3>1. Memcached!Init
        BY <2>5, Zenon DEF MCInit
      <3>2. Server!Starts({"none"})
        BY <3>1, Zenon DEF Memcached!Init, Memcached!Starts, Memcached!NoConnection, Memcached!EmptyServer, Memcached!Idle, Memcached!NoGen,
           Server!Starts, Server!NoConnection, Server!EmptyServer, Server!Idle, Server!NoGen
      <3> QED BY <3>2
    <2> QED BY <2>1, <2>2, <2>3, <2>4, <2>5 DEF Stores
  <1>2. ServerInv
    BY <1>1, ServerStart
  <1>3. Handles
    BY <1>1 DEF Handles, Server!Starts, Server!NoConnection, Server!Idle, Server!NoGen
  <1>4. OpsShaped
    BY <1>1 DEF OpsShaped, Shaped, Server!Starts, Server!Idle, Server!NoGen
  <1> QED BY <1>2, <1>3, <1>4 DEF StoreInv

LEMMA StoresStep ==
  ASSUME which \in Stores => StoreInv, [MCNext]_MCvars
  PROVE  (which \in Stores => StoreInv)'
  <1> SUFFICES ASSUME which' \in Stores
               PROVE  StoreInv'
    OBVIOUS
  <1>1. CASE UNCHANGED MCvars
    <2>1. which \in Stores /\ StoreInv
      BY <1>1 DEF MCvars
    <2> QED BY <1>1, <2>1, ThreadsRest DEF MCvars, ServerStep
  <1>2. CASE MCNext
    <2>1. which \in Stores /\ StoreInv /\ which' = which
      BY <1>2, Zenon DEF MCNext
    <2>2. CASE which = "redis"
      <3>1. Redis!Next
        BY <1>2, <2>2, Zenon DEF MCNext
      <3> QED BY <2>1, <2>2, <3>1, RedisStep
    <2>3. CASE which = "mongodb"
      <3>1. MongoDB!Next
        BY <1>2, <2>3, Zenon DEF MCNext
      <3> QED BY <2>1, <2>3, <3>1, MongoDBStep
    <2>4. CASE which = "elasticsearch"
      <3>1. ElasticSearch!Next
        BY <1>2, <2>4, Zenon DEF MCNext
      <3> QED BY <2>1, <2>4, <3>1, ElasticSearchStep
    <2>5. CASE which = "dynamodb"
      <3>1. DynamoDB!Next
        BY <1>2, <2>5, Zenon DEF MCNext
      <3> QED BY <2>1, <2>5, <3>1, DynamoDBStep
    <2>6. CASE which = "memcached"
      <3>1. Memcached!Next
        BY <1>2, <2>6, Zenon DEF MCNext
      <3> QED BY <2>1, <2>6, <3>1, MemcachedStep
    <2> QED BY <2>1, <2>2, <2>3, <2>4, <2>5, <2>6 DEF Stores
  <1> QED BY <1>1, <1>2

LEMMA StoresAlways == MCSpec => [](which \in Stores => StoreInv)
  <1>1. MCInit => (which \in Stores => StoreInv)
    BY StoresStart
  <1>2. (which \in Stores => StoreInv) /\ [MCNext]_MCvars => (which \in Stores => StoreInv)'
    BY StoresStep
  <1> QED BY <1>1, <1>2, PTL DEF MCSpec

\* Whatever the threads of the five stores and their servers do - answers that
\* are lost, searches that find the same document, clears that stop half-way -
\* pop hands a stored message to one caller at most, and one that left the
\* queue was handed out, cleared, or taken by a pop that raised.
THEOREM PopsAccountedHolds == MCSpec => []PopsAccounted
  <1>1. (which \in Stores => StoreInv) => PopsAccounted
    BY Zenon DEF PopsAccounted, StoreInv, ServerInv, PopsSound
  <1> QED BY <1>1, StoresAlways, PTL

\* A stored value is there until it expires, is overwritten, or is deleted on
\* request: the lazy cleanups (_lazy_reap_expired_storage and the others)
\* never remove what another process stored after the read.
THEOREM StoredIsKeptHolds == MCSpec => []StoredIsKept
  <1>1. (which \in Stores => StoreInv) => StoredIsKept
    BY Zenon DEF StoredIsKept, StoreInv, ServerInv, KeptSound
  <1> QED BY <1>1, StoresAlways, PTL

\* disconnect of the five stores closes a client only when no operation uses
\* it, however connects, leases and disconnects overlap.
THEOREM NoUseAfterCloseHolds == MCSpec => []NoUseAfterClose
  <1>1. (which \in Stores => StoreInv) => NoUseAfterClose
    BY Zenon DEF NoUseAfterClose, Server!NoUseAfterClose, StoreInv, Handles
  <1> QED BY <1>1, StoresAlways, PTL

=============================================================================
