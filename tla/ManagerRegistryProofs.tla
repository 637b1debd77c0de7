------------------------ MODULE ManagerRegistryProofs ------------------------
(***************************************************************************)
(* Proofs about the manager registry: what is registered is held, alone    *)
(* under its key and of the current epoch; waiters have a builder; a       *)
(* manager leaves the registry with its own last token only; and a hold    *)
(* keeps its manager, with one token per holder and a record per failed    *)
(* release.                                                                *)
(***************************************************************************)
EXTENDS ManagerRegistry, FiniteSetTheorems, SequenceTheorems, TLAPS

\* The part of TypeOK that the argument needs.
StoreType ==
  /\ registered \subseteq Managers
  /\ keyOf \in [Managers -> {None} \cup Keys]
  /\ gate \in [Keys -> {NoManager} \cup Managers]
  /\ builds \in 0..MaxBuilds
  /\ born \in [Managers -> Nat]
  /\ epoch \in Nat
  /\ active \in [Managers -> SUBSET Calls]
CallType ==
  /\ pc \in [Calls -> States]
  /\ want \in [Calls -> Keys]
  /\ attempt \in [Calls -> {NoManager} \cup Managers]
  /\ DOMAIN hold = Calls
  /\ DOMAIN todo = Calls
  /\ DOMAIN job = Calls

\* An attempt has one builder, who works for the attempt's key.
Builders ==
  \A c \in Calls :
    pc[c] = "build" =>
      /\ attempt[c] \in 1..builds
      /\ keyOf[attempt[c]] = want[c]
      /\ \A d \in Calls : pc[d] = "build" /\ attempt[d] = attempt[c] => d = c

\* A number that is no manager, or the one of a manager whose construction is over.
Built(m) ==
  /\ m \in 0..builds
  /\ \A d \in Calls : pc[d] = "build" => attempt[d] # m

\* Only finished managers are registered, doomed or retired, or held, or named
\* in the backlog.
StoreBuilt == \A m \in registered \cup doomed \cup retired : Built(m)
RecordsBuilt ==
  /\ \A x \in pending : Built(x.m)
  /\ \A c \in Calls :
       /\ Built(hold[c].m)
       /\ Built(job[c].m)
       /\ \A x \in todo[c] : Built(x.m)

\* A doomed manager is not in the registry, so its teardown is nobody's loss.
DoomedIsOut == registered \cap doomed = {}

\* A construction gate is held for a construction that goes on.
GatesHaveABuilder ==
  \A k \in Keys :
    gate[k] # NoManager => \E d \in Calls : pc[d] = "build" /\ attempt[d] = gate[k]

RegInv ==
  /\ StoreType /\ CallType /\ Builders /\ StoreBuilt /\ RecordsBuilt
  /\ DoomedIsOut /\ GatesHaveABuilder
  /\ RegisteredIsHeld /\ OnePerKey /\ ClearFencesBuilds /\ WaitersHaveABuilder

-----------------------------------------------------------------------------
(* The steps that neither build nor publish.                               *)

\* What the holds and the backlog refer to.
Named(m) ==
  \/ m = NoManager
  \/ \E x \in pending : m = x.m
  \/ \E d \in Calls : m = hold[d].m \/ m = job[d].m \/ \E x \in todo[d] : m = x.m

\* No step invents a record.
RecordsMove ==
  /\ DOMAIN hold' = Calls /\ DOMAIN todo' = Calls /\ DOMAIN job' = Calls
  /\ \A x \in pending' : Named(x.m)
  /\ \A d \in Calls :
       /\ Named(hold'[d].m)
       /\ Named(job'[d].m)
       /\ \A x \in todo'[d] : Named(x.m)

\* The step of a call that is not building and does not begin to.
CallMoves(c) ==
  /\ pc' \in [Calls -> States]
  /\ pc[c] # "build" /\ pc'[c] \notin {"build", "wait"}
  /\ \A d \in Calls : d # c => pc'[d] = pc[d]
  /\ UNCHANGED <<gate, builds, born, keyOf, settled, epoch, attempt, want, doomed>>

\* A release takes its own manager out of the registry, with its last token.
Leaves(h) ==
  /\ registered' \subseteq registered
  /\ active' \in [Managers -> SUBSET Calls]
  /\ \A m \in registered \ registered' :
       m = h.m /\ active[m] \subseteq {TokenOf(h)} /\ active'[m] = {}
  /\ \A m \in registered' : active[m] # {} => active'[m] # {}
  /\ retired' \subseteq retired \cup {h.m}
  /\ \A m \in registered' : m \notin retired => m \notin retired'

LEMMA ConsumeFacts ==
  ASSUME StoreType, NEW h, Consume(h)
  PROVE  Leaves(h)
<1>1. CASE TokenOf(h) # None
  <2> DEFINE rest == active[h.m] \ {TokenOf(h)}
  <2>1. /\ active' = [active EXCEPT ![h.m] = rest]
        /\ retired' = IF rest = {} THEN retired \cup {h.m} ELSE retired
        /\ registered' = IF rest = {} THEN registered \ {h.m} ELSE registered
    BY <1>1 DEF Consume, ReleaseAcquire, EntryOf
  <2>2. \A m \in Managers : active'[m] = IF m = h.m THEN rest ELSE active[m]
    BY <2>1 DEF StoreType
  <2>3. active' \in [Managers -> SUBSET Calls]
    <3>1. CASE h.m \in Managers
      BY <2>1, <3>1 DEF StoreType
    <3>2. CASE h.m \notin Managers
      BY <2>1, <3>2 DEF StoreType
    <3>3. QED
      BY <3>1, <3>2
  <2>4. CASE rest = {}
    BY <2>1, <2>2, <2>3, <2>4 DEF StoreType, Leaves
  <2>5. CASE rest # {}
    BY <2>1, <2>2, <2>3, <2>5 DEF StoreType, Leaves
  <2>6. QED
    BY <2>4, <2>5
<1>2. CASE TokenOf(h) = None
  BY <1>2 DEF Consume, StoreType, Leaves
<1>3. QED
  BY <1>1, <1>2

\* Such a step keeps the invariant, released token or not.
LEMMA CallStep ==
  ASSUME RegInv, NEW c \in Calls, CallMoves(c), RecordsMove,
         \/ UNCHANGED <<registered, active, retired>>
         \/ \E h : Named(h.m) /\ Leaves(h)
  PROVE  RegInv'
<1>1. StoreType' /\ CallType'
  BY DEF RegInv, StoreType, CallType, CallMoves, RecordsMove, Leaves
<1>2. \A d \in Calls : pc'[d] = "build" <=> pc[d] = "build"
  BY DEF CallMoves
<1>3. Builders'
  BY <1>2 DEF RegInv, Builders, CallMoves
<1>4. \A m : Built(m) => Built(m)'
  BY <1>2 DEF Built, CallMoves
<1>5. \A m : Named(m) => Built(m)
  <2>1. Built(NoManager)
    BY DEF RegInv, Builders, Built, NoManager, StoreType
  <2>2. QED
    BY <2>1 DEF RegInv, RecordsBuilt, Named
<1>6. RecordsBuilt'
  BY <1>4, <1>5 DEF RecordsMove, RecordsBuilt
<1>7. \A m \in registered' \cup doomed' \cup retired' :
        m \in registered \cup doomed \cup retired \/ Named(m)
  BY DEF CallMoves, Leaves
<1>8. StoreBuilt'
  BY <1>4, <1>5, <1>7 DEF RegInv, StoreBuilt
<1>9. registered' \subseteq registered
  BY DEF Leaves
<1>10. DoomedIsOut' /\ OnePerKey' /\ ClearFencesBuilds'
  BY <1>9 DEF RegInv, DoomedIsOut, OnePerKey, ClearFencesBuilds, Current, CallMoves
<1>11. RegisteredIsHeld'
  BY <1>9 DEF RegInv, RegisteredIsHeld, Leaves
<1>12. GatesHaveABuilder'
  BY <1>2 DEF RegInv, GatesHaveABuilder, CallMoves
<1>13. WaitersHaveABuilder'
  <2>1. \A d \in Calls : pc'[d] = "wait" => pc[d] = "wait"
    BY DEF CallMoves
  <2>2. QED
    BY <1>2, <2>1 DEF RegInv, WaitersHaveABuilder, CallMoves
<1>14. QED
  BY <1>1, <1>3, <1>6, <1>8, <1>10, <1>11, <1>12, <1>13 DEF RegInv

LEMMA RecordFacts ==
  /\ \A P, h : Retain(P, h) \subseteq P \cup {h}
  /\ \A P, h : Forget(P, h) \subseteq P
  /\ \A m : Finalized(m) \subseteq pending
  /\ NoHold.m = NoManager
BY DEF Retain, Forget, Finalized, NoHold

\* The steps of a retry, of a wake-up, of an adoption and of a release are of
\* that kind.
LEMMA RetryStep ==
  ASSUME RegInv, NEW c \in Calls,
         \/ Start(c) \/ RetryRelease(c) \/ RetryRaises(c)
         \/ RetryFinalized(c) \/ RetryFinalizeRaises(c) \/ RetryDone(c)
         \/ Wake(c)
  PROVE  RegInv'
<1> USE RecordFacts
<1>0. /\ pc \in [Calls -> States]
      /\ DOMAIN hold = Calls /\ DOMAIN todo = Calls /\ DOMAIN job = Calls
  BY DEF RegInv, CallType
<1>1. CASE RetryRelease(c)
  <2>1. PICK h \in todo[c] :
          /\ Consume(h)
          /\ todo' = [todo EXCEPT ![c] = @ \ {h}]
          /\ IF ShouldFinalize(h)
               THEN /\ pc' = [pc EXCEPT ![c] = "retryFinal"]
                    /\ job' = [job EXCEPT ![c] = h]
                    /\ UNCHANGED pending
               ELSE /\ pending' = Forget(pending, h)
                    /\ UNCHANGED <<pc, job>>
    BY <1>1 DEF RetryRelease, NextRetry
  <2>2. Named(h.m)
    BY <2>1 DEF Named
  <2>3. Leaves(h)
    BY <2>1, ConsumeFacts DEF RegInv
  <2>4. CallMoves(c)
    BY <1>0, <1>1, <2>1 DEF RetryRelease, CallMoves, gateVars, States
  <2>5. RecordsMove
    BY <1>0, <1>1, <2>1, <2>2 DEF RetryRelease, RecordsMove, Named
  <2>6. QED
    BY <2>2, <2>3, <2>4, <2>5, CallStep
<1>2. CASE RetryRaises(c)
  <2>1. PICK h \in todo[c] :
          /\ pending' = Retain(pending, h)
          /\ todo' = [todo EXCEPT ![c] = @ \ {h}]
    BY <1>2 DEF RetryRaises, RetainFailed, NextRetry
  <2>2. Named(h.m)
    BY <2>1 DEF Named
  <2>3. RecordsMove
    BY <1>0, <1>2, <2>1, <2>2 DEF RetryRaises, RecordsMove, Named
  <2>4. CallMoves(c) /\ UNCHANGED <<registered, active, retired>>
    BY <1>0, <1>2 DEF RetryRaises, CallMoves, gateVars, managerVars
  <2>5. QED
    BY <2>3, <2>4, CallStep
<1>3. CASE Start(c) \/ RetryFinalized(c) \/ RetryDone(c) \/ Wake(c)
  <2>1. CallMoves(c)
    BY <1>0, <1>3 DEF Start, RetryFinalized, RetryDone, Wake, CallMoves,
                      gateVars, States
  <2>2. UNCHANGED <<registered, active, retired>>
    BY <1>3 DEF Start, RetryFinalized, RetryDone, Wake, managerVars
  <2>3. RecordsMove
    <3>1. CASE Start(c)
      BY <1>0, <3>1 DEF Start, RecordsMove, Named
    <3>2. CASE RetryFinalized(c)
      BY <1>0, <3>2 DEF RetryFinalized, RecordsMove, Named
    <3>3. CASE RetryDone(c) \/ Wake(c)
      BY <1>0, <3>3 DEF RetryDone, Wake, RecordsMove, Named
    <3>4. QED
      BY <1>3, <3>1, <3>2, <3>3
  <2>4. QED
    BY <2>1, <2>2, <2>3, CallStep
<1>4. CASE RetryFinalizeRaises(c)
  <2>1. /\ pending' \subseteq pending \cup {job[c]}
        /\ pc' = [pc EXCEPT ![c] = "retry"]
        /\ job' = [job EXCEPT ![c] = NoHold]
        /\ UNCHANGED todo
    BY <1>4 DEF RetryFinalizeRaises, RetainFailed
  <2>2. Named(job[c].m)
    BY DEF Named
  <2>3. RecordsMove
    BY <1>0, <1>4, <2>1, <2>2 DEF RetryFinalizeRaises, RecordsMove, Named
  <2>4. CallMoves(c) /\ UNCHANGED <<registered, active, retired>>
    BY <1>0, <1>4 DEF RetryFinalizeRaises, CallMoves, gateVars, States
  <2>5. QED
    BY <2>3, <2>4, CallStep
<1>5. QED
  BY <1>1, <1>2, <1>3, <1>4

LEMMA ReleaseStep ==
  ASSUME RegInv, NEW c \in Calls,
         \/ Adopt(c) \/ KeepLegacy(c) \/ Release(c) \/ ReleaseRaises(c)
         \/ FinalizeReturns(c) \/ FinalizeRaises(c) \/ ReleaseAgain(c)
  PROVE  RegInv'
<1> USE RecordFacts
<1>0. /\ pc \in [Calls -> States]
      /\ DOMAIN hold = Calls /\ DOMAIN todo = Calls /\ DOMAIN job = Calls
      /\ Named(hold[c].m)
  BY DEF RegInv, CallType, Named
<1>1. CASE Adopt(c) \/ KeepLegacy(c)
  <2>1. CallMoves(c)
    BY <1>0, <1>1 DEF Adopt, KeepLegacy, CallMoves, gateVars, States
  <2>2. UNCHANGED <<registered, active, retired>>
    BY <1>1 DEF Adopt, KeepLegacy, managerVars
  <2>3. /\ UNCHANGED <<pending, todo, job>>
        /\ DOMAIN hold' = Calls
        /\ \A d \in Calls : hold'[d].m = hold[d].m
    <3>1. CASE KeepLegacy(c)
      BY <1>0, <3>1 DEF KeepLegacy
    <3>2. CASE Adopt(c)
      <4>1. UNCHANGED <<pending, todo, job>>
        BY <3>2 DEF Adopt
      <4>2. hold' = hold \/ \E x : hold' = [hold EXCEPT ![c] = [m |-> hold[c].m, lease |-> x]]
        BY <3>2 DEF Adopt
      <4>3. QED
        BY <1>0, <4>1, <4>2
    <3>3. QED
      BY <1>1, <3>1, <3>2
  <2>4. RecordsMove
    BY <1>0, <2>3 DEF RecordsMove, Named
  <2>5. QED
    BY <2>1, <2>2, <2>4, CallStep
<1>2. CASE Release(c) \/ ReleaseAgain(c)
  <2>1. Leaves(hold[c])
    BY <1>2, ConsumeFacts DEF Release, ReleaseAgain, RegInv
  <2>2. /\ UNCHANGED <<todo, job, hold>>
        /\ pending' \subseteq pending
        /\ pc' = [pc EXCEPT ![c] = "final"] \/ pc' = [pc EXCEPT ![c] = "done"]
        /\ pc[c] # "build"
        /\ UNCHANGED <<gateVars, epoch, attempt, want, doomed>>
    BY <1>2 DEF Release, ReleaseAgain
  <2>3. CallMoves(c)
    BY <1>0, <2>2 DEF CallMoves, gateVars, States
  <2>4. RecordsMove
    BY <1>0, <2>2 DEF RecordsMove, Named
  <2>5. QED
    BY <1>0, <2>1, <2>3, <2>4, CallStep
<1>3. CASE ReleaseRaises(c) \/ FinalizeReturns(c) \/ FinalizeRaises(c)
  <2>1. /\ UNCHANGED <<todo, job, hold, registered, active, retired>>
        /\ pending' \subseteq pending \cup {hold[c]}
        /\ \E s \in {"again", "lost", "done"} : pc' = [pc EXCEPT ![c] = s]
        /\ pc[c] # "build"
        /\ UNCHANGED <<gateVars, epoch, attempt, want, doomed>>
    <3>1. CASE ReleaseRaises(c)
      BY <3>1 DEF ReleaseRaises, RetainFailed, managerVars
    <3>2. CASE FinalizeReturns(c)
      BY <3>2 DEF FinalizeReturns
    <3>3. CASE FinalizeRaises(c)
      BY <3>3 DEF FinalizeRaises, RetainFailed
    <3>4. QED
      BY <1>3, <3>1, <3>2, <3>3
  <2>2. CallMoves(c)
    BY <1>0, <2>1 DEF CallMoves, gateVars, States
  <2>3. RecordsMove
    BY <1>0, <2>1 DEF RecordsMove, Named
  <2>4. QED
    BY <2>1, <2>2, <2>3, CallStep
<1>4. QED
  BY <1>1, <1>2, <1>3

-----------------------------------------------------------------------------
(* The steps that acquire, build and publish.                              *)

\* An acquire adds a token and takes none away.
LEMMA AcquireFacts ==
  ASSUME RegInv, NEW c \in Calls, NEW m \in Managers, RegisterAcquire(m, c)
  PROVE  /\ active' \in [Managers -> SUBSET Calls]
         /\ active'[m] # {}
         /\ \A n \in Managers : active[n] # {} => active'[n] # {}
         /\ DOMAIN hold' = Calls
         /\ hold'[c].m = m
         /\ \A d \in Calls : d # c => hold'[d] = hold[d]
         /\ pc' \in [Calls -> States]
         /\ pc'[c] \in {"fresh", "held"}
         /\ \A d \in Calls : d # c => pc'[d] = pc[d]
<1>1. /\ active \in [Managers -> SUBSET Calls]
      /\ DOMAIN hold = Calls
      /\ pc \in [Calls -> States]
  BY DEF RegInv, StoreType, CallType
<1>2. active' = [active EXCEPT ![m] = @ \cup {c}]
  BY DEF RegisterAcquire
<1>3. PICK x : hold' = [hold EXCEPT ![c] = [m |-> m, lease |-> x]]
  BY DEF RegisterAcquire
<1>4. PICK s \in {"fresh", "held"} : pc' = [pc EXCEPT ![c] = s]
  BY DEF RegisterAcquire
<1>5. QED
  BY <1>1, <1>2, <1>3, <1>4 DEF States

\* A lookup meets no retired entry, and an eviction finds no orphan.
LEMMA NoOrphans ==
  ASSUME RegInv
  PROVE  /\ \A k : At(k) \cap retired = {}
         /\ \A k : At(k) \ retired = At(k)
         /\ \A V \in Evictable(registered) : V = {}
<1>1. RegisteredIsHeld
  BY DEF RegInv
<1>2. QED
  BY <1>1 DEF RegisteredIsHeld, At, Evictable

LEMMA BuiltFacts ==
  ASSUME RegInv
  PROVE  /\ \A m \in registered : m \in Managers /\ Built(m)
         /\ \A m \in doomed \cup retired : Built(m)
         /\ Built(NoManager)
         /\ \A c \in Calls : pc[c] = "build" => ~Built(attempt[c])
BY DEF RegInv, StoreType, StoreBuilt, Built, Builders, NoManager

LEMMA LookupStep ==
  ASSUME RegInv, NEW c \in Calls, Lookup(c)
  PROVE  RegInv'
<1> DEFINE k == want[c]
<1>0. /\ registered' = registered /\ doomed' = doomed /\ retired' = retired
      /\ epoch' = epoch /\ pending' = pending
      /\ want' = want /\ todo' = todo /\ job' = job
      /\ pc[c] = "look" /\ k \in Keys
  BY NoOrphans DEF Lookup, RegInv, CallType
<1>1. CASE \E m \in At(k) : RegisterAcquire(m, c) /\ UNCHANGED <<gateVars, attempt>>
  <2>1. PICK m \in At(k) : RegisterAcquire(m, c) /\ UNCHANGED <<gateVars, attempt>>
    BY <1>1
  <2>2. m \in registered /\ m \in Managers /\ Built(m)
    BY <2>1, BuiltFacts DEF At
  <2>3. /\ active' \in [Managers -> SUBSET Calls]
        /\ \A n \in Managers : active[n] # {} => active'[n] # {}
        /\ DOMAIN hold' = Calls
        /\ hold'[c].m = m
        /\ \A d \in Calls : d # c => hold'[d] = hold[d]
        /\ pc' \in [Calls -> States]
        /\ pc'[c] \in {"fresh", "held"}
        /\ \A d \in Calls : d # c => pc'[d] = pc[d]
    BY <2>1, <2>2, AcquireFacts
  <2>4. UNCHANGED <<gate, builds, born, settled, keyOf, attempt>>
    BY <2>1 DEF gateVars
  <2>5. StoreType' /\ CallType'
    BY <1>0, <2>3, <2>4 DEF RegInv, StoreType, CallType
  <2>6. \A d \in Calls : pc'[d] = "build" <=> pc[d] = "build"
    BY <1>0, <2>3
  <2>7. \A n : Built(n) => Built(n)'
    BY <2>4, <2>6 DEF Built
  <2>8. Builders' /\ GatesHaveABuilder'
    BY <1>0, <2>4, <2>6 DEF RegInv, Builders, GatesHaveABuilder
  <2>9. StoreBuilt' /\ RecordsBuilt'
    BY <1>0, <2>2, <2>3, <2>7 DEF RegInv, StoreBuilt, RecordsBuilt
  <2>10. DoomedIsOut' /\ OnePerKey' /\ ClearFencesBuilds'
    BY <1>0, <2>4 DEF RegInv, DoomedIsOut, OnePerKey, ClearFencesBuilds, Current
  <2>11. RegisteredIsHeld'
    BY <1>0, <2>3 DEF RegInv, StoreType, RegisteredIsHeld
  <2>12. WaitersHaveABuilder'
    <3>1. \A d \in Calls : pc'[d] = "wait" => pc[d] = "wait"
      BY <2>3
    <3>2. QED
      BY <2>4, <2>6, <3>1 DEF RegInv, WaitersHaveABuilder
  <2>13. QED
    BY <2>5, <2>8, <2>9, <2>10, <2>11, <2>12 DEF RegInv
<1>2. CASE
     /\ At(k) = {} /\ gate[k] = NoManager /\ builds < MaxBuilds
     /\ builds' = builds + 1
     /\ gate' = [gate EXCEPT ![k] = builds + 1]
     /\ born' = [born EXCEPT ![builds + 1] = epoch]
     /\ keyOf' = [keyOf EXCEPT ![builds + 1] = k]
     /\ attempt' = [attempt EXCEPT ![c] = builds + 1]
     /\ pc' = [pc EXCEPT ![c] = "build"]
     /\ UNCHANGED <<settled, active, legacy, handoff, hold>>
  <2>1. /\ builds \in Nat /\ MaxBuilds \in Nat /\ builds + 1 \in Managers
        /\ builds + 1 \notin 0..builds
    BY <1>2, BoundsAssumption DEF RegInv, StoreType, Managers
  <2>2. StoreType' /\ CallType'
    BY <1>0, <1>2, <2>1 DEF RegInv, StoreType, CallType, States, Managers
  <2>3. /\ \A d \in Calls : pc'[d] = IF d = c THEN "build" ELSE pc[d]
        /\ \A d \in Calls : attempt'[d] = IF d = c THEN builds + 1 ELSE attempt[d]
        /\ \A j \in Keys : gate'[j] = IF j = k THEN builds + 1 ELSE gate[j]
        /\ \A m \in 0..builds : m \in Managers => born'[m] = born[m] /\ keyOf'[m] = keyOf[m]
        /\ keyOf'[builds + 1] = k
    BY <1>0, <1>2, <2>1 DEF RegInv, StoreType, CallType
  <2>4. \A m : Built(m) => Built(m)'
    BY <1>2, <2>1, <2>3 DEF Built
  <2>5. Builders'
    <3>1. \A d \in Calls : d # c /\ pc[d] = "build" =>
            attempt[d] \in 1..builds /\ attempt[d] \in Managers /\ keyOf[attempt[d]] = want[d]
      BY <2>1 DEF RegInv, Builders, StoreType, Managers
    <3>2. SUFFICES ASSUME NEW d \in Calls, pc'[d] = "build"
                   PROVE  /\ attempt'[d] \in 1..builds'
                          /\ keyOf'[attempt'[d]] = want'[d]
                          /\ \A e \in Calls : pc'[e] = "build" /\ attempt'[e] = attempt'[d] => e = d
      BY DEF Builders
    <3>3. CASE d = c
      BY <1>0, <1>2, <2>1, <2>3, <3>1, <3>3
    <3>4. CASE d # c
      <4>1. pc[d] = "build" /\ attempt'[d] = attempt[d]
        BY <2>3, <3>2, <3>4
      <4>2. attempt[d] \in 1..builds /\ keyOf[attempt[d]] = want[d] /\ attempt[d] \in 0..builds /\ attempt[d] \in Managers
        BY <2>1, <3>1, <3>4, <4>1
      <4>3. attempt'[d] \in 1..builds' /\ keyOf'[attempt'[d]] = want'[d]
        BY <1>0, <1>2, <2>1, <2>3, <4>1, <4>2
      <4>4. ASSUME NEW e \in Calls, pc'[e] = "build", attempt'[e] = attempt'[d]
            PROVE  e = d
        <5>1. e # c
          BY <2>1, <2>3, <4>1, <4>2, <4>4
        <5>2. pc[e] = "build" /\ attempt[e] = attempt[d]
          BY <2>3, <4>1, <4>4, <5>1
        <5>3. QED
          BY <4>1, <5>2 DEF RegInv, Builders
      <4>5. QED
        BY <4>3, <4>4
    <3>5. QED
      BY <3>3, <3>4
  <2>6. StoreBuilt' /\ RecordsBuilt'
    BY <1>0, <1>2, <2>4 DEF RegInv, StoreBuilt, RecordsBuilt
  <2>7. \A m \in registered : m \in 0..builds /\ m \in Managers
    BY BuiltFacts DEF Built
  <2>8. DoomedIsOut' /\ OnePerKey' /\ ClearFencesBuilds' /\ RegisteredIsHeld'
    BY <1>0, <1>2, <2>3, <2>7
       DEF RegInv, DoomedIsOut, OnePerKey, ClearFencesBuilds, Current, RegisteredIsHeld
  <2>9. GatesHaveABuilder'
    BY <1>0, <2>3 DEF RegInv, GatesHaveABuilder
  <2>10. WaitersHaveABuilder'
    BY <1>0, <1>2, <2>3 DEF RegInv, WaitersHaveABuilder
  <2>11. QED
    BY <2>2, <2>5, <2>6, <2>8, <2>9, <2>10 DEF RegInv
<1>3. CASE
     /\ At(k) = {} /\ gate[k] # NoManager
     /\ attempt' = [attempt EXCEPT ![c] = gate[k]]
     /\ pc' = [pc EXCEPT ![c] = "wait"]
     /\ UNCHANGED <<gateVars, active, legacy, handoff, hold>>
  <2>1. StoreType' /\ CallType'
    BY <1>0, <1>3 DEF RegInv, StoreType, CallType, States, gateVars
  <2>2. /\ \A d \in Calls : pc'[d] = IF d = c THEN "wait" ELSE pc[d]
        /\ \A d \in Calls : attempt'[d] = IF d = c THEN gate[k] ELSE attempt[d]
    BY <1>3 DEF RegInv, CallType
  <2>3. \A d \in Calls : /\ pc'[d] = "build" <=> pc[d] = "build"
                         /\ pc[d] = "build" => attempt'[d] = attempt[d]
    BY <1>0, <2>2
  <2>4. \A m : Built(m) => Built(m)'
    BY <1>3, <2>3 DEF Built, gateVars
  <2>5. Builders' /\ GatesHaveABuilder'
    BY <1>0, <1>3, <2>3 DEF RegInv, Builders, GatesHaveABuilder, gateVars
  <2>6. StoreBuilt' /\ RecordsBuilt'
    BY <1>0, <1>3, <2>4 DEF RegInv, StoreBuilt, RecordsBuilt
  <2>7. DoomedIsOut' /\ OnePerKey' /\ ClearFencesBuilds' /\ RegisteredIsHeld'
    BY <1>0, <1>3 DEF RegInv, DoomedIsOut, OnePerKey, ClearFencesBuilds,
                      Current, RegisteredIsHeld, gateVars
  <2>8. WaitersHaveABuilder'
    <3>1. \E d \in Calls : pc[d] = "build" /\ attempt[d] = gate[k]
      BY <1>0, <1>3 DEF RegInv, GatesHaveABuilder
    <3>2. QED
      BY <1>3, <2>2, <2>3, <3>1 DEF RegInv, WaitersHaveABuilder, gateVars
  <2>9. QED
    BY <2>1, <2>5, <2>6, <2>7, <2>8 DEF RegInv
<1>4. QED
  BY <1>1, <1>2, <1>3, NoOrphans DEF Lookup

\* The end of an attempt: its builder sets the event, gives the gate back and
\* goes on with something else.
EndsBuild(c) ==
  /\ pc[c] = "build"
  /\ gate' = GateWithout(attempt[c])
  /\ settled' = settled \cup {attempt[c]}
  /\ pc' \in [Calls -> States]
  /\ pc'[c] \notin {"build", "wait"}
  /\ \A d \in Calls : d # c => pc'[d] = pc[d]
  /\ UNCHANGED <<builds, born, keyOf, attempt, want, epoch, todo, job>>

LEMMA EndFacts ==
  ASSUME RegInv, NEW c \in Calls, EndsBuild(c)
  PROVE  /\ attempt[c] \in Managers
         /\ gate' \in [Keys -> {NoManager} \cup Managers]
         /\ Builders' /\ GatesHaveABuilder' /\ WaitersHaveABuilder'
         /\ \A m : Built(m) => Built(m)'
         /\ Built(attempt[c])'
<1>1. /\ attempt[c] \in 1..builds
      /\ \A d \in Calls : pc[d] = "build" /\ attempt[d] = attempt[c] => d = c
  BY DEF RegInv, Builders, EndsBuild
<1>2. attempt[c] \in Managers /\ attempt[c] # NoManager
  BY <1>1, BoundsAssumption DEF RegInv, StoreType, Managers, NoManager
<1>3. /\ gate' \in [Keys -> {NoManager} \cup Managers]
      /\ \A k \in Keys : gate'[k] # NoManager => gate'[k] = gate[k] /\ gate[k] # attempt[c]
  BY DEF RegInv, StoreType, EndsBuild, GateWithout
<1>4. \A d \in Calls : pc'[d] = "build" <=> pc[d] = "build" /\ d # c
  BY DEF EndsBuild
<1>5. Builders'
  BY <1>4 DEF RegInv, Builders, EndsBuild
<1>6. GatesHaveABuilder'
  <2>1. SUFFICES ASSUME NEW k \in Keys, gate'[k] # NoManager
                 PROVE  \E d \in Calls : pc'[d] = "build" /\ attempt'[d] = gate'[k]
    BY DEF GatesHaveABuilder
  <2>2. PICK d \in Calls : pc[d] = "build" /\ attempt[d] = gate[k]
    BY <1>3, <2>1 DEF RegInv, GatesHaveABuilder
  <2>3. QED
    BY <1>3, <1>4, <2>1, <2>2 DEF EndsBuild
<1>7. WaitersHaveABuilder'
  <2>1. SUFFICES ASSUME NEW w \in Calls, pc'[w] = "wait", attempt'[w] \notin settled'
                 PROVE  \E d \in Calls : pc'[d] = "build" /\ attempt'[d] = attempt'[w]
    BY DEF WaitersHaveABuilder
  <2>2. pc[w] = "wait" /\ attempt[w] \notin settled /\ attempt[w] # attempt[c]
    BY <2>1 DEF EndsBuild
  <2>3. PICK d \in Calls : pc[d] = "build" /\ attempt[d] = attempt[w]
    BY <2>2 DEF RegInv, WaitersHaveABuilder
  <2>4. QED
    BY <1>4, <2>2, <2>3 DEF EndsBuild
<1>8. \A m : Built(m) => Built(m)'
  BY <1>4 DEF Built, EndsBuild
<1>9. attempt[c] \in 0..builds
  BY <1>1 DEF RegInv, StoreType
<1>10. Built(attempt[c])'
  BY <1>1, <1>4, <1>9 DEF Built, EndsBuild
<1>11. QED
  BY <1>2, <1>3, <1>5, <1>6, <1>7, <1>8, <1>10

LEMMA BuildFailsStep ==
  ASSUME RegInv, NEW c \in Calls, BuildFails(c)
  PROVE  RegInv'
<1>1. EndsBuild(c)
  BY DEF BuildFails, EndsBuild, Woken, RegInv, CallType, States
<1>2. UNCHANGED <<registered, doomed, retired, active, pending, hold>>
  BY DEF BuildFails, managerVars
<1>3. StoreType' /\ CallType'
  BY <1>1, <1>2, EndFacts DEF RegInv, StoreType, CallType, EndsBuild
<1>4. StoreBuilt' /\ RecordsBuilt'
  BY <1>1, <1>2, EndFacts DEF RegInv, StoreBuilt, RecordsBuilt, EndsBuild
<1>5. DoomedIsOut' /\ OnePerKey' /\ ClearFencesBuilds' /\ RegisteredIsHeld'
  BY <1>1, <1>2 DEF RegInv, DoomedIsOut, OnePerKey, ClearFencesBuilds,
                    Current, RegisteredIsHeld, EndsBuild
<1>6. QED
  BY <1>1, <1>3, <1>4, <1>5, EndFacts DEF RegInv

LEMMA PublishStep ==
  ASSUME RegInv, NEW c \in Calls, Publish(c)
  PROVE  RegInv'
<1> DEFINE a == attempt[c]
           k == want[c]
<1>0. /\ pc[c] = "build"
      /\ gate' = GateWithout(a) /\ settled' = settled \cup {a}
      /\ UNCHANGED <<builds, born, keyOf, attempt, want, epoch, todo, job,
                     retired, pending>>
      /\ keyOf[a] = k
      /\ a \in Managers
  BY BoundsAssumption DEF Publish, Woken, RegInv, Builders, StoreType, Managers
<1>1. ~Built(a) /\ a \notin registered /\ a \notin doomed /\ a \notin retired
  BY <1>0, BuiltFacts
<1>2. CASE MayPublish(a, At(k)) /\ registered' = registered \cup {a}
             /\ doomed' = doomed /\ RegisterAcquire(a, c)
  <2>1. /\ active' \in [Managers -> SUBSET Calls]
        /\ active'[a] # {}
        /\ \A n \in Managers : active[n] # {} => active'[n] # {}
        /\ DOMAIN hold' = Calls
        /\ hold'[c].m = a
        /\ \A d \in Calls : d # c => hold'[d] = hold[d]
        /\ pc' \in [Calls -> States]
        /\ pc'[c] \in {"fresh", "held"}
        /\ \A d \in Calls : d # c => pc'[d] = pc[d]
    BY <1>0, <1>2, AcquireFacts
  <2>2. EndsBuild(c)
    BY <1>0, <2>1 DEF EndsBuild
  <2>3. StoreType' /\ CallType'
    BY <1>0, <1>2, <2>1, <2>2, EndFacts DEF RegInv, StoreType, CallType
  <2>4. StoreBuilt' /\ RecordsBuilt'
    BY <1>0, <1>2, <2>1, <2>2, EndFacts DEF RegInv, StoreBuilt, RecordsBuilt
  <2>5. At(k) = {} /\ born[a] = epoch
    BY <1>2 DEF MayPublish
  <2>6. DoomedIsOut' /\ ClearFencesBuilds'
    BY <1>0, <1>1, <1>2, <2>5 DEF RegInv, DoomedIsOut, ClearFencesBuilds, Current
  <2>7. OnePerKey'
    BY <1>0, <1>2, <2>5 DEF RegInv, OnePerKey, At
  <2>8. RegisteredIsHeld'
    BY <1>0, <1>1, <1>2, <2>1 DEF RegInv, StoreType, RegisteredIsHeld
  <2>9. QED
    BY <2>2, <2>3, <2>4, <2>6, <2>7, <2>8, EndFacts DEF RegInv
<1>3. CASE /\ registered' = registered /\ doomed' = doomed \cup {a}
           /\ \E m \in At(k) : RegisterAcquire(m, c)
  <2>0. PICK m \in registered : RegisterAcquire(m, c)
    BY <1>3 DEF At
  <2>1. /\ active' \in [Managers -> SUBSET Calls]
        /\ \A n \in Managers : active[n] # {} => active'[n] # {}
        /\ DOMAIN hold' = Calls
        /\ hold'[c].m = m
        /\ \A d \in Calls : d # c => hold'[d] = hold[d]
        /\ pc' \in [Calls -> States]
        /\ pc'[c] \in {"fresh", "held"}
        /\ \A d \in Calls : d # c => pc'[d] = pc[d]
    BY <2>0, BuiltFacts, AcquireFacts
  <2>2. EndsBuild(c)
    BY <1>0, <2>1 DEF EndsBuild
  <2>3. StoreType' /\ CallType'
    BY <1>0, <1>3, <2>1, <2>2, EndFacts DEF RegInv, StoreType, CallType
  <2>4. StoreBuilt' /\ RecordsBuilt'
    BY <1>0, <1>3, <2>0, <2>1, <2>2, EndFacts, BuiltFacts
       DEF RegInv, StoreBuilt, RecordsBuilt
  <2>5. DoomedIsOut' /\ OnePerKey' /\ ClearFencesBuilds'
    BY <1>0, <1>1, <1>3 DEF RegInv, DoomedIsOut, OnePerKey, ClearFencesBuilds,
                            Current
  <2>6. RegisteredIsHeld'
    BY <1>0, <1>3, <2>1 DEF RegInv, StoreType, RegisteredIsHeld
  <2>7. QED
    BY <2>2, <2>3, <2>4, <2>5, <2>6, EndFacts DEF RegInv
<1>4. CASE /\ registered' = registered /\ doomed' = doomed \cup {a}
           /\ pc' = [pc EXCEPT ![c] = "look"]
           /\ UNCHANGED <<active, legacy, handoff, hold>>
  <2>1. EndsBuild(c)
    BY <1>0, <1>4 DEF EndsBuild, RegInv, CallType, States
  <2>2. StoreType' /\ CallType'
    BY <1>0, <1>4, <2>1, EndFacts DEF RegInv, StoreType, CallType, EndsBuild
  <2>3. StoreBuilt' /\ RecordsBuilt'
    BY <1>0, <1>4, <2>1, EndFacts DEF RegInv, StoreBuilt, RecordsBuilt
  <2>4. DoomedIsOut' /\ OnePerKey' /\ ClearFencesBuilds' /\ RegisteredIsHeld'
    BY <1>0, <1>1, <1>4 DEF RegInv, DoomedIsOut, OnePerKey, ClearFencesBuilds,
                            Current, RegisteredIsHeld
  <2>5. QED
    BY <2>1, <2>2, <2>3, <2>4, EndFacts DEF RegInv
<1>5. /\ At(k) \cap retired = {} /\ At(k) \ retired = At(k)
      /\ registered \ {} = registered /\ doomed \cup {} = doomed
      /\ \A V \in Evictable(registered) : V = {}
  BY NoOrphans
<1>6. QED
  BY <1>2, <1>3, <1>4, <1>5 DEF Publish

-----------------------------------------------------------------------------
(* The teardowns, and the invariant.                                       *)

LEMMA TeardownStep ==
  ASSUME RegInv, NEW m \in Managers, Teardown(m)
  PROVE  RegInv'
<1>1. /\ m \in doomed /\ m \notin registered
      /\ UNCHANGED <<registered, epoch, gate, builds, born, settled, keyOf, pc,
                     want, attempt, hold, todo, job>>
      /\ doomed' = doomed \ {m} /\ retired' = retired \cup {m}
      /\ pending' \subseteq pending
      /\ active' = [active EXCEPT ![m] = {}]
  BY RecordFacts DEF Teardown, gateVars, callVars, RegInv, DoomedIsOut
<1>2. StoreType' /\ CallType'
  BY <1>1 DEF RegInv, StoreType, CallType
<1>3. \A n : Built(n) => Built(n)'
  BY <1>1 DEF Built
<1>4. StoreBuilt' /\ RecordsBuilt'
  BY <1>1, <1>3 DEF RegInv, StoreBuilt, RecordsBuilt
<1>5. Builders' /\ GatesHaveABuilder' /\ WaitersHaveABuilder'
  BY <1>1 DEF RegInv, Builders, GatesHaveABuilder, WaitersHaveABuilder
<1>6. DoomedIsOut' /\ OnePerKey' /\ ClearFencesBuilds'
  BY <1>1 DEF RegInv, DoomedIsOut, OnePerKey, ClearFencesBuilds, Current
<1>7. RegisteredIsHeld'
  BY <1>1 DEF RegInv, StoreType, RegisteredIsHeld
<1>8. QED
  BY <1>2, <1>4, <1>5, <1>6, <1>7 DEF RegInv

LEMMA ClearStep ==
  ASSUME RegInv, Clear
  PROVE  RegInv'
<1>1. /\ registered' = {} /\ doomed' = doomed \cup registered
      /\ retired' = retired \cup registered
      /\ epoch' = epoch + 1
      /\ settled \subseteq settled'
      /\ gate' = [j \in Keys |-> NoManager]
      /\ UNCHANGED <<builds, born, keyOf, pc, want, attempt, hold, todo, job,
                     pending>>
      /\ active' = [m \in Managers |-> IF m \in registered THEN {} ELSE active[m]]
  BY DEF Clear, callVars
<1>2. StoreType' /\ CallType'
  BY <1>1 DEF RegInv, StoreType, CallType
<1>3. \A n : Built(n) => Built(n)'
  BY <1>1 DEF Built
<1>4. StoreBuilt' /\ RecordsBuilt'
  BY <1>1, <1>3 DEF RegInv, StoreBuilt, RecordsBuilt
<1>5. Builders' /\ GatesHaveABuilder' /\ WaitersHaveABuilder'
  BY <1>1 DEF RegInv, Builders, GatesHaveABuilder, WaitersHaveABuilder
<1>6. DoomedIsOut' /\ OnePerKey' /\ ClearFencesBuilds' /\ RegisteredIsHeld'
  BY <1>1 DEF DoomedIsOut, OnePerKey, ClearFencesBuilds, RegisteredIsHeld
<1>7. QED
  BY <1>2, <1>4, <1>5, <1>6 DEF RegInv

LEMMA RegInvInit == Init => RegInv
<1> SUFFICES ASSUME Init PROVE RegInv
  OBVIOUS
<1>1. StoreType
  BY BoundsAssumption DEF Init, StoreType
<1>2. CallType
  BY DEF Init, CallType, States
<1>3. Builders /\ GatesHaveABuilder /\ WaitersHaveABuilder
  BY DEF Init, Builders, GatesHaveABuilder, WaitersHaveABuilder
<1>4. Built(NoManager)
  BY DEF Init, Built, NoManager
<1>5. StoreBuilt /\ RecordsBuilt
  BY <1>4, RecordFacts DEF Init, StoreBuilt, RecordsBuilt
<1>6. DoomedIsOut /\ OnePerKey /\ ClearFencesBuilds /\ RegisteredIsHeld
  BY DEF Init, DoomedIsOut, OnePerKey, ClearFencesBuilds, RegisteredIsHeld
<1>7. QED
  BY <1>1, <1>2, <1>3, <1>5, <1>6 DEF RegInv

LEMMA RegInvStep == RegInv /\ [Next]_vars => RegInv'
<1> SUFFICES ASSUME RegInv, [Next]_vars PROVE RegInv'
  OBVIOUS
<1>1. CASE Clear
  BY <1>1, ClearStep
<1>2. ASSUME NEW m \in Managers, Teardown(m) PROVE RegInv'
  BY <1>2, TeardownStep
<1>3. ASSUME NEW c \in Calls,
             \/ Start(c) \/ RetryRelease(c) \/ RetryRaises(c)
             \/ RetryFinalized(c) \/ RetryFinalizeRaises(c) \/ RetryDone(c)
             \/ Wake(c)
      PROVE  RegInv'
  BY <1>3, RetryStep
<1>4. ASSUME NEW c \in Calls,
             \/ Adopt(c) \/ KeepLegacy(c) \/ Release(c) \/ ReleaseRaises(c)
             \/ FinalizeReturns(c) \/ FinalizeRaises(c) \/ ReleaseAgain(c)
      PROVE  RegInv'
  BY <1>4, ReleaseStep
<1>5. ASSUME NEW c \in Calls, Lookup(c) \/ BuildFails(c) \/ Publish(c)
      PROVE  RegInv'
  BY <1>5, LookupStep, BuildFailsStep, PublishStep
<1>6. CASE UNCHANGED vars
  <2>1. UNCHANGED <<registered, keyOf, gate, builds, born, settled, epoch,
                    active, retired, doomed, pending, pc, want, attempt, hold,
                    todo, job>>
    BY <1>6 DEF vars, managerVars, gateVars, callVars
  <2>2. QED
    BY <2>1 DEF RegInv, StoreType, CallType, Builders, Built, StoreBuilt,
                RecordsBuilt, DoomedIsOut, GatesHaveABuilder, RegisteredIsHeld,
                OnePerKey, ClearFencesBuilds, Current, WaitersHaveABuilder
<1>7. QED
  BY <1>1, <1>2, <1>3, <1>4, <1>5, <1>6 DEF Next

LEMMA RegInvHolds == Spec => []RegInv
BY RegInvInit, RegInvStep, PTL DEF Spec

-----------------------------------------------------------------------------
(* The theorems.                                                           *)

\* Whatever is registered has a holder and is not retired: the eviction of
\* _collect_orphans_under_lock never has a victim, and a lookup never meets a
\* retired entry (_manager.py:1266-1284 and 1103-1110).
THEOREM RegisteredIsHeldHolds == Spec => []RegisteredIsHeld
<1>1. RegInv => RegisteredIsHeld
  BY DEF RegInv
<1>2. QED
  BY <1>1, RegInvHolds, PTL

\* Two managers are never registered under one key, although constructions
\* run outside the lock (_manager.py:1155-1196).
THEOREM OnePerKeyHolds == Spec => []OnePerKey
<1>1. RegInv => OnePerKey
  BY DEF RegInv
<1>2. QED
  BY <1>1, RegInvHolds, PTL

\* No candidate of an old generation is registered after clear_registry()
\* (_manager.py:1155-1158).
THEOREM ClearFencesBuildsHolds == Spec => []ClearFencesBuilds
<1>1. RegInv => ClearFencesBuilds
  BY DEF RegInv
<1>2. QED
  BY <1>1, RegInvHolds, PTL

\* Nobody waits for a construction that is over, or that was never started
\* (_manager.py:1129-1132, 1148, 1199 and 2461).
THEOREM WaitersHaveABuilderHolds == Spec => []WaitersHaveABuilder
<1>1. RegInv => WaitersHaveABuilder
  BY DEF RegInv
<1>2. QED
  BY <1>1, RegInvHolds, PTL

LEMMA LastTokenLeaves ==
  ASSUME RegInv, NEW h, Leaves(h), NEW m \in registered \ registered'
  PROVE  active'[m] = {} /\ Cardinality(active[m]) = 1
<1>1. active'[m] = {} /\ active[m] = {TokenOf(h)}
  BY DEF RegInv, RegisteredIsHeld, Leaves
<1>2. Cardinality({TokenOf(h)}) = 1
  BY FS_Singleton
<1>3. QED
  BY <1>1, <1>2

LEMMA SuccessorStep ==
  ASSUME RegInv, Next, NEW m \in registered \ registered'
  PROVE  /\ active'[m] = {}
         /\ epoch' = epoch => Cardinality(active[m]) = 1
<1>1. CASE Clear
  BY <1>1 DEF Clear, RegInv, StoreType
<1>2. ASSUME NEW n \in Managers, Teardown(n) PROVE FALSE
  BY <1>2 DEF Teardown
<1>3. ASSUME NEW c \in Calls,
             \/ Start(c) \/ RetryRaises(c) \/ RetryFinalized(c)
             \/ RetryFinalizeRaises(c) \/ RetryDone(c) \/ Wake(c) \/ BuildFails(c) \/ Adopt(c)
             \/ KeepLegacy(c) \/ ReleaseRaises(c)
             \/ FinalizeReturns(c) \/ FinalizeRaises(c)
      PROVE  FALSE
  BY <1>3 DEF Start, RetryRaises, RetryFinalized, RetryFinalizeRaises,
              RetryDone, Wake, BuildFails, Adopt, KeepLegacy, ReleaseRaises, FinalizeReturns, FinalizeRaises
<1>4. ASSUME NEW c \in Calls, Lookup(c) PROVE FALSE
  BY <1>4, NoOrphans DEF Lookup
<1>5. ASSUME NEW c \in Calls, Publish(c) PROVE FALSE
  <2>1. /\ At(want[c]) \cap retired = {}
        /\ registered \ {} = registered
        /\ \A V \in Evictable(registered) : V = {}
    BY NoOrphans
  <2>2. QED
    BY <1>5, <2>1 DEF Publish
<1>6. ASSUME NEW c \in Calls,
             RetryRelease(c) \/ Release(c) \/ ReleaseAgain(c)
      PROVE  active'[m] = {} /\ Cardinality(active[m]) = 1
  <2>1. PICK h : Consume(h)
    BY <1>6 DEF RetryRelease, Release, ReleaseAgain
  <2>2. Leaves(h)
    BY <2>1, ConsumeFacts DEF RegInv
  <2>3. QED
    BY <2>2, LastTokenLeaves
<1>7. QED
  BY <1>1, <1>2, <1>3, <1>4, <1>5, <1>6 DEF Next

\* A manager leaves the registry with the last of its own tokens, or by
\* clear_registry(): a late release of its predecessor under the same key
\* never takes it out (_manager.py:2271-2273).
THEOREM SuccessorStaysHolds == Spec => SuccessorStays
<1> DEFINE A == \A m \in registered \ registered' :
                  /\ active'[m] = {}
                  /\ epoch' = epoch => Cardinality(active[m]) = 1
<1>1. RegInv /\ [Next]_vars => [A]_vars
  BY SuccessorStep
<1>2. QED
  BY <1>1, RegInvHolds, PTL DEF Spec, SuccessorStays

(* The four parts together, for any calls, threads, keys and styles.       *)
THEOREM RegistryIsSound == Spec => []RegistrySound
  BY RegisteredIsHeldHolds, OnePerKeyHolds, ClearFencesBuildsHolds,
     WaitersHaveABuilderHolds, PTL DEF RegistrySound

-----------------------------------------------------------------------------
(* The tokens.                                                             *)

\* The calls that have acquired, and those whose release has begun.
Acquired == {"fresh", "held", "again", "final", "done", "lost"}
Ended == {"again", "final", "done", "lost"}

HoldTypes ==
  /\ legacy \in [Managers -> Seq(Calls)]
  /\ handoff \in [Managers -> [Threads -> Seq(Calls)]]
  /\ hold \in [Calls -> Hold]

\* Where a call is says what it may hold; close() never raises here.
HoldPlaces ==
  \A c \in Calls :
    /\ pc[c] \notin Acquired => hold[c] = NoHold
    /\ pc[c] \in Acquired => hold[c].m \in Managers
    /\ pc[c] = "fresh" => ~IsLease(hold[c])
    /\ pc[c] \in GivenUp => IsLease(hold[c])

\* A token is with the manager that its call acquired.
TokensHome ==
  \A m \in Managers : \A x \in active[m] : pc[x] \in Acquired /\ hold[x].m = m

Distinct(s) == \A i, j \in 1..Len(s) : s[i] = s[j] => i = j

\* A legacy token is active, and a handoff is a legacy token of its thread.
LegacyTokens ==
  \A m \in Managers :
    /\ Distinct(legacy[m])
    /\ Range(legacy[m]) \subseteq active[m]
HandoffTokens ==
  \A m \in Managers : \A t \in Threads :
    /\ Distinct(handoff[m][t])
    /\ \A x \in Range(handoff[m][t]) : x \in Range(legacy[m]) /\ ThreadOf[x] = t

\* A lease has a token of its own, which close() cannot take.
LeasesOwn ==
  \A c \in Calls : IsLease(hold[c]) =>
    /\ pc[hold[c].lease] \in Acquired
    /\ \A n \in Managers : hold[c].lease \notin Range(legacy[n])
    /\ \A d \in Calls : hold[d].lease = hold[c].lease => d = c

\* The token of a lease lives until the lease is released, and no longer.
LeasesLive ==
  \A c \in Calls :
    pc[c] = "held" /\ IsLease(hold[c]) /\ Current(hold[c].m) =>
      hold[c].lease \in active[hold[c].m]
LeasesSpent ==
  \A c \in Calls :
    pc[c] \in {"final", "done"} /\ IsLease(hold[c]) =>
      hold[c].lease \notin active[hold[c].m]

\* Every other token is that of a lease.
TokensOwned ==
  \A m \in Managers : \A x \in active[m] :
    x \notin Range(legacy[m]) => \E c \in Calls : hold[c].m = m /\ hold[c].lease = x

\* A current manager with a token is registered.
ActiveRegistered ==
  \A m \in Managers : Current(m) /\ active[m] # {} => m \in registered

BornByNow == \A m \in Managers : born[m] <= epoch

\* A current manager has as many legacy tokens as holders that will close().
Closers(m) ==
  {c \in Calls : pc[c] \in Holding /\ hold[c].m = m /\ ~IsLease(hold[c])}
LegacyCounted ==
  \A m \in Managers : Current(m) => Len(legacy[m]) = Cardinality(Closers(m))

TokenInv ==
  /\ HoldTypes /\ HoldPlaces /\ TokensHome /\ LegacyTokens /\ HandoffTokens
  /\ LeasesOwn /\ LeasesLive /\ LeasesSpent /\ TokensOwned
  /\ ActiveRegistered /\ BornByNow /\ LegacyCounted

\* What the backlog and its retries name are leases whose release has begun.
FailedRelease(h) ==
  IsLease(h) /\ \E d \in Calls : hold[d] = h /\ pc[d] \in Ended
RecordsFailed ==
  /\ \A h \in pending : FailedRelease(h)
  /\ \A c \in Calls : \A h \in todo[c] : FailedRelease(h)

\* A retry that runs the finalizer has consumed the token.
JobsSpent ==
  \A c \in Calls : pc[c] = "retryFinal" =>
    FailedRelease(job[c]) /\ job[c].lease \notin active[job[c].m]

RecordInv == RecordsFailed /\ JobsSpent /\ FailedReleaseIsKept

HoldInv == TokenInv /\ RecordInv

-----------------------------------------------------------------------------
(* The lists of tokens.                                                    *)

\* deque.remove() on a list without repetitions.
LEMMA WithoutFacts ==
  ASSUME NEW S, NEW s \in Seq(S), NEW x, Distinct(s)
  PROVE  /\ Without(s, x) \in Seq(S)
         /\ Distinct(Without(s, x))
         /\ Range(Without(s, x)) = Range(s) \ {x}
         /\ x \in Range(s) => Len(Without(s, x)) = Len(s) - 1
         /\ x \notin Range(s) => Without(s, x) = s
<1>1. CASE x \notin Range(s)
  <2>1. Without(s, x) = s
    BY <1>1 DEF Without, RemoveFirst, Range
  <2>2. QED
    BY <1>1, <2>1
<1>2. CASE x \in Range(s)
  <2> DEFINE I == {i \in 1..Len(s) : s[i] = x}
             k == Min(I)
  <2>1. PICK i \in 1..Len(s) : s[i] = x
    BY <1>2 DEF Range
  <2>2. I = {i}
    BY <2>1 DEF Distinct
  <2>3. i \in I /\ \A y \in I : i <= y
    BY <2>1, <2>2
  <2>4. k \in I
    BY <2>3, Zenon DEF Min
  <2>5. k = i
    BY <2>2, <2>4
  <2>6. Without(s, x) = SubSeq(s, 1, k - 1) \o SubSeq(s, k + 1, Len(s))
    BY <2>1, Zenon DEF Without, RemoveFirst, RemoveAt, SelectInSeq
  <2> HIDE DEF k, I
  <2> DEFINE p == SubSeq(s, 1, i - 1)
             q == SubSeq(s, i + 1, Len(s))
             w == p \o q
  <2>7. /\ p \in Seq(S) /\ Len(p) = i - 1
        /\ \A j \in 1..(i - 1) : p[j] = s[j]
    BY <2>1
  <2>8. /\ q \in Seq(S) /\ Len(q) = Len(s) - i
        /\ \A j \in 1..(Len(s) - i) : q[j] = s[i + j]
    BY <2>1
  <2>9. Without(s, x) = w
    BY <2>5, <2>6
  <2> HIDE DEF p, q
  <2>10. /\ w \in Seq(S) /\ Len(w) = Len(p) + Len(q)
         /\ \A j \in 1..(Len(p) + Len(q)) :
              w[j] = IF j <= Len(p) THEN p[j] ELSE q[j - Len(p)]
    BY <2>7, <2>8, ConcatProperties
  <2>11. Len(w) = Len(s) - 1 /\ DOMAIN w = 1..(Len(s) - 1)
    BY <2>1, <2>7, <2>8, <2>10
  <2> HIDE DEF w
  <2>12. \A j \in 1..(Len(s) - 1) : w[j] = IF j < i THEN s[j] ELSE s[j + 1]
    <3> SUFFICES ASSUME NEW j \in 1..(Len(s) - 1)
                 PROVE  w[j] = IF j < i THEN s[j] ELSE s[j + 1]
      OBVIOUS
    <3>1. CASE j < i
      <4>1. j \in 1..(i - 1) /\ j <= Len(p) /\ j \in 1..(Len(p) + Len(q))
        BY <2>1, <2>7, <2>8, <3>1
      <4>2. QED
        BY <2>7, <2>10, <3>1, <4>1
    <3>2. CASE ~(j < i)
      <4>1. /\ j - Len(p) \in 1..(Len(s) - i) /\ ~(j <= Len(p))
            /\ j \in 1..(Len(p) + Len(q))
            /\ i + (j - Len(p)) = j + 1
        BY <2>1, <2>7, <2>8, <3>2
      <4>2. w[j] = q[j - Len(p)] /\ q[j - Len(p)] = s[i + (j - Len(p))]
        BY <2>8, <2>10, <4>1
      <4>3. QED
        BY <3>2, <4>1, <4>2
    <3>3. QED
      BY <3>1, <3>2
  <2>13. Distinct(w)
    <3> SUFFICES ASSUME NEW a \in 1..(Len(s) - 1), NEW b \in 1..(Len(s) - 1), w[a] = w[b]
                 PROVE  a = b
      BY <2>11 DEF Distinct
    <3> DEFINE aa == IF a < i THEN a ELSE a + 1
               bb == IF b < i THEN b ELSE b + 1
    <3>1. aa \in 1..Len(s) /\ bb \in 1..Len(s) /\ s[aa] = s[bb]
      BY <2>1, <2>12
    <3>2. aa = bb
      BY <3>1 DEF Distinct
    <3>3. QED
      BY <2>1, <3>2
  <2>14. Range(w) = Range(s) \ {x}
    <3>1. ASSUME NEW y \in Range(w) PROVE y \in Range(s) \ {x}
      <4>1. PICK j \in 1..(Len(s) - 1) : y = w[j]
        BY <2>10, <2>11, <3>1 DEF Range
      <4> DEFINE jj == IF j < i THEN j ELSE j + 1
      <4>2. jj \in 1..Len(s) /\ jj # i /\ y = s[jj]
        BY <2>1, <2>12, <4>1
      <4>3. y # x
        BY <2>1, <4>2 DEF Distinct
      <4>4. QED
        BY <4>2, <4>3 DEF Range
    <3>2. ASSUME NEW y \in Range(s), y # x PROVE y \in Range(w)
      <4>1. PICK j \in 1..Len(s) : y = s[j]
        BY <3>2 DEF Range
      <4>2. j # i
        BY <2>1, <3>2, <4>1
      <4> DEFINE jj == IF j < i THEN j ELSE j - 1
      <4>3. jj \in 1..(Len(s) - 1) /\ w[jj] = s[j]
        BY <2>1, <2>12, <4>1, <4>2
      <4>4. QED
        BY <2>11, <4>1, <4>3, Zenon DEF Range
    <3>3. QED
      BY <3>1, <3>2
  <2>15. QED
    BY <1>2, <2>9, <2>10, <2>11, <2>13, <2>14
<1>3. QED
  BY <1>1, <1>2

LEMMA AppendFacts ==
  ASSUME NEW S, NEW s \in Seq(S), NEW x \in S
  PROVE  /\ Append(s, x) \in Seq(S)
         /\ Len(Append(s, x)) = Len(s) + 1
         /\ Range(Append(s, x)) = Range(s) \cup {x}
         /\ Distinct(s) /\ x \notin Range(s) => Distinct(Append(s, x))
<1>1. /\ Append(s, x) \in Seq(S) /\ Len(Append(s, x)) = Len(s) + 1
      /\ \A i \in 1..Len(s) : Append(s, x)[i] = s[i]
      /\ Append(s, x)[Len(s) + 1] = x
      /\ DOMAIN s = 1..Len(s) /\ Len(s) \in Nat
  BY AppendProperties
<1>2. DOMAIN Append(s, x) = 1..(Len(s) + 1)
  BY <1>1
<1> DEFINE a == Append(s, x)
<1> HIDE DEF a
<1>3. Range(a) = Range(s) \cup {x}
  <2>1. \A i \in 1..(Len(s) + 1) : i \in 1..Len(s) \/ i = Len(s) + 1
    BY <1>1
  <2>2. \A i \in 1..Len(s) : i \in 1..(Len(s) + 1)
    BY <1>1
  <2>3. Len(s) + 1 \in 1..(Len(s) + 1)
    BY <1>1
  <2>4. QED
    BY <1>1, <1>2, <2>1, <2>2, <2>3 DEF Range, a
<1>4. ASSUME Distinct(s), x \notin Range(s) PROVE Distinct(a)
  <2> SUFFICES ASSUME NEW i \in 1..(Len(s) + 1), NEW j \in 1..(Len(s) + 1), a[i] = a[j]
               PROVE  i = j
    BY <1>1 DEF Distinct, a
  <2>1. /\ i \in 1..Len(s) \/ i = Len(s) + 1
        /\ j \in 1..Len(s) \/ j = Len(s) + 1
    BY <1>1
  <2>2. \A n \in 1..Len(s) : s[n] # x
    BY <1>1, <1>4 DEF Range
  <2>3. QED
    BY <1>1, <1>4, <2>1, <2>2 DEF Distinct, a
<1>5. QED
  BY <1>1, <1>3, <1>4 DEF a

\* What is left of a list when its last element is popped.
LEMMA PoppedFacts ==
  ASSUME NEW S, NEW s \in Seq(S), s # <<>>, Distinct(s)
  PROVE  /\ SubSeq(s, 1, Len(s) - 1) \in Seq(S)
         /\ Distinct(SubSeq(s, 1, Len(s) - 1))
         /\ Range(SubSeq(s, 1, Len(s) - 1)) \subseteq Range(s) \ {s[Len(s)]}
         /\ s[Len(s)] \in Range(s)
<1> DEFINE p == SubSeq(s, 1, Len(s) - 1)
<1>1. Len(s) \in Nat /\ Len(s) >= 1 /\ DOMAIN s = 1..Len(s)
  BY EmptySeq
<1>2. /\ p \in Seq(S) /\ Len(p) = Len(s) - 1
      /\ \A j \in 1..(Len(s) - 1) : p[j] = s[j]
      /\ DOMAIN p = 1..(Len(s) - 1)
  BY <1>1
<1> HIDE DEF p
<1>3. Distinct(p)
  BY <1>1, <1>2 DEF Distinct
<1>4. Range(p) \subseteq Range(s) \ {s[Len(s)]}
  <2> SUFFICES ASSUME NEW j \in 1..(Len(s) - 1)
               PROVE  p[j] \in Range(s) \ {s[Len(s)]}
    BY <1>2 DEF Range
  <2>1. \A n \in Nat : n >= 1 => \A i \in 1..(n - 1) : i \in 1..n /\ n \in 1..n /\ i # n
    OBVIOUS
  <2>2. QED
    BY <1>1, <1>2, <2>1, Zenon DEF Range, Distinct
<1>5. s[Len(s)] \in Range(s)
  <2>1. Len(s) \in 1..Len(s)
    BY <1>1
  <2>2. QED
    BY <1>1, <2>1 DEF Range
<1>6. QED
  BY <1>2, <1>3, <1>4, <1>5 DEF p

-----------------------------------------------------------------------------
(* The steps that move no token.                                           *)

\* No call has the manager.
Unheld(m) == \A d \in Calls : hold[d].m # m

\* The calls go on, within their acquire or within their release.
QuietMove ==
  \A d \in Calls :
    \/ pc'[d] = pc[d]
    \/ pc[d] \notin Acquired /\ pc'[d] \notin Acquired
    \/ pc[d] = "fresh" /\ pc'[d] = "held"
    \/ pc[d] = "final" /\ pc'[d] = "done"
    \/ IsLease(hold[d]) /\ pc[d] \in {"held", "again", "final"} /\ pc'[d] \in GivenUp

\* Only a manager that nobody has becomes current.
Ages ==
  /\ epoch' = epoch /\ born' \in [Managers -> Nat]
  /\ \A m \in Managers : born'[m] = born[m] \/ (born'[m] = epoch /\ Unheld(m))

LEMMA UnheldFacts ==
  ASSUME StoreType, TokenInv, NEW m \in Managers, Unheld(m)
  PROVE  active[m] = {} /\ legacy[m] = <<>> /\ Closers(m) = {}
<1>1. active[m] = {}
  BY DEF TokenInv, TokensHome, Unheld, StoreType
<1>2. Range(legacy[m]) = {} /\ legacy[m] \in Seq(Calls)
  BY <1>1 DEF TokenInv, HoldTypes, LegacyTokens
<1>3. legacy[m] = <<>>
  <2>1. Len(legacy[m]) \in Nat /\ DOMAIN legacy[m] = 1..Len(legacy[m])
    BY <1>2
  <2>2. 1 \notin 1..Len(legacy[m])
    BY <1>2, <2>1 DEF Range
  <2>3. Len(legacy[m]) = 0
    BY <2>1, <2>2
  <2>4. QED
    BY <1>2, <2>3, EmptySeq
<1>4. QED
  BY <1>1, <1>3 DEF Closers, Unheld

LEMMA QuietTokens ==
  ASSUME StoreType, TokenInv, QuietMove, Ages, registered \subseteq registered',
         UNCHANGED <<active, legacy, handoff, hold>>
  PROVE  TokenInv'
<1>1. \A d \in Calls : pc'[d] \in Acquired <=> pc[d] \in Acquired
  BY DEF QuietMove, Acquired, GivenUp
<1>2. HoldTypes'
  BY DEF TokenInv, HoldTypes
<1>3. HoldPlaces'
  BY <1>1 DEF TokenInv, HoldPlaces, QuietMove, GivenUp, Acquired
<1>4. TokensHome'
  BY <1>1 DEF TokenInv, TokensHome, StoreType
<1>5. LegacyTokens' /\ HandoffTokens'
  BY DEF TokenInv, LegacyTokens, HandoffTokens
<1>6. LeasesOwn'
  <2>1. \A d \in Calls : IsLease(hold[d]) => hold[d].lease \in Calls
    BY DEF TokenInv, HoldTypes, Hold, IsLease
  <2>2. QED
    BY <1>1, <2>1 DEF TokenInv, LeasesOwn
<1>7. \A m \in Managers : Current(m)' => Current(m) \/ Unheld(m)
  BY DEF Ages, Current
<1>8. LeasesLive'
  <2> SUFFICES ASSUME NEW d \in Calls, pc'[d] = "held", IsLease(hold[d]), Current(hold[d].m)'
               PROVE  hold[d].lease \in active[hold[d].m]
    BY DEF LeasesLive, Current
  <2>1. pc[d] = "held" /\ hold[d].m \in Managers
    BY DEF QuietMove, TokenInv, HoldPlaces, Acquired, GivenUp
  <2>2. Current(hold[d].m)
    BY <1>7, <2>1 DEF Unheld
  <2>3. QED
    BY <2>1, <2>2 DEF TokenInv, LeasesLive
<1>9. LeasesSpent'
  BY DEF TokenInv, LeasesSpent, QuietMove, GivenUp, Acquired
<1>10. TokensOwned'
  BY DEF TokenInv, TokensOwned
<1>11. ActiveRegistered'
  BY <1>7, UnheldFacts DEF TokenInv, ActiveRegistered
<1>12. BornByNow'
  BY DEF TokenInv, BornByNow, Ages, StoreType
<1>13. \A m \in Managers : Closers(m)' = Closers(m)
  BY DEF TokenInv, HoldPlaces, QuietMove, Closers, Holding, GivenUp, Acquired
<1>14. LegacyCounted'
  <2> SUFFICES ASSUME NEW m \in Managers, Current(m)'
               PROVE  Len(legacy[m]) = Cardinality(Closers(m))
    BY <1>13 DEF LegacyCounted
  <2>1. CASE Current(m)
    BY <2>1 DEF TokenInv, LegacyCounted
  <2>2. CASE Unheld(m)
    <3>1. legacy[m] = <<>> /\ Closers(m) = {}
      BY <2>2, UnheldFacts
    <3>2. Cardinality({}) = 0
      BY FS_EmptySet
    <3>3. Len(<<>>) = 0
      OBVIOUS
    <3>4. QED
      BY <3>1, <3>2, <3>3
  <2>3. QED
    BY <1>7, <2>1, <2>2
<1>15. QED
  BY <1>2, <1>3, <1>4, <1>5, <1>6, <1>8, <1>9, <1>10, <1>11, <1>12, <1>14 DEF TokenInv

-----------------------------------------------------------------------------
(* An acquire.                                                             *)

LEMMA AcquireTokens ==
  ASSUME StoreType, pc \in [Calls -> States], TokenInv, NEW c \in Calls, NEW m \in Managers, 
         RegisterAcquire(m, c), pc[c] \notin Acquired, Current(m),
         registered \subseteq registered', m \in registered', UNCHANGED <<born, epoch>>
  PROVE  TokenInv'
<1> DEFINE t == ThreadOf[c]
           isLegacy == style[c] = "legacy"
<1>0. /\ active \in [Managers -> SUBSET Calls] /\ DOMAIN hold = Calls
      /\ t \in Threads /\ c # None
      /\ legacy \in [Managers -> Seq(Calls)]
      /\ handoff \in [Managers -> [Threads -> Seq(Calls)]]
      /\ hold \in [Calls -> Hold]
  BY ThreadOfAssumption, NamesAssumption DEF StoreType, TokenInv, HoldTypes
<1>1. /\ active' = [active EXCEPT ![m] = @ \cup {c}]
      /\ hold' = [hold EXCEPT ![c] = [m |-> m, lease |-> IF isLegacy THEN None ELSE c]]
      /\ pc' = [pc EXCEPT ![c] = IF isLegacy THEN "fresh" ELSE "held"]
  BY DEF RegisterAcquire
<1>2. /\ \A n \in Managers : active'[n] = IF n = m THEN active[n] \cup {c} ELSE active[n]
      /\ \A d \in Calls : hold'[d] = IF d = c
            THEN [m |-> m, lease |-> IF isLegacy THEN None ELSE c] ELSE hold[d]
      /\ \A d \in Calls : pc'[d] = IF d = c
            THEN IF isLegacy THEN "fresh" ELSE "held" ELSE pc[d]
  BY <1>0, <1>1
<1>3. /\ \A n \in Managers : c \notin active[n]
      /\ \A n \in Managers : c \notin Range(legacy[n])
      /\ \A n \in Managers, u \in Threads : c \notin Range(handoff[n][u])
      /\ hold[c] = NoHold
      /\ \A d \in Calls : hold[d].lease # c
  <2>1. \A n \in Managers : c \notin active[n]
    BY DEF TokenInv, TokensHome
  <2>2. \A d \in Calls : hold[d].lease # c
    BY <1>0 DEF TokenInv, LeasesOwn, IsLease
  <2>3. QED
    BY <2>1, <2>2 DEF TokenInv, LegacyTokens, HandoffTokens, HoldPlaces
<1>4. /\ isLegacy => /\ legacy' = [legacy EXCEPT ![m] = Append(@, c)]
                     /\ handoff' = [handoff EXCEPT ![m][t] = Append(@, c)]
      /\ ~isLegacy => UNCHANGED <<legacy, handoff>>
  BY DEF RegisterAcquire
<1>5. /\ legacy' \in [Managers -> Seq(Calls)]
      /\ \A n \in Managers : Distinct(legacy'[n])
      /\ \A n \in Managers :
           Range(legacy'[n]) = IF isLegacy /\ n = m THEN Range(legacy[n]) \cup {c}
                               ELSE Range(legacy[n])
      /\ \A n \in Managers :
           Len(legacy'[n]) = IF isLegacy /\ n = m THEN Len(legacy[n]) + 1
                             ELSE Len(legacy[n])
  <2>1. CASE ~isLegacy
    BY <1>0, <1>4, <2>1 DEF TokenInv, LegacyTokens
  <2>2. CASE isLegacy
    <3> DEFINE new == Append(legacy[m], c)
    <3>1. /\ legacy' = [legacy EXCEPT ![m] = new]
          /\ legacy[m] \in Seq(Calls) /\ Distinct(legacy[m])
      BY <1>0, <1>4, <2>2 DEF TokenInv, LegacyTokens
    <3>2. /\ new \in Seq(Calls) /\ Distinct(new) /\ Len(new) = Len(legacy[m]) + 1
          /\ Range(new) = Range(legacy[m]) \cup {c}
      BY <1>3, <3>1, AppendFacts
    <3> HIDE DEF new
    <3>3. QED
      BY <1>0, <2>2, <3>1, <3>2 DEF TokenInv, LegacyTokens
  <2>3. QED
    BY <2>1, <2>2
<1>6. /\ handoff' \in [Managers -> [Threads -> Seq(Calls)]]
      /\ \A n \in Managers, u \in Threads : Distinct(handoff'[n][u])
      /\ \A n \in Managers, u \in Threads :
           Range(handoff'[n][u]) =
             IF isLegacy /\ n = m /\ u = t THEN Range(handoff[n][u]) \cup {c}
             ELSE Range(handoff[n][u])
  <2>1. CASE ~isLegacy
    BY <1>0, <1>4, <2>1 DEF TokenInv, HandoffTokens
  <2>2. CASE isLegacy
    <3> DEFINE new == Append(handoff[m][t], c)
    <3>1. /\ handoff' = [handoff EXCEPT ![m][t] = new]
          /\ handoff[m][t] \in Seq(Calls) /\ Distinct(handoff[m][t])
      BY <1>0, <1>4, <2>2 DEF TokenInv, HandoffTokens
    <3>2. /\ new \in Seq(Calls) /\ Distinct(new)
          /\ Range(new) = Range(handoff[m][t]) \cup {c}
      BY <1>0, <1>3, <3>1, AppendFacts
    <3> HIDE DEF new
    <3>3. \A n \in Managers, u \in Threads :
            handoff'[n][u] = IF n = m /\ u = t THEN new ELSE handoff[n][u]
      BY <1>0, <3>1
    <3>4. handoff' \in [Managers -> [Threads -> Seq(Calls)]]
      BY <1>0, <3>1, <3>2
    <3>5. \A n \in Managers, u \in Threads : Distinct(handoff[n][u])
      BY DEF TokenInv, HandoffTokens
    <3>6. QED
      BY <2>2, <3>2, <3>3, <3>4, <3>5
  <2>3. QED
    BY <2>1, <2>2
<1>7. HoldTypes'
  BY <1>0, <1>1, <1>5, <1>6 DEF HoldTypes, Hold
<1>8. HoldPlaces'
  BY <1>2 DEF TokenInv, HoldPlaces, IsLease, GivenUp, Acquired
<1>9. TokensHome'
  <2> SUFFICES ASSUME NEW n \in Managers, NEW x \in active'[n]
               PROVE  pc'[x] \in Acquired /\ hold'[x].m = n
    BY DEF TokensHome
  <2>1. x \in active[n] \/ (x = c /\ n = m)
    BY <1>2
  <2>2. CASE x \in active[n]
    <3>1. x \in Calls /\ x # c /\ pc[x] \in Acquired /\ hold[x].m = n
      BY <1>0, <1>3, <2>2 DEF TokenInv, TokensHome
    <3>2. QED
      BY <1>2, <3>1
  <2>3. CASE x = c /\ n = m
    BY <1>2, <2>3 DEF Acquired
  <2>4. QED
    BY <2>1, <2>2, <2>3
<1>10. LegacyTokens'
  BY <1>2, <1>5 DEF TokenInv, LegacyTokens
<1>11. HandoffTokens'
  <2> SUFFICES ASSUME NEW n \in Managers, NEW u \in Threads, NEW x \in Range(handoff'[n][u])
               PROVE  x \in Range(legacy'[n]) /\ ThreadOf[x] = u
    BY <1>6 DEF HandoffTokens
  <2>1. CASE x \in Range(handoff[n][u])
    BY <1>5, <2>1 DEF TokenInv, HandoffTokens
  <2>2. CASE x \notin Range(handoff[n][u])
    <3>1. isLegacy /\ n = m /\ u = t /\ x = c
      BY <1>6, <2>2
    <3>2. c \in Range(legacy'[m])
      BY <1>5, <3>1
    <3>3. QED
      BY <3>1, <3>2
  <2>3. QED
    BY <2>1, <2>2
<1>12. LeasesOwn'
  <2>1. \A d \in Calls : IsLease(hold[d]) => hold[d].lease \in Calls
    BY <1>0 DEF Hold, IsLease
  <2> SUFFICES ASSUME NEW d \in Calls, IsLease(hold'[d])
               PROVE  /\ pc'[hold'[d].lease] \in Acquired
                      /\ \A n \in Managers : hold'[d].lease \notin Range(legacy'[n])
                      /\ \A e \in Calls : hold'[e].lease = hold'[d].lease => e = d
    BY DEF LeasesOwn
  <2>2. CASE d = c
    <3>1. ~isLegacy /\ hold'[d].lease = c
      BY <1>2, <2>2 DEF IsLease
    <3>2. QED
      BY <1>2, <1>3, <1>5, <2>2, <3>1 DEF Acquired
  <2>3. CASE d # c
    <3>1. hold'[d] = hold[d] /\ hold[d].lease \in Calls /\ IsLease(hold[d])
      BY <1>2, <2>1, <2>3
    <3>2. pc'[hold'[d].lease] \in Acquired
      BY <1>2, <3>1 DEF TokenInv, LeasesOwn, Acquired
    <3>3. \A n \in Managers : hold'[d].lease \notin Range(legacy'[n])
      BY <1>3, <1>5, <3>1 DEF TokenInv, LeasesOwn
    <3>4. ASSUME NEW e \in Calls, hold'[e].lease = hold'[d].lease PROVE e = d
      <4>1. e # c
        BY <1>2, <1>3, <3>1, <3>4 DEF IsLease
      <4>2. QED
        BY <1>2, <3>1, <3>4, <4>1 DEF TokenInv, LeasesOwn
    <3>5. QED
      BY <3>2, <3>3, <3>4
  <2>4. QED
    BY <2>2, <2>3
<1>13. LeasesLive'
  <2> SUFFICES ASSUME NEW d \in Calls, pc'[d] = "held", IsLease(hold'[d]), born'[hold'[d].m] = epoch'
               PROVE  hold'[d].lease \in active'[hold'[d].m]
    BY DEF LeasesLive, Current
  <2>1. CASE d = c
    <3>1. hold'[c].m = m /\ hold'[c].lease = c
      BY <1>2, <2>1 DEF IsLease
    <3>2. c \in active'[m]
      BY <1>2
    <3>3. QED
      BY <2>1, <3>1, <3>2
  <2>2. CASE d # c
    <3>1. hold'[d] = hold[d] /\ pc[d] = "held" /\ hold[d].m \in Managers
      BY <1>2, <2>2 DEF TokenInv, HoldPlaces, Acquired
    <3>2. hold[d].lease \in active[hold[d].m]
      BY <3>1 DEF TokenInv, LeasesLive, Current
    <3>3. QED
      BY <1>2, <3>1, <3>2
  <2>3. QED
    BY <2>1, <2>2
<1>14. LeasesSpent'
  <2> SUFFICES ASSUME NEW d \in Calls, pc'[d] \in {"final", "done"}, IsLease(hold'[d])
               PROVE  hold'[d].lease \notin active'[hold'[d].m]
    BY DEF LeasesSpent
  <2>1. d # c /\ hold'[d] = hold[d] /\ pc[d] = pc'[d] /\ hold[d].m \in Managers
    BY <1>2 DEF TokenInv, HoldPlaces, Acquired
  <2>2. hold[d].lease \notin active[hold[d].m] /\ hold[d].lease # c
    BY <1>3, <2>1 DEF TokenInv, LeasesSpent
  <2>3. \A n \in Managers : active'[n] \subseteq active[n] \cup {c}
    BY <1>2
  <2>4. QED
    BY <2>1, <2>2, <2>3
<1>15. TokensOwned'
  <2> SUFFICES ASSUME NEW n \in Managers, NEW x \in active'[n], x \notin Range(legacy'[n])
               PROVE  \E d \in Calls : hold'[d].m = n /\ hold'[d].lease = x
    BY DEF TokensOwned
  <2>1. CASE x \in active[n]
    <3>1. x \notin Range(legacy[n])
      BY <1>5
    <3>2. PICK d \in Calls : hold[d].m = n /\ hold[d].lease = x
      BY <2>1, <3>1 DEF TokenInv, TokensOwned
    <3>3. d # c
      BY <1>3, <2>1, <3>2, <1>0, NamesAssumption DEF NoHold
    <3>4. QED
      BY <1>2, <3>2, <3>3
  <2>2. CASE x \notin active[n]
    <3>1. x = c /\ n = m
      BY <1>2, <2>2
    <3>2. ~isLegacy
      BY <1>5, <3>1
    <3>3. QED
      BY <1>2, <3>1, <3>2
  <2>3. QED
    BY <2>1, <2>2
<1>16. ActiveRegistered' /\ BornByNow'
  BY <1>2 DEF TokenInv, ActiveRegistered, BornByNow, Current
<1>17. LegacyCounted'
  <2> SUFFICES ASSUME NEW n \in Managers, Current(n)'
               PROVE  Len(legacy'[n]) = Cardinality(Closers(n)')
    BY DEF LegacyCounted
  <2>1. Len(legacy[n]) = Cardinality(Closers(n)) /\ Len(legacy[n]) \in Nat
    BY <1>0 DEF TokenInv, LegacyCounted, Current
  <2>2. c \notin Closers(n) /\ IsFiniteSet(Closers(n))
    BY CallsAssumption, FS_Subset DEF Closers, Holding, Acquired
  <2>3. CASE isLegacy /\ n = m
    <3>1. Closers(n)' = Closers(n) \cup {c}
      BY <1>2, <2>3 DEF Closers, Holding, IsLease
    <3>2. Cardinality(Closers(n)') = Cardinality(Closers(n)) + 1
      BY <2>2, <3>1, FS_AddElement
    <3>3. QED
      BY <1>5, <2>1, <2>3, <3>2
  <2>4. CASE ~(isLegacy /\ n = m)
    <3>1. Closers(n)' = Closers(n)
      <4>1. c \notin Closers(n)'
        BY <1>0, <1>2, <2>4 DEF Closers, IsLease
      <4>2. \A d \in Calls : d # c => (d \in Closers(n)' <=> d \in Closers(n))
        BY <1>2 DEF Closers
      <4>3. QED
        BY <2>2, <4>1, <4>2 DEF Closers
    <3>2. QED
      BY <1>5, <2>1, <2>4, <3>1
  <2>5. QED
    BY <2>3, <2>4
<1>18. QED
  BY <1>7, <1>8, <1>9, <1>10, <1>11, <1>12, <1>13, <1>14, <1>15, <1>16, <1>17
     DEF TokenInv

-----------------------------------------------------------------------------
(* A release.                                                              *)

\* What _release_acquire_under_lock does to the tokens.
Released(m, x) ==
  /\ \A n \in Managers : active'[n] = IF n = m THEN active[n] \ {x} ELSE active[n]
  /\ legacy' \in [Managers -> Seq(Calls)]
  /\ \A n \in Managers : Distinct(legacy'[n])
  /\ \A n \in Managers : Range(legacy'[n]) = IF n = m THEN Range(legacy[n]) \ {x}
                                             ELSE Range(legacy[n])
  /\ \A n \in Managers : n # m \/ x \notin Range(legacy[n]) => legacy'[n] = legacy[n]
  /\ x \in Range(legacy[m]) => Len(legacy'[m]) = Len(legacy[m]) - 1
  /\ handoff' \in [Managers -> [Threads -> Seq(Calls)]]
  /\ \A n \in Managers, u \in Threads : Distinct(handoff'[n][u])
  /\ \A n \in Managers, u \in Threads :
       Range(handoff'[n][u]) = IF n = m THEN Range(handoff[n][u]) \ {x}
                               ELSE Range(handoff[n][u])
  /\ \A n \in registered : active'[n] # {} => n \in registered'

LEMMA ReleaseFacts ==
  ASSUME StoreType, TokenInv, NEW m \in Managers, NEW x, ReleaseAcquire(m, x)
  PROVE  Released(m, x)
<1>0. /\ active \in [Managers -> SUBSET Calls] /\ registered \subseteq Managers
      /\ legacy \in [Managers -> Seq(Calls)]
      /\ handoff \in [Managers -> [Threads -> Seq(Calls)]]
      /\ \A n \in Managers : Distinct(legacy[n])
      /\ \A n \in Managers, u \in Threads : Distinct(handoff[n][u])
  BY DEF StoreType, TokenInv, HoldTypes, LegacyTokens, HandoffTokens
<1>1. \A n \in Managers : active'[n] = IF n = m THEN active[n] \ {x} ELSE active[n]
  BY <1>0 DEF ReleaseAcquire
<1>2. \A n \in registered : active'[n] # {} => n \in registered'
  BY <1>0, <1>1 DEF ReleaseAcquire, EntryOf
<1> DEFINE w == Without(legacy[m], x)
           v == [u \in Threads |-> Without(handoff[m][u], x)]
<1>3. legacy' = [legacy EXCEPT ![m] = w] /\ handoff' = [handoff EXCEPT ![m] = v]
  BY DEF ReleaseAcquire
<1>4. /\ w \in Seq(Calls) /\ Distinct(w) /\ Range(w) = Range(legacy[m]) \ {x}
      /\ x \in Range(legacy[m]) => Len(w) = Len(legacy[m]) - 1
      /\ x \notin Range(legacy[m]) => w = legacy[m]
  BY <1>0, WithoutFacts
<1>5. \A u \in Threads :
        /\ v[u] \in Seq(Calls) /\ Distinct(v[u])
        /\ Range(v[u]) = Range(handoff[m][u]) \ {x}
  <2> SUFFICES ASSUME NEW u \in Threads
               PROVE  /\ v[u] \in Seq(Calls) /\ Distinct(v[u])
                      /\ Range(v[u]) = Range(handoff[m][u]) \ {x}
    OBVIOUS
  <2>1. handoff[m][u] \in Seq(Calls) /\ Distinct(handoff[m][u])
    BY <1>0
  <2>2. v[u] = Without(handoff[m][u], x)
    OBVIOUS
  <2>3. QED
    BY <2>1, <2>2, WithoutFacts
<1>6. v \in [Threads -> Seq(Calls)]
  BY <1>5
<1> HIDE DEF w, v
<1>7. /\ \A n \in Managers : legacy'[n] = IF n = m THEN w ELSE legacy[n]
      /\ \A n \in Managers : handoff'[n] = IF n = m THEN v ELSE handoff[n]
      /\ legacy' \in [Managers -> Seq(Calls)]
      /\ handoff' \in [Managers -> [Threads -> Seq(Calls)]]
  BY <1>0, <1>3, <1>4, <1>6
<1>8. /\ \A n \in Managers : Distinct(legacy'[n])
      /\ \A n \in Managers : Range(legacy'[n]) = IF n = m THEN Range(legacy[n]) \ {x}
                                                 ELSE Range(legacy[n])
      /\ \A n \in Managers : n # m \/ x \notin Range(legacy[n]) => legacy'[n] = legacy[n]
      /\ x \in Range(legacy[m]) => Len(legacy'[m]) = Len(legacy[m]) - 1
  BY <1>0, <1>4, <1>7
<1>9. \A n \in Managers, u \in Threads :
        /\ Distinct(handoff'[n][u])
        /\ Range(handoff'[n][u]) = IF n = m THEN Range(handoff[n][u]) \ {x}
                                   ELSE Range(handoff[n][u])
  BY <1>0, <1>5, <1>7
<1>10. QED
  BY <1>1, <1>2, <1>7, <1>8, <1>9 DEF Released

\* What every release keeps.
LEMMA ReleaseTokens ==
  ASSUME StoreType, TokenInv, NEW m \in Managers, NEW x, ReleaseAcquire(m, x),
         UNCHANGED <<hold, born, epoch>>,
         \A e \in Calls : pc'[e] \in Acquired <=> pc[e] \in Acquired
  PROVE  /\ HoldTypes' /\ TokensHome' /\ LegacyTokens' /\ HandoffTokens'
         /\ LeasesOwn' /\ ActiveRegistered' /\ BornByNow'
<1>0. active \in [Managers -> SUBSET Calls] /\ Released(m, x)
  BY ReleaseFacts DEF StoreType
<1>1. HoldTypes'
  BY <1>0 DEF TokenInv, HoldTypes, Released
<1>2. \A n \in Managers : active'[n] \subseteq active[n]
  BY <1>0 DEF Released
<1>3. TokensHome'
  BY <1>0, <1>2 DEF TokenInv, TokensHome
<1>4. LegacyTokens'
  <2> SUFFICES ASSUME NEW n \in Managers
               PROVE  Distinct(legacy'[n]) /\ Range(legacy'[n]) \subseteq active'[n]
    BY DEF LegacyTokens
  <2>1. Range(legacy[n]) \subseteq active[n]
    BY DEF TokenInv, LegacyTokens
  <2>2. QED
    BY <1>0, <2>1 DEF Released
<1>5. HandoffTokens'
  <2> SUFFICES ASSUME NEW n \in Managers, NEW u \in Threads
               PROVE  /\ Distinct(handoff'[n][u])
                      /\ \A y \in Range(handoff'[n][u]) :
                           y \in Range(legacy'[n]) /\ ThreadOf[y] = u
    BY DEF HandoffTokens
  <2>1. \A y \in Range(handoff[n][u]) : y \in Range(legacy[n]) /\ ThreadOf[y] = u
    BY DEF TokenInv, HandoffTokens
  <2>2. Distinct(handoff'[n][u])
    BY <1>0 DEF Released
  <2>3. Range(handoff'[n][u]) = IF n = m THEN Range(handoff[n][u]) \ {x}
                                ELSE Range(handoff[n][u])
    BY <1>0 DEF Released
  <2>4. Range(legacy'[n]) = IF n = m THEN Range(legacy[n]) \ {x} ELSE Range(legacy[n])
    BY <1>0 DEF Released
  <2>5. QED
    BY <2>1, <2>2, <2>3, <2>4
<1>6. LeasesOwn'
  <2>1. \A d \in Calls : IsLease(hold[d]) => hold[d].lease \in Calls
    BY DEF TokenInv, HoldTypes, Hold, IsLease
  <2>2. \A n \in Managers : Range(legacy'[n]) \subseteq Range(legacy[n])
    BY <1>0 DEF Released
  <2>3. QED
    BY <2>1, <2>2 DEF TokenInv, LeasesOwn
<1>7. ActiveRegistered' /\ BornByNow'
  BY <1>0, <1>2 DEF Released, TokenInv, ActiveRegistered, BornByNow, Current
<1>8. QED
  BY <1>1, <1>3, <1>4, <1>5, <1>6, <1>7

\* The release of a lease, or its retry.
LEMMA LeaseReleased ==
  ASSUME StoreType, TokenInv, NEW d \in Calls, IsLease(hold[d]), Consume(hold[d]),
         UNCHANGED <<hold, born, epoch>>,
         pc'[d] \in Ended,
         \A e \in Calls : \/ pc'[e] = pc[e]
                          \/ pc[e] \notin Acquired /\ pc'[e] \notin Acquired
                          \/ e = d /\ pc'[e] \in {"final", "done"}
  PROVE  TokenInv' /\ hold[d].lease \notin active'[hold[d].m]
<1> DEFINE m == hold[d].m
           x == hold[d].lease
<1>1. /\ pc[d] \in Acquired /\ m \in Managers /\ x \in Calls
      /\ \A n \in Managers : x \notin Range(legacy[n])
      /\ \A e \in Calls : hold[e].lease = x => e = d
  BY DEF TokenInv, HoldPlaces, HoldTypes, Hold, IsLease, NoHold, LeasesOwn
<1>2. ReleaseAcquire(m, x)
  BY DEF Consume, TokenOf, IsLease
<1>3. \A e \in Calls : pc'[e] \in Acquired <=> pc[e] \in Acquired
  BY <1>1 DEF Acquired
<1>4. /\ HoldTypes' /\ TokensHome' /\ LegacyTokens' /\ HandoffTokens'
      /\ LeasesOwn' /\ ActiveRegistered' /\ BornByNow'
  BY <1>1, <1>2, <1>3, ReleaseTokens
<1>5. /\ \A n \in Managers : active'[n] = IF n = m THEN active[n] \ {x} ELSE active[n]
      /\ \A n \in Managers : legacy'[n] = legacy[n]
  <2>1. Released(m, x)
    BY <1>1, <1>2, ReleaseFacts
  <2>2. QED
    BY <1>1, <2>1 DEF Released
<1>6. HoldPlaces'
  BY <1>3 DEF TokenInv, HoldPlaces, Acquired, GivenUp
<1>7. LeasesLive'
  <2> SUFFICES ASSUME NEW e \in Calls, pc'[e] = "held", IsLease(hold[e]), Current(hold[e].m)
               PROVE  hold[e].lease \in active'[hold[e].m]
    BY DEF LeasesLive, Current
  <2>1. e # d /\ pc[e] = "held" /\ hold[e].m \in Managers
    BY DEF Ended, Acquired, TokenInv, HoldPlaces
  <2>2. hold[e].lease \in active[hold[e].m] /\ hold[e].lease # x
    BY <1>1, <2>1 DEF TokenInv, LeasesLive
  <2>3. QED
    BY <1>5, <2>1, <2>2
<1>8. LeasesSpent'
  <2> SUFFICES ASSUME NEW e \in Calls, pc'[e] \in {"final", "done"}, IsLease(hold[e])
               PROVE  hold[e].lease \notin active'[hold[e].m]
    BY DEF LeasesSpent
  <2>1. CASE e = d
    BY <1>1, <1>5, <2>1
  <2>2. CASE e # d
    <3>1. pc[e] \in {"final", "done"}
      BY <2>2 DEF Acquired
    <3>2. hold[e].lease \notin active[hold[e].m] /\ hold[e].m \in Managers
      BY <3>1 DEF TokenInv, LeasesSpent, HoldPlaces, Acquired
    <3>3. QED
      BY <1>5, <3>2
  <2>3. QED
    BY <2>1, <2>2
<1>9. TokensOwned'
  <2> SUFFICES ASSUME NEW n \in Managers, NEW y \in active'[n], y \notin Range(legacy'[n])
               PROVE  \E e \in Calls : hold[e].m = n /\ hold[e].lease = y
    BY DEF TokensOwned
  <2>1. y \in active[n] /\ y \notin Range(legacy[n])
    BY <1>5
  <2>2. QED
    BY <2>1 DEF TokenInv, TokensOwned
<1>10. LegacyCounted'
  <2>1. \A n \in Managers : Closers(n)' = Closers(n)
    BY DEF Closers, Holding, Acquired, Ended
  <2>2. QED
    BY <1>5, <2>1 DEF TokenInv, LegacyCounted, Current
<1>11. x \notin active'[m]
  BY <1>1, <1>5
<1>12. QED
  BY <1>4, <1>6, <1>7, <1>8, <1>9, <1>10, <1>11 DEF TokenInv

\* A close() of a holder consumes the oldest legacy token, whosever it is.
LEMMA ClosedByHolder ==
  ASSUME StoreType, TokenInv, NEW c \in Calls, ~IsLease(hold[c]), Consume(hold[c]),
         UNCHANGED <<hold, born, epoch>>,
         pc[c] = "held", pc'[c] \in {"final", "done"},
         \A e \in Calls : e # c => pc'[e] = pc[e]
  PROVE  TokenInv'
<1> DEFINE m == hold[c].m
           x == Head(legacy[m])
<1>1. /\ m \in Managers /\ legacy \in [Managers -> Seq(Calls)]
      /\ legacy[m] \in Seq(Calls)
  BY DEF TokenInv, HoldPlaces, HoldTypes, Acquired
<1>2. \A e \in Calls : pc'[e] \in Acquired <=> pc[e] \in Acquired
  BY DEF Acquired
<1>3. /\ c \in Closers(m) /\ IsFiniteSet(Closers(m))
      /\ Closers(m)' = Closers(m) \ {c}
      /\ \A n \in Managers : n # m => Closers(n)' = Closers(n)
  <2>1. c \in Closers(m)
    BY DEF Closers, Holding
  <2>2. IsFiniteSet(Closers(m))
    BY CallsAssumption, FS_Subset DEF Closers
  <2>3. QED
    BY <2>1, <2>2 DEF Closers, Holding
<1>4. Cardinality(Closers(m)') = Cardinality(Closers(m)) - 1 /\ Cardinality(Closers(m)) \in Nat
  BY <1>3, FS_RemoveElement, FS_CardinalityType
<1>5. HoldPlaces'
  BY <1>2 DEF TokenInv, HoldPlaces, Acquired, GivenUp
<1>6. CASE legacy[m] = <<>>
  <2>1. UNCHANGED <<active, legacy, handoff, registered>>
    BY <1>6 DEF Consume, TokenOf
  <2>2. ~Current(m)
    <3>1. SUFFICES ASSUME Current(m) PROVE FALSE
      OBVIOUS
    <3>2. Cardinality(Closers(m)) = 0
      BY <1>1, <1>6, <3>1 DEF TokenInv, LegacyCounted
    <3>3. QED
      BY <1>3, <3>2, FS_EmptySet
  <2>3. LegacyCounted'
    BY <1>3, <2>1, <2>2 DEF TokenInv, LegacyCounted, Current
  <2>4. /\ HoldTypes' /\ LegacyTokens' /\ HandoffTokens' /\ TokensOwned'
        /\ ActiveRegistered' /\ BornByNow'
    BY <2>1 DEF TokenInv, HoldTypes, LegacyTokens, HandoffTokens, TokensOwned,
                ActiveRegistered, BornByNow, Current
  <2>5. TokensHome' /\ LeasesOwn'
    <3>1. \A d \in Calls : IsLease(hold[d]) => hold[d].lease \in Calls
      BY DEF TokenInv, HoldTypes, Hold, IsLease
    <3>2. QED
      BY <1>2, <2>1, <3>1 DEF TokenInv, TokensHome, LeasesOwn, StoreType
  <2>6. LeasesLive' /\ LeasesSpent'
    BY <2>1 DEF TokenInv, LeasesLive, LeasesSpent, Current
  <2>7. QED
    BY <1>5, <2>3, <2>4, <2>5, <2>6 DEF TokenInv
<1>7. CASE legacy[m] # <<>>
  <2>1. x \in Range(legacy[m]) /\ x \in Calls
    <3>1. 1 \in DOMAIN legacy[m] /\ x = legacy[m][1]
      BY <1>1, <1>7
    <3>2. QED
      BY <1>1, <3>1 DEF Range
  <2>2. ReleaseAcquire(m, x)
    BY <1>7, <2>1, NamesAssumption DEF Consume, TokenOf
  <2>3. /\ HoldTypes' /\ TokensHome' /\ LegacyTokens' /\ HandoffTokens'
        /\ LeasesOwn' /\ ActiveRegistered' /\ BornByNow'
    BY <1>1, <1>2, <2>2, ReleaseTokens
  <2>4. /\ \A n \in Managers : active'[n] = IF n = m THEN active[n] \ {x} ELSE active[n]
        /\ \A n \in Managers : Range(legacy'[n]) = IF n = m THEN Range(legacy[n]) \ {x}
                                                   ELSE Range(legacy[n])
        /\ \A n \in Managers : n # m => legacy'[n] = legacy[n]
        /\ Len(legacy'[m]) = Len(legacy[m]) - 1
    <3>1. Released(m, x)
      BY <1>1, <2>2, ReleaseFacts
    <3>2. QED
      BY <2>1, <3>1 DEF Released
  <2>5. \A e \in Calls : IsLease(hold[e]) => hold[e].lease # x
    BY <1>1, <2>1 DEF TokenInv, LeasesOwn
  <2>6. LeasesLive'
    <3> SUFFICES ASSUME NEW e \in Calls, pc'[e] = "held", IsLease(hold[e]), Current(hold[e].m)
                 PROVE  hold[e].lease \in active'[hold[e].m]
      BY DEF LeasesLive, Current
    <3>1. pc[e] = "held" /\ hold[e].m \in Managers
      BY DEF TokenInv, HoldPlaces, Acquired
    <3>2. hold[e].lease \in active[hold[e].m]
      BY <3>1 DEF TokenInv, LeasesLive
    <3>3. QED
      BY <2>4, <2>5, <3>1, <3>2
  <2>7. LeasesSpent'
    <3> SUFFICES ASSUME NEW e \in Calls, pc'[e] \in {"final", "done"}, IsLease(hold[e])
                 PROVE  hold[e].lease \notin active'[hold[e].m]
      BY DEF LeasesSpent
    <3>1. e # c /\ pc[e] \in {"final", "done"}
      OBVIOUS
    <3>2. hold[e].lease \notin active[hold[e].m] /\ hold[e].m \in Managers
      BY <3>1 DEF TokenInv, LeasesSpent, HoldPlaces, Acquired
    <3>3. QED
      BY <2>4, <3>2
  <2>8. TokensOwned'
    <3> SUFFICES ASSUME NEW n \in Managers, NEW y \in active'[n], y \notin Range(legacy'[n])
                 PROVE  \E d \in Calls : hold[d].m = n /\ hold[d].lease = y
      BY DEF TokensOwned
    <3>1. y \in active[n] /\ y \notin Range(legacy[n])
      BY <2>4
    <3>2. QED
      BY <3>1 DEF TokenInv, TokensOwned
  <2>9. LegacyCounted'
    <3> SUFFICES ASSUME NEW n \in Managers, Current(n)
                 PROVE  Len(legacy'[n]) = Cardinality(Closers(n)')
      BY DEF LegacyCounted, Current
    <3>1. Len(legacy[n]) = Cardinality(Closers(n))
      BY DEF TokenInv, LegacyCounted
    <3>2. CASE n = m
      BY <1>4, <2>4, <3>1, <3>2
    <3>3. CASE n # m
      BY <1>3, <2>4, <3>1, <3>3
    <3>4. QED
      BY <3>2, <3>3
  <2>10. QED
    BY <1>5, <2>3, <2>6, <2>7, <2>8, <2>9 DEF TokenInv
<1>8. QED
  BY <1>6, <1>7

-----------------------------------------------------------------------------
(* An adoption, and the teardowns.                                         *)

\* The token that an adoption takes is the thread's latest, which is active.
LEMMA AdoptedToken ==
  ASSUME StoreType, TokenInv, NEW m \in Managers, NEW t \in Threads
  PROVE  /\ ActiveHandoff(m, t) = 1..Len(handoff[m][t])
         /\ ActiveHandoff(m, t) = {} <=> handoff[m][t] = <<>>
         /\ handoff[m][t] # <<>> => Max(ActiveHandoff(m, t)) = Len(handoff[m][t])
<1> DEFINE s == handoff[m][t]
           A == ActiveHandoff(m, t)
<1>1. s \in Seq(Calls)
  BY DEF TokenInv, HoldTypes
<1>2. \A i \in DOMAIN s : s[i] \in active[m]
  BY DEF TokenInv, LegacyTokens, HandoffTokens, Range
<1>3. A = 1..Len(s) /\ Len(s) \in Nat
  BY <1>1, <1>2 DEF ActiveHandoff
<1> HIDE DEF s, A
<1>4. A = {} <=> s = <<>>
  <2>1. A = {} <=> Len(s) = 0
    <3>1. \A n \in Nat : n # 0 => 1 \in 1..n
      OBVIOUS
    <3>2. 1..0 = {}
      OBVIOUS
    <3>3. QED
      BY <1>3, <3>1, <3>2
  <2>2. QED
    BY <1>1, <2>1, EmptySeq
<1>5. ASSUME s # <<>> PROVE Max(A) = Len(s)
  <2>1. Len(s) \in A /\ \A y \in A : Len(s) >= y
    <3>1. Len(s) # 0
      BY <1>1, <1>5, EmptySeq
    <3>2. QED
      BY <1>3, <3>1
  <2>2. \E x \in A : \A y \in A : x >= y
    BY <2>1
  <2>3. Max(A) \in A /\ \A y \in A : Max(A) >= y
    BY <2>2, Zenon DEF Max
  <2>4. QED
    BY <1>3, <2>1, <2>3
<1>6. QED
  BY <1>3, <1>4, <1>5 DEF s, A

LEMMA AdoptTokens ==
  ASSUME StoreType, CallType, TokenInv, NEW c \in Calls, Adopt(c)
  PROVE  TokenInv'
<1> DEFINE m == hold[c].m
           t == ThreadOf[c]
           old == handoff[m][t]
           popped == SubSeq(old, 1, Len(old) - 1)
           x == old[Len(old)]
           w == Without(legacy[m], x)
<1>0. /\ pc[c] = "fresh" /\ pc' = [pc EXCEPT ![c] = "held"]
      /\ UNCHANGED <<registered, epoch, active, born>>
      /\ m \in Managers /\ t \in Threads
      /\ ~IsLease(hold[c])
      /\ active \in [Managers -> SUBSET Calls]
      /\ legacy \in [Managers -> Seq(Calls)] /\ handoff \in [Managers -> [Threads -> Seq(Calls)]]
      /\ hold \in [Calls -> Hold] /\ pc \in [Calls -> States]
  BY ThreadOfAssumption
     DEF Adopt, gateVars, StoreType, CallType, TokenInv, HoldTypes, HoldPlaces, Acquired
<1>1. \A d \in Calls : pc'[d] = IF d = c THEN "held" ELSE pc[d]
  BY <1>0
<1>2. CASE old = <<>>
  <2>1. ActiveHandoff(m, t) = {}
    BY <1>0, <1>2, AdoptedToken
  <2>2. /\ handoff' = [handoff EXCEPT ![m][t] = <<>>]
        /\ UNCHANGED <<legacy, hold>>
    BY <2>1 DEF Adopt
  <2>3. handoff' = handoff
    BY <1>0, <1>2, <2>2
  <2>4. QuietMove
    BY <1>0, <1>1 DEF QuietMove
  <2>5. Ages
    BY <1>0 DEF Ages, StoreType
  <2>6. QED
    BY <1>0, <2>2, <2>3, <2>4, <2>5, QuietTokens
<1>3. CASE old # <<>>
  <2>1. ActiveHandoff(m, t) # {} /\ Max(ActiveHandoff(m, t)) = Len(old)
    BY <1>0, <1>3, AdoptedToken
  <2>2. /\ handoff' = [handoff EXCEPT ![m][t] = popped]
        /\ legacy' = [legacy EXCEPT ![m] = w]
        /\ hold' = [hold EXCEPT ![c] = [m |-> m, lease |-> x]]
    BY <2>1 DEF Adopt, NoLongerLegacy
  <2>3. old \in Seq(Calls) /\ Distinct(old)
    BY <1>0 DEF TokenInv, HandoffTokens
  <2>4. /\ popped \in Seq(Calls) /\ Distinct(popped)
        /\ Range(popped) \subseteq Range(old) \ {x}
        /\ x \in Range(old)
    BY <1>3, <2>3, PoppedFacts
  <2>5. /\ x \in Range(legacy[m]) /\ ThreadOf[x] = t
        /\ x \in active[m] /\ x \in Calls /\ x # None
        /\ pc[x] \in Acquired /\ hold[x].m = m
    <3>1. x \in Range(legacy[m]) /\ ThreadOf[x] = t
      BY <1>0, <2>4 DEF TokenInv, HandoffTokens
    <3>2. x \in active[m]
      BY <1>0, <3>1 DEF TokenInv, LegacyTokens
    <3>3. x \in Calls /\ pc[x] \in Acquired /\ hold[x].m = m
      BY <1>0, <3>2 DEF TokenInv, TokensHome
    <3>4. QED
      BY <3>1, <3>2, <3>3, NamesAssumption
  <2>6. /\ w \in Seq(Calls) /\ Distinct(w) /\ Range(w) = Range(legacy[m]) \ {x}
        /\ Len(w) = Len(legacy[m]) - 1
    <3>1. legacy[m] \in Seq(Calls) /\ Distinct(legacy[m])
      BY <1>0 DEF TokenInv, LegacyTokens
    <3>2. QED
      BY <2>5, <3>1, WithoutFacts
  <2> HIDE DEF w, popped, x, old
  <2>7. /\ \A n \in Managers : legacy'[n] = IF n = m THEN w ELSE legacy[n]
        /\ \A n \in Managers, u \in Threads :
             handoff'[n][u] = IF n = m /\ u = t THEN popped ELSE handoff[n][u]
        /\ \A d \in Calls : hold'[d] = IF d = c THEN [m |-> m, lease |-> x] ELSE hold[d]
    BY <1>0, <2>2
  <2>8. \A d \in Calls : hold'[d].m = hold[d].m
    BY <2>7
  <2>9. HoldTypes'
    BY <1>0, <2>2, <2>4, <2>5, <2>6 DEF HoldTypes, Hold
  <2>10. HoldPlaces'
    BY <1>0, <1>1, <2>7, <2>8 DEF TokenInv, HoldPlaces, Acquired, GivenUp
  <2>11. \A d \in Calls : pc'[d] \in Acquired <=> pc[d] \in Acquired
    BY <1>0, <1>1 DEF Acquired
  <2>12. TokensHome'
    BY <1>0, <2>8, <2>11 DEF TokenInv, TokensHome
  <2>13. \A n \in Managers : Range(legacy'[n]) = IF n = m THEN Range(legacy[n]) \ {x}
                                                 ELSE Range(legacy[n])
    BY <2>6, <2>7
  <2>14. LegacyTokens'
    BY <1>0, <2>6, <2>7, <2>13 DEF TokenInv, LegacyTokens
  <2>15. HandoffTokens'
    <3> SUFFICES ASSUME NEW n \in Managers, NEW u \in Threads
                 PROVE  /\ Distinct(handoff'[n][u])
                        /\ \A y \in Range(handoff'[n][u]) :
                             y \in Range(legacy'[n]) /\ ThreadOf[y] = u
      BY DEF HandoffTokens
    <3>1. /\ Distinct(handoff[n][u])
          /\ \A y \in Range(handoff[n][u]) : y \in Range(legacy[n]) /\ ThreadOf[y] = u
      BY DEF TokenInv, HandoffTokens
    <3>2. CASE n = m /\ u = t
      <4>1. handoff'[n][u] = popped /\ Range(popped) \subseteq Range(handoff[n][u]) \ {x}
        BY <2>4, <2>7, <3>2 DEF old
      <4>2. QED
        BY <2>4, <2>13, <3>1, <4>1
    <3>3. CASE ~(n = m /\ u = t)
      <4>1. handoff'[n][u] = handoff[n][u]
        BY <2>7, <3>3
      <4>2. n = m => u # ThreadOf[x]
        BY <2>5, <3>3
      <4>3. QED
        BY <2>13, <3>1, <4>1, <4>2
    <3>4. QED
      BY <3>2, <3>3
  <2>16. /\ \A d \in Calls : IsLease(hold[d]) => hold[d].lease # x
         /\ \A d \in Calls : IsLease(hold[d]) => hold[d].lease \in Calls
    BY <1>0, <2>5 DEF TokenInv, LeasesOwn, Hold, IsLease
  <2>17. LeasesOwn'
    <3> SUFFICES ASSUME NEW d \in Calls, IsLease(hold'[d])
                 PROVE  /\ pc'[hold'[d].lease] \in Acquired
                        /\ \A n \in Managers : hold'[d].lease \notin Range(legacy'[n])
                        /\ \A e \in Calls : hold'[e].lease = hold'[d].lease => e = d
      BY DEF LeasesOwn
    <3>1. CASE d = c
      <4>1. hold'[d].lease = x
        BY <2>7, <3>1
      <4>2. pc'[x] \in Acquired
        BY <2>5, <2>11
      <4>3. ASSUME NEW n \in Managers PROVE x \notin Range(legacy'[n])
        <5>1. CASE n = m
          BY <2>13, <5>1
        <5>2. CASE n # m
          <6>1. x \notin Range(legacy[n])
            BY <2>5, <5>2 DEF TokenInv, LegacyTokens, TokensHome
          <6>2. QED
            BY <2>13, <5>2, <6>1
        <5>3. QED
          BY <5>1, <5>2
      <4>4. ASSUME NEW e \in Calls, hold'[e].lease = x PROVE e = c
        BY <2>5, <2>7, <2>16, <4>4 DEF IsLease
      <4>5. QED
        BY <3>1, <4>1, <4>2, <4>3, <4>4
    <3>2. CASE d # c
      <4>1. hold'[d] = hold[d] /\ IsLease(hold[d]) /\ hold[d].lease \in Calls
            /\ hold[d].lease # x
        BY <2>7, <2>16, <3>2
      <4>2. pc'[hold[d].lease] \in Acquired
        BY <2>11, <4>1 DEF TokenInv, LeasesOwn
      <4>3. \A n \in Managers : hold[d].lease \notin Range(legacy'[n])
        BY <2>13, <4>1 DEF TokenInv, LeasesOwn
      <4>4. \A e \in Calls : hold'[e].lease = hold[d].lease => e = d
        BY <2>7, <4>1 DEF TokenInv, LeasesOwn
      <4>5. QED
        BY <4>1, <4>2, <4>3, <4>4
    <3>3. QED
      BY <3>1, <3>2
  <2>18. LeasesLive'
    <3> SUFFICES ASSUME NEW d \in Calls, pc'[d] = "held", IsLease(hold'[d]),
                        born'[hold'[d].m] = epoch'
                 PROVE  hold'[d].lease \in active'[hold'[d].m]
      BY DEF LeasesLive, Current
    <3>1. CASE d = c
      BY <1>0, <2>5, <2>7, <3>1
    <3>2. CASE d # c
      BY <1>0, <1>1, <2>7, <3>2 DEF TokenInv, LeasesLive, Current
    <3>3. QED
      BY <3>1, <3>2
  <2>19. LeasesSpent'
    BY <1>0, <1>1, <2>7 DEF TokenInv, LeasesSpent
  <2>20. TokensOwned'
    <3> SUFFICES ASSUME NEW n \in Managers, NEW y \in active[n], y \notin Range(legacy'[n])
                 PROVE  \E d \in Calls : hold'[d].m = n /\ hold'[d].lease = y
      BY <1>0 DEF TokensOwned
    <3>1. CASE y = x /\ n = m
      BY <2>7, <3>1
    <3>2. CASE ~(y = x /\ n = m)
      <4>1. y \notin Range(legacy[n]) /\ y \in Calls
        BY <1>0, <2>13, <3>2
      <4>2. PICK d \in Calls : hold[d].m = n /\ hold[d].lease = y
        BY <4>1 DEF TokenInv, TokensOwned
      <4>3. d # c
        BY <1>0, <4>1, <4>2, NamesAssumption DEF IsLease
      <4>4. QED
        BY <2>7, <4>2, <4>3
    <3>3. QED
      BY <3>1, <3>2
  <2>21. ActiveRegistered' /\ BornByNow'
    BY <1>0 DEF TokenInv, ActiveRegistered, BornByNow, Current
  <2>22. LegacyCounted'
    <3> SUFFICES ASSUME NEW n \in Managers, Current(n)
                 PROVE  Len(legacy'[n]) = Cardinality(Closers(n)')
      BY <1>0 DEF LegacyCounted, Current
    <3>1. Len(legacy[n]) = Cardinality(Closers(n)) /\ Len(legacy[n]) \in Nat
      BY <1>0 DEF TokenInv, LegacyCounted
    <3>2. IsFiniteSet(Closers(n))
      BY CallsAssumption, FS_Subset DEF Closers
    <3>3. \A d \in Calls : d # c => (d \in Closers(n)' <=> d \in Closers(n))
      BY <1>1, <2>7 DEF Closers
    <3>4. c \notin Closers(n)'
      BY <2>5, <2>7 DEF Closers, IsLease
    <3>5. Closers(n) \subseteq Calls /\ Closers(n)' \subseteq Calls
      BY DEF Closers
    <3>6. CASE n = m
      <4>1. c \in Closers(n)
        BY <1>0, <3>6 DEF Closers, Holding
      <4>2. Closers(n)' = Closers(n) \ {c}
        BY <3>3, <3>4, <3>5
      <4>3. Cardinality(Closers(n)') = Cardinality(Closers(n)) - 1
        BY <3>2, <4>1, <4>2, FS_RemoveElement
      <4>4. QED
        BY <2>6, <2>7, <3>1, <3>6, <4>3
    <3>7. CASE n # m
      <4>1. c \notin Closers(n)
        BY <3>7 DEF Closers
      <4>2. Closers(n)' = Closers(n)
        BY <3>3, <3>4, <3>5, <4>1
      <4>3. QED
        BY <2>7, <3>1, <3>7, <4>2
    <3>8. QED
      BY <3>6, <3>7
  <2>23. QED
    BY <2>9, <2>10, <2>12, <2>14, <2>15, <2>17, <2>18, <2>19, <2>20, <2>21, <2>22
       DEF TokenInv
<1>4. QED
  BY <1>2, <1>3

\* A manager that is torn down is not current, or has no token left.
LEMMA TornDown ==
  ASSUME StoreType, TokenInv, NEW D \in SUBSET Managers,
         \A m \in D : Current(m)' => active[m] = {},
         \A m \in Managers : Current(m)' => Current(m) /\ (m \in registered => m \in registered'),
         active' = [m \in Managers |-> IF m \in D THEN {} ELSE active[m]],
         legacy' = [m \in Managers |-> IF m \in D THEN <<>> ELSE legacy[m]],
         handoff' = [m \in Managers |-> IF m \in D THEN [t \in Threads |-> <<>>] ELSE handoff[m]],
         UNCHANGED <<pc, hold>>, BornByNow'
  PROVE  TokenInv'
<1>1. /\ legacy \in [Managers -> Seq(Calls)] /\ handoff \in [Managers -> [Threads -> Seq(Calls)]]
      /\ active \in [Managers -> SUBSET Calls]
  BY DEF StoreType, TokenInv, HoldTypes
<1>2. <<>> \in Seq(Calls) /\ Distinct(<<>>) /\ Range(<<>>) = {}
  BY DEF Distinct, Range
<1>3. \A m \in Managers :
        /\ active'[m] = IF m \in D THEN {} ELSE active[m]
        /\ legacy'[m] = IF m \in D THEN <<>> ELSE legacy[m]
        /\ \A t \in Threads : handoff'[m][t] = IF m \in D THEN <<>> ELSE handoff[m][t]
  BY <1>1
<1>4. HoldTypes'
  <2>1. legacy' \in [Managers -> Seq(Calls)]
    BY <1>1, <1>2
  <2>2. handoff' \in [Managers -> [Threads -> Seq(Calls)]]
    BY <1>1, <1>2
  <2>3. QED
    BY <2>1, <2>2 DEF TokenInv, HoldTypes
<1>5. HoldPlaces'
  BY DEF TokenInv, HoldPlaces
<1>6. TokensHome'
  BY <1>3 DEF TokenInv, TokensHome
<1>7. LegacyTokens'
  BY <1>2, <1>3 DEF TokenInv, LegacyTokens
<1>8. HandoffTokens'
  <2> SUFFICES ASSUME NEW n \in Managers, NEW u \in Threads
               PROVE  /\ Distinct(handoff'[n][u])
                      /\ \A y \in Range(handoff'[n][u]) :
                           y \in Range(legacy'[n]) /\ ThreadOf[y] = u
    BY DEF HandoffTokens
  <2>1. CASE n \in D
    BY <1>2, <1>3, <2>1
  <2>2. CASE n \notin D
    BY <1>3, <2>2 DEF TokenInv, HandoffTokens
  <2>3. QED
    BY <2>1, <2>2
<1>9. LeasesOwn'
  <2>1. \A n \in Managers : Range(legacy'[n]) \subseteq Range(legacy[n])
    BY <1>2, <1>3
  <2>2. QED
    BY <2>1 DEF TokenInv, LeasesOwn
<1>10. \A m \in Managers : Current(m)' => active'[m] = active[m] /\ legacy'[m] = legacy[m]
  <2> SUFFICES ASSUME NEW m \in Managers, Current(m)'
               PROVE  active'[m] = active[m] /\ legacy'[m] = legacy[m]
    OBVIOUS
  <2>1. CASE m \notin D
    BY <1>3, <2>1
  <2>2. CASE m \in D
    <3>1. active[m] = {}
      BY <2>2
    <3>2. Range(legacy[m]) = {} /\ legacy[m] \in Seq(Calls)
      BY <1>1, <3>1 DEF TokenInv, LegacyTokens
    <3>3. Len(legacy[m]) \in Nat /\ DOMAIN legacy[m] = 1..Len(legacy[m])
      BY <3>2
    <3>4. 1 \notin 1..Len(legacy[m])
      BY <3>2, <3>3 DEF Range
    <3>5. Len(legacy[m]) = 0
      BY <3>3, <3>4
    <3>6. legacy[m] = <<>>
      BY <3>2, <3>5, EmptySeq
    <3>7. QED
      BY <1>3, <2>2, <3>1, <3>6
  <2>3. QED
    BY <2>1, <2>2
<1>11. LeasesLive'
  <2> SUFFICES ASSUME NEW d \in Calls, pc[d] = "held", IsLease(hold[d]), Current(hold[d].m)'
               PROVE  hold[d].lease \in active'[hold[d].m]
    BY DEF LeasesLive, Current
  <2>1. hold[d].m \in Managers
    BY DEF TokenInv, HoldPlaces, Acquired
  <2>2. QED
    BY <1>10, <2>1 DEF TokenInv, LeasesLive
<1>12. LeasesSpent'
  <2>1. \A d \in Calls : pc[d] \in {"final", "done"} => hold[d].m \in Managers
    BY DEF TokenInv, HoldPlaces, Acquired
  <2>2. QED
    BY <1>3, <2>1 DEF TokenInv, LeasesSpent
<1>13. TokensOwned'
  BY <1>3 DEF TokenInv, TokensOwned
<1>14. ActiveRegistered'
  BY <1>10 DEF TokenInv, ActiveRegistered
<1>15. LegacyCounted'
  <2>1. \A m \in Managers : Closers(m)' = Closers(m)
    BY DEF Closers
  <2>2. QED
    BY <1>10, <2>1 DEF TokenInv, LegacyCounted
<1>16. QED
  BY <1>4, <1>5, <1>6, <1>7, <1>8, <1>9, <1>11, <1>12, <1>13, <1>14, <1>15 DEF TokenInv

-----------------------------------------------------------------------------
(* The backlog.                                                            *)

\* A release that has begun goes on, and no token comes back.
GoesOn ==
  /\ \A d \in Calls : pc[d] \in Ended => pc'[d] \in Ended /\ hold'[d] = hold[d]
  /\ \A m \in Managers : \A x \in active'[m] : x \in active[m] \/ pc[x] \notin Acquired

\* The backlog and its retries get failed releases only, a finalizer runs for
\* a consumed token, and a record goes with its token.
KeepsRecords ==
  /\ \A h \in pending' : h \in pending \/ FailedRelease(h)'
  /\ \A d \in Calls : todo'[d] \subseteq todo[d] \cup pending
  /\ \A d \in Calls :
       pc'[d] = "retryFinal" =>
         \/ pc[d] = "retryFinal" /\ job'[d] = job[d]
         \/ job'[d] \in todo[d] /\ job'[d].lease \notin active'[job'[d].m]
  /\ dropped \subseteq dropped'
  /\ \A h \in pending \ pending' : IsLease(h) => h.lease \notin active'[h.m]
  /\ \A d \in Calls :
       pc'[d] \in GivenUp =>
         \/ pc[d] \in GivenUp
         \/ hold'[d] \in pending' \cup dropped'

LEMMA RecordStep ==
  ASSUME TokenInv, TokenInv', RecordInv, GoesOn, KeepsRecords
  PROVE  RecordInv'
<1>1. \A h : FailedRelease(h) => FailedRelease(h)'
  BY DEF GoesOn, FailedRelease
<1>2. \A h : FailedRelease(h) =>
        h.m \in Managers /\ (h.lease \notin active[h.m] => h.lease \notin active'[h.m])
  <2> SUFFICES ASSUME NEW h, FailedRelease(h)
               PROVE  h.m \in Managers /\ (h.lease \notin active[h.m] => h.lease \notin active'[h.m])
    OBVIOUS
  <2>1. PICK d \in Calls : hold[d] = h /\ pc[d] \in Ended /\ IsLease(hold[d])
    BY DEF FailedRelease
  <2>2. h.m \in Managers /\ pc[h.lease] \in Acquired
    BY <2>1 DEF TokenInv, HoldPlaces, LeasesOwn, Acquired, Ended
  <2>3. QED
    BY <2>2 DEF GoesOn
<1>3. RecordsFailed'
  BY <1>1 DEF RecordInv, RecordsFailed, KeepsRecords
<1>4. JobsSpent'
  <2> SUFFICES ASSUME NEW d \in Calls, pc'[d] = "retryFinal"
               PROVE  /\ IsLease(job'[d])
                      /\ \E e \in Calls : hold'[e] = job'[d] /\ pc'[e] \in Ended
                      /\ job'[d].lease \notin active'[job'[d].m]
    BY DEF JobsSpent, FailedRelease, IsLease
  <2>1. CASE pc[d] = "retryFinal" /\ job'[d] = job[d]
    <3>1. FailedRelease(job[d]) /\ job[d].lease \notin active[job[d].m]
      BY <2>1 DEF RecordInv, JobsSpent
    <3>2. QED
      BY <1>1, <1>2, <2>1, <3>1 DEF FailedRelease, IsLease
  <2>2. CASE job'[d] \in todo[d] /\ job'[d].lease \notin active'[job'[d].m]
    BY <1>1, <2>2 DEF RecordInv, RecordsFailed, FailedRelease, IsLease
  <2>3. QED
    BY <2>1, <2>2 DEF KeepsRecords
<1>5. FailedReleaseIsKept'
  <2> SUFFICES ASSUME NEW d \in Calls, pc'[d] \in GivenUp,
                      hold'[d].lease \in active'[hold'[d].m], IsLease(hold'[d])
               PROVE  hold'[d] \in pending' \cup dropped'
    BY DEF FailedReleaseIsKept
  <2>1. CASE pc[d] \in GivenUp
    <3>1. hold'[d] = hold[d] /\ FailedRelease(hold[d])
      BY <2>1 DEF GoesOn, FailedRelease, GivenUp, Ended
    <3>2. hold[d].lease \in active[hold[d].m]
      BY <1>2, <3>1
    <3>3. hold[d] \in pending \cup dropped
      BY <2>1, <3>1, <3>2 DEF RecordInv, FailedReleaseIsKept
    <3>4. QED
      BY <3>1, <3>3 DEF KeepsRecords
  <2>2. CASE pc[d] \notin GivenUp
    BY <2>2 DEF KeepsRecords
  <2>3. QED
    BY <2>1, <2>2
<1>6. QED
  BY <1>3, <1>4, <1>5 DEF RecordInv

-----------------------------------------------------------------------------
(* The steps.                                                              *)

\* A step that moves no token.
LEMMA QuietStep ==
  ASSUME RegInv, HoldInv, QuietMove, Ages, registered \subseteq registered',
         UNCHANGED <<active, legacy, handoff, hold>>, KeepsRecords
  PROVE  HoldInv'
<1>1. TokenInv'
  BY QuietTokens DEF RegInv, HoldInv
<1>2. GoesOn
  BY DEF GoesOn, QuietMove, Ended, Acquired, GivenUp
<1>3. QED
  BY <1>1, <1>2, RecordStep DEF HoldInv

\* A step that leaves the backlog and its retries alone.
SameRecords ==
  /\ UNCHANGED <<pending, dropped, todo, job>>
  /\ \A d \in Calls : pc'[d] \in {"retryFinal"} \cup GivenUp => pc'[d] = pc[d]

LEMMA SameRecordsKept == SameRecords => KeepsRecords
  BY DEF SameRecords, KeepsRecords

\* What a release that raises does to the backlog.
LEMMA RetainFacts ==
  ASSUME RaisingStyles \subseteq {"exact"}, NEW P, NEW h, RetainFailed(P, h)
  PROVE  /\ IsLease(h)
         /\ P \subseteq pending' /\ pending' \subseteq P \cup {h}
         /\ h \in pending' \cup dropped'
         /\ dropped \subseteq dropped'
  BY DEF RetainFailed, Retain

\* No step but a build ages a manager.
LEMMA SameAges == StoreType /\ UNCHANGED <<born, epoch>> => Ages
  BY DEF StoreType, Ages

LEMMA RecordsFade ==
  /\ \A m : \A h \in pending \ Finalized(m) : ~IsLease(h)
  /\ \A P, h : \A x \in P \ Forget(P, h) : x = h /\ IsLease(h)
  BY DEF Finalized, Forget, ByClose, IsLease

\* The steps of a call that move no token.
LEMMA QuietCallStep ==
  ASSUME RegInv, HoldInv, RaisingStyles \subseteq {"exact"}, NEW c \in Calls,
         \/ Start(c) \/ RetryRaises(c) \/ RetryFinalized(c)
         \/ RetryFinalizeRaises(c) \/ RetryDone(c) \/ Wake(c) \/ BuildFails(c) \/ KeepLegacy(c)
         \/ ReleaseRaises(c) \/ FinalizeReturns(c) \/ FinalizeRaises(c)
  PROVE  HoldInv'
<1>0. /\ pc \in [Calls -> States] /\ DOMAIN todo = Calls /\ DOMAIN job = Calls
      /\ StoreType
  BY DEF RegInv, CallType
<1>1. /\ UNCHANGED <<registered, epoch, active, legacy, handoff, born, hold>>
      /\ \A d \in Calls : d # c => pc'[d] = pc[d] /\ job'[d] = job[d] /\ todo'[d] = todo[d]
  BY <1>0 DEF Start, RetryRaises, RetryFinalized, RetryFinalizeRaises,
              RetryDone, Wake, BuildFails, KeepLegacy, ReleaseRaises, FinalizeReturns, FinalizeRaises,
              managerVars, gateVars
<1>2. Ages
  BY <1>0, <1>1, SameAges
<1>3. SUFFICES QuietMove /\ KeepsRecords
  BY <1>1, <1>2, QuietStep
<1>4. CASE Start(c)
  <2>1. /\ pc[c] = "idle" /\ pc'[c] = "retry" /\ todo'[c] = pending
        /\ UNCHANGED <<pending, dropped, job>>
    BY <1>0, <1>4 DEF Start, raiseVars
  <2>2. QuietMove
    BY <1>1, <2>1 DEF QuietMove, Acquired
  <2>3. KeepsRecords
    BY <1>1, <2>1 DEF KeepsRecords, GivenUp
  <2>4. QED
    BY <2>2, <2>3
<1>5. CASE RetryRaises(c)
  <2>1. PICK h \in todo[c] : RetainFailed(pending, h) /\ todo'[c] = todo[c] \ {h}
    BY <1>0, <1>5 DEF RetryRaises, NextRetry
  <2>2. UNCHANGED <<pc, job>>
    BY <1>5 DEF RetryRaises
  <2>3. /\ pending \subseteq pending' /\ pending' \subseteq pending \cup {h}
        /\ dropped \subseteq dropped'
    BY <2>1, RetainFacts
  <2>4. FailedRelease(h)'
    BY <1>1, <2>2 DEF HoldInv, RecordInv, RecordsFailed, FailedRelease
  <2>5. QuietMove
    BY <2>2 DEF QuietMove
  <2>6. KeepsRecords
    BY <1>1, <2>1, <2>2, <2>3, <2>4 DEF KeepsRecords
  <2>7. QED
    BY <2>5, <2>6
<1>6. CASE RetryFinalized(c)
  <2>1. /\ pc[c] = "retryFinal" /\ pc'[c] = "retry"
        /\ UNCHANGED <<dropped, todo>>
        /\ pending' = Forget(Finalized(job[c].m), job[c])
    BY <1>0, <1>6 DEF RetryFinalized, raiseVars
  <2>2. job[c].lease \notin active[job[c].m]
    BY <2>1 DEF HoldInv, RecordInv, JobsSpent
  <2>3. pending' \subseteq pending
    BY <2>1, RecordFacts
  <2>4. \A h \in pending \ pending' : IsLease(h) => h = job[c]
    BY <2>1, RecordsFade
  <2>5. QuietMove
    BY <1>1, <2>1 DEF QuietMove, Acquired
  <2>6. KeepsRecords
    BY <1>1, <2>1, <2>2, <2>3, <2>4 DEF KeepsRecords, GivenUp
  <2>7. QED
    BY <2>5, <2>6
<1>7. CASE RetryDone(c) \/ Wake(c) \/ BuildFails(c) \/ KeepLegacy(c)
  <2>1. UNCHANGED <<pending, dropped, todo, job>>
    BY <1>7 DEF RetryDone, Wake, BuildFails, KeepLegacy, raiseVars
  <2>2. \/ pc[c] \in {"retry", "wait", "build"} /\ pc'[c] \in {"look", "failed"}
        \/ pc[c] = "fresh" /\ pc'[c] = "held"
    BY <1>0, <1>7 DEF RetryDone, Wake, BuildFails, KeepLegacy
  <2>3. QuietMove
    BY <1>1, <2>2 DEF QuietMove, Acquired
  <2>4. KeepsRecords
    BY <1>1, <2>1, <2>2, SameRecordsKept DEF SameRecords, GivenUp
  <2>5. QED
    BY <2>3, <2>4
<1>8. CASE ReleaseRaises(c)
  <2>1. /\ RetainFailed(pending, hold[c])
        /\ UNCHANGED <<todo, job>>
        /\ pc[c] \in {"held", "again"} /\ pc'[c] \in GivenUp
    BY <1>0, <1>8 DEF ReleaseRaises, GivenUp
  <2>2. /\ IsLease(hold[c])
        /\ pending \subseteq pending' /\ pending' \subseteq pending \cup {hold[c]}
        /\ hold[c] \in pending' \cup dropped' /\ dropped \subseteq dropped'
    BY <2>1, RetainFacts
  <2>3. FailedRelease(hold[c])'
    BY <1>1, <2>1, <2>2 DEF FailedRelease, GivenUp, Ended, IsLease
  <2>4. QuietMove
    BY <1>1, <2>1, <2>2 DEF QuietMove
  <2>5. KeepsRecords
    BY <1>1, <2>1, <2>2, <2>3 DEF KeepsRecords, GivenUp, FailedRelease
  <2>6. QED
    BY <2>4, <2>5
<1>9. CASE FinalizeReturns(c)
  <2>1. /\ pc[c] = "final" /\ pc'[c] = "done"
        /\ UNCHANGED <<dropped, todo, job>>
        /\ pending' = Forget(Finalized(hold[c].m), hold[c])
    BY <1>0, <1>9 DEF FinalizeReturns, raiseVars
  <2>2. IsLease(hold[c]) => hold[c].lease \notin active[hold[c].m]
    BY <2>1 DEF HoldInv, TokenInv, LeasesSpent
  <2>3. pending' \subseteq pending
    BY <2>1, RecordFacts
  <2>4. \A h \in pending \ pending' : IsLease(h) => h = hold[c]
    BY <2>1, RecordsFade
  <2>5. QuietMove
    BY <1>1, <2>1 DEF QuietMove
  <2>6. KeepsRecords
    BY <1>1, <2>1, <2>2, <2>3, <2>4 DEF KeepsRecords, GivenUp
  <2>7. QED
    BY <2>5, <2>6
<1>10. CASE FinalizeRaises(c)
  <2>1. /\ pc[c] = "final" /\ pc'[c] = "lost"
        /\ UNCHANGED <<todo, job>>
        /\ RetainFailed(Finalized(hold[c].m), hold[c])
    BY <1>0, <1>10 DEF FinalizeRaises
  <2>2. /\ IsLease(hold[c])
        /\ Finalized(hold[c].m) \subseteq pending'
        /\ pending' \subseteq Finalized(hold[c].m) \cup {hold[c]}
        /\ hold[c] \in pending' \cup dropped' /\ dropped \subseteq dropped'
    BY <2>1, RetainFacts
  <2>3. FailedRelease(hold[c])'
    BY <1>1, <2>1, <2>2 DEF FailedRelease, Ended, IsLease
  <2>4. /\ \A h \in pending \ pending' : ~IsLease(h)
        /\ pending' \subseteq pending \cup {hold[c]}
    BY <2>2, RecordsFade, RecordFacts
  <2>5. QuietMove
    BY <1>1, <2>1, <2>2 DEF QuietMove, GivenUp
  <2>6. KeepsRecords
    BY <1>1, <2>1, <2>2, <2>3, <2>4 DEF KeepsRecords, GivenUp, FailedRelease
  <2>7. QED
    BY <2>5, <2>6
<1>11. CASE RetryFinalizeRaises(c)
  <2>1. PICK h : h = job[c]
    OBVIOUS
  <2>2. /\ pc[c] = "retryFinal" /\ pc'[c] = "retry"
        /\ UNCHANGED todo
        /\ RetainFailed(Finalized(h.m), h)
    BY <1>0, <1>11, <2>1 DEF RetryFinalizeRaises
  <2>3. /\ Finalized(h.m) \subseteq pending'
        /\ pending' \subseteq Finalized(h.m) \cup {h}
        /\ dropped \subseteq dropped'
    BY <2>2, RetainFacts
  <2>4. FailedRelease(h)
    BY <2>1, <2>2 DEF HoldInv, RecordInv, JobsSpent
  <2>5. FailedRelease(h)'
    BY <1>1, <2>2, <2>4 DEF FailedRelease, Ended, IsLease
  <2>6. /\ \A x \in pending \ pending' : ~IsLease(x)
        /\ pending' \subseteq pending \cup {h}
    BY <2>3, RecordsFade, RecordFacts
  <2>7. QuietMove
    BY <1>1, <2>2 DEF QuietMove, Acquired
  <2>8. KeepsRecords
    BY <1>1, <2>2, <2>3, <2>5, <2>6 DEF KeepsRecords, GivenUp
  <2>9. QED
    BY <2>7, <2>8
<1>12. QED
  BY <1>4, <1>5, <1>6, <1>7, <1>8, <1>9, <1>10, <1>11

\* An acquire of a registered or just published manager.
LEMMA AcquireStep ==
  ASSUME RegInv, HoldInv, NEW c \in Calls, NEW m \in Managers, RegisterAcquire(m, c),
         pc[c] \in {"look", "build"}, Current(m),
         registered \subseteq registered', m \in registered',
         UNCHANGED <<born, epoch, pending, dropped, todo, job>>
  PROVE  HoldInv'
<1>1. pc \in [Calls -> States] /\ StoreType /\ TokenInv /\ hold \in [Calls -> Hold]
  BY DEF RegInv, CallType, HoldInv, TokenInv, HoldTypes
<1>2. pc[c] \notin Acquired
  BY DEF Acquired
<1>3. TokenInv'
  BY <1>1, <1>2, AcquireTokens
<1>4. /\ \A d \in Calls : d # c => pc'[d] = pc[d] /\ hold'[d] = hold[d]
      /\ pc'[c] \in {"fresh", "held"}
      /\ active' = [active EXCEPT ![m] = @ \cup {c}]
  BY <1>1 DEF RegisterAcquire
<1>5. GoesOn
  <2>1. \A n \in Managers : \A x \in active'[n] : x \in active[n] \/ x = c
    BY <1>1, <1>4 DEF StoreType
  <2>2. QED
    BY <1>2, <1>4, <2>1 DEF GoesOn, Ended, Acquired
<1>6. KeepsRecords
  BY <1>4, SameRecordsKept DEF SameRecords, GivenUp
<1>7. QED
  BY <1>3, <1>5, <1>6, RecordStep DEF HoldInv

LEMMA LookupHolds ==
  ASSUME RegInv, HoldInv, NEW c \in Calls, Lookup(c)
  PROVE  HoldInv'
<1>0. /\ pc[c] = "look" /\ registered' = registered
      /\ UNCHANGED <<epoch, pending, dropped, todo, job>>
      /\ At(want[c]) \ retired = At(want[c])
      /\ pc \in [Calls -> States] /\ StoreType
  BY NoOrphans DEF Lookup, raiseVars, RegInv, CallType
<1>1. ASSUME NEW m \in At(want[c]), RegisterAcquire(m, c), UNCHANGED gateVars
      PROVE  HoldInv'
  <2>1. m \in registered /\ m \in Managers /\ Current(m)
    BY <1>1 DEF At, RegInv, StoreType, ClearFencesBuilds
  <2>2. QED
    BY <1>0, <1>1, <2>1, AcquireStep DEF gateVars
<1>2. ASSUME builds < MaxBuilds, born' = [born EXCEPT ![builds + 1] = epoch],
             pc' = [pc EXCEPT ![c] = "build"],
             UNCHANGED <<active, legacy, handoff, hold>>
      PROVE  HoldInv'
  <2>1. Unheld(builds + 1)
    BY <1>0 DEF RegInv, RecordsBuilt, Built, Unheld, StoreType
  <2>2. Ages
    BY <1>0, <1>2, <2>1 DEF Ages, StoreType
  <2>3. QuietMove
    BY <1>0, <1>2 DEF QuietMove, Acquired
  <2>4. KeepsRecords
    BY <1>0, <1>2, SameRecordsKept DEF SameRecords, GivenUp
  <2>5. QED
    BY <1>0, <1>2, <2>2, <2>3, <2>4, QuietStep
<1>3. ASSUME UNCHANGED gateVars, pc' = [pc EXCEPT ![c] = "wait"],
             UNCHANGED <<active, legacy, handoff, hold>>
      PROVE  HoldInv'
  <2>1. Ages
    BY <1>0, <1>3, SameAges DEF gateVars
  <2>2. QuietMove
    BY <1>0, <1>3 DEF QuietMove, Acquired
  <2>3. KeepsRecords
    BY <1>0, <1>3, SameRecordsKept DEF SameRecords, GivenUp
  <2>4. QED
    BY <1>0, <1>3, <2>1, <2>2, <2>3, QuietStep
<1>4. QED
  BY <1>0, <1>1, <1>2, <1>3 DEF Lookup

LEMMA PublishHolds ==
  ASSUME RegInv, HoldInv, NEW c \in Calls, Publish(c)
  PROVE  HoldInv'
<1> DEFINE a == attempt[c]
<1>0. /\ pc[c] = "build" /\ a \in Managers
      /\ UNCHANGED <<epoch, pending, dropped, todo, job, born>>
      /\ At(want[c]) \cap retired = {}
      /\ At(want[c]) \ retired = At(want[c])
      /\ registered \ {} = registered
      /\ pc \in [Calls -> States] /\ StoreType
  <2>1. pc[c] = "build" /\ UNCHANGED <<epoch, pending, dropped, todo, job, born>>
    BY DEF Publish, raiseVars
  <2>2. a \in 1..builds /\ builds \in 0..MaxBuilds
    BY <2>1 DEF RegInv, Builders, StoreType
  <2>3. a \in Managers
    BY <2>2, BoundsAssumption DEF Managers
  <2>4. QED
    BY <2>1, <2>3, NoOrphans DEF RegInv, CallType
<1>1. CASE /\ MayPublish(a, At(want[c]) \ retired)
           /\ \E V \in Evictable(registered) : registered' = (registered \ V) \cup {a}
           /\ RegisterAcquire(a, c)
  <2>1. registered' = registered \cup {a}
    BY <1>1, NoOrphans
  <2>2. Current(a)
    BY <1>1 DEF MayPublish, Current
  <2>3. QED
    BY <1>0, <1>1, <2>1, <2>2, AcquireStep
<1>2. ASSUME NEW m \in At(want[c]), RegisterAcquire(m, c), registered' = registered
      PROVE  HoldInv'
  <2>1. m \in registered /\ m \in Managers /\ Current(m)
    BY <1>2 DEF At, RegInv, StoreType, ClearFencesBuilds
  <2>2. QED
    BY <1>0, <1>2, <2>1, AcquireStep
<1>3. ASSUME registered' = registered, pc' = [pc EXCEPT ![c] = "look"],
             UNCHANGED <<active, legacy, handoff, hold>>
      PROVE  HoldInv'
  <2>1. Ages
    BY <1>0, SameAges
  <2>2. QuietMove
    BY <1>0, <1>3 DEF QuietMove, Acquired
  <2>3. KeepsRecords
    BY <1>0, <1>3, SameRecordsKept DEF SameRecords, GivenUp
  <2>4. QED
    BY <1>0, <1>3, <2>1, <2>2, <2>3, QuietStep
<1>4. QED
  BY <1>0, <1>1, <1>2, <1>3 DEF Publish

LEMMA ConsumeShrinks ==
  ASSUME StoreType, NEW h, Consume(h)
  PROVE  \A m \in Managers : active'[m] \subseteq active[m]
  BY DEF StoreType, Consume, ReleaseAcquire

\* A release of the call's own hold.
LEMMA ReleaseHolds ==
  ASSUME RegInv, HoldInv, NEW c \in Calls, Release(c) \/ ReleaseAgain(c)
  PROVE  HoldInv'
<1>0. /\ pc \in [Calls -> States] /\ StoreType /\ TokenInv
      /\ Consume(hold[c])
      /\ UNCHANGED <<epoch, dropped, born, hold, todo, job>>
      /\ \/ pending' = pending
         \/ pending' = Forget(pending, hold[c])
      /\ pc[c] \in {"held", "again", "done", "lost"}
      /\ ~IsLease(hold[c]) => pc[c] = "held"
  <2>1. TokenInv
    BY DEF HoldInv
  <2>2. pc[c] = "again" => IsLease(hold[c])
    BY <2>1 DEF TokenInv, HoldPlaces, GivenUp
  <2>3. QED
    BY <2>1, <2>2 DEF Release, ReleaseAgain, RegInv, CallType, raiseVars, gateVars
<1>1. /\ \A d \in Calls : d # c => pc'[d] = pc[d]
      /\ pc'[c] \in {"final", "done"}
  BY <1>0 DEF Release, ReleaseAgain
<1>2. TokenInv' /\ (IsLease(hold[c]) => hold[c].lease \notin active'[hold[c].m])
  <2>1. CASE IsLease(hold[c])
    BY <1>0, <1>1, <2>1, LeaseReleased DEF Ended
  <2>2. CASE ~IsLease(hold[c])
    BY <1>0, <1>1, <2>2, ClosedByHolder
  <2>3. QED
    BY <2>1, <2>2
<1>3. GoesOn
  <2>1. \A m \in Managers : active'[m] \subseteq active[m]
    BY <1>0, ConsumeShrinks
  <2>2. QED
    BY <1>0, <1>1, <2>1 DEF GoesOn, Ended
<1>4. KeepsRecords
  <2>1. /\ pending' \subseteq pending
        /\ \A h \in pending \ pending' : h = hold[c] /\ IsLease(h)
    BY <1>0, RecordFacts, RecordsFade
  <2>2. QED
    BY <1>0, <1>1, <1>2, <2>1 DEF KeepsRecords, GivenUp
<1>5. QED
  BY <1>2, <1>3, <1>4, RecordStep DEF HoldInv

\* The release of a hold that another call failed to release.
LEMMA RetryHolds ==
  ASSUME RegInv, HoldInv, NEW c \in Calls, RetryRelease(c)
  PROVE  HoldInv'
<1>0. /\ pc \in [Calls -> States] /\ StoreType /\ TokenInv
      /\ DOMAIN todo = Calls /\ DOMAIN job = Calls
      /\ UNCHANGED <<epoch, dropped, born, hold>>
      /\ pc[c] = "retry"
  BY DEF RegInv, CallType, HoldInv, RetryRelease, raiseVars, gateVars
<1>1. PICK h \in todo[c] :
        /\ Consume(h)
        /\ todo' = [todo EXCEPT ![c] = @ \ {h}]
        /\ \/ /\ pc' = [pc EXCEPT ![c] = "retryFinal"]
              /\ job' = [job EXCEPT ![c] = h]
              /\ pending' = pending
           \/ /\ pending' = Forget(pending, h)
              /\ UNCHANGED <<pc, job>>
  BY DEF RetryRelease, NextRetry
<1>2. PICK d \in Calls : hold[d] = h /\ pc[d] \in Ended /\ IsLease(hold[d])
  BY DEF HoldInv, RecordInv, RecordsFailed, FailedRelease
<1>3. /\ d # c
      /\ \A e \in Calls : e # c => pc'[e] = pc[e]
      /\ pc'[c] \in {"retry", "retryFinal"}
  BY <1>0, <1>1, <1>2 DEF Ended
<1>4. TokenInv' /\ h.lease \notin active'[h.m]
  BY <1>0, <1>1, <1>2, <1>3, LeaseReleased DEF Acquired
<1>5. GoesOn
  <2>1. \A m \in Managers : active'[m] \subseteq active[m]
    BY <1>0, <1>1, ConsumeShrinks
  <2>2. QED
    BY <1>0, <1>3, <2>1 DEF GoesOn, Ended
<1>6. KeepsRecords
  <2>1. /\ pending' \subseteq pending
        /\ \A x \in pending \ pending' : x = h
    BY <1>1, RecordFacts, RecordsFade
  <2>2. \A e \in Calls : todo'[e] \subseteq todo[e]
    BY <1>0, <1>1
  <2>3. \A e \in Calls : pc'[e] = "retryFinal" =>
          (pc[e] = "retryFinal" /\ job'[e] = job[e]) \/ (e = c /\ job'[e] = h)
    BY <1>0, <1>1
  <2>4. QED
    BY <1>0, <1>3, <1>4, <2>1, <2>2, <2>3 DEF KeepsRecords, GivenUp
<1>7. QED
  BY <1>4, <1>5, <1>6, RecordStep DEF HoldInv

LEMMA AdoptHolds ==
  ASSUME RegInv, HoldInv, NEW c \in Calls, Adopt(c)
  PROVE  HoldInv'
<1>0. pc \in [Calls -> States] /\ hold \in [Calls -> Hold]
  BY DEF RegInv, CallType, HoldInv, TokenInv, HoldTypes
<1>1. /\ pc[c] = "fresh" /\ pc'[c] = "held"
      /\ \A d \in Calls : d # c => pc'[d] = pc[d] /\ hold'[d] = hold[d]
      /\ UNCHANGED <<pending, dropped, todo, job, active>>
  BY <1>0 DEF Adopt, raiseVars
<1>2. TokenInv'
  BY AdoptTokens DEF RegInv, HoldInv
<1>3. GoesOn
  BY <1>1 DEF GoesOn, Ended
<1>4. KeepsRecords
  BY <1>1, SameRecordsKept DEF SameRecords, GivenUp
<1>5. QED
  BY <1>2, <1>3, <1>4, RecordStep DEF HoldInv

\* A forced teardown takes tokens, of a manager that was cut off before.
LEMMA TeardownHolds ==
  ASSUME RegInv, HoldInv, NEW m \in Managers, Teardown(m)
  PROVE  HoldInv'
<1>0. /\ StoreType /\ TokenInv /\ m \notin registered
      /\ UNCHANGED <<registered, epoch, born, pc, hold, todo, job, dropped>>
      /\ pending' = Finalized(m)
  BY DEF RegInv, HoldInv, Teardown, DoomedIsOut, raiseVars, gateVars, callVars
<1>1. /\ active' = [n \in Managers |-> IF n \in {m} THEN {} ELSE active[n]]
      /\ legacy' = [n \in Managers |-> IF n \in {m} THEN <<>> ELSE legacy[n]]
      /\ handoff' = [n \in Managers |-> IF n \in {m} THEN [t \in Threads |-> <<>>] ELSE handoff[n]]
  BY <1>0 DEF Teardown, StoreType, TokenInv, HoldTypes
<1>2. Current(m)' => active[m] = {}
  BY <1>0 DEF TokenInv, ActiveRegistered, Current
<1>3. BornByNow' /\ \A n \in Managers : Current(n)' => Current(n)
  BY <1>0 DEF TokenInv, BornByNow, Current
<1>4. TokenInv'
  <2>1. {m} \in SUBSET Managers /\ \A n \in {m} : Current(n)' => active[n] = {}
    BY <1>2
  <2>2. \A n \in Managers : Current(n)' => Current(n) /\ (n \in registered => n \in registered')
    BY <1>0, <1>3
  <2>3. QED
    BY <1>0, <1>1, <1>3, <2>1, <2>2, TornDown
<1>5. GoesOn
  BY <1>0, <1>1 DEF GoesOn
<1>6. KeepsRecords
  BY <1>0, RecordFacts, RecordsFade DEF KeepsRecords
<1>7. QED
  BY <1>4, <1>5, <1>6, RecordStep DEF HoldInv

\* clear_registry() leaves no manager current.
LEMMA ClearHolds ==
  ASSUME RegInv, HoldInv, Clear
  PROVE  HoldInv'
<1>0. /\ StoreType /\ TokenInv /\ epoch' = epoch + 1
      /\ UNCHANGED <<born, pc, hold, todo, job, dropped, pending>>
      /\ active' = [n \in Managers |-> IF n \in registered THEN {} ELSE active[n]]
      /\ legacy' = [n \in Managers |-> IF n \in registered THEN <<>> ELSE legacy[n]]
      /\ handoff' = [n \in Managers |->
                       IF n \in registered THEN [t \in Threads |-> <<>>] ELSE handoff[n]]
  BY DEF RegInv, HoldInv, Clear, raiseVars, callVars
<1>1. \A m \in Managers : born[m] \in Nat /\ epoch \in Nat /\ born[m] <= epoch
  BY <1>0 DEF StoreType, TokenInv, BornByNow
<1>2. BornByNow' /\ \A m \in Managers : ~Current(m)'
  BY <1>0, <1>1 DEF BornByNow, Current
<1>3. registered \in SUBSET Managers
  BY <1>0 DEF StoreType
<1>4. TokenInv'
  BY <1>0, <1>2, <1>3, TornDown
<1>5. GoesOn
  BY <1>0 DEF GoesOn
<1>6. KeepsRecords
  BY <1>0 DEF KeepsRecords
<1>7. QED
  BY <1>4, <1>5, <1>6, RecordStep DEF HoldInv

LEMMA HoldInvInit == Init => HoldInv
<1> SUFFICES ASSUME Init PROVE HoldInv
  OBVIOUS
<1>0. <<>> \in Seq(Calls) /\ Len(<<>>) = 0 /\ Distinct(<<>>) /\ Range(<<>>) = {}
  BY DEF Distinct, Range
<1>1. /\ active = [m \in Managers |-> {}]
      /\ legacy = [m \in Managers |-> <<>>]
      /\ handoff = [m \in Managers |-> [t \in Threads |-> <<>>]]
      /\ \A c \in Calls : pc[c] = "idle" /\ hold[c] = NoHold /\ todo[c] = {}
      /\ pending = {} /\ epoch = 0 /\ born = [m \in Managers |-> 0]
      /\ hold = [c \in Calls |-> NoHold]
  BY DEF Init
<1>2. ~IsLease(NoHold) /\ NoHold \in Hold
  BY DEF IsLease, NoHold, Hold
<1>3. HoldTypes
  BY <1>0, <1>1, <1>2 DEF HoldTypes
<1>4. HoldPlaces /\ TokensHome /\ LeasesOwn /\ LeasesLive /\ LeasesSpent
  BY <1>1, <1>2 DEF HoldPlaces, TokensHome, LeasesOwn, LeasesLive, LeasesSpent,
                    Acquired, GivenUp
<1>5. LegacyTokens /\ HandoffTokens /\ TokensOwned /\ ActiveRegistered
  BY <1>0, <1>1 DEF LegacyTokens, HandoffTokens, TokensOwned, ActiveRegistered
<1>6. BornByNow
  BY <1>1 DEF BornByNow
<1>7. LegacyCounted
  <2>1. \A m \in Managers : Closers(m) = {}
    BY <1>1 DEF Closers, Holding
  <2>2. QED
    BY <1>0, <1>1, <2>1, FS_EmptySet DEF LegacyCounted
<1>8. RecordInv
  BY <1>1 DEF RecordInv, RecordsFailed, JobsSpent, FailedReleaseIsKept, GivenUp
<1>9. QED
  BY <1>3, <1>4, <1>5, <1>6, <1>7, <1>8 DEF HoldInv, TokenInv

LEMMA HoldInvStep ==
  ASSUME RaisingStyles \subseteq {"exact"}, RegInv, HoldInv, [Next]_vars
  PROVE  HoldInv'
<1>1. CASE Clear
  BY <1>1, ClearHolds
<1>2. ASSUME NEW m \in Managers, Teardown(m) PROVE HoldInv'
  BY <1>2, TeardownHolds
<1>3. ASSUME NEW c \in Calls,
             \/ Start(c) \/ RetryRaises(c) \/ RetryFinalized(c)
             \/ RetryFinalizeRaises(c) \/ RetryDone(c) \/ Wake(c) \/ BuildFails(c) \/ KeepLegacy(c)
             \/ ReleaseRaises(c) \/ FinalizeReturns(c) \/ FinalizeRaises(c)
      PROVE  HoldInv'
  BY <1>3, QuietCallStep
<1>4. ASSUME NEW c \in Calls, RetryRelease(c) PROVE HoldInv'
  BY <1>4, RetryHolds
<1>5. ASSUME NEW c \in Calls, Lookup(c) PROVE HoldInv'
  BY <1>5, LookupHolds
<1>6. ASSUME NEW c \in Calls, Publish(c) PROVE HoldInv'
  BY <1>6, PublishHolds
<1>7. ASSUME NEW c \in Calls, Adopt(c) PROVE HoldInv'
  BY <1>7, AdoptHolds
<1>8. ASSUME NEW c \in Calls, Release(c) \/ ReleaseAgain(c) PROVE HoldInv'
  BY <1>8, ReleaseHolds
<1>9. CASE UNCHANGED vars
  <2>1. /\ UNCHANGED <<registered, epoch, born, pc, active, legacy, handoff, hold>>
        /\ UNCHANGED <<pending, dropped, todo, job>>
    BY <1>9 DEF vars, raiseVars, managerVars, gateVars, callVars
  <2>2. Ages /\ QuietMove
    BY <2>1, SameAges DEF QuietMove, RegInv
  <2>3. KeepsRecords
    BY <2>1, SameRecordsKept DEF SameRecords
  <2>4. QED
    BY <2>1, <2>2, <2>3, QuietStep
<1>10. QED
  BY <1>1, <1>2, <1>3, <1>4, <1>5, <1>6, <1>7, <1>8, <1>9 DEF Next

-----------------------------------------------------------------------------
(* What the tokens say of the holders.                                     *)

LEMMA LeasesKeepTheirs ==
  ASSUME RegInv, TokenInv PROVE LeaseKeepsManager
<1> SUFFICES ASSUME NEW c \in Calls, pc[c] = "held", IsLease(hold[c]), Current(hold[c].m)
             PROVE  /\ hold[c].m \in registered
                    /\ hold[c].lease \in active[hold[c].m]
                    /\ \A d \in Calls : pc[d] = "held" /\ hold[d] = hold[c] => d = c
  BY DEF LeaseKeepsManager
<1>1. hold[c].m \in Managers
  BY DEF TokenInv, HoldPlaces, Acquired
<1>2. hold[c].lease \in active[hold[c].m]
  BY DEF TokenInv, LeasesLive
<1>3. hold[c].m \in registered
  BY <1>1, <1>2 DEF TokenInv, ActiveRegistered
<1>4. \A d \in Calls : hold[d].lease = hold[c].lease => d = c
  BY DEF TokenInv, LeasesOwn
<1>5. QED
  BY <1>2, <1>3, <1>4

\* A set of calls is finite.
LEMMA CallsFinite ==
  ASSUME NEW S, S \subseteq Calls
  PROVE  IsFiniteSet(S) /\ Cardinality(S) \in Nat
  BY CallsAssumption, FS_Subset, FS_CardinalityType

\* A list without repetitions has as many elements as places.
LEMMA DistinctCardinality ==
  ASSUME NEW S, NEW s \in Seq(S), Distinct(s)
  PROVE  IsFiniteSet(Range(s)) /\ Cardinality(Range(s)) = Len(s)
<1>1. Len(s) \in Nat /\ DOMAIN s = 1..Len(s)
  OBVIOUS
<1>2. s \in Bijection(1..Len(s), Range(s))
  <2>1. s \in [1..Len(s) -> Range(s)]
    BY <1>1 DEF Range
  <2>2. QED
    BY <1>1, <2>1 DEF Bijection, Injection, Surjection, IsInjective, Distinct, Range
<1>3. ExistsBijection(1..Len(s), Range(s))
  BY <1>2 DEF ExistsBijection
<1>4. IsFiniteSet(1..Len(s)) /\ Cardinality(1..Len(s)) = Len(s)
  BY <1>1, FS_Interval
<1>5. QED
  BY <1>3, <1>4, FS_Bijection

LEMMA HoldersKeepTheirs ==
  ASSUME RegInv, TokenInv PROVE HoldersKeepManager
<1> SUFFICES ASSUME NEW c \in Calls, pc[c] \in Holding, Current(hold[c].m)
             PROVE  hold[c].m \notin retired
  BY DEF HoldersKeepManager
<1> DEFINE m == hold[c].m
<1>1. m \in Managers
  BY DEF TokenInv, HoldPlaces, Acquired, Holding
<1>2. active[m] # {}
  <2>1. CASE IsLease(hold[c])
    <3>1. pc[c] = "held"
      BY <2>1 DEF TokenInv, HoldPlaces, Holding
    <3>2. QED
      BY <2>1, <3>1 DEF TokenInv, LeasesLive
  <2>2. CASE ~IsLease(hold[c])
    <3>1. c \in Closers(m) /\ Closers(m) \subseteq Calls
      BY <2>2 DEF Closers
    <3>2. Cardinality(Closers(m)) # 0
      BY <3>1, CallsFinite, FS_EmptySet
    <3>3. legacy[m] \in Seq(Calls) /\ Len(legacy[m]) # 0
      BY <1>1, <3>2 DEF TokenInv, HoldTypes, LegacyCounted
    <3>4. 1 \in DOMAIN legacy[m]
      BY <3>3
    <3>5. legacy[m][1] \in active[m]
      BY <1>1, <3>4 DEF TokenInv, LegacyTokens, Range
    <3>6. QED
      BY <3>5
  <2>3. QED
    BY <2>1, <2>2
<1>3. m \in registered
  BY <1>1, <1>2 DEF TokenInv, ActiveRegistered
<1>4. QED
  BY <1>3 DEF RegInv, RegisteredIsHeld

\* The tokens of a current manager that are not legacy ones are those of its
\* leases, held or given up.
LEMMA TokensAreHolds ==
  ASSUME RegInv, TokenInv PROVE HoldsAccounted
<1> SUFFICES ASSUME NEW m \in Managers, Current(m)
             PROVE  LET holders == {c \in Calls : pc[c] \in Holding /\ hold[c].m = m}
                        lost == {c \in Calls : /\ pc[c] \in GivenUp
                                               /\ hold[c].m = m
                                               /\ hold[c].lease \in active[m]}
                    IN /\ Cardinality(active[m]) = Cardinality(holders) + Cardinality(lost)
                       /\ Len(legacy[m]) = Cardinality({c \in holders : ~IsLease(hold[c])})
  BY DEF HoldsAccounted
<1> DEFINE holders == {c \in Calls : pc[c] \in Holding /\ hold[c].m = m}
           lost == {c \in Calls : /\ pc[c] \in GivenUp
                                  /\ hold[c].m = m
                                  /\ hold[c].lease \in active[m]}
           leased == {c \in holders : IsLease(hold[c])}
           owners == leased \cup lost
           closers == {c \in holders : ~IsLease(hold[c])}
           own == active[m] \ Range(legacy[m])
           f == [c \in owners |-> hold[c].lease]
<1>1. closers = Closers(m)
  BY DEF Closers
<1>2. Len(legacy[m]) = Cardinality(closers)
  BY <1>1 DEF TokenInv, LegacyCounted
<1>3. f \in Bijection(owners, own)
  <2>1. \A c \in owners : IsLease(hold[c]) /\ hold[c].m = m /\ hold[c].lease \in active[m]
    <3>1. \A c \in leased : pc[c] = "held"
      BY DEF TokenInv, HoldPlaces, Holding
    <3>2. \A c \in leased : hold[c].lease \in active[m]
      BY <3>1 DEF TokenInv, LeasesLive
    <3>3. \A c \in lost : IsLease(hold[c])
      BY DEF TokenInv, HoldPlaces
    <3>4. QED
      BY <3>2, <3>3
  <2>2. \A c \in owners : hold[c].lease \in own
    BY <2>1 DEF TokenInv, LeasesOwn
  <2>3. \A c, d \in owners : hold[c].lease = hold[d].lease => c = d
    BY <2>1 DEF TokenInv, LeasesOwn
  <2>4. ASSUME NEW x \in own PROVE \E c \in owners : hold[c].lease = x
    <3>1. PICK c \in Calls : hold[c].m = m /\ hold[c].lease = x
      BY DEF TokenInv, TokensOwned
    <3>2. x # None
      BY NamesAssumption DEF RegInv, StoreType
    <3>3. IsLease(hold[c]) /\ m # NoManager
      BY <3>1, <3>2 DEF IsLease, Managers, NoManager
    <3>4. pc[c] \in Acquired
      BY <3>1, <3>3 DEF TokenInv, HoldPlaces, NoHold
    <3>5. pc[c] \notin {"final", "done"}
      BY <3>1, <3>3 DEF TokenInv, LeasesSpent
    <3>6. c \in owners
      BY <3>1, <3>3, <3>4, <3>5 DEF Acquired, Holding, GivenUp
    <3>7. QED
      BY <3>1, <3>6
  <2> HIDE DEF owners, own
  <2>5. f \in [owners -> own]
    BY <2>2
  <2>6. QED
    BY <2>3, <2>4, <2>5 DEF Bijection, Injection, Surjection, IsInjective
<1>4. /\ holders \subseteq Calls /\ lost \subseteq Calls /\ leased \subseteq Calls
      /\ closers \subseteq Calls /\ owners \subseteq Calls /\ active[m] \subseteq Calls
      /\ own \subseteq Calls
      /\ leased \cup closers = holders /\ leased \cap closers = {}
      /\ leased \cap lost = {}
      /\ Range(legacy[m]) \subseteq active[m]
      /\ own \cup Range(legacy[m]) = active[m] /\ own \cap Range(legacy[m]) = {}
  <2>1. active[m] \subseteq Calls /\ Range(legacy[m]) \subseteq active[m]
    BY DEF RegInv, StoreType, TokenInv, LegacyTokens
  <2>2. leased \cap lost = {}
    BY DEF Holding, GivenUp
  <2>3. QED
    BY <2>1, <2>2
<1> HIDE DEF holders, lost, leased, owners, closers, own, f
<1>5. Cardinality(owners) = Cardinality(own)
  <2>1. ExistsBijection(owners, own)
    BY <1>3 DEF ExistsBijection
  <2>2. QED
    BY <1>4, <2>1, CallsFinite, FS_Bijection
<1>6. Cardinality(owners) = Cardinality(leased) + Cardinality(lost)
  <2>1. owners = leased \cup lost
    BY DEF owners
  <2>2. Cardinality(owners) =
          Cardinality(leased) + Cardinality(lost) - Cardinality(leased \cap lost)
    BY <1>4, <2>1, CallsFinite, FS_Union
  <2>3. QED
    BY <1>4, <2>2, CallsFinite, FS_EmptySet
<1>7. Cardinality(holders) = Cardinality(leased) + Cardinality(closers)
  <2>1. Cardinality(holders) =
          Cardinality(leased) + Cardinality(closers) - Cardinality(leased \cap closers)
    BY <1>4, CallsFinite, FS_Union
  <2>2. QED
    BY <1>4, <2>1, CallsFinite, FS_EmptySet
<1>8. Cardinality(Range(legacy[m])) = Len(legacy[m])
  <2>1. legacy[m] \in Seq(Calls) /\ Distinct(legacy[m])
    BY DEF TokenInv, HoldTypes, LegacyTokens
  <2>2. QED
    BY <2>1, DistinctCardinality
<1>9. Cardinality(active[m]) = Cardinality(own) + Cardinality(Range(legacy[m]))
  <2> DEFINE R == Range(legacy[m])
  <2>1. R \subseteq Calls
    BY <1>4
  <2>2. own \cup R = active[m] /\ own \cap R = {}
    BY <1>4
  <2> HIDE DEF R
  <2>3. Cardinality(own \cup R) = Cardinality(own) + Cardinality(R) - Cardinality(own \cap R)
    BY <1>4, <2>1, CallsFinite, FS_Union
  <2>4. Cardinality(own) \in Nat /\ Cardinality(R) \in Nat
    BY <1>4, <2>1, CallsFinite
  <2>5. Cardinality(own \cap R) = 0
    BY <2>2, FS_EmptySet
  <2>6. \A i, j \in Nat : i + j - 0 = i + j
    OBVIOUS
  <2>7. Cardinality(active[m]) = Cardinality(own) + Cardinality(R)
    BY <2>2, <2>3, <2>4, <2>5, <2>6
  <2>8. QED
    BY <2>7 DEF R
<1>10. /\ Cardinality(leased) \in Nat /\ Cardinality(lost) \in Nat
       /\ Cardinality(closers) \in Nat
  BY <1>4, CallsFinite
<1>11. /\ Cardinality(active[m]) = Cardinality(holders) + Cardinality(lost)
       /\ Len(legacy[m]) = Cardinality(closers)
  <2>1. Cardinality(active[m]) =
          (Cardinality(leased) + Cardinality(lost)) + Cardinality(closers)
    BY <1>2, <1>5, <1>6, <1>8, <1>9
  <2>2. \A i, j, k \in Nat : (i + j) + k = (i + k) + j
    OBVIOUS
  <2>3. QED
    BY <1>2, <1>7, <1>10, <2>1, <2>2
<1>12. QED
  BY <1>11 DEF holders, lost, closers

\* A hold keeps its manager, every token has one holder and every failed
\* release has a record, for every number of calls, threads, keys and managers
\* and whatever raises among the leases' releases (_manager.py:576-583, 603-613,
\* 928, 973-999 and 2219-2273).  A close() that raises is left out: its retry
\* consumes a peer's token, which the run registry_claim_holds shows.
THEOREM HoldsKeptHolds ==
  ASSUME RaisingStyles \subseteq {"exact"}
  PROVE  Spec => HoldsKept
<1>1. Init => RegInv /\ HoldInv
  BY RegInvInit, HoldInvInit
<1>2. RegInv /\ HoldInv /\ [Next]_vars => (RegInv /\ HoldInv)'
  BY RegInvStep, HoldInvStep
<1>3. RegInv /\ HoldInv =>
        LeaseKeepsManager /\ HoldersKeepManager /\ HoldsAccounted /\ FailedReleaseIsKept
  BY LeasesKeepTheirs, HoldersKeepTheirs, TokensAreHolds DEF HoldInv, RecordInv
<1>4. QED
  BY <1>1, <1>2, <1>3, SuccessorStaysHolds, PTL DEF Spec, HoldsKept

=============================================================================
