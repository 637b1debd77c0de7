----------------------- MODULE ManagerConnectionProofs -----------------------
(***************************************************************************)
(* Proofs about the connection of one manager: no backend is leaked or     *)
(* disconnected twice, none is published after the retirement has begun,   *)
(* and a (backend, breaker) snapshot belongs to one generation.            *)
(***************************************************************************)
EXTENDS ManagerConnection, FiniteSetTheorems, TLAPS

\* The parts of TypeOK that the argument needs.
PlaceType == pc \in [Threads -> States]
LinkType ==
  /\ backend \in {None} \cup Handles
  /\ retiring \in {None} \cup Handles
  /\ breaker \in 0..MaxHandles
  /\ made \in 0..MaxHandles
HandleType ==
  /\ closed \in [Handles -> Nat]
  /\ bornWith \in [Handles -> 0..MaxHandles]
LocalType ==
  /\ hand \in [Threads -> {None} \cup Handles]
  /\ seen \in [Threads -> 0..MaxHandles]
  /\ custody \in [Threads -> {None} \cup Handles]

\* _connect_lock is held by the thread that is inside a transaction.
LockHeld ==
  \A t \in Threads :
    pc[t] \in {"probe", "try", "dial", "discard"} <=> connectLock = t

\* Who carries a backend, and where; what is probed is a backend.
Carriers ==
  \A t \in Threads :
    /\ pc[t] = "probe" => hand[t] # None
    /\ pc[t] \in {"drop", "dial", "discard"} => custody[t] # None
    /\ custody[t] # None => pc[t] \in {"drop", "dial", "discard", "teardown"}

\* A backend in somebody's custody is open, is nobody else's and is not the
\* published one, which is open too.
Owned ==
  /\ \A t \in Threads :
       custody[t] # None =>
         /\ custody[t] # backend
         /\ custody[t] <= made
         /\ closed[custody[t]] = 0
         /\ \A u \in Threads : custody[u] = custody[t] => u = t
  /\ backend # None => backend <= made /\ closed[backend] = 0

\* A candidate that is being connected has never been given out, and there is
\* no published backend that it could overwrite.
Dialing ==
  \A t \in Threads :
    pc[t] = "dial" =>
      /\ backend = None
      /\ \A u \in Threads : hand[u] # custody[t]

\* What was given out has been created.
Given == \A t \in Threads : hand[t] <= made

\* The teardown begins after the last release and takes the backend away.
Ending ==
  /\ started => retired /\ backend = None
  /\ ~started => retiring = None
  /\ \A t \in Threads :
       pc[t] \in {"fin", "await", "teardown", "publish", "raised"} => retired

\* A backend is closed once at most, and only after it was created.
ClosedOnce ==
  \A h \in Handles : closed[h] <= 1 /\ (h > made => closed[h] = 0)

\* Every open backend is the published one or in somebody's custody.
Found ==
  \A h \in 1..made :
    closed[h] = 0 => h = backend \/ \E t \in Threads : custody[t] = h

\* The published backend belongs to the current breaker.
Generation == backend # None => bornWith[backend] = breaker

ConnInv ==
  /\ PlaceType /\ LinkType /\ HandleType /\ LocalType
  /\ LockHeld /\ Carriers /\ Owned /\ Dialing /\ Given /\ Ending
  /\ ClosedOnce /\ Found /\ Generation /\ CoherentPair
-----------------------------------------------------------------------------
\* What disconnecting a backend does to the count of each backend.
LEMMA DisconnectFacts ==
  ASSUME HandleType, NEW h, Disconnect(h)
  PROVE  /\ closed' \in [Handles -> Nat]
         /\ \A g \in Handles : closed'[g] = IF g = h THEN closed[g] + 1 ELSE closed[g]
<1>1. CASE h \in Handles
  BY <1>1 DEF Disconnect, HandleType
<1>2. CASE h \notin Handles
  BY <1>2 DEF Disconnect, HandleType
<1>3. QED
  BY <1>1, <1>2

\* Every step leaves its thread at a place of States.
LEMMA PlaceStep ==
  ASSUME PlaceType, [Next]_vars
  PROVE  PlaceType'
<1> USE DEF Goto, PlaceType, States
<1>1. ASSUME NEW t \in Threads, Access(t) \/ Wake(t) \/ Settle(t) \/ Read(t)
      PROVE  PlaceType'
  BY <1>1
  DEF Access, Wake, Settle, Result, Read, Produced, retireVars, linkVars,
      lazyVars, handleVars, localVars
<1>2. ASSUME NEW t \in Threads, ReadBreaker(t) \/ Check(t) \/ Done(t) \/ CallTrips(t)
      PROVE  PlaceType'
  BY <1>2
  DEF ReadBreaker, Check, Drop, Coherent, Done, CallTrips, retireVars,
      linkVars, lazyVars, handleVars, localVars
<1>3. ASSUME NEW t \in Threads,
             Ask(t) \/ ConnectDirect(t) \/ Retire(t) \/ RetryRelease(t)
      PROVE  PlaceType'
  BY <1>3
  DEF Ask, ConnectDirect, Retire, RetryRelease, Retried, retireVars, linkVars,
      lazyVars, handleVars, localVars
<1>4. ASSUME NEW t \in Threads, TakeLock(t)
      PROVE  PlaceType'
  BY <1>4
  DEF TakeLock, Raise, retireVars, linkVars, lazyVars, handleVars, localVars
<1>5. ASSUME NEW t \in Threads, Probe(t)
      PROVE  PlaceType'
  BY <1>5
  DEF Probe, Raise, StillCurrent, retireVars, linkVars, lazyVars, handleVars,
      localVars
<1>6. ASSUME NEW t \in Threads, Try(t)
      PROVE  PlaceType'
  BY <1>6
  DEF Try, Raise, Return, AlreadyConnected, retireVars, linkVars, lazyVars,
      handleVars, localVars
<1>7. ASSUME NEW t \in Threads, DropStale(t) \/ DialFails(t) \/ Discard(t)
      PROVE  PlaceType'
  BY <1>7
  DEF DropStale, Raise, Disconnect, DialFails, Discard, retireVars, linkVars,
      lazyVars, handleVars, localVars
<1>8. ASSUME NEW t \in Threads, DialWorks(t)
      PROVE  PlaceType'
  BY <1>8
  DEF DialWorks, Return, MayPublish, retireVars, linkVars, lazyVars,
      handleVars, localVars
<1>9. ASSUME NEW t \in Threads, Finalize(t) \/ Await(t)
      PROVE  PlaceType'
  BY <1>9
  DEF Finalize, Claim, FirstClaim, Await, retireVars, linkVars, lazyVars,
      handleVars, localVars
<1>10. ASSUME NEW t \in Threads, Teardown(t)
      PROVE  PlaceType'
  BY <1>10
  DEF Teardown, Disconnect, retireVars, linkVars, lazyVars, handleVars,
      localVars
<1>11. ASSUME NEW t \in Threads, Publish(t) \/ PublishInterrupted(t)
      PROVE  PlaceType'
  BY <1>11
  DEF Publish, PublishInterrupted, retireVars, linkVars, lazyVars, handleVars,
      localVars
<1>12. CASE UNCHANGED vars
  BY <1>12 DEF vars, retireVars, linkVars, lazyVars, handleVars, localVars
<1>13. QED
  BY <1>1, <1>2, <1>3, <1>4, <1>5, <1>6, <1>7, <1>8, <1>9, <1>10, <1>11,
     <1>12 DEF Next, Step

\* The published and the retiring backend, and the counters, keep their types.
LEMMA LinkStep ==
  ASSUME LinkType, LocalType, [Next]_vars
  PROVE  LinkType'
<1> USE DEF Goto, LinkType, LocalType, Handles
<1>1. ASSUME NEW t \in Threads, Access(t) \/ Wake(t) \/ Settle(t) \/ Read(t)
      PROVE  LinkType'
  BY <1>1, BoundsAssumption
  DEF Access, Wake, Settle, Result, Read, Produced, retireVars, linkVars,
      lazyVars, handleVars, localVars
<1>2. ASSUME NEW t \in Threads, ReadBreaker(t) \/ Check(t) \/ Done(t) \/ CallTrips(t)
      PROVE  LinkType'
  BY <1>2, BoundsAssumption
  DEF ReadBreaker, Check, Drop, Coherent, Done, CallTrips, retireVars,
      linkVars, lazyVars, handleVars, localVars
<1>3. ASSUME NEW t \in Threads,
             Ask(t) \/ ConnectDirect(t) \/ Retire(t) \/ RetryRelease(t)
      PROVE  LinkType'
  BY <1>3, BoundsAssumption
  DEF Ask, ConnectDirect, Retire, RetryRelease, Retried, retireVars, linkVars,
      lazyVars, handleVars, localVars
<1>4. ASSUME NEW t \in Threads, TakeLock(t)
      PROVE  LinkType'
  BY <1>4, BoundsAssumption
  DEF TakeLock, Raise, retireVars, linkVars, lazyVars, handleVars, localVars
<1>5. ASSUME NEW t \in Threads, Probe(t)
      PROVE  LinkType'
  BY <1>5, BoundsAssumption
  DEF Probe, Raise, StillCurrent, retireVars, linkVars, lazyVars, handleVars,
      localVars
<1>6. ASSUME NEW t \in Threads, Try(t)
      PROVE  LinkType'
  BY <1>6, BoundsAssumption
  DEF Try, Raise, Return, AlreadyConnected, retireVars, linkVars, lazyVars,
      handleVars, localVars
<1>7. ASSUME NEW t \in Threads, DropStale(t) \/ DialFails(t) \/ Discard(t)
      PROVE  LinkType'
  BY <1>7, BoundsAssumption
  DEF DropStale, Raise, Disconnect, DialFails, Discard, retireVars, linkVars,
      lazyVars, handleVars, localVars
<1>8. ASSUME NEW t \in Threads, DialWorks(t)
      PROVE  LinkType'
  BY <1>8, BoundsAssumption
  DEF DialWorks, Return, MayPublish, retireVars, linkVars, lazyVars,
      handleVars, localVars
<1>9. ASSUME NEW t \in Threads, Finalize(t) \/ Await(t)
      PROVE  LinkType'
  BY <1>9, BoundsAssumption
  DEF Finalize, Claim, FirstClaim, Await, retireVars, linkVars, lazyVars,
      handleVars, localVars
<1>10. ASSUME NEW t \in Threads, Teardown(t)
      PROVE  LinkType'
  BY <1>10, BoundsAssumption
  DEF Teardown, Disconnect, retireVars, linkVars, lazyVars, handleVars,
      localVars
<1>11. ASSUME NEW t \in Threads, Publish(t) \/ PublishInterrupted(t)
      PROVE  LinkType'
  BY <1>11, BoundsAssumption
  DEF Publish, PublishInterrupted, retireVars, linkVars, lazyVars, handleVars,
      localVars
<1>12. CASE UNCHANGED vars
  BY <1>12 DEF vars, retireVars, linkVars, lazyVars, handleVars, localVars
<1>13. QED
  BY <1>1, <1>2, <1>3, <1>4, <1>5, <1>6, <1>7, <1>8, <1>9, <1>10, <1>11,
     <1>12 DEF Next, Step

\* So do the histories of the backends.
LEMMA HandleStep ==
  ASSUME LinkType, HandleType, [Next]_vars
  PROVE  HandleType'
<1> USE DEF Goto, LinkType, HandleType
<1>1. ASSUME NEW t \in Threads, Access(t) \/ Wake(t) \/ Settle(t) \/ Read(t)
      PROVE  HandleType'
  BY <1>1, DisconnectFacts
  DEF Access, Wake, Settle, Result, Read, Produced, retireVars, linkVars,
      lazyVars, handleVars, localVars
<1>2. ASSUME NEW t \in Threads, ReadBreaker(t) \/ Check(t) \/ Done(t) \/ CallTrips(t)
      PROVE  HandleType'
  BY <1>2, DisconnectFacts
  DEF ReadBreaker, Check, Drop, Coherent, Done, CallTrips, retireVars,
      linkVars, lazyVars, handleVars, localVars
<1>3. ASSUME NEW t \in Threads,
             Ask(t) \/ ConnectDirect(t) \/ Retire(t) \/ RetryRelease(t)
      PROVE  HandleType'
  BY <1>3, DisconnectFacts
  DEF Ask, ConnectDirect, Retire, RetryRelease, Retried, retireVars, linkVars,
      lazyVars, handleVars, localVars
<1>4. ASSUME NEW t \in Threads, TakeLock(t)
      PROVE  HandleType'
  BY <1>4, DisconnectFacts
  DEF TakeLock, Raise, retireVars, linkVars, lazyVars, handleVars, localVars
<1>5. ASSUME NEW t \in Threads, Probe(t)
      PROVE  HandleType'
  BY <1>5, DisconnectFacts
  DEF Probe, Raise, StillCurrent, retireVars, linkVars, lazyVars, handleVars,
      localVars
<1>6. ASSUME NEW t \in Threads, Try(t)
      PROVE  HandleType'
  BY <1>6, DisconnectFacts
  DEF Try, Raise, Return, AlreadyConnected, retireVars, linkVars, lazyVars,
      handleVars, localVars
<1>7. ASSUME NEW t \in Threads, DropStale(t) \/ DialFails(t) \/ Discard(t)
      PROVE  HandleType'
  BY <1>7, DisconnectFacts
  DEF DropStale, Raise, Disconnect, DialFails, Discard, retireVars, linkVars,
      lazyVars, handleVars, localVars
<1>8. ASSUME NEW t \in Threads, DialWorks(t)
      PROVE  HandleType'
  BY <1>8, DisconnectFacts
  DEF DialWorks, Return, MayPublish, retireVars, linkVars, lazyVars,
      handleVars, localVars
<1>9. ASSUME NEW t \in Threads, Finalize(t) \/ Await(t)
      PROVE  HandleType'
  BY <1>9, DisconnectFacts
  DEF Finalize, Claim, FirstClaim, Await, retireVars, linkVars, lazyVars,
      handleVars, localVars
<1>10. ASSUME NEW t \in Threads, Teardown(t)
      PROVE  HandleType'
  BY <1>10, DisconnectFacts
  DEF Teardown, Disconnect, retireVars, linkVars, lazyVars, handleVars,
      localVars
<1>11. ASSUME NEW t \in Threads, Publish(t) \/ PublishInterrupted(t)
      PROVE  HandleType'
  BY <1>11, DisconnectFacts
  DEF Publish, PublishInterrupted, retireVars, linkVars, lazyVars, handleVars,
      localVars
<1>12. CASE UNCHANGED vars
  BY <1>12 DEF vars, retireVars, linkVars, lazyVars, handleVars, localVars
<1>13. QED
  BY <1>1, <1>2, <1>3, <1>4, <1>5, <1>6, <1>7, <1>8, <1>9, <1>10, <1>11,
     <1>12 DEF Next, Step

\* So does what the threads hold.
LEMMA LocalStep ==
  ASSUME LinkType, LocalType, [Next]_vars
  PROVE  LocalType'
<1> USE DEF Goto, LinkType, LocalType, Handles
<1>1. ASSUME NEW t \in Threads, Access(t) \/ Wake(t) \/ Settle(t) \/ Read(t)
      PROVE  LocalType'
  BY <1>1, BoundsAssumption
  DEF Access, Wake, Settle, Result, Read, Produced, retireVars, linkVars,
      lazyVars, handleVars, localVars
<1>2. ASSUME NEW t \in Threads, ReadBreaker(t) \/ Check(t) \/ Done(t) \/ CallTrips(t)
      PROVE  LocalType'
  BY <1>2, BoundsAssumption
  DEF ReadBreaker, Check, Drop, Coherent, Done, CallTrips, retireVars,
      linkVars, lazyVars, handleVars, localVars
<1>3. ASSUME NEW t \in Threads,
             Ask(t) \/ ConnectDirect(t) \/ Retire(t) \/ RetryRelease(t)
      PROVE  LocalType'
  BY <1>3, BoundsAssumption
  DEF Ask, ConnectDirect, Retire, RetryRelease, Retried, retireVars, linkVars,
      lazyVars, handleVars, localVars
<1>4. ASSUME NEW t \in Threads, TakeLock(t)
      PROVE  LocalType'
  BY <1>4, BoundsAssumption
  DEF TakeLock, Raise, retireVars, linkVars, lazyVars, handleVars, localVars
<1>5. ASSUME NEW t \in Threads, Probe(t)
      PROVE  LocalType'
  BY <1>5, BoundsAssumption
  DEF Probe, Raise, StillCurrent, retireVars, linkVars, lazyVars, handleVars,
      localVars
<1>6. ASSUME NEW t \in Threads, Try(t)
      PROVE  LocalType'
  BY <1>6, BoundsAssumption
  DEF Try, Raise, Return, AlreadyConnected, retireVars, linkVars, lazyVars,
      handleVars, localVars
<1>7. ASSUME NEW t \in Threads, DropStale(t) \/ DialFails(t) \/ Discard(t)
      PROVE  LocalType'
  BY <1>7, BoundsAssumption
  DEF DropStale, Raise, Disconnect, DialFails, Discard, retireVars, linkVars,
      lazyVars, handleVars, localVars
<1>8. ASSUME NEW t \in Threads, DialWorks(t)
      PROVE  LocalType'
  BY <1>8, BoundsAssumption
  DEF DialWorks, Return, MayPublish, retireVars, linkVars, lazyVars,
      handleVars, localVars
<1>9. ASSUME NEW t \in Threads, Finalize(t) \/ Await(t)
      PROVE  LocalType'
  BY <1>9, BoundsAssumption
  DEF Finalize, Claim, FirstClaim, Await, retireVars, linkVars, lazyVars,
      handleVars, localVars
<1>10. ASSUME NEW t \in Threads, Teardown(t)
      PROVE  LocalType'
  BY <1>10, BoundsAssumption
  DEF Teardown, Disconnect, retireVars, linkVars, lazyVars, handleVars,
      localVars
<1>11. ASSUME NEW t \in Threads, Publish(t) \/ PublishInterrupted(t)
      PROVE  LocalType'
  BY <1>11, BoundsAssumption
  DEF Publish, PublishInterrupted, retireVars, linkVars, lazyVars, handleVars,
      localVars
<1>12. CASE UNCHANGED vars
  BY <1>12 DEF vars, retireVars, linkVars, lazyVars, handleVars, localVars
<1>13. QED
  BY <1>1, <1>2, <1>3, <1>4, <1>5, <1>6, <1>7, <1>8, <1>9, <1>10, <1>11,
     <1>12 DEF Next, Step

\* The lock goes with the transaction.
LEMMA LockStep ==
  ASSUME PlaceType, LockHeld, [Next]_vars
  PROVE  LockHeld'
<1> USE DEF Goto, PlaceType, LockHeld
<1>1. ASSUME NEW t \in Threads, Access(t) \/ Wake(t) \/ Settle(t) \/ Read(t)
      PROVE  LockHeld'
  BY <1>1, IdentitiesAssumption
  DEF Access, Wake, Settle, Result, Read, Produced, retireVars, linkVars,
      lazyVars, handleVars, localVars
<1>2. ASSUME NEW t \in Threads, ReadBreaker(t) \/ Check(t) \/ Done(t) \/ CallTrips(t)
      PROVE  LockHeld'
  BY <1>2, IdentitiesAssumption
  DEF ReadBreaker, Check, Drop, Coherent, Done, CallTrips, retireVars,
      linkVars, lazyVars, handleVars, localVars
<1>3. ASSUME NEW t \in Threads,
             Ask(t) \/ ConnectDirect(t) \/ Retire(t) \/ RetryRelease(t)
      PROVE  LockHeld'
  BY <1>3, IdentitiesAssumption
  DEF Ask, ConnectDirect, Retire, RetryRelease, Retried, retireVars, linkVars,
      lazyVars, handleVars, localVars
<1>4. ASSUME NEW t \in Threads, TakeLock(t)
      PROVE  LockHeld'
  BY <1>4, IdentitiesAssumption
  DEF TakeLock, Raise, retireVars, linkVars, lazyVars, handleVars, localVars
<1>5. ASSUME NEW t \in Threads, Probe(t)
      PROVE  LockHeld'
  BY <1>5, IdentitiesAssumption
  DEF Probe, Raise, StillCurrent, retireVars, linkVars, lazyVars, handleVars,
      localVars
<1>6. ASSUME NEW t \in Threads, Try(t)
      PROVE  LockHeld'
  BY <1>6, IdentitiesAssumption
  DEF Try, Raise, Return, AlreadyConnected, retireVars, linkVars, lazyVars,
      handleVars, localVars
<1>7. ASSUME NEW t \in Threads, DropStale(t) \/ DialFails(t) \/ Discard(t)
      PROVE  LockHeld'
  BY <1>7, IdentitiesAssumption
  DEF DropStale, Raise, Disconnect, DialFails, Discard, retireVars, linkVars,
      lazyVars, handleVars, localVars
<1>8. ASSUME NEW t \in Threads, DialWorks(t)
      PROVE  LockHeld'
  BY <1>8, IdentitiesAssumption
  DEF DialWorks, Return, MayPublish, retireVars, linkVars, lazyVars,
      handleVars, localVars
<1>9. ASSUME NEW t \in Threads, Finalize(t) \/ Await(t)
      PROVE  LockHeld'
  BY <1>9, IdentitiesAssumption
  DEF Finalize, Claim, FirstClaim, Await, retireVars, linkVars, lazyVars,
      handleVars, localVars
<1>10. ASSUME NEW t \in Threads, Teardown(t)
      PROVE  LockHeld'
  BY <1>10, IdentitiesAssumption
  DEF Teardown, Disconnect, retireVars, linkVars, lazyVars, handleVars,
      localVars
<1>11. ASSUME NEW t \in Threads, Publish(t) \/ PublishInterrupted(t)
      PROVE  LockHeld'
  BY <1>11, IdentitiesAssumption
  DEF Publish, PublishInterrupted, retireVars, linkVars, lazyVars, handleVars,
      localVars
<1>12. CASE UNCHANGED vars
  BY <1>12 DEF vars, retireVars, linkVars, lazyVars, handleVars, localVars
<1>13. QED
  BY <1>1, <1>2, <1>3, <1>4, <1>5, <1>6, <1>7, <1>8, <1>9, <1>10, <1>11,
     <1>12 DEF Next, Step

\* A backend is carried at the places that deal with it.
LEMMA CarriersStep ==
  ASSUME PlaceType, LinkType, LocalType, Carriers, [Next]_vars
  PROVE  Carriers'
<1> USE DEF Goto, PlaceType, LinkType, LocalType, Carriers, Handles, None
<1>1. ASSUME NEW t \in Threads, Access(t) \/ Wake(t) \/ Settle(t) \/ Read(t)
      PROVE  Carriers'
  BY <1>1
  DEF Access, Wake, Settle, Result, Read, Produced, retireVars, linkVars,
      lazyVars, handleVars, localVars
<1>2. ASSUME NEW t \in Threads, ReadBreaker(t) \/ Check(t) \/ Done(t) \/ CallTrips(t)
      PROVE  Carriers'
  BY <1>2
  DEF ReadBreaker, Check, Drop, Coherent, Done, CallTrips, retireVars,
      linkVars, lazyVars, handleVars, localVars
<1>3. ASSUME NEW t \in Threads,
             Ask(t) \/ ConnectDirect(t) \/ Retire(t) \/ RetryRelease(t)
      PROVE  Carriers'
  BY <1>3
  DEF Ask, ConnectDirect, Retire, RetryRelease, Retried, retireVars, linkVars,
      lazyVars, handleVars, localVars
<1>4. ASSUME NEW t \in Threads, TakeLock(t)
      PROVE  Carriers'
  BY <1>4
  DEF TakeLock, Raise, retireVars, linkVars, lazyVars, handleVars, localVars
<1>5. ASSUME NEW t \in Threads, Probe(t)
      PROVE  Carriers'
  BY <1>5
  DEF Probe, Raise, StillCurrent, retireVars, linkVars, lazyVars, handleVars,
      localVars
<1>6. ASSUME NEW t \in Threads, Try(t)
      PROVE  Carriers'
  BY <1>6
  DEF Try, Raise, Return, AlreadyConnected, retireVars, linkVars, lazyVars,
      handleVars, localVars
<1>7. ASSUME NEW t \in Threads, DropStale(t) \/ DialFails(t) \/ Discard(t)
      PROVE  Carriers'
  BY <1>7
  DEF DropStale, Raise, Disconnect, DialFails, Discard, retireVars, linkVars,
      lazyVars, handleVars, localVars
<1>8. ASSUME NEW t \in Threads, DialWorks(t)
      PROVE  Carriers'
  BY <1>8
  DEF DialWorks, Return, MayPublish, retireVars, linkVars, lazyVars,
      handleVars, localVars
<1>9. ASSUME NEW t \in Threads, Finalize(t) \/ Await(t)
      PROVE  Carriers'
  BY <1>9
  DEF Finalize, Claim, FirstClaim, Await, retireVars, linkVars, lazyVars,
      handleVars, localVars
<1>10. ASSUME NEW t \in Threads, Teardown(t)
      PROVE  Carriers'
  BY <1>10
  DEF Teardown, Disconnect, retireVars, linkVars, lazyVars, handleVars,
      localVars
<1>11. ASSUME NEW t \in Threads, Publish(t) \/ PublishInterrupted(t)
      PROVE  Carriers'
  BY <1>11
  DEF Publish, PublishInterrupted, retireVars, linkVars, lazyVars, handleVars,
      localVars
<1>12. CASE UNCHANGED vars
  BY <1>12 DEF vars, retireVars, linkVars, lazyVars, handleVars, localVars
<1>13. QED
  BY <1>1, <1>2, <1>3, <1>4, <1>5, <1>6, <1>7, <1>8, <1>9, <1>10, <1>11,
     <1>12 DEF Next, Step

\* The teardown comes after the last release.
LEMMA EndingStep ==
  ASSUME PlaceType, LinkType, Ending, [Next]_vars
  PROVE  Ending'
<1> USE DEF Goto, PlaceType, LinkType, Ending
<1>1. ASSUME NEW t \in Threads, Access(t) \/ Wake(t) \/ Settle(t) \/ Read(t)
      PROVE  Ending'
  BY <1>1
  DEF Access, Wake, Settle, Result, Read, Produced, retireVars, linkVars,
      lazyVars, handleVars, localVars
<1>2. ASSUME NEW t \in Threads, ReadBreaker(t) \/ Check(t) \/ Done(t) \/ CallTrips(t)
      PROVE  Ending'
  BY <1>2
  DEF ReadBreaker, Check, Drop, Coherent, Done, CallTrips, retireVars,
      linkVars, lazyVars, handleVars, localVars
<1>3. ASSUME NEW t \in Threads,
             Ask(t) \/ ConnectDirect(t) \/ Retire(t) \/ RetryRelease(t)
      PROVE  Ending'
  BY <1>3
  DEF Ask, ConnectDirect, Retire, RetryRelease, Retried, retireVars, linkVars,
      lazyVars, handleVars, localVars
<1>4. ASSUME NEW t \in Threads, TakeLock(t)
      PROVE  Ending'
  BY <1>4
  DEF TakeLock, Raise, retireVars, linkVars, lazyVars, handleVars, localVars
<1>5. ASSUME NEW t \in Threads, Probe(t)
      PROVE  Ending'
  BY <1>5
  DEF Probe, Raise, StillCurrent, retireVars, linkVars, lazyVars, handleVars,
      localVars
<1>6. ASSUME NEW t \in Threads, Try(t)
      PROVE  Ending'
  BY <1>6
  DEF Try, Raise, Return, AlreadyConnected, retireVars, linkVars, lazyVars,
      handleVars, localVars
<1>7. ASSUME NEW t \in Threads, DropStale(t) \/ DialFails(t) \/ Discard(t)
      PROVE  Ending'
  BY <1>7
  DEF DropStale, Raise, Disconnect, DialFails, Discard, retireVars, linkVars,
      lazyVars, handleVars, localVars
<1>8. ASSUME NEW t \in Threads, DialWorks(t)
      PROVE  Ending'
  BY <1>8
  DEF DialWorks, Return, MayPublish, retireVars, linkVars, lazyVars,
      handleVars, localVars
<1>9. ASSUME NEW t \in Threads, Finalize(t) \/ Await(t)
      PROVE  Ending'
  BY <1>9
  DEF Finalize, Claim, FirstClaim, Await, retireVars, linkVars, lazyVars,
      handleVars, localVars
<1>10. ASSUME NEW t \in Threads, Teardown(t)
      PROVE  Ending'
  BY <1>10
  DEF Teardown, Disconnect, retireVars, linkVars, lazyVars, handleVars,
      localVars
<1>11. ASSUME NEW t \in Threads, Publish(t) \/ PublishInterrupted(t)
      PROVE  Ending'
  <2>1. CASE Publish(t)
    BY <2>1 DEF Publish, linkVars
  <2>2. CASE PublishInterrupted(t)
    BY <2>2 DEF PublishInterrupted, linkVars
  <2>3. QED
    BY <1>11, <2>1, <2>2
<1>12. CASE UNCHANGED vars
  BY <1>12 DEF vars, retireVars, linkVars, lazyVars, handleVars, localVars
<1>13. QED
  BY <1>1, <1>2, <1>3, <1>4, <1>5, <1>6, <1>7, <1>8, <1>9, <1>10, <1>11,
     <1>12 DEF Next, Step

\* Nobody is given a backend that does not exist.
LEMMA GivenStep ==
  ASSUME PlaceType, LinkType, LocalType, Owned, Given, [Next]_vars
  PROVE  Given'
<1> USE DEF Goto, PlaceType, LinkType, LocalType, Owned, Given, None, Handles
<1>1. ASSUME NEW t \in Threads, Access(t) \/ Wake(t) \/ Settle(t) \/ Read(t)
      PROVE  Given'
  BY <1>1
  DEF Access, Wake, Settle, Result, Read, Produced, retireVars, linkVars,
      lazyVars, handleVars, localVars
<1>2. ASSUME NEW t \in Threads, ReadBreaker(t) \/ Check(t) \/ Done(t) \/ CallTrips(t)
      PROVE  Given'
  BY <1>2
  DEF ReadBreaker, Check, Drop, Coherent, Done, CallTrips, retireVars,
      linkVars, lazyVars, handleVars, localVars
<1>3. ASSUME NEW t \in Threads,
             Ask(t) \/ ConnectDirect(t) \/ Retire(t) \/ RetryRelease(t)
      PROVE  Given'
  BY <1>3
  DEF Ask, ConnectDirect, Retire, RetryRelease, Retried, retireVars, linkVars,
      lazyVars, handleVars, localVars
<1>4. ASSUME NEW t \in Threads, TakeLock(t)
      PROVE  Given'
  BY <1>4
  DEF TakeLock, Raise, retireVars, linkVars, lazyVars, handleVars, localVars
<1>5. ASSUME NEW t \in Threads, Probe(t)
      PROVE  Given'
  BY <1>5
  DEF Probe, Raise, StillCurrent, retireVars, linkVars, lazyVars, handleVars,
      localVars
<1>6. ASSUME NEW t \in Threads, Try(t)
      PROVE  Given'
  BY <1>6
  DEF Try, Raise, Return, AlreadyConnected, retireVars, linkVars, lazyVars,
      handleVars, localVars
<1>7. ASSUME NEW t \in Threads, DropStale(t) \/ DialFails(t) \/ Discard(t)
      PROVE  Given'
  BY <1>7
  DEF DropStale, Raise, Disconnect, DialFails, Discard, retireVars, linkVars,
      lazyVars, handleVars, localVars
<1>8. ASSUME NEW t \in Threads, DialWorks(t)
      PROVE  Given'
  BY <1>8
  DEF DialWorks, Return, MayPublish, retireVars, linkVars, lazyVars,
      handleVars, localVars
<1>9. ASSUME NEW t \in Threads, Finalize(t) \/ Await(t)
      PROVE  Given'
  BY <1>9
  DEF Finalize, Claim, FirstClaim, Await, retireVars, linkVars, lazyVars,
      handleVars, localVars
<1>10. ASSUME NEW t \in Threads, Teardown(t)
      PROVE  Given'
  BY <1>10
  DEF Teardown, Disconnect, retireVars, linkVars, lazyVars, handleVars,
      localVars
<1>11. ASSUME NEW t \in Threads, Publish(t) \/ PublishInterrupted(t)
      PROVE  Given'
  BY <1>11
  DEF Publish, PublishInterrupted, retireVars, linkVars, lazyVars, handleVars,
      localVars
<1>12. CASE UNCHANGED vars
  BY <1>12 DEF vars, retireVars, linkVars, lazyVars, handleVars, localVars
<1>13. QED
  BY <1>1, <1>2, <1>3, <1>4, <1>5, <1>6, <1>7, <1>8, <1>9, <1>10, <1>11,
     <1>12 DEF Next, Step

\* A candidate is known to its own thread only.
LEMMA DialingStep ==
  ASSUME PlaceType, LinkType, LocalType, LockHeld, Carriers, Given, Dialing,
         [Next]_vars
  PROVE  Dialing'
<1> USE DEF Goto, PlaceType, LinkType, LocalType, LockHeld, Carriers, Given, Dialing, None, Handles
<1>1. ASSUME NEW t \in Threads, Access(t) \/ Wake(t) \/ Settle(t) \/ Read(t)
      PROVE  Dialing'
  BY <1>1
  DEF Access, Wake, Settle, Result, Read, Produced, retireVars, linkVars,
      lazyVars, handleVars, localVars
<1>2. ASSUME NEW t \in Threads, ReadBreaker(t) \/ Check(t) \/ Done(t) \/ CallTrips(t)
      PROVE  Dialing'
  BY <1>2
  DEF ReadBreaker, Check, Drop, Coherent, Done, CallTrips, retireVars,
      linkVars, lazyVars, handleVars, localVars
<1>3. ASSUME NEW t \in Threads,
             Ask(t) \/ ConnectDirect(t) \/ Retire(t) \/ RetryRelease(t)
      PROVE  Dialing'
  BY <1>3
  DEF Ask, ConnectDirect, Retire, RetryRelease, Retried, retireVars, linkVars,
      lazyVars, handleVars, localVars
<1>4. ASSUME NEW t \in Threads, TakeLock(t)
      PROVE  Dialing'
  BY <1>4
  DEF TakeLock, Raise, retireVars, linkVars, lazyVars, handleVars, localVars
<1>5. ASSUME NEW t \in Threads, Probe(t)
      PROVE  Dialing'
  BY <1>5
  DEF Probe, Raise, StillCurrent, retireVars, linkVars, lazyVars, handleVars,
      localVars
<1>6. ASSUME NEW t \in Threads, Try(t)
      PROVE  Dialing'
  BY <1>6
  DEF Try, Raise, Return, AlreadyConnected, retireVars, linkVars, lazyVars,
      handleVars, localVars
<1>7. ASSUME NEW t \in Threads, DropStale(t) \/ DialFails(t) \/ Discard(t)
      PROVE  Dialing'
  BY <1>7
  DEF DropStale, Raise, Disconnect, DialFails, Discard, retireVars, linkVars,
      lazyVars, handleVars, localVars
<1>8. ASSUME NEW t \in Threads, DialWorks(t)
      PROVE  Dialing'
  BY <1>8
  DEF DialWorks, Return, MayPublish, retireVars, linkVars, lazyVars,
      handleVars, localVars
<1>9. ASSUME NEW t \in Threads, Finalize(t) \/ Await(t)
      PROVE  Dialing'
  BY <1>9
  DEF Finalize, Claim, FirstClaim, Await, retireVars, linkVars, lazyVars,
      handleVars, localVars
<1>10. ASSUME NEW t \in Threads, Teardown(t)
      PROVE  Dialing'
  BY <1>10
  DEF Teardown, Disconnect, retireVars, linkVars, lazyVars, handleVars,
      localVars
<1>11. ASSUME NEW t \in Threads, Publish(t) \/ PublishInterrupted(t)
      PROVE  Dialing'
  BY <1>11
  DEF Publish, PublishInterrupted, retireVars, linkVars, lazyVars, handleVars,
      localVars
<1>12. CASE UNCHANGED vars
  BY <1>12 DEF vars, retireVars, linkVars, lazyVars, handleVars, localVars
<1>13. QED
  BY <1>1, <1>2, <1>3, <1>4, <1>5, <1>6, <1>7, <1>8, <1>9, <1>10, <1>11,
     <1>12 DEF Next, Step

\* The published backend belongs to the current breaker.
LEMMA GenerationStep ==
  ASSUME LinkType, HandleType, LocalType, Carriers, Generation, [Next]_vars
  PROVE  Generation'
<1> USE DEF Goto, Generation
<1>1. ASSUME NEW t \in Threads, Access(t) \/ Wake(t) \/ Settle(t) \/ Read(t)
      PROVE  Generation'
  BY <1>1
  DEF Access, Wake, Settle, Result, Read, Produced, retireVars, linkVars,
      lazyVars, handleVars, localVars
<1>2. ASSUME NEW t \in Threads, ReadBreaker(t) \/ Check(t) \/ Done(t) \/ CallTrips(t)
      PROVE  Generation'
  BY <1>2
  DEF ReadBreaker, Check, Drop, Coherent, Done, CallTrips, retireVars,
      linkVars, lazyVars, handleVars, localVars
<1>3. ASSUME NEW t \in Threads,
             Ask(t) \/ ConnectDirect(t) \/ Retire(t) \/ RetryRelease(t)
      PROVE  Generation'
  BY <1>3
  DEF Ask, ConnectDirect, Retire, RetryRelease, Retried, retireVars, linkVars,
      lazyVars, handleVars, localVars
<1>4. ASSUME NEW t \in Threads, TakeLock(t)
      PROVE  Generation'
  BY <1>4
  DEF TakeLock, Raise, retireVars, linkVars, lazyVars, handleVars, localVars
<1>5. ASSUME NEW t \in Threads, Probe(t)
      PROVE  Generation'
  BY <1>5
  DEF Probe, Raise, StillCurrent, retireVars, linkVars, lazyVars, handleVars,
      localVars
<1>6. ASSUME NEW t \in Threads, Try(t)
      PROVE  Generation'
  BY <1>6
  DEF Try, Raise, Return, AlreadyConnected, retireVars, linkVars, lazyVars,
      handleVars, localVars
<1>7. ASSUME NEW t \in Threads, DropStale(t) \/ DialFails(t) \/ Discard(t)
      PROVE  Generation'
  BY <1>7
  DEF DropStale, Raise, Disconnect, DialFails, Discard, retireVars, linkVars,
      lazyVars, handleVars, localVars
<1>8. ASSUME NEW t \in Threads, DialWorks(t)
      PROVE  Generation'
  <2>1. custody[t] # None => custody[t] \in Handles
    BY DEF LocalType
  <2>2. CASE retired
    BY <1>8, <2>2 DEF DialWorks, MayPublish, linkVars, handleVars
  <2>3. CASE ~retired
    <3>1. /\ backend' = custody[t]
          /\ bornWith' = [bornWith EXCEPT ![custody[t]] = breaker]
          /\ breaker' = breaker
      BY <1>8, <2>3 DEF DialWorks, MayPublish
    <3>2. QED
      BY <2>1, <3>1 DEF HandleType
  <2>4. QED
    BY <2>2, <2>3
<1>9. ASSUME NEW t \in Threads, Finalize(t) \/ Await(t)
      PROVE  Generation'
  BY <1>9
  DEF Finalize, Claim, FirstClaim, Await, retireVars, linkVars, lazyVars,
      handleVars, localVars
<1>10. ASSUME NEW t \in Threads, Teardown(t)
      PROVE  Generation'
  BY <1>10
  DEF Teardown, Disconnect, retireVars, linkVars, lazyVars, handleVars,
      localVars
<1>11. ASSUME NEW t \in Threads, Publish(t) \/ PublishInterrupted(t)
      PROVE  Generation'
  BY <1>11
  DEF Publish, PublishInterrupted, retireVars, linkVars, lazyVars, handleVars,
      localVars
<1>12. CASE UNCHANGED vars
  BY <1>12 DEF vars, retireVars, linkVars, lazyVars, handleVars, localVars
<1>13. QED
  BY <1>1, <1>2, <1>3, <1>4, <1>5, <1>6, <1>7, <1>8, <1>9, <1>10, <1>11,
     <1>12 DEF Next, Step

\* A snapshot that passed its check stays coherent.
LEMMA PairStep ==
  ASSUME PlaceType, LinkType, HandleType, LocalType, Dialing, Generation,
         CoherentPair, [Next]_vars
  PROVE  CoherentPair'
<1> USE DEF Goto, PlaceType, LinkType, LocalType, Generation, CoherentPair
<1>1. ASSUME NEW t \in Threads, Access(t) \/ Wake(t) \/ Settle(t) \/ Read(t)
      PROVE  CoherentPair'
  BY <1>1
  DEF Access, Wake, Settle, Result, Read, Produced, retireVars, linkVars,
      lazyVars, handleVars, localVars
<1>2. ASSUME NEW t \in Threads, ReadBreaker(t) \/ Check(t) \/ Done(t) \/ CallTrips(t)
      PROVE  CoherentPair'
  BY <1>2
  DEF ReadBreaker, Check, Drop, Coherent, Done, CallTrips, retireVars,
      linkVars, lazyVars, handleVars, localVars
<1>3. ASSUME NEW t \in Threads,
             Ask(t) \/ ConnectDirect(t) \/ Retire(t) \/ RetryRelease(t)
      PROVE  CoherentPair'
  BY <1>3
  DEF Ask, ConnectDirect, Retire, RetryRelease, Retried, retireVars, linkVars,
      lazyVars, handleVars, localVars
<1>4. ASSUME NEW t \in Threads, TakeLock(t)
      PROVE  CoherentPair'
  BY <1>4
  DEF TakeLock, Raise, retireVars, linkVars, lazyVars, handleVars, localVars
<1>5. ASSUME NEW t \in Threads, Probe(t)
      PROVE  CoherentPair'
  BY <1>5
  DEF Probe, Raise, StillCurrent, retireVars, linkVars, lazyVars, handleVars,
      localVars
<1>6. ASSUME NEW t \in Threads, Try(t)
      PROVE  CoherentPair'
  BY <1>6
  DEF Try, Raise, Return, AlreadyConnected, retireVars, linkVars, lazyVars,
      handleVars, localVars
<1>7. ASSUME NEW t \in Threads, DropStale(t) \/ DialFails(t) \/ Discard(t)
      PROVE  CoherentPair'
  BY <1>7
  DEF DropStale, Raise, Disconnect, DialFails, Discard, retireVars, linkVars,
      lazyVars, handleVars, localVars
<1>8. ASSUME NEW t \in Threads, DialWorks(t)
      PROVE  CoherentPair'
  <2>1. hand' = hand /\ seen' = seen
    BY <1>8 DEF DialWorks
  <2>2. \A u \in Threads : pc'[u] = pc[u] \/ pc'[u] \in {"settle", "idle", "discard"}
    BY <1>8 DEF DialWorks, Return, PlaceType
  <2>3. \A h \in Handles : h # custody[t] => bornWith'[h] = bornWith[h]
    BY <1>8 DEF DialWorks, HandleType
  <2>4. \A u \in Threads : hand[u] # custody[t]
    BY <1>8 DEF DialWorks, Dialing
  <2>5. \A u \in Threads : hand[u] # None => bornWith'[hand[u]] = bornWith[hand[u]]
    BY <2>3, <2>4 DEF LocalType
  <2>6. QED
    BY <2>1, <2>2, <2>5 DEF CoherentPair
<1>9. ASSUME NEW t \in Threads, Finalize(t) \/ Await(t)
      PROVE  CoherentPair'
  BY <1>9
  DEF Finalize, Claim, FirstClaim, Await, retireVars, linkVars, lazyVars,
      handleVars, localVars
<1>10. ASSUME NEW t \in Threads, Teardown(t)
      PROVE  CoherentPair'
  BY <1>10
  DEF Teardown, Disconnect, retireVars, linkVars, lazyVars, handleVars,
      localVars
<1>11. ASSUME NEW t \in Threads, Publish(t) \/ PublishInterrupted(t)
      PROVE  CoherentPair'
  BY <1>11
  DEF Publish, PublishInterrupted, retireVars, linkVars, lazyVars, handleVars,
      localVars
<1>12. CASE UNCHANGED vars
  BY <1>12 DEF vars, retireVars, linkVars, lazyVars, handleVars, localVars
<1>13. QED
  BY <1>1, <1>2, <1>3, <1>4, <1>5, <1>6, <1>7, <1>8, <1>9, <1>10, <1>11,
     <1>12 DEF Next, Step

-----------------------------------------------------------------------------
(* The ways in which a step can move backends.                             *)

\* No backend changes hands.
Kept == UNCHANGED <<custody, backend, closed, made>>

\* t takes the published backend, if there is one, to disconnect it.
Taken(t) ==
  /\ custody[t] = None
  /\ custody' = [custody EXCEPT ![t] = backend]
  /\ backend' = None
  /\ UNCHANGED <<closed, made>>

\* t creates a backend.
Created(t) ==
  /\ custody[t] = None
  /\ made < MaxHandles
  /\ made' = made + 1
  /\ custody' = [custody EXCEPT ![t] = made + 1]
  /\ UNCHANGED <<backend, closed>>

\* t publishes its candidate.
Published(t) ==
  /\ custody[t] # None
  /\ backend = None
  /\ backend' = custody[t]
  /\ custody' = [custody EXCEPT ![t] = None]
  /\ UNCHANGED <<closed, made>>

\* t disconnects the backend it carries.
Ended(t) ==
  /\ custody[t] # None
  /\ closed' = [closed EXCEPT ![custody[t]] = @ + 1]
  /\ custody' = [custody EXCEPT ![t] = None]
  /\ UNCHANGED <<backend, made>>

Moves(t) == Taken(t) \/ Created(t) \/ Published(t) \/ Ended(t)

\* The retirement's claim takes the backend, or finds that an earlier owner did.
LEMMA ClaimMoves ==
  ASSUME LocalType, Carriers, Ending, NEW t \in Threads,
         pc[t] \in {"fin", "await"}, Claim(t), UNCHANGED <<closed, made>>
  PROVE  Kept \/ Taken(t)
<1>1. custody[t] = None
  BY DEF Carriers
<1>2. CASE started
  <2>1. backend = None /\ backend' = backend
    BY <1>2 DEF Ending, Claim
  <2>2. custody' = custody
    BY <1>1, <1>2 DEF Claim, FirstClaim, LocalType
  <2>3. QED
    BY <2>1, <2>2 DEF Kept
<1>3. CASE ~started
  BY <1>1, <1>3 DEF Ending, Claim, FirstClaim, Taken
<1>4. QED
  BY <1>2, <1>3

\* Every step moves at most one backend, in one of these ways.
LEMMA StepMoves ==
  ASSUME LocalType, Carriers, Ending, Dialing, [Next]_vars
  PROVE  Kept \/ \E t \in Threads : Moves(t)
<1>1. ASSUME NEW t \in Threads, Probe(t) PROVE Kept \/ Taken(t)
  BY <1>1 DEF Probe, Carriers, LocalType, Kept, Taken, handleVars, linkVars
<1>2. ASSUME NEW t \in Threads, Try(t) PROVE Kept \/ Created(t)
  BY <1>2 DEF Try, Carriers, LocalType, Kept, Created, handleVars, linkVars
<1>3. ASSUME NEW t \in Threads, DialWorks(t) PROVE Kept \/ Published(t)
  BY <1>3 DEF DialWorks, Dialing, Carriers, LocalType, Kept, Published, handleVars, linkVars
<1>4. ASSUME NEW t \in Threads, DropStale(t) \/ DialFails(t) \/ Discard(t) PROVE Ended(t)
  BY <1>4 DEF DropStale, DialFails, Discard, Disconnect, Carriers, LocalType, Ended, handleVars, linkVars
<1>5. ASSUME NEW t \in Threads, Finalize(t) \/ Await(t) PROVE Kept \/ Taken(t)
  BY <1>5, ClaimMoves DEF Finalize, Await, Kept, handleVars, linkVars
<1>6. ASSUME NEW t \in Threads, Teardown(t) PROVE Kept \/ Ended(t)
  <2>1. CASE custody[t] = None
    BY <1>6, <2>1 DEF Teardown, LocalType, Kept, handleVars, linkVars
  <2>2. CASE custody[t] # None
    BY <1>6, <2>2 DEF Teardown, Disconnect, Ended, handleVars, linkVars
  <2>3. QED
    BY <2>1, <2>2
<1>7. ASSUME NEW t \in Threads,
             \/ Access(t) \/ Wake(t) \/ Settle(t) \/ Read(t) \/ ReadBreaker(t)
             \/ Check(t) \/ Done(t) \/ Publish(t) \/ RetryRelease(t)
      PROVE  Kept
  BY <1>7 DEF Access, Wake, Settle, Read, ReadBreaker, Check, Done, Drop, Publish,
              RetryRelease, Kept, handleVars, linkVars, localVars
<1>8. ASSUME NEW t \in Threads,
             \/ TakeLock(t) \/ PublishInterrupted(t) \/ Ask(t) \/ ConnectDirect(t)
             \/ Retire(t) \/ CallTrips(t)
      PROVE  Kept
  BY <1>8 DEF TakeLock, PublishInterrupted, Ask, ConnectDirect, Retire, CallTrips, Drop,
              Kept, handleVars, linkVars, localVars
<1>9. CASE UNCHANGED vars
  BY <1>9 DEF vars, Kept, handleVars, linkVars, localVars
<1>10. QED
  BY <1>1, <1>2, <1>3, <1>4, <1>5, <1>6, <1>7, <1>8, <1>9 DEF Next, Step, Moves

\* Whatever moves, an open backend keeps exactly one owner.
LEMMA OwnedStep ==
  ASSUME LinkType, HandleType, LocalType, ClosedOnce, Owned,
         Kept \/ \E t \in Threads : Moves(t)
  PROVE  Owned'
<1>1. CASE Kept
  BY <1>1 DEF Kept, Owned
<1>2. ASSUME NEW t \in Threads, Taken(t) PROVE Owned'
  BY <1>2 DEF Taken, Owned, LocalType, LinkType, None
<1>3. ASSUME NEW t \in Threads, Created(t) PROVE Owned'
  <2>1. made + 1 \in Handles /\ closed[made + 1] = 0
    BY <1>3, BoundsAssumption DEF Created, LinkType, ClosedOnce, Handles
  <2>2. backend \in 0..made /\ \A u \in Threads : custody[u] \in 0..made
    BY DEF Owned, LocalType, LinkType, Handles, None
  <2>3. \A u \in Threads : custody'[u] = IF u = t THEN made + 1 ELSE custody[u]
    BY <1>3 DEF Created, LocalType
  <2>4. made' = made + 1 /\ backend' = backend /\ closed' = closed /\ made \in Nat
    BY <1>3 DEF Created, LinkType
  <2>5. ASSUME NEW u \in Threads, custody'[u] # None
        PROVE  /\ custody'[u] # backend'
               /\ custody'[u] <= made'
               /\ closed'[custody'[u]] = 0
               /\ \A v \in Threads : custody'[v] = custody'[u] => v = u
    <3>1. CASE u = t
      BY <2>1, <2>2, <2>3, <2>4, <3>1
    <3>2. CASE u # t
      BY <2>2, <2>3, <2>4, <2>5, <3>2 DEF Owned
    <3>3. QED
      BY <3>1, <3>2
  <2>6. backend' # None => backend' <= made' /\ closed'[backend'] = 0
    BY <2>2, <2>4 DEF Owned
  <2>7. QED
    BY <2>5, <2>6 DEF Owned
<1>4. ASSUME NEW t \in Threads, Published(t) PROVE Owned'
  BY <1>4 DEF Published, Owned, LocalType, None
<1>5. ASSUME NEW t \in Threads, Ended(t) PROVE Owned'
  <2>1. custody[t] \in Handles
    BY <1>5 DEF Ended, LocalType
  <2>2. \A g \in Handles : g # custody[t] => closed'[g] = closed[g]
    BY <1>5, <2>1 DEF Ended, HandleType
  <2>3. \A u \in Threads : custody'[u] = IF u = t THEN None ELSE custody[u]
    BY <1>5 DEF Ended, LocalType
  <2>4. QED
    BY <1>5, <2>1, <2>2, <2>3 DEF Ended, Owned, LocalType, LinkType
<1>6. QED
  BY <1>1, <1>2, <1>3, <1>4, <1>5 DEF Moves

\* A backend is disconnected by the one thread that carries it, while it is open.
LEMMA ClosedStep ==
  ASSUME LinkType, HandleType, LocalType, ClosedOnce, Owned,
         Kept \/ \E t \in Threads : Moves(t)
  PROVE  ClosedOnce'
<1>1. CASE Kept
  BY <1>1 DEF Kept, ClosedOnce
<1>2. ASSUME NEW t \in Threads, Taken(t) \/ Published(t) PROVE ClosedOnce'
  BY <1>2 DEF Taken, Published, ClosedOnce
<1>3. ASSUME NEW t \in Threads, Created(t) PROVE ClosedOnce'
  BY <1>3 DEF Created, ClosedOnce, LinkType, Handles
<1>4. ASSUME NEW t \in Threads, Ended(t) PROVE ClosedOnce'
  <2>1. custody[t] \in Handles /\ closed[custody[t]] = 0 /\ custody[t] <= made
    BY <1>4 DEF Ended, LocalType, Owned
  <2>2. \A g \in Handles :
          closed'[g] = IF g = custody[t] THEN closed[g] + 1 ELSE closed[g]
    BY <1>4, <2>1 DEF Ended, HandleType
  <2>3. QED
    BY <1>4, <2>1, <2>2 DEF Ended, ClosedOnce, LinkType, Handles
<1>5. QED
  BY <1>1, <1>2, <1>3, <1>4 DEF Moves

\* No open backend gets lost.
LEMMA FoundStep ==
  ASSUME LinkType, HandleType, LocalType, Owned, Found,
         Kept \/ \E t \in Threads : Moves(t)
  PROVE  Found'
<1> SUFFICES ASSUME NEW h \in 1..made', closed'[h] = 0
             PROVE  h = backend' \/ \E t \in Threads : custody'[t] = h
  BY DEF Found
<1>1. CASE Kept
  BY <1>1 DEF Kept, Found
<1>2. ASSUME NEW t \in Threads, Taken(t)
      PROVE  h = backend' \/ \E u \in Threads : custody'[u] = h
  <2>1. \A u \in Threads : custody'[u] = IF u = t THEN backend ELSE custody[u]
    BY <1>2 DEF Taken, LocalType
  <2>2. h = backend \/ \E u \in Threads : custody[u] = h
    BY <1>2 DEF Taken, Found
  <2>3. QED
    BY <1>2, <2>1, <2>2 DEF Taken, None
<1>3. ASSUME NEW t \in Threads, Created(t)
      PROVE  h = backend' \/ \E u \in Threads : custody'[u] = h
  <2>1. \A u \in Threads : custody'[u] = IF u = t THEN made + 1 ELSE custody[u]
    BY <1>3 DEF Created, LocalType
  <2>2. CASE h = made + 1
    BY <2>1, <2>2
  <2>3. CASE h # made + 1
    <3>1. h \in 1..made /\ closed[h] = 0
      BY <1>3, <2>3 DEF Created, LinkType
    <3>2. h = backend \/ \E u \in Threads : custody[u] = h
      BY <3>1 DEF Found
    <3>3. h # None
      BY <3>1 DEF None
    <3>4. QED
      BY <1>3, <2>1, <3>2, <3>3 DEF Created
  <2>4. QED
    BY <2>2, <2>3
<1>4. ASSUME NEW t \in Threads, Published(t)
      PROVE  h = backend' \/ \E u \in Threads : custody'[u] = h
  <2>1. \A u \in Threads : u # t => custody'[u] = custody[u]
    BY <1>4 DEF Published, LocalType
  <2>2. h = backend \/ \E u \in Threads : custody[u] = h
    BY <1>4 DEF Published, Found
  <2>3. h # None
    BY DEF None
  <2>4. QED
    BY <1>4, <2>1, <2>2, <2>3 DEF Published
<1>5. ASSUME NEW t \in Threads, Ended(t)
      PROVE  h = backend' \/ \E u \in Threads : custody'[u] = h
  <2>1. custody[t] \in Handles /\ closed[custody[t]] = 0
    BY <1>5 DEF Ended, LocalType, Owned
  <2>2. closed'[custody[t]] = 1
    BY <1>5, <2>1 DEF Ended, HandleType
  <2>3. h # custody[t]
    BY <2>2
  <2>4. closed[h] = 0
    BY <1>5, <2>1, <2>3 DEF Ended, HandleType, LinkType, Handles
  <2>5. h = backend \/ \E u \in Threads : custody[u] = h
    BY <1>5, <2>4 DEF Ended, Found
  <2>6. \A u \in Threads : u # t => custody'[u] = custody[u]
    BY <1>5 DEF Ended, LocalType
  <2>7. QED
    BY <1>5, <2>3, <2>5, <2>6 DEF Ended
<1>6. QED
  BY <1>1, <1>2, <1>3, <1>4, <1>5 DEF Moves

-----------------------------------------------------------------------------
LEMMA ConnInvInit == Init => ConnInv
<1> SUFFICES ASSUME Init PROVE ConnInv
  OBVIOUS
<1> USE DEF Init, None
<1>1. PlaceType /\ LinkType /\ HandleType /\ LocalType
  BY BoundsAssumption DEF PlaceType, States, LinkType, HandleType, LocalType
<1>2. LockHeld /\ Carriers /\ Owned /\ Dialing /\ Given
  BY IdentitiesAssumption DEF LockHeld, Carriers, Owned, Dialing, Given
<1>3. Ending /\ ClosedOnce /\ Found /\ Generation /\ CoherentPair
  BY DEF Ending, ClosedOnce, Found, Generation, CoherentPair, Handles
<1>4. QED
  BY <1>1, <1>2, <1>3 DEF ConnInv

LEMMA ConnInvStep == ConnInv /\ [Next]_vars => ConnInv'
<1> SUFFICES ASSUME ConnInv, [Next]_vars PROVE ConnInv'
  OBVIOUS
<1> USE DEF ConnInv
<1>1. PlaceType' /\ LinkType' /\ HandleType' /\ LocalType'
  BY PlaceStep, LinkStep, HandleStep, LocalStep
<1>2. LockHeld' /\ Carriers' /\ Ending' /\ Given' /\ Dialing'
  BY LockStep, CarriersStep, EndingStep, GivenStep, DialingStep
<1>3. Kept \/ \E t \in Threads : Moves(t)
  BY StepMoves
<1>4. Owned' /\ ClosedOnce' /\ Found'
  BY <1>3, OwnedStep, ClosedStep, FoundStep
<1>5. Generation' /\ CoherentPair'
  BY GenerationStep, PairStep
<1>6. QED
  BY <1>1, <1>2, <1>4, <1>5

LEMMA ConnInvHolds == Spec => []ConnInv
  BY ConnInvInit, ConnInvStep, PTL DEF Spec

\* Every backend that was created and not disconnected is the published one, or
\* is carried by exactly one thread, however many threads connect, reconnect and
\* release at once.
THEOREM NoHandleIsLeaked == Spec => []NoHandleLeaked
<1>1. ConnInv => NoHandleLeaked
  <2> SUFFICES ASSUME ConnInv, NEW h \in 1..made, closed[h] = 0
               PROVE  Cardinality({t \in Threads : custody[t] = h})
                        + (IF backend = h THEN 1 ELSE 0) = 1
    BY DEF NoHandleLeaked
  <2> DEFINE carriers == {t \in Threads : custody[t] = h}
  <2>1. h # None
    BY DEF None
  <2>2. CASE h = backend
    <3>1. carriers = {}
      BY <2>1, <2>2 DEF ConnInv, Owned
    <3>2. QED
      BY <2>2, <3>1, FS_EmptySet
  <2>3. CASE h # backend
    <3>1. PICK t \in Threads : custody[t] = h
      BY <2>3 DEF ConnInv, Found
    <3>2. carriers = {t}
      BY <2>1, <3>1 DEF ConnInv, Owned
    <3>3. Cardinality({t}) = 1
      BY FS_Singleton
    <3>4. QED
      BY <2>3, <3>2, <3>3
  <2>4. QED
    BY <2>2, <2>3
<1>2. QED
  BY <1>1, ConnInvHolds, PTL

\* No backend is disconnected twice, not by a contender of the retirement either
\* that takes it over from an interrupted owner.
THEOREM DisconnectedOnceHolds == Spec => []DisconnectedOnce
<1>1. ConnInv => DisconnectedOnce
  BY DEF ConnInv, ClosedOnce, DisconnectedOnce
<1>2. QED
  BY <1>1, ConnInvHolds, PTL

\* After the teardown has begun no backend is published again, and a published
\* backend has not been disconnected.
THEOREM NoResurrectionHolds == Spec => []NoResurrection
<1>1. ConnInv => NoResurrection
  BY DEF ConnInv, Ending, Owned, NoResurrection
<1>2. QED
  BY <1>1, ConnInvHolds, PTL

\* A snapshot never pairs a backend with the breaker of another generation.
THEOREM CoherentPairHolds == Spec => []CoherentPair
<1>1. ConnInv => CoherentPair
  BY DEF ConnInv
<1>2. QED
  BY <1>1, ConnInvHolds, PTL

(* The four parts together, for any threads, attempts and handles.         *)
THEOREM ConnectionIsSound == Spec => []ConnectionSound
  BY NoHandleIsLeaked, DisconnectedOnceHolds, NoResurrectionHolds, CoherentPairHolds, PTL
  DEF ConnectionSound

=============================================================================
