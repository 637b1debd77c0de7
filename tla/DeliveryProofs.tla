--------------------------- MODULE DeliveryProofs ---------------------------
(***************************************************************************)
(* Proofs about the delivery core: nothing that reached the broker is      *)
(* lost, no marker suppresses a URL that nobody will crawl, and no         *)
(* reservation outlives its enqueue_request.  And about the duplicate      *)
(* filter: a request that went nowhere can be sent again, every slot for a *)
(* retry allowance is accounted for, and open, clear and close touch the   *)
(* filter under no call.                                                   *)
(***************************************************************************)
EXTENDS MCDelivery, Sequences, SequenceTheorems, FiniteSetTheorems,
        WellFoundedInduction, TLAPS

\* What the program point says of the other sets.
Positions ==
  /\ \A w \in carries : place[w] # "idle" /\ (w \in settling => place[w] = "commit")
  /\ \A w \in receipt : place[w] = "commit" /\ req[w] \in pushed
  /\ \A w \in Workers : place[w] = "commit" /\ w \notin receipt => local[w][req[w]] > 0

\* The part of Kept that does not rest on a delivery about to be acked: two
\* replacements of the same URL must not back each other.
Firm(u) ==
  \/ u \in done
  \/ ready[u] > 0
  \/ orphan[u] > 0
  \/ \E w \in tokened \ settling : work[w] = u

AllFirm == \A u \in pushed : Firm(u)

\* Markers are published behind the durable push.
MarkersQueued == markers \subseteq pushed

\* A shadow marker belongs to a request of the same process, or to one that ended.
ShadowHere ==
  \A w \in Workers : \A u \in shadow[w] :
    u \in done \/ local[w][u] > 0 \/ (work[w] = u /\ w \notin tokened)

DeliveryInv ==
  /\ TypeOK
  /\ Positions
  /\ AllFirm
  /\ MarkersQueued
  /\ ShadowHere
  /\ IntentsSettled

\* The type invariant, by the part of the system it speaks of.
BrokerType ==
  ready \in [URLs -> Nat] /\ orphan \in [URLs -> Nat] /\ crashes \in 0..MaxCrashes

FilterType ==
  /\ markers \in SUBSET URLs
  /\ shadow \in [Workers -> SUBSET URLs]
  /\ intent \in SUBSET Workers

LocalType == local \in [Workers -> [URLs -> Nat]]

WorkType ==
  /\ work \in [Workers -> URLs \cup {None}]
  /\ tokened \in SUBSET Workers
  /\ settling \in SUBSET tokened
  /\ carries \in SUBSET tokened
  /\ \A w \in tokened : work[w] # None

EnqueueType ==
  /\ place \in [Workers -> Places]
  /\ req \in [Workers -> URLs \cup {None}]
  /\ \A w \in Workers : place[w] # "idle" => req[w] # None
  /\ receipt \in SUBSET Workers

HistoryType == done \in SUBSET URLs /\ pushed \in SUBSET URLs

-----------------------------------------------------------------------------
\* The parts are the type invariant.
LEMMA TypeParts ==
  TypeOK <=> /\ BrokerType /\ FilterType /\ LocalType
             /\ WorkType /\ EnqueueType /\ HistoryType
BY DEF TypeOK, BrokerType, FilterType, LocalType, WorkType, EnqueueType, HistoryType

\* Message counts stay natural numbers.
LEMMA BrokerTypeStep ==
  ASSUME BrokerType, WorkType, EnqueueType, [Next]_vars
  PROVE  BrokerType'
PROOF
<1>1. ASSUME NEW w \in Workers, PushDurable(w) PROVE BrokerType'
  BY <1>1 DEF PushDurable, BrokerType, EnqueueType
<1>2. ASSUME NEW w \in Workers, NEW landed \in BOOLEAN, PushFails(w, landed)
      PROVE  BrokerType'
  BY <1>2 DEF PushFails, Abandon, BrokerType, WorkType, EnqueueType
<1>3. ASSUME NEW w \in Workers, NEW acked \in BOOLEAN, RejectInvalid(w, acked)
      PROVE  BrokerType'
  BY <1>3 DEF RejectInvalid, Abandon, BrokerType, WorkType
<1>4. ASSUME NEW w \in Workers, Interrupt(w) PROVE BrokerType'
  BY <1>4, CrashesAssumption DEF Interrupt, Abandon, BrokerType, WorkType
<1>5. ASSUME NEW w \in Workers, Crash(w) PROVE BrokerType'
  BY <1>5, CrashesAssumption DEF Crash, BrokerType, WorkType
<1>6. ASSUME NEW w \in Workers, NEW u \in URLs, Pop(w, u) PROVE BrokerType'
  BY <1>6 DEF Pop, BrokerType
<1>7. ASSUME NEW w \in Workers, NEW acked \in BOOLEAN, Respond(w, acked) PROVE BrokerType'
  BY <1>7 DEF Respond, BrokerType, WorkType
<1>8. ASSUME NEW w \in Workers, Fail(w) PROVE BrokerType'
  BY <1>8 DEF Fail, BrokerType, WorkType
<1>9. ASSUME NEW w \in Workers, NEW acked \in BOOLEAN, AckSource(w, acked)
      PROVE  BrokerType'
  BY <1>9 DEF AckSource, BrokerType, WorkType
<1>10. ASSUME NEW u \in URLs, Redeliver(u) PROVE BrokerType'
  BY <1>10 DEF Redeliver, BrokerType
<1>11. ASSUME NEW w \in Workers, NEW u \in URLs, NEW filtered \in BOOLEAN,
            \/ EnqueueNew(w, u, filtered) \/ EnqueueReplacement(w, u, filtered)
            \/ EnqueueLocalReplacement(w, u, filtered)
      PROVE BrokerType'
  BY <1>11 DEF EnqueueNew, EnqueueReplacement, EnqueueLocalReplacement, brokerVars,
       BrokerType
<1>12. ASSUME NEW w \in Workers,
            \/ DropDuplicate(w) \/ PushDuplicate(w) \/ Miss(w) \/ DedupOutage(w)
            \/ PushLocal(w) \/ CommitShadow(w)
      PROVE BrokerType'
  BY <1>12 DEF DropDuplicate, PushDuplicate, Miss, DedupOutage, PushLocal, CommitShadow,
       brokerVars, BrokerType
<1>13. ASSUME NEW w \in Workers, NEW stored \in BOOLEAN, CommitMarker(w, stored)
      PROVE  BrokerType'
  BY <1>13 DEF CommitMarker, brokerVars, BrokerType
<1>14. CASE UNCHANGED vars
  BY <1>14 DEF vars, brokerVars, BrokerType
<1> QED BY <1>1, <1>2, <1>3, <1>4, <1>5, <1>6, <1>7, <1>8, <1>9, <1>10, <1>11, <1>12,
     <1>13, <1>14 DEF Next

\* Markers and shadows hold fingerprints.
LEMMA FilterTypeStep ==
  ASSUME FilterType, EnqueueType, [Next]_vars
  PROVE  FilterType'
PROOF
<1>1. ASSUME NEW w \in Workers, NEW u \in URLs, NEW filtered \in BOOLEAN,
             EnqueueNew(w, u, filtered)
      PROVE  FilterType'
  BY <1>1 DEF EnqueueNew, Begin, FilterType
<1>2. ASSUME NEW w \in Workers, NEW u \in URLs, NEW filtered \in BOOLEAN,
             EnqueueReplacement(w, u, filtered)
      PROVE  FilterType'
  BY <1>2 DEF EnqueueReplacement, Begin, FilterType
<1>3. ASSUME NEW w \in Workers, NEW u \in URLs, NEW filtered \in BOOLEAN,
             EnqueueLocalReplacement(w, u, filtered)
      PROVE  FilterType'
  BY <1>3 DEF EnqueueLocalReplacement, Begin, FilterType
<1>4. ASSUME NEW w \in Workers, DropDuplicate(w) PROVE FilterType'
  BY <1>4 DEF DropDuplicate, FilterType
<1>5. ASSUME NEW w \in Workers, PushDuplicate(w) PROVE FilterType'
  BY <1>5 DEF PushDuplicate, FilterType
<1>6. ASSUME NEW w \in Workers, DedupOutage(w) PROVE FilterType'
  BY <1>6 DEF DedupOutage, FilterType
<1>7. ASSUME NEW w \in Workers, NEW landed \in BOOLEAN, PushFails(w, landed)
      PROVE  FilterType'
  BY <1>7 DEF PushFails, FilterType
<1>8. ASSUME NEW w \in Workers, NEW acked \in BOOLEAN, RejectInvalid(w, acked)
      PROVE  FilterType'
  BY <1>8 DEF RejectInvalid, FilterType
<1>9. ASSUME NEW w \in Workers, NEW stored \in BOOLEAN, CommitMarker(w, stored)
      PROVE  FilterType'
  BY <1>9 DEF CommitMarker, FilterType, EnqueueType
<1>10. ASSUME NEW w \in Workers, CommitShadow(w) PROVE FilterType'
  BY <1>10 DEF CommitShadow, FilterType, EnqueueType
<1>11. ASSUME NEW w \in Workers, Interrupt(w) PROVE FilterType'
  BY <1>11 DEF Interrupt, DiscardIntent, FilterType
<1>12. ASSUME NEW w \in Workers, Crash(w) PROVE FilterType'
  BY <1>12 DEF Crash, FilterType
<1>13. ASSUME NEW w \in Workers,
            \/ Miss(w) \/ PushDurable(w) \/ PushLocal(w) \/ Fail(w)
      PROVE FilterType'
  BY <1>13 DEF Miss, PushDurable, PushLocal, Fail, AfterPush, filterVars, FilterType
<1>14. ASSUME NEW w \in Workers, NEW u \in URLs, Pop(w, u) PROVE FilterType'
  BY <1>14 DEF Pop, filterVars, FilterType
<1>15. ASSUME NEW w \in Workers, NEW acked \in BOOLEAN,
            \/ Respond(w, acked) \/ AckSource(w, acked)
      PROVE FilterType'
  BY <1>15 DEF Respond, AckSource, filterVars, FilterType
<1>16. ASSUME NEW u \in URLs, Redeliver(u) PROVE FilterType'
  BY <1>16 DEF Redeliver, filterVars, FilterType
<1>17. CASE UNCHANGED vars
  BY <1>17 DEF vars, filterVars, FilterType
<1> QED BY <1>1, <1>2, <1>3, <1>4, <1>5, <1>6, <1>7, <1>8, <1>9, <1>10, <1>11, <1>12,
     <1>13, <1>14, <1>15, <1>16, <1>17 DEF Next

\* Local queues count requests.
LEMMA LocalTypeStep ==
  ASSUME LocalType, EnqueueType, [Next]_vars
  PROVE  LocalType'
PROOF
<1>1. ASSUME NEW w \in Workers, PushLocal(w) PROVE LocalType'
  BY <1>1 DEF PushLocal, LocalType, EnqueueType
<1>2. ASSUME NEW w \in Workers, Crash(w) PROVE LocalType'
  BY <1>2 DEF Crash, LocalType
<1>3. ASSUME NEW w \in Workers, NEW u \in URLs, Pop(w, u) PROVE LocalType'
  BY <1>3 DEF Pop, LocalType
<1>4. ASSUME NEW w \in Workers, NEW u \in URLs, NEW filtered \in BOOLEAN,
            \/ EnqueueNew(w, u, filtered) \/ EnqueueReplacement(w, u, filtered)
            \/ EnqueueLocalReplacement(w, u, filtered)
      PROVE LocalType'
  BY <1>4 DEF EnqueueNew, EnqueueReplacement, EnqueueLocalReplacement, workVars, LocalType
<1>5. ASSUME NEW w \in Workers,
            \/ DropDuplicate(w) \/ PushDuplicate(w) \/ Miss(w) \/ DedupOutage(w)
            \/ PushDurable(w) \/ CommitShadow(w) \/ Interrupt(w) \/ Fail(w)
      PROVE LocalType'
  BY <1>5 DEF DropDuplicate, PushDuplicate, Miss, DedupOutage, PushDurable, CommitShadow,
       Interrupt, Fail, workVars, LocalType
<1>6. ASSUME NEW w \in Workers, NEW landed \in BOOLEAN, PushFails(w, landed)
      PROVE  LocalType'
  BY <1>6 DEF PushFails, LocalType
<1>7. ASSUME NEW w \in Workers, NEW acked \in BOOLEAN,
            \/ RejectInvalid(w, acked) \/ Respond(w, acked) \/ AckSource(w, acked)
      PROVE LocalType'
  BY <1>7 DEF RejectInvalid, Respond, AckSource, LocalType
<1>8. ASSUME NEW w \in Workers, NEW stored \in BOOLEAN, CommitMarker(w, stored)
      PROVE  LocalType'
  BY <1>8 DEF CommitMarker, workVars, LocalType
<1>9. ASSUME NEW u \in URLs, Redeliver(u) PROVE LocalType'
  BY <1>9 DEF Redeliver, workVars, LocalType
<1>10. CASE UNCHANGED vars
  BY <1>10 DEF vars, workVars, LocalType
<1> QED BY <1>1, <1>2, <1>3, <1>4, <1>5, <1>6, <1>7, <1>8, <1>9, <1>10 DEF Next

\* A token belongs to a popped request; what is settled or carried has a token.
LEMMA WorkTypeStep ==
  ASSUME WorkType, Positions, [Next]_vars
  PROVE  WorkType'
PROOF
<1>1. ASSUME NEW w \in Workers, NEW u \in URLs, NEW filtered \in BOOLEAN,
             EnqueueReplacement(w, u, filtered)
      PROVE  WorkType'
  BY <1>1 DEF EnqueueReplacement, workVars, WorkType
<1>2. ASSUME NEW w \in Workers, NEW u \in URLs, NEW filtered \in BOOLEAN,
             EnqueueLocalReplacement(w, u, filtered)
      PROVE  WorkType'
  BY <1>2 DEF EnqueueLocalReplacement, WorkType
<1>3. ASSUME NEW w \in Workers, DropDuplicate(w) PROVE WorkType'
  BY <1>3 DEF DropDuplicate, Finish, workVars, WorkType
<1>4. ASSUME NEW w \in Workers, PushDurable(w) PROVE WorkType'
  BY <1>4 DEF PushDurable, AfterPush, Finish, WorkType
<1>5. ASSUME NEW w \in Workers, PushLocal(w) PROVE WorkType'
  BY <1>5 DEF PushLocal, AfterPush, Finish, WorkType
<1>6. ASSUME NEW w \in Workers, NEW landed \in BOOLEAN, PushFails(w, landed)
      PROVE  WorkType'
  BY <1>6 DEF PushFails, Abandon, Finish, WorkType, Positions
<1>7. ASSUME NEW w \in Workers, NEW acked \in BOOLEAN, RejectInvalid(w, acked)
      PROVE  WorkType'
  BY <1>7 DEF RejectInvalid, Abandon, Finish, WorkType, Positions
<1>8. ASSUME NEW w \in Workers, NEW stored \in BOOLEAN, CommitMarker(w, stored)
      PROVE  WorkType'
  BY <1>8 DEF CommitMarker, Finish, workVars, WorkType
<1>9. ASSUME NEW w \in Workers, CommitShadow(w) PROVE WorkType'
  BY <1>9 DEF CommitShadow, Finish, workVars, WorkType
<1>10. ASSUME NEW w \in Workers, Interrupt(w) PROVE WorkType'
  BY <1>10 DEF Interrupt, Abandon, Finish, WorkType
<1>11. ASSUME NEW w \in Workers, Crash(w) PROVE WorkType'
  BY <1>11 DEF Crash, WorkType
<1>12. ASSUME NEW w \in Workers, NEW u \in URLs, Pop(w, u) PROVE WorkType'
  BY <1>12, NoneAssumption DEF Pop, enqueueVars, WorkType
<1>13. ASSUME NEW w \in Workers, NEW acked \in BOOLEAN, Respond(w, acked) PROVE WorkType'
  BY <1>13 DEF Respond, enqueueVars, WorkType, Positions
<1>14. ASSUME NEW w \in Workers, Fail(w) PROVE WorkType'
  BY <1>14 DEF Fail, enqueueVars, WorkType, Positions
<1>15. ASSUME NEW w \in Workers, NEW acked \in BOOLEAN, AckSource(w, acked)
      PROVE  WorkType'
  BY <1>15 DEF AckSource, WorkType
<1>16. ASSUME NEW w \in Workers, NEW u \in URLs, NEW filtered \in BOOLEAN,
             EnqueueNew(w, u, filtered)
      PROVE  WorkType'
  BY <1>16 DEF EnqueueNew, workVars, WorkType
<1>17. ASSUME NEW w \in Workers,
            \/ PushDuplicate(w) \/ Miss(w) \/ DedupOutage(w)
      PROVE WorkType'
  BY <1>17 DEF PushDuplicate, Miss, DedupOutage, workVars, WorkType
<1>18. ASSUME NEW u \in URLs, Redeliver(u) PROVE WorkType'
  BY <1>18 DEF Redeliver, workVars, enqueueVars, WorkType
<1>19. CASE UNCHANGED vars
  BY <1>19 DEF vars, workVars, enqueueVars, WorkType
<1> QED BY <1>1, <1>2, <1>3, <1>4, <1>5, <1>6, <1>7, <1>8, <1>9, <1>10, <1>11, <1>12,
     <1>13, <1>14, <1>15, <1>16, <1>17, <1>18, <1>19 DEF Next

\* A request is being enqueued exactly between Begin and Finish.
LEMMA EnqueueTypeStep ==
  ASSUME EnqueueType, Positions, [Next]_vars
  PROVE  EnqueueType'
PROOF
<1>1. ASSUME NEW w \in Workers, NEW u \in URLs, NEW filtered \in BOOLEAN,
             EnqueueNew(w, u, filtered)
      PROVE  EnqueueType'
  BY <1>1, NoneAssumption DEF EnqueueNew, Begin, EnqueueType, Places
<1>2. ASSUME NEW w \in Workers, NEW u \in URLs, NEW filtered \in BOOLEAN,
             EnqueueReplacement(w, u, filtered)
      PROVE  EnqueueType'
  BY <1>2, NoneAssumption DEF EnqueueReplacement, Begin, EnqueueType, Places
<1>3. ASSUME NEW w \in Workers, NEW u \in URLs, NEW filtered \in BOOLEAN,
             EnqueueLocalReplacement(w, u, filtered)
      PROVE  EnqueueType'
  BY <1>3, NoneAssumption DEF EnqueueLocalReplacement, Begin, EnqueueType, Places
<1>4. ASSUME NEW w \in Workers, DropDuplicate(w) PROVE EnqueueType'
  BY <1>4 DEF DropDuplicate, Finish, EnqueueType, Places
<1>5. ASSUME NEW w \in Workers, PushDuplicate(w) PROVE EnqueueType'
  BY <1>5 DEF PushDuplicate, EnqueueType, Places
<1>6. ASSUME NEW w \in Workers, Miss(w) PROVE EnqueueType'
  BY <1>6 DEF Miss, EnqueueType, Places
<1>7. ASSUME NEW w \in Workers, DedupOutage(w) PROVE EnqueueType'
  BY <1>7 DEF DedupOutage, EnqueueType, Places
<1>8. ASSUME NEW w \in Workers, PushDurable(w) PROVE EnqueueType'
  BY <1>8 DEF PushDurable, AfterPush, Finish, EnqueueType, Places
<1>9. ASSUME NEW w \in Workers, PushLocal(w) PROVE EnqueueType'
  BY <1>9 DEF PushLocal, AfterPush, Finish, EnqueueType, Places
<1>10. ASSUME NEW w \in Workers, NEW landed \in BOOLEAN, PushFails(w, landed)
      PROVE  EnqueueType'
  BY <1>10 DEF PushFails, Finish, EnqueueType, Places
<1>11. ASSUME NEW w \in Workers, NEW acked \in BOOLEAN, RejectInvalid(w, acked)
      PROVE  EnqueueType'
  BY <1>11 DEF RejectInvalid, Finish, EnqueueType, Places
<1>12. ASSUME NEW w \in Workers, NEW stored \in BOOLEAN, CommitMarker(w, stored)
      PROVE  EnqueueType'
  BY <1>12 DEF CommitMarker, Finish, EnqueueType, Places
<1>13. ASSUME NEW w \in Workers, CommitShadow(w) PROVE EnqueueType'
  BY <1>13 DEF CommitShadow, Finish, EnqueueType, Places
<1>14. ASSUME NEW w \in Workers, Interrupt(w) PROVE EnqueueType'
  BY <1>14 DEF Interrupt, Finish, EnqueueType, Places
<1>15. ASSUME NEW w \in Workers, Crash(w) PROVE EnqueueType'
  BY <1>15 DEF Crash, EnqueueType, Places
<1>16. ASSUME NEW w \in Workers, NEW u \in URLs, Pop(w, u) PROVE EnqueueType'
  BY <1>16 DEF Pop, enqueueVars, EnqueueType, Places
<1>17. ASSUME NEW w \in Workers, NEW acked \in BOOLEAN,
            \/ Respond(w, acked) \/ AckSource(w, acked)
      PROVE EnqueueType'
  BY <1>17 DEF Respond, AckSource, enqueueVars, EnqueueType, Places
<1>18. ASSUME NEW w \in Workers, Fail(w) PROVE EnqueueType'
  BY <1>18 DEF Fail, enqueueVars, EnqueueType, Places
<1>19. ASSUME NEW u \in URLs, Redeliver(u) PROVE EnqueueType'
  BY <1>19 DEF Redeliver, enqueueVars, EnqueueType, Places
<1>20. CASE UNCHANGED vars
  BY <1>20 DEF vars, enqueueVars, EnqueueType, Places
<1> QED BY <1>1, <1>2, <1>3, <1>4, <1>5, <1>6, <1>7, <1>8, <1>9, <1>10, <1>11, <1>12,
     <1>13, <1>14, <1>15, <1>16, <1>17, <1>18, <1>19, <1>20 DEF Next

\* Histories hold fingerprints.
LEMMA HistoryTypeStep ==
  ASSUME HistoryType, WorkType, EnqueueType, [Next]_vars
  PROVE  HistoryType'
PROOF
<1>1. ASSUME NEW w \in Workers, NEW u \in URLs, NEW filtered \in BOOLEAN,
             EnqueueLocalReplacement(w, u, filtered)
      PROVE  HistoryType'
  BY <1>1 DEF EnqueueLocalReplacement, HistoryType, WorkType
<1>2. ASSUME NEW w \in Workers, PushDurable(w) PROVE HistoryType'
  BY <1>2 DEF PushDurable, HistoryType, WorkType, EnqueueType
<1>3. ASSUME NEW w \in Workers, NEW acked \in BOOLEAN, RejectInvalid(w, acked)
      PROVE  HistoryType'
  BY <1>3 DEF RejectInvalid, HistoryType, WorkType
<1>4. ASSUME NEW w \in Workers, NEW acked \in BOOLEAN, Respond(w, acked)
      PROVE  HistoryType'
  BY <1>4 DEF Respond, HistoryType, WorkType
<1>5. ASSUME NEW w \in Workers, NEW u \in URLs, NEW filtered \in BOOLEAN,
            \/ EnqueueNew(w, u, filtered) \/ EnqueueReplacement(w, u, filtered)
      PROVE HistoryType'
  BY <1>5 DEF EnqueueNew, EnqueueReplacement, HistoryType
<1>6. ASSUME NEW w \in Workers,
            \/ DropDuplicate(w) \/ PushDuplicate(w) \/ Miss(w) \/ DedupOutage(w)
            \/ PushLocal(w) \/ CommitShadow(w) \/ Interrupt(w) \/ Crash(w)
            \/ Fail(w)
      PROVE HistoryType'
  BY <1>6 DEF DropDuplicate, PushDuplicate, Miss, DedupOutage, PushLocal, CommitShadow,
       Interrupt, Crash, Fail, HistoryType
<1>7. ASSUME NEW w \in Workers, NEW landed \in BOOLEAN, PushFails(w, landed)
      PROVE  HistoryType'
  BY <1>7 DEF PushFails, HistoryType
<1>8. ASSUME NEW w \in Workers, NEW stored \in BOOLEAN, CommitMarker(w, stored)
      PROVE  HistoryType'
  BY <1>8 DEF CommitMarker, HistoryType
<1>9. ASSUME NEW w \in Workers, NEW u \in URLs, Pop(w, u) PROVE HistoryType'
  BY <1>9 DEF Pop, HistoryType
<1>10. ASSUME NEW w \in Workers, NEW acked \in BOOLEAN, AckSource(w, acked)
      PROVE  HistoryType'
  BY <1>10 DEF AckSource, HistoryType
<1>11. ASSUME NEW u \in URLs, Redeliver(u) PROVE HistoryType'
  BY <1>11 DEF Redeliver, HistoryType
<1>12. CASE UNCHANGED vars
  BY <1>12 DEF vars, HistoryType
<1> QED BY <1>1, <1>2, <1>3, <1>4, <1>5, <1>6, <1>7, <1>8, <1>9, <1>10, <1>11, <1>12 DEF
     Next

\* The sets keep following the program point: a source is only being settled behind
\* its durable push, and a push without a receipt is in the local queue.
LEMMA PositionsStep ==
  ASSUME TypeOK, Positions, [Next]_vars
  PROVE  Positions'
PROOF
<1>1. ASSUME NEW w \in Workers, NEW u \in URLs, NEW filtered \in BOOLEAN,
             EnqueueNew(w, u, filtered)
      PROVE  Positions'
  BY <1>1 DEF EnqueueNew, Begin, workVars, Positions, TypeOK
<1>2. ASSUME NEW w \in Workers, NEW u \in URLs, NEW filtered \in BOOLEAN,
             EnqueueReplacement(w, u, filtered)
      PROVE  Positions'
  BY <1>2 DEF EnqueueReplacement, Begin, workVars, Positions, TypeOK
<1>3. ASSUME NEW w \in Workers, NEW u \in URLs, NEW filtered \in BOOLEAN,
             EnqueueLocalReplacement(w, u, filtered)
      PROVE  Positions'
  BY <1>3 DEF EnqueueLocalReplacement, Begin, Positions, TypeOK
<1>4. ASSUME NEW w \in Workers, DropDuplicate(w) PROVE Positions'
  BY <1>4 DEF DropDuplicate, Finish, workVars, Positions, TypeOK
<1>5. ASSUME NEW w \in Workers, PushDuplicate(w) PROVE Positions'
  BY <1>5 DEF PushDuplicate, workVars, Positions, TypeOK
<1>6. ASSUME NEW w \in Workers, Miss(w) PROVE Positions'
  BY <1>6 DEF Miss, workVars, Positions, TypeOK
<1>7. ASSUME NEW w \in Workers, DedupOutage(w) PROVE Positions'
  BY <1>7 DEF DedupOutage, workVars, Positions, TypeOK
<1>8. ASSUME NEW w \in Workers, PushDurable(w) PROVE Positions'
  <2>0. /\ place[w] \in {"push", "fallback"}
        /\ settling' \subseteq settling \cup {w}
        /\ pushed' = pushed \cup {req[w]}
        /\ UNCHANGED local
    BY <1>8 DEF PushDurable
  <2>1. CASE w \in intent
    <3>1. /\ place' = [place EXCEPT ![w] = "commit"]
          /\ receipt' = receipt \cup {w}
          /\ UNCHANGED <<req, carries>>
      BY <1>8, <2>1 DEF PushDurable, AfterPush
    <3> QED BY <2>0, <3>1 DEF Positions, TypeOK
  <2>2. CASE w \notin intent
    <3>1. /\ place' = [place EXCEPT ![w] = "idle"]
          /\ req' = [req EXCEPT ![w] = None]
          /\ carries' = carries \ {w}
          /\ receipt' = receipt \ {w}
      BY <1>8, <2>2 DEF PushDurable, AfterPush, Finish
    <3> QED BY <2>0, <3>1 DEF Positions, TypeOK
  <2> QED BY <2>1, <2>2
<1>9. ASSUME NEW w \in Workers, PushLocal(w) PROVE Positions'
  <2>0. /\ w \notin carries /\ req[w] \in URLs /\ place[w] \in {"push", "fallback"}
        /\ local' = [local EXCEPT ![w][req[w]] = @ + 1]
        /\ UNCHANGED <<settling, pushed>>
    BY <1>9 DEF PushLocal, LocalAllowed, TypeOK
  <2>1. \A v \in Workers, u \in URLs : local[v][u] > 0 => local'[v][u] > 0
    BY <2>0 DEF TypeOK
  <2>2. local'[w][req[w]] > 0
    BY <2>0 DEF TypeOK
  <2>3. CASE w \in intent
    <3>1. place' = [place EXCEPT ![w] = "commit"] /\ UNCHANGED <<receipt, req, carries>>
      BY <1>9, <2>3 DEF PushLocal, AfterPush
    <3> QED BY <2>0, <2>1, <2>2, <3>1 DEF Positions, TypeOK
  <2>4. CASE w \notin intent
    <3>1. /\ place' = [place EXCEPT ![w] = "idle"]
          /\ req' = [req EXCEPT ![w] = None]
          /\ carries' = carries \ {w}
          /\ receipt' = receipt \ {w}
      BY <1>9, <2>4 DEF PushLocal, AfterPush, Finish
    <3> QED BY <2>0, <2>1, <3>1 DEF Positions, TypeOK
  <2> QED BY <2>3, <2>4
<1>10. ASSUME NEW w \in Workers, NEW landed \in BOOLEAN, PushFails(w, landed)
      PROVE  Positions'
  BY <1>10 DEF PushFails, Finish, Positions, TypeOK
<1>11. ASSUME NEW w \in Workers, NEW acked \in BOOLEAN, RejectInvalid(w, acked)
      PROVE  Positions'
  BY <1>11 DEF RejectInvalid, Finish, Positions, TypeOK
<1>12. ASSUME NEW w \in Workers, NEW stored \in BOOLEAN, CommitMarker(w, stored)
      PROVE  Positions'
  BY <1>12 DEF CommitMarker, Finish, workVars, Positions, TypeOK
<1>13. ASSUME NEW w \in Workers, CommitShadow(w) PROVE Positions'
  BY <1>13 DEF CommitShadow, Finish, workVars, Positions, TypeOK
<1>14. ASSUME NEW w \in Workers, Interrupt(w) PROVE Positions'
  BY <1>14 DEF Interrupt, Finish, Positions, TypeOK
<1>15. ASSUME NEW w \in Workers, Crash(w) PROVE Positions'
  BY <1>15 DEF Crash, Positions, TypeOK
<1>16. ASSUME NEW w \in Workers, NEW u \in URLs, Pop(w, u) PROVE Positions'
  BY <1>16 DEF Pop, enqueueVars, Positions, TypeOK
<1>17. ASSUME NEW w \in Workers, NEW acked \in BOOLEAN, AckSource(w, acked)
      PROVE  Positions'
  BY <1>17 DEF AckSource, Positions, TypeOK
<1>18. ASSUME NEW w \in Workers, NEW acked \in BOOLEAN, Respond(w, acked) PROVE Positions'
  BY <1>18 DEF Respond, enqueueVars, Positions, TypeOK
<1>19. ASSUME NEW w \in Workers, Fail(w) PROVE Positions'
  BY <1>19 DEF Fail, enqueueVars, Positions, TypeOK
<1>20. ASSUME NEW u \in URLs, Redeliver(u) PROVE Positions'
  BY <1>20 DEF Redeliver, workVars, enqueueVars, Positions, TypeOK
<1>21. CASE UNCHANGED vars
  BY <1>21 DEF vars, workVars, enqueueVars, Positions, TypeOK
<1> QED BY <1>1, <1>2, <1>3, <1>4, <1>5, <1>6, <1>7, <1>8, <1>9, <1>10, <1>11, <1>12,
     <1>13, <1>14, <1>15, <1>16, <1>17, <1>18, <1>19, <1>20, <1>21 DEF Next

\* Every URL that reached the broker stays backed by something that is not about to
\* be acked.
LEMMA FirmStep ==
  ASSUME TypeOK, Positions, AllFirm, [Next]_vars
  PROVE  AllFirm'
PROOF
<1>1. ASSUME NEW w \in Workers, NEW u \in URLs, NEW filtered \in BOOLEAN,
             EnqueueLocalReplacement(w, u, filtered)
      PROVE  AllFirm'
  BY <1>1 DEF EnqueueLocalReplacement, brokerVars, AllFirm, Firm, TypeOK, Positions
<1>2. ASSUME NEW w \in Workers, PushDurable(w) PROVE AllFirm'
  BY <1>2 DEF PushDurable, AllFirm, Firm, TypeOK
<1>3. ASSUME NEW w \in Workers, PushLocal(w) PROVE AllFirm'
  <2>1. UNCHANGED <<ready, orphan, work, tokened, settling, done, pushed>>
    BY <1>3 DEF PushLocal, LocalAllowed, brokerVars
  <2> QED BY <2>1 DEF AllFirm, Firm
<1>4. ASSUME NEW w \in Workers, NEW landed \in BOOLEAN, PushFails(w, landed)
      PROVE  AllFirm'
  <2>0. UNCHANGED <<settling, done, pushed>>
    BY <1>4 DEF PushFails
  <2>1. \A v \in URLs : ready[v] > 0 => ready'[v] > 0
    BY <1>4 DEF PushFails, TypeOK
  <2>2. CASE w \in carries
    <3>1. /\ work[w] \in URLs
          /\ orphan' = [orphan EXCEPT ![work[w]] = @ + 1]
          /\ work' = [work EXCEPT ![w] = None]
          /\ tokened' = tokened \ {w}
      BY <1>4, <2>2 DEF PushFails, Abandon, TypeOK
    <3>2. orphan'[work[w]] > 0 /\ \A v \in URLs : orphan[v] > 0 => orphan'[v] > 0
      BY <3>1 DEF TypeOK
    <3> QED BY <2>0, <2>1, <3>1, <3>2 DEF AllFirm, Firm, TypeOK
  <2>3. CASE w \notin carries
    <3>1. UNCHANGED <<orphan, work, tokened>>
      BY <1>4, <2>3 DEF PushFails, Abandon
    <3> QED BY <2>0, <2>1, <3>1 DEF AllFirm, Firm, TypeOK
  <2> QED BY <2>2, <2>3
<1>5. ASSUME NEW w \in Workers, NEW acked \in BOOLEAN, RejectInvalid(w, acked)
      PROVE  AllFirm'
  <2>0. UNCHANGED <<ready, settling, pushed>>
    BY <1>5 DEF RejectInvalid
  <2>1. CASE w \in carries /\ acked
    BY <1>5, <2>0, <2>1 DEF RejectInvalid, AllFirm, Firm, TypeOK, Positions
  <2>2. CASE w \in carries /\ ~ acked
    <3>1. /\ work[w] \in URLs
          /\ orphan' = [orphan EXCEPT ![work[w]] = @ + 1]
          /\ work' = [work EXCEPT ![w] = None]
          /\ tokened' = tokened \ {w}
          /\ UNCHANGED done
      BY <1>5, <2>2 DEF RejectInvalid, Abandon, TypeOK
    <3>2. orphan'[work[w]] > 0 /\ \A v \in URLs : orphan[v] > 0 => orphan'[v] > 0
      BY <3>1 DEF TypeOK
    <3> QED BY <2>0, <3>1, <3>2 DEF AllFirm, Firm, TypeOK
  <2>3. CASE w \notin carries
    <3>1. UNCHANGED <<orphan, work, tokened, done>>
      BY <1>5, <2>3 DEF RejectInvalid, Abandon
    <3> QED BY <2>0, <3>1 DEF AllFirm, Firm
  <2> QED BY <2>1, <2>2, <2>3
<1>6. ASSUME NEW w \in Workers, Interrupt(w) PROVE AllFirm'
  BY <1>6 DEF Interrupt, Abandon, AllFirm, Firm, TypeOK, Positions
<1>7. ASSUME NEW w \in Workers, Crash(w) PROVE AllFirm'
  BY <1>7 DEF Crash, AllFirm, Firm, TypeOK
<1>8. ASSUME NEW w \in Workers, NEW u \in URLs, Pop(w, u) PROVE AllFirm'
  BY <1>8 DEF Pop, AllFirm, Firm, TypeOK
<1>9. ASSUME NEW w \in Workers, NEW acked \in BOOLEAN, Respond(w, acked) PROVE AllFirm'
  BY <1>9 DEF Respond, AllFirm, Firm, TypeOK
<1>10. ASSUME NEW w \in Workers, Fail(w) PROVE AllFirm'
  BY <1>10 DEF Fail, AllFirm, Firm, TypeOK
<1>11. ASSUME NEW w \in Workers, NEW acked \in BOOLEAN, AckSource(w, acked) PROVE AllFirm'
  BY <1>11 DEF AckSource, AllFirm, Firm, TypeOK
<1>12. ASSUME NEW u \in URLs, Redeliver(u) PROVE AllFirm'
  BY <1>12 DEF Redeliver, workVars, AllFirm, Firm, TypeOK
<1>13. ASSUME NEW w \in Workers, NEW u \in URLs, NEW filtered \in BOOLEAN,
            \/ EnqueueNew(w, u, filtered) \/ EnqueueReplacement(w, u, filtered)
      PROVE AllFirm'
  BY <1>13 DEF EnqueueNew, EnqueueReplacement, brokerVars, workVars, AllFirm, Firm, TypeOK
<1>14. ASSUME NEW w \in Workers,
            \/ DropDuplicate(w) \/ PushDuplicate(w) \/ Miss(w) \/ DedupOutage(w)
            \/ CommitShadow(w)
      PROVE AllFirm'
  BY <1>14 DEF DropDuplicate, PushDuplicate, Miss, DedupOutage, CommitShadow, brokerVars,
       workVars, AllFirm, Firm, TypeOK
<1>15. ASSUME NEW w \in Workers, NEW stored \in BOOLEAN, CommitMarker(w, stored)
      PROVE  AllFirm'
  BY <1>15 DEF CommitMarker, brokerVars, workVars, AllFirm, Firm, TypeOK
<1>16. CASE UNCHANGED vars
  BY <1>16 DEF vars, brokerVars, workVars, AllFirm, Firm, TypeOK
<1> QED BY <1>1, <1>2, <1>3, <1>4, <1>5, <1>6, <1>7, <1>8, <1>9, <1>10, <1>11, <1>12,
     <1>13, <1>14, <1>15, <1>16 DEF Next

\* A marker is published only behind a receipt.
LEMMA MarkersStep ==
  ASSUME TypeOK, Positions, MarkersQueued, [Next]_vars
  PROVE  MarkersQueued'
PROOF
<1>1. ASSUME NEW w \in Workers, PushDurable(w) PROVE MarkersQueued'
  BY <1>1 DEF PushDurable, filterVars, MarkersQueued
<1>2. ASSUME NEW w \in Workers, NEW stored \in BOOLEAN, CommitMarker(w, stored)
      PROVE  MarkersQueued'
  BY <1>2 DEF CommitMarker, MarkersQueued, Positions, Durable
<1>3. ASSUME NEW w \in Workers, NEW u \in URLs, NEW filtered \in BOOLEAN,
            \/ EnqueueNew(w, u, filtered) \/ EnqueueReplacement(w, u, filtered)
            \/ EnqueueLocalReplacement(w, u, filtered)
      PROVE MarkersQueued'
  BY <1>3 DEF EnqueueNew, EnqueueReplacement, EnqueueLocalReplacement, MarkersQueued
<1>4. ASSUME NEW w \in Workers,
            \/ DropDuplicate(w) \/ PushDuplicate(w) \/ Miss(w) \/ DedupOutage(w)
            \/ PushLocal(w) \/ CommitShadow(w) \/ Interrupt(w) \/ Crash(w)
            \/ Fail(w)
      PROVE MarkersQueued'
  BY <1>4 DEF DropDuplicate, PushDuplicate, Miss, DedupOutage, PushLocal, CommitShadow,
       Interrupt, Crash, Fail, filterVars, MarkersQueued
<1>5. ASSUME NEW w \in Workers, NEW landed \in BOOLEAN, PushFails(w, landed)
      PROVE  MarkersQueued'
  BY <1>5 DEF PushFails, MarkersQueued
<1>6. ASSUME NEW w \in Workers, NEW acked \in BOOLEAN,
            \/ RejectInvalid(w, acked) \/ Respond(w, acked) \/ AckSource(w, acked)
      PROVE MarkersQueued'
  BY <1>6 DEF RejectInvalid, Respond, AckSource, filterVars, MarkersQueued
<1>7. ASSUME NEW w \in Workers, NEW u \in URLs, Pop(w, u) PROVE MarkersQueued'
  BY <1>7 DEF Pop, filterVars, MarkersQueued
<1>8. ASSUME NEW u \in URLs, Redeliver(u) PROVE MarkersQueued'
  BY <1>8 DEF Redeliver, filterVars, MarkersQueued
<1>9. CASE UNCHANGED vars
  BY <1>9 DEF vars, filterVars, MarkersQueued
<1> QED BY <1>1, <1>2, <1>3, <1>4, <1>5, <1>6, <1>7, <1>8, <1>9 DEF Next

\* A shadow marker stays backed by its own process.
LEMMA ShadowStep ==
  ASSUME TypeOK, Positions, ShadowHere, [Next]_vars
  PROVE  ShadowHere'
PROOF
<1>1. ASSUME NEW w \in Workers, NEW u \in URLs, NEW filtered \in BOOLEAN,
             EnqueueLocalReplacement(w, u, filtered)
      PROVE  ShadowHere'
  BY <1>1 DEF EnqueueLocalReplacement, ShadowHere, TypeOK
<1>2. ASSUME NEW w \in Workers, PushDurable(w) PROVE ShadowHere'
  BY <1>2 DEF PushDurable, filterVars, ShadowHere, TypeOK
<1>3. ASSUME NEW w \in Workers, PushLocal(w) PROVE ShadowHere'
  BY <1>3 DEF PushLocal, filterVars, ShadowHere, TypeOK
<1>4. ASSUME NEW w \in Workers, NEW landed \in BOOLEAN, PushFails(w, landed)
      PROVE  ShadowHere'
  BY <1>4 DEF PushFails, Abandon, ShadowHere, TypeOK, Positions
<1>5. ASSUME NEW w \in Workers, NEW acked \in BOOLEAN, RejectInvalid(w, acked)
      PROVE  ShadowHere'
  BY <1>5 DEF RejectInvalid, Abandon, ShadowHere, TypeOK, Positions
<1>6. ASSUME NEW w \in Workers, CommitShadow(w) PROVE ShadowHere'
  <2>1. UNCHANGED <<local, work, tokened, done>>
    BY <1>6 DEF CommitShadow, workVars
  <2>2. \A v \in Workers : shadow'[v] \subseteq IF v = w THEN shadow[v] \cup {req[w]} ELSE shadow[v]
    BY <1>6 DEF CommitShadow, TypeOK
  <2>3. local[w][req[w]] > 0
    BY <1>6 DEF CommitShadow, Durable, Positions
  <2> QED BY <2>1, <2>2, <2>3 DEF ShadowHere
<1>7. ASSUME NEW w \in Workers, Interrupt(w) PROVE ShadowHere'
  BY <1>7 DEF Interrupt, Abandon, ShadowHere, TypeOK, Positions
<1>8. ASSUME NEW w \in Workers, Crash(w) PROVE ShadowHere'
  BY <1>8 DEF Crash, ShadowHere, TypeOK
<1>9. ASSUME NEW w \in Workers, NEW u \in URLs, Pop(w, u) PROVE ShadowHere'
  BY <1>9, NoneAssumption DEF Pop, filterVars, ShadowHere, TypeOK, Positions, enqueueVars
<1>10. ASSUME NEW w \in Workers, NEW acked \in BOOLEAN, Respond(w, acked)
      PROVE  ShadowHere'
  BY <1>10 DEF Respond, filterVars, ShadowHere, TypeOK
<1>11. ASSUME NEW w \in Workers, Fail(w) PROVE ShadowHere'
  BY <1>11 DEF Fail, filterVars, ShadowHere, TypeOK
<1>12. ASSUME NEW w \in Workers, NEW acked \in BOOLEAN, AckSource(w, acked)
      PROVE  ShadowHere'
  BY <1>12 DEF AckSource, filterVars, ShadowHere, TypeOK
<1>13. ASSUME NEW w \in Workers, NEW u \in URLs, NEW filtered \in BOOLEAN,
            \/ EnqueueNew(w, u, filtered) \/ EnqueueReplacement(w, u, filtered)
      PROVE ShadowHere'
  BY <1>13 DEF EnqueueNew, EnqueueReplacement, workVars, ShadowHere, TypeOK
<1>14. ASSUME NEW w \in Workers,
            \/ DropDuplicate(w) \/ PushDuplicate(w) \/ Miss(w) \/ DedupOutage(w)
      PROVE ShadowHere'
  BY <1>14 DEF DropDuplicate, PushDuplicate, Miss, DedupOutage, filterVars, workVars,
       ShadowHere, TypeOK
<1>15. ASSUME NEW w \in Workers, NEW stored \in BOOLEAN, CommitMarker(w, stored)
      PROVE  ShadowHere'
  BY <1>15 DEF CommitMarker, workVars, ShadowHere, TypeOK
<1>16. ASSUME NEW u \in URLs, Redeliver(u) PROVE ShadowHere'
  BY <1>16 DEF Redeliver, filterVars, workVars, ShadowHere, TypeOK
<1>17. CASE UNCHANGED vars
  BY <1>17 DEF vars, filterVars, workVars, ShadowHere, TypeOK
<1> QED BY <1>1, <1>2, <1>3, <1>4, <1>5, <1>6, <1>7, <1>8, <1>9, <1>10, <1>11, <1>12,
     <1>13, <1>14, <1>15, <1>16, <1>17 DEF Next

\* A reservation lives between the decision and its settlement.
LEMMA IntentsStep ==
  ASSUME TypeOK, IntentsSettled, [Next]_vars
  PROVE  IntentsSettled'
PROOF
<1>1. ASSUME NEW w \in Workers, NEW u \in URLs, NEW filtered \in BOOLEAN,
             EnqueueNew(w, u, filtered)
      PROVE  IntentsSettled'
  BY <1>1 DEF EnqueueNew, Begin, IntentsSettled, TypeOK
<1>2. ASSUME NEW w \in Workers, NEW u \in URLs, NEW filtered \in BOOLEAN,
             EnqueueReplacement(w, u, filtered)
      PROVE  IntentsSettled'
  BY <1>2 DEF EnqueueReplacement, Begin, IntentsSettled, TypeOK
<1>3. ASSUME NEW w \in Workers, NEW u \in URLs, NEW filtered \in BOOLEAN,
             EnqueueLocalReplacement(w, u, filtered)
      PROVE  IntentsSettled'
  BY <1>3 DEF EnqueueLocalReplacement, Begin, IntentsSettled, TypeOK
<1>4. ASSUME NEW w \in Workers, DropDuplicate(w) PROVE IntentsSettled'
  BY <1>4 DEF DropDuplicate, Finish, IntentsSettled, TypeOK
<1>5. ASSUME NEW w \in Workers, PushDuplicate(w) PROVE IntentsSettled'
  BY <1>5 DEF PushDuplicate, IntentsSettled, TypeOK
<1>6. ASSUME NEW w \in Workers, Miss(w) PROVE IntentsSettled'
  BY <1>6 DEF Miss, filterVars, IntentsSettled, TypeOK
<1>7. ASSUME NEW w \in Workers, DedupOutage(w) PROVE IntentsSettled'
  BY <1>7 DEF DedupOutage, IntentsSettled, TypeOK
<1>8. ASSUME NEW w \in Workers, PushDurable(w) PROVE IntentsSettled'
  BY <1>8 DEF PushDurable, AfterPush, Finish, filterVars, IntentsSettled, TypeOK
<1>9. ASSUME NEW w \in Workers, PushLocal(w) PROVE IntentsSettled'
  BY <1>9 DEF PushLocal, AfterPush, Finish, filterVars, IntentsSettled, TypeOK
<1>10. ASSUME NEW w \in Workers, NEW landed \in BOOLEAN, PushFails(w, landed)
      PROVE  IntentsSettled'
  BY <1>10 DEF PushFails, Finish, IntentsSettled, TypeOK
<1>11. ASSUME NEW w \in Workers, NEW acked \in BOOLEAN, RejectInvalid(w, acked)
      PROVE  IntentsSettled'
  BY <1>11 DEF RejectInvalid, Finish, IntentsSettled, TypeOK
<1>12. ASSUME NEW w \in Workers, NEW stored \in BOOLEAN, CommitMarker(w, stored)
      PROVE  IntentsSettled'
  BY <1>12 DEF CommitMarker, Finish, IntentsSettled, TypeOK
<1>13. ASSUME NEW w \in Workers, CommitShadow(w) PROVE IntentsSettled'
  BY <1>13 DEF CommitShadow, Finish, IntentsSettled, TypeOK
<1>14. ASSUME NEW w \in Workers, Interrupt(w) PROVE IntentsSettled'
  BY <1>14 DEF Interrupt, Finish, DiscardIntent, IntentsSettled, TypeOK
<1>15. ASSUME NEW w \in Workers, Crash(w) PROVE IntentsSettled'
  BY <1>15 DEF Crash, IntentsSettled, TypeOK
<1>16. ASSUME NEW w \in Workers, NEW u \in URLs, Pop(w, u) PROVE IntentsSettled'
  BY <1>16 DEF Pop, filterVars, enqueueVars, IntentsSettled, TypeOK
<1>17. ASSUME NEW w \in Workers, NEW acked \in BOOLEAN,
            \/ Respond(w, acked) \/ AckSource(w, acked)
      PROVE IntentsSettled'
  BY <1>17 DEF Respond, AckSource, filterVars, enqueueVars, IntentsSettled, TypeOK
<1>18. ASSUME NEW w \in Workers, Fail(w) PROVE IntentsSettled'
  BY <1>18 DEF Fail, filterVars, enqueueVars, IntentsSettled, TypeOK
<1>19. ASSUME NEW u \in URLs, Redeliver(u) PROVE IntentsSettled'
  BY <1>19 DEF Redeliver, filterVars, enqueueVars, IntentsSettled, TypeOK
<1>20. CASE UNCHANGED vars
  BY <1>20 DEF vars, filterVars, enqueueVars, IntentsSettled, TypeOK
<1> QED BY <1>1, <1>2, <1>3, <1>4, <1>5, <1>6, <1>7, <1>8, <1>9, <1>10, <1>11, <1>12,
     <1>13, <1>14, <1>15, <1>16, <1>17, <1>18, <1>19, <1>20 DEF Next

-----------------------------------------------------------------------------
\* The invariant holds initially.
LEMMA DeliveryInvInit == Init => DeliveryInv
PROOF
<1> SUFFICES ASSUME Init PROVE DeliveryInv
  OBVIOUS
<1>1. TypeOK
  BY CrashesAssumption DEF Init, TypeOK, Places
<1>2. Positions /\ AllFirm /\ MarkersQueued /\ ShadowHere /\ IntentsSettled
  BY DEF Init, Positions, AllFirm, MarkersQueued, ShadowHere, IntentsSettled
<1> QED BY <1>1, <1>2 DEF DeliveryInv

\* Every step keeps the invariant.
LEMMA DeliveryInvStep == DeliveryInv /\ [Next]_vars => DeliveryInv'
PROOF
<1> SUFFICES ASSUME DeliveryInv, [Next]_vars PROVE DeliveryInv'
  OBVIOUS
<1>0. TypeOK /\ Positions /\ AllFirm /\ MarkersQueued /\ ShadowHere /\ IntentsSettled
  BY DEF DeliveryInv
<1>1. BrokerType /\ FilterType /\ LocalType /\ WorkType /\ EnqueueType /\ HistoryType
  BY <1>0, TypeParts
<1>2. BrokerType' /\ FilterType' /\ LocalType'
  BY <1>1, BrokerTypeStep, FilterTypeStep, LocalTypeStep
<1>3. WorkType' /\ EnqueueType' /\ HistoryType'
  BY <1>0, <1>1, WorkTypeStep, EnqueueTypeStep, HistoryTypeStep
<1>4. TypeOK'
  BY <1>2, <1>3 DEF TypeOK, BrokerType, FilterType, LocalType, WorkType, EnqueueType, HistoryType
<1>5. Positions' /\ AllFirm' /\ MarkersQueued'
  BY <1>0, PositionsStep, FirmStep, MarkersStep
<1>6. ShadowHere' /\ IntentsSettled'
  BY <1>0, ShadowStep, IntentsStep
<1> QED BY <1>4, <1>5, <1>6 DEF DeliveryInv

\* The invariant holds always.
LEMMA DeliveryInvHolds == Spec => []DeliveryInv
BY DeliveryInvInit, DeliveryInvStep, PTL DEF Spec

\* For any number of processes, URLs, crashes and failures: a URL that was ever
\* pushed durably has been downloaded or is still in the broker or with a live
\* process.
THEOREM NothingIsLost == Spec => [](TypeOK /\ NothingLost)
PROOF
<1>1. DeliveryInv => TypeOK /\ NothingLost
  BY DEF DeliveryInv, AllFirm, Firm, NothingLost, Kept
<1> QED BY <1>1, DeliveryInvHolds, PTL

\* No marker, shared or local, suppresses a URL that nobody will crawl.
THEOREM NoGhostMarkers == Spec => []SuppressedIsKept
PROOF
<1>1. DeliveryInv => SuppressedIsKept
  <2> SUFFICES ASSUME DeliveryInv, NEW w \in Workers, NEW u \in shadow[w] \cup markers
               PROVE  Kept(u) \/ local[w][u] > 0 \/ work[w] = u
    BY DEF SuppressedIsKept
  <2>1. CASE u \in markers
    BY <2>1 DEF DeliveryInv, MarkersQueued, AllFirm, Firm, Kept
  <2>2. CASE u \in shadow[w]
    BY <2>2 DEF DeliveryInv, ShadowHere, Kept
  <2> QED BY <2>1, <2>2
<1> QED BY <1>1, DeliveryInvHolds, PTL

\* No reservation outlives its enqueue_request.
THEOREM IntentsAreSettled == Spec => []IntentsSettled
PROOF
<1>1. DeliveryInv => IntentsSettled
  BY DEF DeliveryInv
<1> QED BY <1>1, DeliveryInvHolds, PTL

\* The three parts together, for any number of processes and URLs.
THEOREM CrawlIsKept == Spec => []CrawlKept
  BY NothingIsLost, NoGhostMarkers, IntentsAreSettled, PTL DEF CrawlKept

-----------------------------------------------------------------------------
(* The duplicate filter (DupeFilter). *)

\* The places of a call: in a transition, or in a forget.
OpenPlaces == {"open_waits", "opening_filter"}
ClearPlaces == {"clear_waits", "clearing_filter"}
ReleasePlaces == {"release_waits", "release_drains", "closing_filter"}
FramePlaces == OpenPlaces \union ClearPlaces \union ReleasePlaces
ForgetPlaces == {"forgetting", "removing", "granting", "forgotten"}
FilterPlaces ==
  Filter!Operations \union FramePlaces \union {"idle", "holding", "forgetting"}
FilterCalls ==
  [at : FilterPlaces, request : Requests \union {Nobody}, transactional : BOOLEAN,
   epoch : Nat, slot : BOOLEAN, kept : BOOLEAN]
FilterReceipts ==
  [request : Requests, no : Nat, by : Callers \union {Nobody},
   settler : Callers \union {Nobody}, slot : BOOLEAN]

FrameTypes ==
  /\ phase \in Filter!Phases /\ prior \in {"new", "open"} /\ epoch \in Nat
  /\ opener \in Callers \union {Nobody} /\ clearer \in Callers \union {Nobody}
  /\ releaser \in Callers \union {Nobody}
  /\ closeRequested \in BOOLEAN /\ reopened \in BOOLEAN

StoreTypes ==
  /\ marked \subseteq Filter!Prints /\ allowances \subseteq Filter!Prints
  /\ IsFiniteSet(allowances) /\ limit \in Nat /\ leaked \in Nat
  /\ volatile \in Seq(Filter!Prints) /\ Len(volatile) <= ShadowLimit
  /\ reserved \subseteq Callers

\* What the place of a call says of its request, and of the slot it has.
CallSound(x) ==
  /\ x \in FilterCalls
  /\ x.at \in Filter!Operations \union {"holding", "forgetting"} => x.request \in Requests
  /\ x.slot => x.at \in {"adding", "answering", "interrupted"}
  /\ x.at = "adding" => x.slot
  /\ x.at \in {"looking", "probing", "adding"} => ~x.kept
  /\ x.at = "answering" => (x.kept <=> x.slot)

CallsSound ==
  /\ call \in [Callers -> FilterCalls]
  /\ \A c \in Callers : CallSound(call[c])

\* The transition under way is that of the caller inside it, and one that is
\* under way keeps the filter closed to others.
FramesHeld ==
  /\ \A c \in Callers : /\ opener = c <=> call[c].at \in OpenPlaces
                        /\ clearer = c <=> call[c].at \in ClearPlaces
                        /\ releaser = c <=> call[c].at \in ReleasePlaces
  /\ opener # Nobody \/ clearer # Nobody => phase \notin {"new", "open"}
  /\ opener = Nobody \/ clearer = Nobody
  /\ ~reopened /\ releaser # Nobody => phase = "closing" /\ opener = Nobody
  /\ ~reopened => \A c \in Callers :
       call[c].at \in {"release_drains", "closing_filter"} => clearer = Nobody

\* Where the filter itself is opened, cleared or closed, no call is inside.
DrainedFirst ==
  \A c \in Callers :
    \/ call[c].at \in {"opening_filter", "clearing_filter"}
    \/ call[c].at = "closing_filter" /\ ~reopened
    => Filter!Active = {}

EpochsCurrent == \A c \in Filter!Active : call[c].epoch = epoch

\* The part of the invariant about the calls and the transitions.
FrameInv == FrameTypes /\ CallsSound /\ FramesHeld /\ DrainedFirst /\ EpochsCurrent

\* Receipts are numbered, and one that is being settled is that of one forget,
\* which has it until it is granted or dropped.
ReceiptsOwned ==
  /\ receipts \subseteq FilterReceipts
  /\ \E n \in Nat : \A e \in receipts : e.no <= n
  /\ \A e, f \in receipts : e.no = f.no => e = f
  /\ \A e \in receipts : e.settler = Nobody => e.slot
  /\ \A e, f \in receipts : e.settler # Nobody /\ e.settler = f.settler => e = f
  /\ \A e \in receipts : e.settler # Nobody =>
       /\ call[e.settler].at \in ForgetPlaces /\ call[e.settler].request = e.request
       /\ call[e.settler].at # "forgotten" => e.slot
  /\ \A c \in Callers : call[c].at \in {"removing", "granting"} =>
       \E e \in receipts : e.settler = c

\* The slots in use are finite in number, and every one is somebody's.
Slotted == {c \in Callers : call[c].slot}
SlotReceipts == {e \in receipts : e.slot}
SlotsCounted ==
  /\ IsFiniteSet(Slotted) /\ IsFiniteSet(SlotReceipts)
  /\ slots = Cardinality(Slotted) + Cardinality(SlotReceipts) + leaked
  /\ Cardinality(allowances) + slots <= limit

FilterInv ==
  FrameInv /\ StoreTypes /\ ReceiptsOwned /\ SlotsCounted /\ Filter!RetryKept

-----------------------------------------------------------------------------
(* Numbers, finite sets and sequences. *)

\* A set of natural numbers has a least one.
LEMMA LeastOf ==
  ASSUME NEW S \in SUBSET Nat, S # {}
  PROVE  \E x \in S : \A y \in S : x <= y
  <1>1. PICK x \in S : \A y \in S : ~ (<<y, x>> \in OpToRel(<, Nat))
    BY NatLessThanWellFounded, WFMin, Zenon
  <1>2. \A y \in S : x <= y
    <2> TAKE y \in S
    <2>1. ~ (<<y, x>> \in OpToRel(<, Nat)) /\ x \in Nat /\ y \in Nat
      BY <1>1
    <2>2. ~(y < x)
      BY <2>1, Zenon DEF OpToRel
    <2>3. x \in Nat /\ y \in Nat
      BY <2>1
    <2> QED BY <2>2, <2>3
  <1> QED BY <1>2

\* One that is bounded has a greatest one: its Max.
LEMMA GreatestOf ==
  ASSUME NEW S \in SUBSET Nat, S # {}, NEW n \in Nat, \A x \in S : x <= n
  PROVE  /\ Filter!Max(S) \in S /\ Filter!Max(S) \in Nat
         /\ \A y \in S : y <= Filter!Max(S)
  <1> DEFINE U == {m \in Nat : \A x \in S : x <= m}
  <1>1. U \in SUBSET Nat /\ U # {}
    OBVIOUS
  <1>2. PICK m \in U : \A k \in U : m <= k
    BY <1>1, LeastOf, Zenon
  <1>3. m \in Nat /\ \A x \in S : x <= m
    BY <1>2
  <1>4. m \in S
    <2> SUFFICES ASSUME m \notin S PROVE FALSE
      OBVIOUS
    <2>1. \A x \in S : x < m
      BY <1>3
    <2>2. m # 0
      <3>1. PICK x : x \in S
        OBVIOUS
      <3>2. x \in Nat /\ x < m
        BY <2>1, <3>1
      <3> QED BY <1>3, <3>2
    <2>3. m - 1 \in Nat /\ \A x \in S : x <= m - 1
      BY <1>3, <2>1, <2>2
    <2>4. m - 1 \in U
      BY <2>3
    <2> QED BY <1>2, <1>3, <2>4
  <1>5. \A y \in S : m >= y
    BY <1>3
  <1>6. Filter!Max(S) \in S /\ \A y \in S : Filter!Max(S) >= y
    BY <1>4, <1>5, Zenon DEF Filter!Max
  <1> QED BY <1>6

\* The oldest receipt of some is one of them.
LEMMA OldestIsOne ==
  ASSUME ReceiptsOwned, NEW S \in SUBSET receipts, S # {}
  PROVE  Filter!Oldest(S) \in S
  <1> DEFINE N == {e.no : e \in S}
  <1>1. N \in SUBSET Nat /\ N # {}
    BY DEF ReceiptsOwned, FilterReceipts
  <1>2. PICK x \in N : \A y \in N : x <= y
    BY <1>1, LeastOf, Zenon
  <1>3. PICK e \in S : e.no = x
    BY <1>2
  <1>4. \A f \in S : e.no <= f.no
    BY <1>2, <1>3
  <1> QED BY <1>4, Zenon DEF Filter!Oldest

\* Both modules count alike.
LEMMA FilterCardinality == \A S : Filter!Cardinality(S) = Cardinality(S)
  BY Zenon DEF Filter!Cardinality, Cardinality

\* One more element makes a set at most one larger.
LEMMA AddCounts ==
  ASSUME NEW S, IsFiniteSet(S), NEW f
  PROVE  /\ IsFiniteSet(S \union {f})
         /\ Cardinality(S \union {f}) \in Nat
         /\ Cardinality(S \union {f}) <= Cardinality(S) + 1
  <1>1. IsFiniteSet(S \union {f}) /\ Cardinality(S) \in Nat
    BY FS_AddElement, FS_CardinalityType
  <1>2. CASE f \in S
    <2>1. S \union {f} = S
      BY <1>2
    <2> QED BY <1>1, <2>1
  <1>3. CASE f \notin S
    <2>1. Cardinality(S \union {f}) = Cardinality(S) + 1
      BY <1>3, FS_AddElement
    <2> QED BY <1>1, <2>1
  <1> QED BY <1>2, <1>3

\* An element that is replaced by a new one leaves a set as large as it was.
LEMMA SwapCounts ==
  ASSUME NEW S, IsFiniteSet(S), NEW e \in S, NEW f, f \notin S \ {e}
  PROVE  /\ IsFiniteSet((S \ {e}) \union {f})
         /\ Cardinality((S \ {e}) \union {f}) = Cardinality(S)
  <1>1. IsFiniteSet(S \ {e}) /\ Cardinality(S \ {e}) = Cardinality(S) - 1
    BY FS_RemoveElement
  <1>2. /\ IsFiniteSet((S \ {e}) \union {f})
        /\ Cardinality((S \ {e}) \union {f}) = Cardinality(S \ {e}) + 1
    BY <1>1, FS_AddElement
  <1>3. Cardinality(S) \in Nat
    BY FS_CardinalityType
  <1> QED BY <1>1, <1>2, <1>3

\* The volatile markers keep their bound.
LEMMA ShadowedKeeps ==
  ASSUME StoreTypes, NEW f \in Filter!Prints
  PROVE  Filter!Shadowed(f) \in Seq(Filter!Prints) /\ Len(Filter!Shadowed(f)) <= ShadowLimit
  <1>0. ShadowLimit \in Nat \ {0}
    BY LimitsAssumption
  <1>1. CASE f \in Filter!Range(volatile)
    <2> DEFINE I == {i \in 1..Len(volatile) : volatile[i] = f}
               k == Filter!Min(I)
    <2>1. I \in SUBSET Nat /\ I # {}
      BY <1>1 DEF Filter!Range, StoreTypes
    <2>2. PICK x \in I : \A y \in I : x <= y
      BY <2>1, LeastOf, Zenon
    <2>3. k \in I
      BY <2>2, Zenon DEF Filter!Min
    <2>4. k \in 1..Len(volatile)
      BY <2>3
    <2>5. Filter!RemoveFirst(volatile, f)
            = SubSeq(volatile, 1, k - 1) \o SubSeq(volatile, k + 1, Len(volatile))
      BY <2>3, Zenon DEF Filter!RemoveFirst, Filter!RemoveAt, Filter!SelectInSeq
    <2> HIDE DEF k
    <2>6. /\ SubSeq(volatile, 1, k - 1) \in Seq(Filter!Prints)
          /\ Len(SubSeq(volatile, 1, k - 1)) = k - 1
      BY <2>4 DEF StoreTypes
    <2>7. /\ SubSeq(volatile, k + 1, Len(volatile)) \in Seq(Filter!Prints)
          /\ Len(SubSeq(volatile, k + 1, Len(volatile))) = Len(volatile) - k
      BY <2>4 DEF StoreTypes
    <2> DEFINE p == SubSeq(volatile, 1, k - 1)
               q == SubSeq(volatile, k + 1, Len(volatile))
    <2>a. /\ p \in Seq(Filter!Prints) /\ q \in Seq(Filter!Prints)
          /\ Len(p) = k - 1 /\ Len(q) = Len(volatile) - k
          /\ Filter!RemoveFirst(volatile, f) = p \o q
      BY <2>5, <2>6, <2>7
    <2> HIDE DEF p, q
    <2>b. p \o q \in Seq(Filter!Prints) /\ Len(p \o q) = Len(p) + Len(q)
      BY <2>a, ConcatProperties
    <2>8. Filter!RemoveFirst(volatile, f) \in Seq(Filter!Prints)
      BY <2>a, <2>b
    <2>10. Len(Filter!RemoveFirst(volatile, f)) = Len(volatile) - 1
      BY <2>4, <2>a, <2>b DEF StoreTypes
    <2>9. Filter!Shadowed(f) = Append(Filter!RemoveFirst(volatile, f), f)
      BY <1>1, Zenon DEF Filter!Shadowed
    <2> HIDE DEF I
    <2> QED BY <2>8, <2>9, <2>10 DEF StoreTypes
  <1>2. CASE f \notin Filter!Range(volatile)
    BY <1>0, <1>2 DEF StoreTypes, Filter!Shadowed
  <1> QED BY <1>1, <1>2

-----------------------------------------------------------------------------
(* What a step of a call keeps. *)

FrameVars == <<phase, epoch, prior, opener, clearer, closeRequested, releaser, reopened>>

\* Without a move of anybody the calls and the transitions stay sound.
LEMMA FrameSame ==
  ASSUME FrameInv, UNCHANGED <<FrameVars, call>>
  PROVE  FrameInv'
  <1>1. FrameTypes' /\ CallsSound' /\ FramesHeld'
    BY DEF FrameInv, FrameTypes, CallsSound, CallSound, FramesHeld, FrameVars
  <1>2. Filter!Active' = Filter!Active
    BY DEF Filter!Active
  <1>3. DrainedFirst' /\ EpochsCurrent'
    BY <1>2 DEF FrameInv, DrainedFirst, EpochsCurrent, FrameVars
  <1> QED BY <1>1, <1>3 DEF FrameInv

\* A caller moves: what the new place says of it is all there is to show.
LEMMA CallsMove ==
  ASSUME CallsSound, NEW c \in Callers, NEW x, CallSound(x), call' = [call EXCEPT ![c] = x]
  PROVE  /\ CallsSound'
         /\ call'[c] = x
         /\ \A d \in Callers : d # c => call'[d] = call[d]
         /\ \A d \in Filter!Active' : d # c => d \in Filter!Active
         /\ c \in Filter!Active' <=> x.at \in Filter!Operations
  <1>1. call' \in [Callers -> FilterCalls]
    BY DEF CallsSound, CallSound
  <1>2. call'[c] = x /\ \A d \in Callers : d # c => call'[d] = call[d]
    BY DEF CallsSound
  <1>3. CallsSound'
    <2> SUFFICES ASSUME NEW d \in Callers PROVE CallSound(call'[d])
      BY <1>1 DEF CallsSound, CallSound
    <2> QED BY <1>2 DEF CallsSound
  <1> QED BY <1>1, <1>2, <1>3 DEF Filter!Active

\* Work inside the filter and between its calls, outside the transitions.
LEMMA WorkKeeps ==
  ASSUME FrameInv, UNCHANGED FrameVars,
         NEW c \in Callers, NEW x, CallSound(x), call' = [call EXCEPT ![c] = x],
         call[c].at \notin FramePlaces, x.at \notin FramePlaces,
         x.at \in Filter!Operations =>
           x.epoch = epoch /\ (call[c].at \in Filter!Operations \/ Filter!Admitting)
  PROVE  FrameInv'
  <1>1. /\ CallsSound' /\ call'[c] = x
        /\ \A d \in Callers : d # c => call'[d] = call[d]
        /\ \A d \in Filter!Active' : d # c => d \in Filter!Active
        /\ c \in Filter!Active' <=> x.at \in Filter!Operations
    BY CallsMove DEF FrameInv
  <1>2. FrameTypes'
    BY DEF FrameInv, FrameTypes, FrameVars
  <1>3. FramesHeld'
    BY <1>1 DEF FrameInv, FramesHeld, FrameVars, FramePlaces, OpenPlaces, ClearPlaces,
                ReleasePlaces
  <1>4. DrainedFirst'
    <2> SUFFICES ASSUME NEW d \in Callers,
                        \/ call'[d].at \in {"opening_filter", "clearing_filter"}
                        \/ call'[d].at = "closing_filter" /\ ~reopened'
                 PROVE  Filter!Active' = {}
      BY DEF DrainedFirst
    <2>1. d # c
      BY <1>1 DEF FramePlaces, OpenPlaces, ClearPlaces, ReleasePlaces
    <2>2. call[d].at = call'[d].at
      BY <1>1, <2>1
    <2>3. Filter!Active = {}
      BY <2>2 DEF FrameInv, DrainedFirst, FrameVars
    <2>4. ~Filter!Admitting
      BY <2>2, NobodyAssumption DEF FrameInv, FramesHeld, FrameVars, OpenPlaces, ClearPlaces,
                  ReleasePlaces, Filter!Admitting
    <2>5. call[c].at \notin Filter!Operations
      BY <2>3 DEF Filter!Active
    <2> QED BY <1>1, <2>3, <2>4, <2>5
  <1>5. EpochsCurrent'
    <2> SUFFICES ASSUME NEW d \in Filter!Active' PROVE call'[d].epoch = epoch'
      BY DEF EpochsCurrent
    <2>1. d \in Callers /\ epoch' = epoch
      BY DEF Filter!Active, FrameVars
    <2>2. CASE d = c
      BY <1>1, <2>1, <2>2
    <2>3. CASE d # c
      BY <1>1, <2>1, <2>3 DEF FrameInv, EpochsCurrent
    <2> QED BY <2>2, <2>3
  <1> QED BY <1>1, <1>2, <1>3, <1>4, <1>5 DEF FrameInv

\* The slots of the calls, where one gets or gives one.
LEMMA SlottedStep ==
  ASSUME CallsSound, NEW c \in Callers, NEW x, CallSound(x), call' = [call EXCEPT ![c] = x],
         IsFiniteSet(Slotted)
  PROVE  /\ IsFiniteSet(Slotted')
         /\ Cardinality(Slotted) \in Nat /\ Cardinality(Slotted') \in Nat
         /\ x.slot = call[c].slot => Cardinality(Slotted') = Cardinality(Slotted)
         /\ x.slot /\ ~call[c].slot => Cardinality(Slotted') = Cardinality(Slotted) + 1
         /\ ~x.slot /\ call[c].slot => Cardinality(Slotted') = Cardinality(Slotted) - 1
  <1>1. /\ call'[c] = x
        /\ \A d \in Callers : d # c => call'[d] = call[d]
    BY DEF CallsSound
  <1>2. x.slot \in BOOLEAN /\ call[c].slot \in BOOLEAN
    BY DEF CallsSound, CallSound, FilterCalls
  <1>3. Cardinality(Slotted) \in Nat
    BY FS_CardinalityType
  <1>4. CASE x.slot = call[c].slot
    <2>1. Slotted' = Slotted
      BY <1>1, <1>4 DEF Slotted
    <2> QED BY <1>3, <1>2, <1>4, <2>1
  <1>5. CASE x.slot /\ ~call[c].slot
    <2>1. Slotted' = Slotted \union {c} /\ c \notin Slotted
      BY <1>1, <1>5 DEF Slotted
    <2>2. IsFiniteSet(Slotted') /\ Cardinality(Slotted') = Cardinality(Slotted) + 1
      BY <2>1, FS_AddElement
    <2>3. Cardinality(Slotted') \in Nat
      BY <1>3, <2>2
    <2>4. x.slot # call[c].slot
      BY <1>5, Zenon
    <2> QED BY <1>3, <1>5, <2>2, <2>3, <2>4
  <1>6. CASE ~x.slot /\ call[c].slot
    <2>1. Slotted' = Slotted \ {c} /\ c \in Slotted
      BY <1>1, <1>6 DEF Slotted
    <2>2. IsFiniteSet(Slotted') /\ Cardinality(Slotted') = Cardinality(Slotted) - 1
      BY <2>1, FS_RemoveElement
    <2>3. Cardinality(Slotted') \in Nat
      BY <2>2, FS_CardinalityType
    <2> QED BY <1>2, <1>3, <1>6, <2>2, <2>3
  <1> QED BY <1>2, <1>4, <1>5, <1>6

\* The receipts, where nobody moves within a forget.
LEMMA ReceiptsSame ==
  ASSUME CallsSound, ReceiptsOwned, UNCHANGED receipts,
         NEW c \in Callers, NEW x, CallSound(x), call' = [call EXCEPT ![c] = x],
         \/ call[c].at \notin ForgetPlaces /\ x.at \notin ForgetPlaces
         \/ x = call[c]
  PROVE  ReceiptsOwned' /\ SlotReceipts' = SlotReceipts
  <1>1. /\ call'[c] = x
        /\ \A d \in Callers : d # c => call'[d] = call[d]
    BY DEF CallsSound
  <1>2. \A e \in receipts : e.settler # Nobody =>
          e.settler \in Callers /\ call'[e.settler] = call[e.settler]
    BY <1>1 DEF ReceiptsOwned, FilterReceipts
  <1>3. \A d \in Callers : call'[d].at \in {"removing", "granting"} => call[d].at = call'[d].at
    BY <1>1 DEF ForgetPlaces
  <1>4. ReceiptsOwned'
    BY <1>2, <1>3 DEF ReceiptsOwned
  <1> QED BY <1>4 DEF SlotReceipts

\* A step of a call that neither starts nor ends a forget: what is left to show is
\* that the slot it gets or gives is counted.
LEMMA WorkStep ==
  ASSUME FilterInv, UNCHANGED <<FrameVars, receipts, limit>>,
         NEW c \in Callers, NEW x, CallSound(x), call' = [call EXCEPT ![c] = x],
         call[c].at \notin FramePlaces, x.at \notin FramePlaces,
         x.at \in Filter!Operations =>
           x.epoch = epoch /\ (call[c].at \in Filter!Operations \/ Filter!Admitting),
         call[c].at \notin ForgetPlaces, x.at \notin ForgetPlaces,
         slots' \in Int, StoreTypes', Filter!RetryKept',
         \/ x.slot = call[c].slot /\ slots' - leaked' = slots - leaked
         \/ x.slot /\ ~call[c].slot /\ slots' - leaked' = slots - leaked + 1
         \/ ~x.slot /\ call[c].slot /\ slots' - leaked' = slots - leaked - 1,
         Cardinality(allowances') + slots' <= limit
  PROVE  FilterInv'
  <1>1. FrameInv'
    BY WorkKeeps DEF FilterInv
  <1>2. CallsSound /\ ReceiptsOwned
    BY DEF FilterInv, FrameInv
  <1>3. ReceiptsOwned' /\ SlotReceipts' = SlotReceipts
    BY <1>2, ReceiptsSame
  <1>4. SlotsCounted'
    <2>1. IsFiniteSet(Slotted)
      BY DEF FilterInv, SlotsCounted
    <2>2. /\ IsFiniteSet(Slotted')
          /\ Cardinality(Slotted) \in Nat /\ Cardinality(Slotted') \in Nat
          /\ x.slot = call[c].slot => Cardinality(Slotted') = Cardinality(Slotted)
          /\ x.slot /\ ~call[c].slot => Cardinality(Slotted') = Cardinality(Slotted) + 1
          /\ ~x.slot /\ call[c].slot => Cardinality(Slotted') = Cardinality(Slotted) - 1
      BY <1>2, <2>1, SlottedStep
    <2>3. Cardinality(SlotReceipts) \in Nat /\ IsFiniteSet(SlotReceipts)
      BY FS_CardinalityType DEF FilterInv, SlotsCounted
    <2>4. leaked \in Nat /\ leaked' \in Nat
      BY DEF FilterInv, StoreTypes
    <2>5. slots = Cardinality(Slotted) + Cardinality(SlotReceipts) + leaked
      BY DEF FilterInv, SlotsCounted
    <2>6. slots' = Cardinality(Slotted') + Cardinality(SlotReceipts) + leaked'
      BY <2>2, <2>3, <2>4, <2>5
    <2> QED BY <1>3, <2>2, <2>3, <2>6 DEF SlotsCounted
  <1> QED BY <1>1, <1>3, <1>4 DEF FilterInv

\* The counters are numbers.
LEMMA SlotNumbers ==
  ASSUME FilterInv
  PROVE  /\ slots \in Nat /\ leaked \in Nat /\ limit \in Nat
         /\ Cardinality(allowances) \in Nat /\ IsFiniteSet(allowances)
         /\ Cardinality(allowances) + slots <= limit
  <1>1. /\ Cardinality(Slotted) \in Nat /\ Cardinality(SlotReceipts) \in Nat
        /\ Cardinality(allowances) \in Nat
    BY FS_CardinalityType DEF FilterInv, SlotsCounted, StoreTypes
  <1> QED BY <1>1 DEF FilterInv, SlotsCounted, StoreTypes

\* A call of a place has a request, so a fingerprint of the filter's.
LEMMA PrintKnown ==
  ASSUME FilterInv, NEW c \in Callers,
         call[c].at \in Filter!Operations \union {"holding", "forgetting"}
  PROVE  call[c].request \in Requests /\ Filter!PrintOf(c) \in Filter!Prints
  BY DEF FilterInv, FrameInv, CallsSound, CallSound, Filter!PrintOf, Filter!Prints

\* The record of a call that moves on, and of one that has ended.
LEMMA MovedCall ==
  ASSUME FilterInv, NEW c \in Callers
  PROVE  /\ CallSound(Filter!Idle) /\ ~Filter!Idle.slot /\ Filter!Idle.at = "idle"
         /\ Filter!Idle \in FilterCalls
         /\ call[c] \in FilterCalls
         /\ \A s : Filter!Goto(c, s) => call' = [call EXCEPT ![c] = [call[c] EXCEPT !.at = s]]
         /\ Filter!Leaves(c) => call' = [call EXCEPT ![c] = Filter!Idle]
  BY DEF FilterInv, FrameInv, CallsSound, CallSound, FilterCalls, FilterPlaces,
         Filter!Idle, Filter!Goto, Filter!Leaves, Filter!Operations

-----------------------------------------------------------------------------
(* request_seen *)

\* A call is admitted into the current epoch, without a slot.
LEMMA SeenBeginsKeeps ==
  ASSUME FilterInv, NEW c \in Callers, NEW r \in Requests, NEW t \in BOOLEAN,
         Filter!SeenBegins(c, r, t)
  PROVE  FilterInv'
  <1> DEFINE x == [Filter!Idle EXCEPT !.at = "looking", !.request = r,
                     !.transactional = t, !.epoch = epoch]
  <1>1. /\ call' = [call EXCEPT ![c] = x] /\ call[c].at = "idle" /\ Filter!Admitting
        /\ UNCHANGED <<FrameVars, receipts, limit, slots, leaked, allowances, marked,
                       volatile, owed>>
        /\ reserved' \subseteq reserved \union {c}
    BY DEF Filter!SeenBegins, Filter!At, Filter!transition, Filter!fixed, Filter!history,
           FrameVars
  <1>2. /\ x.at = "looking" /\ x.slot = FALSE /\ x.epoch = epoch /\ CallSound(x)
    BY DEF FilterInv, FrameInv, FrameTypes, Filter!Idle, CallSound, FilterCalls,
           FilterPlaces, Filter!Operations
  <1>3. call[c].slot = FALSE
    BY <1>1 DEF FilterInv, FrameInv, CallsSound, CallSound, FilterCalls
  <1> HIDE DEF x
  <1>4. StoreTypes' /\ Filter!RetryKept'
    BY <1>1 DEF FilterInv, StoreTypes, Filter!RetryKept
  <1>5. /\ call[c].at \notin FramePlaces \union ForgetPlaces
        /\ x.at \notin FramePlaces \union ForgetPlaces
    BY <1>1, <1>2 DEF FramePlaces, OpenPlaces, ClearPlaces, ReleasePlaces, ForgetPlaces
  <1>6. slots' \in Int /\ slots' - leaked' = slots - leaked
        /\ Cardinality(allowances') + slots' <= limit
    BY <1>1, SlotNumbers
  <1> QED BY <1>1, <1>2, <1>3, <1>4, <1>5, <1>6, WorkStep

\* Before the filter is asked: an allowance is used up and its slot is the call's, or
\* a free slot is reserved, or there is none.
LEMMA LooksUpKeeps ==
  ASSUME FilterInv, NEW c \in Callers, Filter!LooksUp(c)
  PROVE  FilterInv'
  <1> DEFINE f == Filter!PrintOf(c)
  <1>1. /\ call[c].at = "looking"
        /\ UNCHANGED <<FrameVars, receipts, limit, leaked, marked, volatile, reserved>>
    BY DEF Filter!LooksUp, Filter!At, Filter!transition, Filter!fixed, Filter!history,
           Filter!Told, FrameVars
  <1>2. /\ call[c].slot = FALSE /\ ~call[c].kept /\ call[c].epoch = epoch
        /\ call[c] \in FilterCalls /\ CallSound(call[c]) /\ f \in Filter!Prints
        /\ call[c].at \in Filter!Operations
    BY <1>1, PrintKnown DEF FilterInv, FrameInv, CallsSound, CallSound, FilterCalls,
           EpochsCurrent, Filter!Active, Filter!Operations
  <1>3. /\ slots \in Nat /\ leaked \in Nat /\ limit \in Nat
        /\ Cardinality(allowances) \in Nat /\ IsFiniteSet(allowances)
        /\ Cardinality(allowances) + slots <= limit
    BY SlotNumbers
  <1>4. call[c].at \notin FramePlaces \union ForgetPlaces
    BY <1>1 DEF FramePlaces, OpenPlaces, ClearPlaces, ReleasePlaces, ForgetPlaces
  <1> SUFFICES ASSUME NEW s \in {"answering", "probing", "adding"},
                      NEW u \in BOOLEAN, NEW k \in BOOLEAN,
                      call' = [call EXCEPT ![c] =
                                 [call[c] EXCEPT !.at = s, !.slot = u, !.kept = k]],
                      s = "probing" => ~u, s = "adding" => u,
                      s # "answering" => ~k, s = "answering" => (u <=> k),
                      \/ ~u /\ UNCHANGED <<allowances, slots, owed>>
                      \/ u /\ slots' = slots + 1 /\ f \in allowances
                           /\ allowances' = allowances \ {f} /\ owed' = owed \ {f}
                      \/ u /\ slots' = slots + 1 /\ UNCHANGED <<allowances, owed>>
                           /\ Cardinality(allowances) + slots < limit
               PROVE  FilterInv'
    <2> USE <1>1, <1>2 DEF FilterCalls, Filter!Goto, Filter!Told, Filter!history, Filter!SlotFree
    <2>0. call \in [Callers -> FilterCalls]
      BY DEF FilterInv, FrameInv, CallsSound
    <2>1. CASE f \in Filter!Range(volatile)
               /\ Filter!Goto(c, "answering") /\ UNCHANGED <<allowances, slots, Filter!history>>
      BY <2>0, <2>1
    <2>2. CASE /\ f \in allowances
               /\ allowances' = allowances \ {f} /\ slots' = slots + 1
               /\ call' = [call EXCEPT ![c].at = "answering", ![c].slot = TRUE,
                                       ![c].kept = TRUE]
               /\ Filter!Told(f)
      BY <2>0, <2>2
    <2>3. CASE Filter!Goto(c, "probing") /\ UNCHANGED <<allowances, slots, Filter!history>>
      <3>1. call' = [call EXCEPT ![c] =
                       [call[c] EXCEPT !.at = "probing", !.slot = FALSE, !.kept = FALSE]]
        BY <2>0, <2>3
      <3>2. UNCHANGED <<allowances, slots, owed>>
        BY <2>3
      <3> QED BY <3>1, <3>2
    <2>4. CASE /\ Filter!SlotFree /\ slots' = slots + 1
               /\ UNCHANGED <<allowances, Filter!history>>
               /\ call' = [call EXCEPT ![c].at = "adding", ![c].slot = TRUE]
      <3>1. call' = [call EXCEPT ![c] =
                       [call[c] EXCEPT !.at = "adding", !.slot = TRUE, !.kept = FALSE]]
        BY <2>0, <2>4
      <3>2. Cardinality(allowances) + slots < limit
        BY <2>4, FilterCardinality
      <3>3. slots' = slots + 1 /\ UNCHANGED <<allowances, owed>>
        BY <2>4
      <3> QED BY <3>1, <3>2, <3>3
    <2> QED BY <2>1, <2>2, <2>3, <2>4, Zenon DEF Filter!LooksUp
  <1> DEFINE x == [call[c] EXCEPT !.at = s, !.slot = u, !.kept = k]
  <1>5. /\ x.at = s /\ x.slot = u /\ x.epoch = epoch /\ CallSound(x)
        /\ x.at \notin FramePlaces \union ForgetPlaces
    BY <1>2 DEF FilterCalls, CallSound, FilterPlaces, FramePlaces, OpenPlaces, ClearPlaces,
                ReleasePlaces, ForgetPlaces, Filter!Operations
  <1>6. call' = [call EXCEPT ![c] = x]
    OBVIOUS
  <1> HIDE DEF x
  <1>7. /\ IsFiniteSet(allowances') /\ allowances' \subseteq allowances
        /\ Cardinality(allowances') + slots' <= limit /\ slots' \in Nat
    BY <1>3, FS_RemoveElement
  <1>8. Filter!RetryKept'
    BY <1>1 DEF FilterInv, Filter!RetryKept
  <1>9. StoreTypes'
    BY <1>1, <1>7 DEF FilterInv, StoreTypes
  <1>10. \/ x.slot = call[c].slot /\ slots' - leaked' = slots - leaked
         \/ x.slot /\ ~call[c].slot /\ slots' - leaked' = slots - leaked + 1
    <2>1. CASE u
      <3>1. x.slot /\ ~call[c].slot
        BY <1>2, <1>5, <2>1, Zenon
      <3>2. slots' = slots + 1
        BY <2>1, Zenon
      <3>3. slots' - leaked' = slots - leaked + 1
        BY <1>1, <1>3, <3>2
      <3> QED BY <3>1, <3>3
    <2>2. CASE ~u
      <3>1. x.slot = call[c].slot
        BY <1>2, <1>5, <2>2, Zenon
      <3>2. slots' = slots
        BY <2>2, Zenon
      <3> QED BY <1>1, <3>1, <3>2
    <2> QED BY <2>1, <2>2
  <1>11. /\ call[c].at \notin FramePlaces /\ x.at \notin FramePlaces
         /\ call[c].at \notin ForgetPlaces /\ x.at \notin ForgetPlaces
    BY <1>4, <1>5, Zenon
  <1>12. slots' \in Int
    BY <1>7
  <1> QED BY <1>1, <1>2, <1>5, <1>6, <1>7, <1>8, <1>9, <1>10, <1>11, <1>12, WorkStep, Zenon

\* A step inside the filter that gives no slot.
LEMMA AskKeeps ==
  ASSUME FilterInv, NEW c \in Callers, NEW s, CallSound([call[c] EXCEPT !.at = s]),
         call[c].at \in Filter!Operations \ ForgetPlaces,
         s \in Filter!Operations \ ForgetPlaces,
         Filter!Goto(c, s),
         UNCHANGED <<FrameVars, receipts, limit, slots, leaked, allowances>>,
         StoreTypes', Filter!RetryKept'
  PROVE  FilterInv'
  <1> DEFINE x == [call[c] EXCEPT !.at = s]
  <1>1. call' = [call EXCEPT ![c] = x]
    BY MovedCall
  <1>2. /\ x.at = s /\ x.slot = call[c].slot /\ x.epoch = epoch
    BY DEF FilterInv, FrameInv, CallsSound, FilterCalls, EpochsCurrent, Filter!Active
  <1>3. CallSound(x)
    OBVIOUS
  <1> HIDE DEF x
  <1>4. call[c].at \notin FramePlaces /\ x.at \notin FramePlaces
    BY <1>2 DEF FramePlaces, OpenPlaces, ClearPlaces, ReleasePlaces, Filter!Operations
  <1>5. slots' \in Int /\ slots' - leaked' = slots - leaked
        /\ Cardinality(allowances') + slots' <= limit
    BY SlotNumbers
  <1> QED BY <1>1, <1>2, <1>3, <1>4, <1>5, WorkStep

\* Without a slot the filter is only asked.
LEMMA ProbesKeeps ==
  ASSUME FilterInv, NEW c \in Callers, Filter!Probes(c)
  PROVE  FilterInv'
  <1>1. /\ call[c].at = "probing"
        /\ UNCHANGED <<FrameVars, receipts, limit, slots, leaked, allowances, marked,
                       volatile, reserved>>
        /\ owed' \subseteq owed
        /\ \E s \in {"answering", "interrupted"} : Filter!Goto(c, s)
    BY DEF Filter!Probes, Filter!At, Filter!transition, Filter!fixed, Filter!history,
           Filter!ledger, Filter!Told, FrameVars
  <1>2. PICK s \in {"answering", "interrupted"} : Filter!Goto(c, s)
    BY <1>1
  <1>3. CallSound([call[c] EXCEPT !.at = s])
    BY <1>1 DEF FilterInv, FrameInv, CallsSound, CallSound, FilterCalls, FilterPlaces,
                Filter!Operations
  <1>4. StoreTypes' /\ Filter!RetryKept'
    BY <1>1 DEF FilterInv, StoreTypes, Filter!RetryKept
  <1>5. call[c].at \in Filter!Operations \ ForgetPlaces /\ s \in Filter!Operations \ ForgetPlaces
    BY <1>1 DEF Filter!Operations, ForgetPlaces
  <1> QED BY <1>1, <1>2, <1>3, <1>4, <1>5, AskKeeps

\* The marker may have been written by a call that is then interrupted: the call
\* still has its slot.
LEMMA AddInterruptedKeeps ==
  ASSUME FilterInv, NEW c \in Callers, Filter!AddInterrupted(c)
  PROVE  FilterInv'
  <1>1. /\ call[c].at = "adding" /\ Filter!Goto(c, "interrupted")
        /\ UNCHANGED <<FrameVars, receipts, limit, slots, leaked, allowances,
                       volatile, reserved>>
        /\ marked' \subseteq marked \union {Filter!PrintOf(c)}
        /\ owed' = owed \ {Filter!PrintOf(c)}
    BY DEF Filter!AddInterrupted, Filter!At, Filter!transition, Filter!fixed,
           Filter!history, Filter!ledger, Filter!Told, FrameVars
  <1>2. CallSound([call[c] EXCEPT !.at = "interrupted"])
    BY <1>1 DEF FilterInv, FrameInv, CallsSound, CallSound, FilterCalls, FilterPlaces,
                Filter!Operations
  <1>3. Filter!PrintOf(c) \in Filter!Prints
    BY <1>1, PrintKnown DEF Filter!Operations
  <1>4. StoreTypes' /\ Filter!RetryKept'
    BY <1>1, <1>3 DEF FilterInv, StoreTypes, Filter!RetryKept
  <1>5. call[c].at \in Filter!Operations \ ForgetPlaces
        /\ "interrupted" \in Filter!Operations \ ForgetPlaces
    BY <1>1 DEF Filter!Operations, ForgetPlaces
  <1> QED BY <1>1, <1>2, <1>4, <1>5, AskKeeps

\* A call that is interrupted behind the filter keeps its slot, too.
LEMMA AnswerInterruptedKeeps ==
  ASSUME FilterInv, NEW c \in Callers, Filter!AnswerInterrupted(c)
  PROVE  FilterInv'
  <1>1. /\ call[c].at = "answering" /\ Filter!Goto(c, "interrupted")
        /\ UNCHANGED <<FrameVars, receipts, limit, slots, leaked, allowances,
                       volatile, reserved, marked, owed>>
    BY DEF Filter!AnswerInterrupted, Filter!At, Filter!transition, Filter!fixed,
           Filter!history, Filter!ledger, FrameVars
  <1>2. CallSound([call[c] EXCEPT !.at = "interrupted"])
    BY <1>1 DEF FilterInv, FrameInv, CallsSound, CallSound, FilterCalls, FilterPlaces,
                Filter!Operations
  <1>4. StoreTypes' /\ Filter!RetryKept'
    BY <1>1 DEF FilterInv, StoreTypes, Filter!RetryKept
  <1>5. call[c].at \in Filter!Operations \ ForgetPlaces
        /\ "interrupted" \in Filter!Operations \ ForgetPlaces
    BY <1>1 DEF Filter!Operations, ForgetPlaces
  <1> QED BY <1>1, <1>2, <1>4, <1>5, AskKeeps

\* Only a new marker keeps the slot; with any other outcome it is given back.
LEMMA AddsKeeps ==
  ASSUME FilterInv, NEW c \in Callers, Filter!Adds(c)
  PROVE  FilterInv'
  <1> DEFINE f == Filter!PrintOf(c)
  <1>1. /\ call[c].at = "adding"
        /\ UNCHANGED <<FrameVars, receipts, limit, leaked, volatile, reserved, allowances>>
        /\ marked' \subseteq marked \union {f}
        /\ owed' = owed \ {f} \/ UNCHANGED <<marked, owed>>
    BY DEF Filter!Adds, Filter!At, Filter!transition, Filter!fixed, Filter!history,
           Filter!Told, FrameVars
  <1>2. /\ call[c].slot = TRUE /\ ~call[c].kept /\ call[c].epoch = epoch
        /\ call[c] \in FilterCalls /\ CallSound(call[c]) /\ f \in Filter!Prints
        /\ call[c].at \in Filter!Operations
    BY <1>1, PrintKnown DEF FilterInv, FrameInv, CallsSound, CallSound, FilterCalls,
           EpochsCurrent, Filter!Active, Filter!Operations
  <1>3. PICK u \in BOOLEAN :
          /\ call' = [call EXCEPT ![c] =
                        [call[c] EXCEPT !.at = "answering", !.slot = u, !.kept = u]]
          /\ slots' = IF u THEN slots ELSE slots - 1
    <2>0. call \in [Callers -> FilterCalls]
      BY DEF FilterInv, FrameInv, CallsSound
    <2>1. CASE /\ call' = [call EXCEPT ![c].at = "answering", ![c].kept = TRUE]
               /\ UNCHANGED slots
      BY <1>2, <2>0, <2>1 DEF FilterCalls
    <2>2. CASE /\ call' = [call EXCEPT ![c].at = "answering", ![c].slot = FALSE]
               /\ slots' = slots - 1
      BY <1>2, <2>0, <2>2 DEF FilterCalls
    <2> QED BY <2>1, <2>2, Zenon DEF Filter!Adds
  <1> DEFINE x == [call[c] EXCEPT !.at = "answering", !.slot = u, !.kept = u]
  <1>4. /\ x.at = "answering" /\ x.slot = u /\ x.epoch = epoch /\ CallSound(x)
    BY <1>2 DEF FilterCalls, CallSound, FilterPlaces, Filter!Operations
  <1>5. call' = [call EXCEPT ![c] = x]
    BY <1>3
  <1> HIDE DEF x
  <1>6. call[c].at \notin FramePlaces \union ForgetPlaces
        /\ x.at \notin FramePlaces \union ForgetPlaces
    BY <1>1, <1>4 DEF FramePlaces, OpenPlaces, ClearPlaces, ReleasePlaces, ForgetPlaces
  <1>7. StoreTypes' /\ Filter!RetryKept'
    BY <1>1, <1>2 DEF FilterInv, StoreTypes, Filter!RetryKept
  <1>8. /\ slots' \in Int /\ Cardinality(allowances') + slots' <= limit
        /\ \/ x.slot = call[c].slot /\ slots' - leaked' = slots - leaked
           \/ ~x.slot /\ call[c].slot /\ slots' - leaked' = slots - leaked - 1
    <2>1. CASE u
      <3>1. x.slot = call[c].slot
        BY <1>2, <1>4, <2>1, Zenon
      <3>2. slots' = slots
        BY <1>3, <2>1, Zenon
      <3> QED BY <1>1, <3>1, <3>2, SlotNumbers
    <2>2. CASE ~u
      <3>1. ~x.slot /\ call[c].slot
        BY <1>2, <1>4, <2>2, Zenon
      <3>2. slots' = slots - 1
        BY <1>3, <2>2, Zenon
      <3>3. /\ slots' - leaked' = slots - leaked - 1 /\ slots' \in Int
            /\ Cardinality(allowances') + slots' <= limit
        BY <1>1, <3>2, SlotNumbers
      <3> QED BY <3>1, <3>3
    <2> QED BY <2>1, <2>2
  <1> QED BY <1>1, <1>2, <1>4, <1>5, <1>6, <1>7, <1>8, WorkStep

\* A call of the scheduler's protocol, or one without a slot, ends or goes on.
LEMMA EndKeeps ==
  ASSUME FilterInv, NEW c \in Callers,
         NEW x, x \in {Filter!Idle, [call[c] EXCEPT !.at = "holding"]},
         call' = [call EXCEPT ![c] = x],
         call[c].at \in Filter!Operations \union {"holding"}, ~call[c].slot,
         call[c].at \notin ForgetPlaces,
         UNCHANGED <<FrameVars, receipts, limit, slots, leaked, allowances>>,
         StoreTypes', Filter!RetryKept'
  PROVE  FilterInv'
  <1>1. call[c] \in FilterCalls /\ call[c].request \in Requests
    BY DEF FilterInv, FrameInv, CallsSound, CallSound
  <1>2. /\ x.at \in {"idle", "holding"} /\ x.slot = call[c].slot /\ CallSound(x)
    <2>1. CASE x = Filter!Idle
      BY <1>1, <2>1 DEF CallSound, FilterCalls, FilterPlaces, Filter!Idle, Filter!Operations
    <2>2. CASE x = [call[c] EXCEPT !.at = "holding"]
      BY <1>1, <2>2 DEF CallSound, FilterCalls, FilterPlaces, Filter!Operations
    <2> QED BY <2>1, <2>2
  <1>3. /\ call[c].at \notin FramePlaces /\ x.at \notin FramePlaces
        /\ x.at \notin ForgetPlaces /\ x.at \notin Filter!Operations
    BY <1>2 DEF FramePlaces, OpenPlaces, ClearPlaces, ReleasePlaces, ForgetPlaces,
                Filter!Operations
  <1>4. slots' \in Int /\ slots' - leaked' = slots - leaked
        /\ Cardinality(allowances') + slots' <= limit
    BY SlotNumbers
  <1> QED BY <1>2, <1>3, <1>4, WorkStep

\* The decision of the scheduler's protocol has no slot.
LEMMA DecidesKeeps ==
  ASSUME FilterInv, NEW c \in Callers, Filter!Decides(c)
  PROVE  FilterInv'
  <1>1. /\ call[c].at = "looking"
        /\ UNCHANGED <<FrameVars, receipts, limit, slots, leaked, allowances, marked, owed,
                       volatile>>
        /\ reserved' \subseteq reserved
        /\ Filter!Leaves(c) \/ Filter!Goto(c, "holding")
    BY DEF Filter!Decides, Filter!At, Filter!transition, Filter!fixed, Filter!history,
           FrameVars
  <1>2. StoreTypes' /\ Filter!RetryKept'
    BY <1>1 DEF FilterInv, StoreTypes, Filter!RetryKept
  <1>3. call[c].at \in Filter!Operations /\ ~call[c].slot /\ call[c].at \notin ForgetPlaces
    BY <1>1 DEF FilterInv, FrameInv, CallsSound, CallSound, Filter!Operations, ForgetPlaces
  <1>4. PICK x \in {Filter!Idle, [call[c] EXCEPT !.at = "holding"]} :
          call' = [call EXCEPT ![c] = x]
    BY <1>1, MovedCall
  <1> QED BY <1>1, <1>2, <1>3, <1>4, EndKeeps

\* The slot of an interrupted call becomes an allowance, or is leaked.
LEMMA CompensateKeeps ==
  ASSUME FilterInv, NEW c \in Callers, Filter!Compensate(c)
  PROVE  FilterInv'
  <1> DEFINE f == Filter!PrintOf(c)
             x == Filter!Idle
  <1>1. /\ call[c].at = "interrupted" /\ call' = [call EXCEPT ![c] = x]
        /\ UNCHANGED <<FrameVars, receipts, limit, marked, volatile, reserved>>
    BY DEF Filter!Compensate, Filter!At, Filter!transition, Filter!fixed, Filter!Leaves, FrameVars
  <1>2. \/ ~call[c].slot /\ UNCHANGED <<allowances, slots, owed, leaked>>
        \/ call[c].slot /\ leaked' = leaked + 1 /\ UNCHANGED <<allowances, slots, owed>>
        \/ call[c].slot /\ allowances' = allowances \union {f} /\ slots' = slots - 1
             /\ owed' = owed \union {f} /\ UNCHANGED leaked
    BY DEF Filter!Compensate, Filter!Grant, Filter!history
  <1>3. call[c].at \in Filter!Operations /\ call[c].at \notin ForgetPlaces
        /\ call[c].at \notin FramePlaces
    BY <1>1 DEF Filter!Operations, ForgetPlaces, FramePlaces, OpenPlaces, ClearPlaces,
                ReleasePlaces
  <1>4. f \in Filter!Prints
    BY <1>3, PrintKnown
  <1>5. /\ CallSound(x) /\ ~x.slot /\ x.at = "idle"
    BY MovedCall
  <1>6. x.at \notin FramePlaces /\ x.at \notin ForgetPlaces /\ x.at \notin Filter!Operations
    BY <1>5 DEF FramePlaces, OpenPlaces, ClearPlaces, ReleasePlaces, ForgetPlaces,
                Filter!Operations
  <1>7. /\ slots \in Nat /\ leaked \in Nat /\ limit \in Nat
        /\ Cardinality(allowances) \in Nat /\ IsFiniteSet(allowances)
        /\ Cardinality(allowances) + slots <= limit
    BY SlotNumbers
  <1>8. x.slot = FALSE /\ call[c].slot \in BOOLEAN
    BY DEF Filter!Idle, FilterInv, FrameInv, CallsSound, FilterCalls
  <1> HIDE DEF x, f
  <1>9. CASE ~call[c].slot /\ UNCHANGED <<allowances, slots, owed, leaked>>
    <2>1. StoreTypes' /\ Filter!RetryKept'
      BY <1>1, <1>9 DEF FilterInv, StoreTypes, Filter!RetryKept
    <2>2. x.slot = call[c].slot
      BY <1>8, <1>9, Zenon
    <2>3. slots' \in Int /\ slots' - leaked' = slots - leaked
          /\ Cardinality(allowances') + slots' <= limit
      BY <1>7, <1>9
    <2> QED BY <1>1, <1>3, <1>5, <1>6, <2>1, <2>2, <2>3, WorkStep
  <1>10. CASE call[c].slot /\ leaked' = leaked + 1 /\ UNCHANGED <<allowances, slots, owed>>
    <2>1. StoreTypes' /\ Filter!RetryKept'
      BY <1>1, <1>10 DEF FilterInv, StoreTypes, Filter!RetryKept
    <2>2. slots' \in Int /\ slots' - leaked' = slots - leaked - 1
          /\ Cardinality(allowances') + slots' <= limit
      BY <1>7, <1>10
    <2> QED BY <1>1, <1>3, <1>5, <1>6, <1>10, <2>1, <2>2, WorkStep
  <1>11. CASE call[c].slot /\ allowances' = allowances \union {f} /\ slots' = slots - 1
                /\ owed' = owed \union {f} /\ UNCHANGED leaked
    <2>0. /\ IsFiniteSet(allowances') /\ Cardinality(allowances') <= Cardinality(allowances) + 1
          /\ Cardinality(allowances') \in Nat
      BY <1>7, <1>11, AddCounts
    <2>1. StoreTypes' /\ Filter!RetryKept'
      BY <1>1, <1>4, <1>11, <2>0 DEF FilterInv, StoreTypes, Filter!RetryKept
    <2>2. slots' \in Int /\ slots' - leaked' = slots - leaked - 1
          /\ Cardinality(allowances') + slots' <= limit
      BY <1>7, <1>11, <2>0
    <2> QED BY <1>1, <1>3, <1>5, <1>6, <1>11, <2>1, <2>2, WorkStep
  <1> QED BY <1>2, <1>9, <1>10, <1>11

-----------------------------------------------------------------------------
(* The scheduler's protocol. *)

\* A reservation is committed in the epoch it was made in, or not at all.
LEMMA CommitBeginsKeeps ==
  ASSUME FilterInv, NEW c \in Callers, Filter!CommitBegins(c)
  PROVE  FilterInv'
  <1>1. /\ call[c].at = "holding"
        /\ UNCHANGED <<FrameVars, receipts, limit, slots, leaked, allowances, marked, owed,
                       volatile>>
        /\ reserved' \subseteq reserved
        /\ \/ Filter!Leaves(c)
           \/ Filter!Goto(c, "committing") /\ call[c].epoch = epoch /\ Filter!Admitting
    BY DEF Filter!CommitBegins, Filter!At, Filter!transition, Filter!fixed, Filter!history,
           FrameVars, Filter!Current
  <1>2. StoreTypes' /\ Filter!RetryKept'
    BY <1>1 DEF FilterInv, StoreTypes, Filter!RetryKept
  <1>3. ~call[c].slot /\ call[c].at \notin ForgetPlaces
    BY <1>1 DEF FilterInv, FrameInv, CallsSound, CallSound, ForgetPlaces
  <1>4. CASE Filter!Leaves(c)
    <2>1. call' = [call EXCEPT ![c] = Filter!Idle]
      BY <1>4, MovedCall
    <2> QED BY <1>1, <1>2, <1>3, <2>1, EndKeeps
  <1>5. CASE Filter!Goto(c, "committing") /\ call[c].epoch = epoch /\ Filter!Admitting
    <2> DEFINE x == [call[c] EXCEPT !.at = "committing"]
    <2>1. call' = [call EXCEPT ![c] = x]
      BY <1>5, MovedCall
    <2>2. /\ x.at = "committing" /\ x.slot = call[c].slot /\ x.epoch = epoch /\ CallSound(x)
      BY <1>1, <1>5 DEF FilterInv, FrameInv, CallsSound, CallSound, FilterCalls, FilterPlaces,
                        Filter!Operations
    <2> HIDE DEF x
    <2>3. /\ call[c].at \notin FramePlaces /\ x.at \notin FramePlaces
          /\ x.at \notin ForgetPlaces
      BY <1>1, <2>2 DEF FramePlaces, OpenPlaces, ClearPlaces, ReleasePlaces, ForgetPlaces
    <2>4. slots' \in Int /\ slots' - leaked' = slots - leaked
          /\ Cardinality(allowances') + slots' <= limit
      BY <1>1, SlotNumbers
    <2> QED BY <1>1, <1>2, <1>3, <1>5, <2>1, <2>2, <2>3, <2>4, WorkStep
  <1> QED BY <1>1, <1>4, <1>5

\* A commit, of either kind, and a rollback.
LEMMA CommitKeeps ==
  ASSUME FilterInv, NEW c \in Callers,
         Filter!Commits(c) \/ Filter!CommitsVolatile(c) \/ Filter!RollsBack(c)
  PROVE  FilterInv'
  <1> DEFINE f == Filter!PrintOf(c)
  <1>1. /\ call[c].at \in {"holding", "committing"}
        /\ UNCHANGED <<FrameVars, receipts, limit, slots, leaked, allowances>>
        /\ reserved' \subseteq reserved
        /\ Filter!Leaves(c)
        /\ volatile' \in {volatile, Filter!Shadowed(f)}
        /\ \/ UNCHANGED <<marked, owed>>
           \/ marked' \subseteq marked \union {f} /\ owed' = owed \ {f}
    BY DEF Filter!Commits, Filter!CommitsVolatile, Filter!RollsBack, Filter!At,
           Filter!transition, Filter!fixed, Filter!history, FrameVars, Filter!Told
  <1>2. call[c].at \in Filter!Operations \union {"holding"} /\ ~call[c].slot
        /\ call[c].at \notin ForgetPlaces
    BY <1>1 DEF FilterInv, FrameInv, CallsSound, CallSound, Filter!Operations, ForgetPlaces
  <1>3. f \in Filter!Prints
    BY <1>2, PrintKnown
  <1>4. volatile' \in Seq(Filter!Prints) /\ Len(volatile') <= ShadowLimit
    BY <1>1, <1>3, ShadowedKeeps DEF FilterInv, StoreTypes
  <1>5. StoreTypes' /\ Filter!RetryKept'
    BY <1>1, <1>3, <1>4 DEF FilterInv, StoreTypes, Filter!RetryKept
  <1>6. call' = [call EXCEPT ![c] = Filter!Idle]
    BY <1>1, MovedCall
  <1> QED BY <1>1, <1>2, <1>5, <1>6, EndKeeps

-----------------------------------------------------------------------------
(* The boolean protocol: the receipts. *)

\* A step that moves slots between the calls and the receipts.
LEMMA SlotsStep ==
  ASSUME FilterInv, UNCHANGED <<limit, leaked>>, IsFiniteSet(Slotted'),
         IsFiniteSet(SlotReceipts'), slots' \in Int,
         slots' - Cardinality(Slotted') - Cardinality(SlotReceipts')
           = slots - Cardinality(Slotted) - Cardinality(SlotReceipts),
         Cardinality(allowances') + slots' <= limit
  PROVE  SlotsCounted'
  <1>1. /\ Cardinality(Slotted) \in Nat /\ Cardinality(Slotted') \in Nat
        /\ Cardinality(SlotReceipts) \in Nat /\ Cardinality(SlotReceipts') \in Nat
    BY FS_CardinalityType DEF FilterInv, SlotsCounted
  <1>2. slots = Cardinality(Slotted) + Cardinality(SlotReceipts) + leaked
    BY DEF FilterInv, SlotsCounted
  <1>3. leaked \in Nat
    BY DEF FilterInv, StoreTypes
  <1>4. slots' = Cardinality(Slotted') + Cardinality(SlotReceipts') + leaked'
    BY <1>1, <1>2, <1>3
  <1> QED BY <1>4 DEF SlotsCounted

\* A receipt is published with a number of its own.
LEMMA ReceiptFresh ==
  ASSUME ReceiptsOwned, NEW r \in Requests
  PROVE  /\ Filter!Receipt(r) \in FilterReceipts
         /\ \A e \in receipts : e.no < Filter!Receipt(r).no
         /\ Filter!Receipt(r).settler = Nobody /\ Filter!Receipt(r).slot = TRUE
  <1> DEFINE N == {0} \union {e.no : e \in receipts}
  <1>1. N \in SUBSET Nat /\ N # {}
    BY DEF ReceiptsOwned, FilterReceipts
  <1>2. PICK n \in Nat : \A e \in receipts : e.no <= n
    BY DEF ReceiptsOwned
  <1>3. \A y \in N : y <= n
    BY <1>2
  <1>4. Filter!Max(N) \in Nat /\ \A y \in N : y <= Filter!Max(N)
    BY <1>1, <1>3, GreatestOf
  <1>5. \A e \in receipts : e.no \in Nat /\ e.no <= Filter!Max(N)
    BY <1>4 DEF ReceiptsOwned, FilterReceipts
  <1> DEFINE m == Filter!Max(N)
  <1>6. Filter!Receipt(r) = [request |-> r, no |-> 1 + m, by |-> Nobody, settler |-> Nobody,
                             slot |-> TRUE]
    BY DEF Filter!Receipt
  <1>7. m \in Nat /\ \A e \in receipts : e.no \in Nat /\ e.no <= m
    BY <1>4, <1>5
  <1> HIDE DEF m
  <1> QED BY <1>6, <1>7 DEF FilterReceipts

\* The receipt takes over the slot of the call.
LEMMA AnswersKeeps ==
  ASSUME FilterInv, NEW c \in Callers, Filter!Answers(c)
  PROVE  FilterInv'
  <1> DEFINE x == Filter!Idle
             e == Filter!Receipt(call[c].request)
  <1>1. /\ call[c].at = "answering" /\ call' = [call EXCEPT ![c] = x]
        /\ UNCHANGED <<FrameVars, limit, slots, leaked, allowances, marked, owed,
                       volatile, reserved>>
        /\ receipts' = IF call[c].kept THEN receipts \union {e} ELSE receipts
    BY DEF Filter!Answers, Filter!At, Filter!transition, Filter!fixed, Filter!history,
           Filter!Leaves, FrameVars
  <1>2. call[c].at \in Filter!Operations /\ call[c].at \notin ForgetPlaces
        /\ call[c].at \notin FramePlaces
    BY <1>1 DEF Filter!Operations, ForgetPlaces, FramePlaces, OpenPlaces, ClearPlaces,
                ReleasePlaces
  <1>3. /\ (call[c].kept <=> call[c].slot) /\ call[c].request \in Requests
        /\ call[c].slot \in BOOLEAN /\ CallsSound /\ ReceiptsOwned
    BY <1>1, <1>2 DEF FilterInv, FrameInv, CallsSound, CallSound, FilterCalls
  <1>4. StoreTypes' /\ Filter!RetryKept'
    BY <1>1 DEF FilterInv, StoreTypes, Filter!RetryKept
  <1>5. CASE ~call[c].kept
    <2>1. receipts' = receipts /\ ~call[c].slot
      BY <1>1, <1>3, <1>5
    <2> QED BY <1>1, <1>2, <1>4, <2>1, EndKeeps
  <1>6. CASE call[c].kept
    <2>1. /\ CallSound(x) /\ ~x.slot /\ x.at = "idle"
      BY MovedCall
    <2>2. x.at \notin FramePlaces /\ x.at \notin Filter!Operations /\ x.at \notin ForgetPlaces
      BY <2>1 DEF FramePlaces, OpenPlaces, ClearPlaces, ReleasePlaces, Filter!Operations,
                  ForgetPlaces
    <2>3. /\ call'[c] = x /\ \A d \in Callers : d # c => call'[d] = call[d]
      BY <1>1, <1>3, <2>1, CallsMove
    <2> HIDE DEF x
    <2>4. FrameInv'
      BY <1>1, <1>2, <2>1, <2>2, WorkKeeps DEF FilterInv
    <2>5. /\ e \in FilterReceipts /\ \A d \in receipts : d.no < e.no
          /\ e.settler = Nobody /\ e.slot = TRUE
      BY <1>3, ReceiptFresh
    <2> HIDE DEF e
    <2>6. receipts' = receipts \union {e}
      BY <1>1, <1>6
    <2>7. ReceiptsOwned'
      <3>1. receipts' \subseteq FilterReceipts
        BY <1>3, <2>5, <2>6 DEF ReceiptsOwned
      <3>2. \A d \in receipts : d.no \in Nat /\ e.no \in Nat /\ d.no < e.no
        BY <1>3, <2>5 DEF ReceiptsOwned, FilterReceipts
      <3>3. e.no \in Nat /\ \A d \in receipts' : d.no <= e.no
        BY <2>5, <2>6, <3>2 DEF FilterReceipts
      <3>4. \A d, f \in receipts' : d.no = f.no => d = f
        BY <1>3, <2>6, <3>2 DEF ReceiptsOwned
      <3>5. \A d \in receipts : d.settler # Nobody =>
              d.settler \in Callers /\ call'[d.settler] = call[d.settler]
        BY <1>2, <1>3, <2>3 DEF ReceiptsOwned, FilterReceipts
      <3>6. \A d \in receipts' : d.settler = Nobody => d.slot
        BY <1>3, <2>5, <2>6 DEF ReceiptsOwned
      <3>7. \A d, f \in receipts' : d.settler # Nobody /\ d.settler = f.settler => d = f
        BY <1>3, <2>5, <2>6 DEF ReceiptsOwned
      <3>8. \A d \in receipts' : d.settler # Nobody =>
              /\ call'[d.settler].at \in ForgetPlaces /\ call'[d.settler].request = d.request
              /\ call'[d.settler].at # "forgotten" => d.slot
        BY <1>3, <2>5, <2>6, <3>5 DEF ReceiptsOwned
      <3>9. \A d \in Callers : call'[d].at \in {"removing", "granting"} =>
              \E f \in receipts' : f.settler = d
        BY <1>3, <2>1, <2>3, <2>6 DEF ReceiptsOwned
      <3> QED BY <3>1, <3>3, <3>4, <3>6, <3>7, <3>8, <3>9 DEF ReceiptsOwned
    <2>8. /\ IsFiniteSet(Slotted') /\ Cardinality(Slotted') = Cardinality(Slotted) - 1
          /\ Cardinality(Slotted) \in Nat
      BY <1>1, <1>3, <1>6, <2>1, SlottedStep DEF FilterInv, SlotsCounted
    <2>9. /\ IsFiniteSet(SlotReceipts') /\ Cardinality(SlotReceipts) \in Nat
          /\ Cardinality(SlotReceipts') = Cardinality(SlotReceipts) + 1
      <3>1. e \notin receipts
        BY <1>3, <2>5 DEF ReceiptsOwned, FilterReceipts
      <3>2. SlotReceipts' = SlotReceipts \union {e} /\ e \notin SlotReceipts
        BY <2>5, <2>6, <3>1 DEF SlotReceipts
      <3>3. IsFiniteSet(SlotReceipts)
        BY DEF FilterInv, SlotsCounted
      <3> QED BY <3>2, <3>3, FS_AddElement, FS_CardinalityType
    <2>10. slots \in Nat /\ Cardinality(allowances) + slots <= limit
      BY SlotNumbers
    <2>11. SlotsCounted'
      BY <1>1, <2>8, <2>9, <2>10, SlotsStep
    <2> QED BY <1>4, <2>4, <2>7, <2>11 DEF FilterInv
  <1> QED BY <1>5, <1>6

\* A receipt is changed in its owner or its settler only: the others do not notice.
LEMMA ChangedCounts ==
  ASSUME ReceiptsOwned, IsFiniteSet(SlotReceipts), NEW e \in receipts, NEW f \in FilterReceipts,
         f.no = e.no, f.slot = e.slot, Filter!Changed(e, f)
  PROVE  /\ receipts' \subseteq FilterReceipts /\ receipts' = (receipts \ {e}) \union {f}
         /\ \E n \in Nat : \A d \in receipts' : d.no <= n
         /\ \A d, g \in receipts' : d.no = g.no => d = g
         /\ IsFiniteSet(SlotReceipts') /\ Cardinality(SlotReceipts') = Cardinality(SlotReceipts)
  <1>1. receipts' = (receipts \ {e}) \union {f}
    BY DEF Filter!Changed
  <1>2. \A d \in receipts \ {e} : d.no # f.no
    BY DEF ReceiptsOwned
  <1>3. receipts' \subseteq FilterReceipts
    BY <1>1 DEF ReceiptsOwned
  <1>4. \A d, g \in receipts' : d.no = g.no => d = g
    BY <1>1, <1>2 DEF ReceiptsOwned
  <1>5. \E n \in Nat : \A d \in receipts' : d.no <= n
    BY <1>1 DEF ReceiptsOwned
  <1>6. e.slot \in BOOLEAN
    BY DEF ReceiptsOwned, FilterReceipts
  <1>7. CASE e.slot
    <2>1. SlotReceipts' = (SlotReceipts \ {e}) \union {f} /\ e \in SlotReceipts
      BY <1>1, <1>7 DEF SlotReceipts
    <2>2. f \notin SlotReceipts \ {e}
      BY <1>2 DEF SlotReceipts
    <2> QED BY <1>1, <1>3, <1>4, <1>5, <2>1, <2>2, SwapCounts
  <1>8. CASE ~e.slot
    <2>1. SlotReceipts' = SlotReceipts
      BY <1>1, <1>8 DEF SlotReceipts
    <2> QED BY <1>1, <1>3, <1>4, <1>5, <2>1
  <1> QED BY <1>7, <1>8

\* A receipt is handed to a thread, slot included.
LEMMA ConsumesKeeps ==
  ASSUME FilterInv, NEW c \in Callers, NEW r \in Requests, Filter!Consumes(c, r)
  PROVE  FilterInv'
  <1> DEFINE S == Filter!Unsettled(r, Nobody)
             e == Filter!Oldest(S)
             f == [e EXCEPT !.by = c]
  <1>1. /\ S # {} /\ Filter!Changed(e, f)
        /\ UNCHANGED <<FrameVars, call, limit, slots, leaked, allowances, marked, owed,
                       volatile, reserved>>
    BY DEF Filter!Consumes, Filter!transition, Filter!fixed, Filter!history, FrameVars
  <1>2. ReceiptsOwned /\ IsFiniteSet(SlotReceipts) /\ IsFiniteSet(Slotted)
    BY DEF FilterInv, SlotsCounted
  <1>3. e \in S
    BY <1>1, <1>2, OldestIsOne DEF Filter!Unsettled
  <1>4. e \in receipts /\ e.settler = Nobody /\ e \in FilterReceipts
    BY <1>2, <1>3 DEF Filter!Unsettled, ReceiptsOwned
  <1> HIDE DEF S, e
  <1>5. f \in FilterReceipts /\ f.no = e.no /\ f.slot = e.slot /\ f.settler = Nobody
    BY <1>4 DEF FilterReceipts
  <1> HIDE DEF f
  <1>6. /\ receipts' \subseteq FilterReceipts /\ receipts' = (receipts \ {e}) \union {f}
        /\ \E n \in Nat : \A d \in receipts' : d.no <= n
        /\ \A d, g \in receipts' : d.no = g.no => d = g
        /\ IsFiniteSet(SlotReceipts') /\ Cardinality(SlotReceipts') = Cardinality(SlotReceipts)
    BY <1>1, <1>2, <1>4, <1>5, ChangedCounts
  <1>7. ReceiptsOwned'
    <2>1. \A d \in receipts' : d.settler = Nobody => d.slot
      BY <1>2, <1>4, <1>5, <1>6 DEF ReceiptsOwned
    <2>2. \A d, g \in receipts' : d.settler # Nobody /\ d.settler = g.settler => d = g
      BY <1>2, <1>5, <1>6 DEF ReceiptsOwned
    <2>3. \A d \in receipts' : d.settler # Nobody => d \in receipts
      BY <1>5, <1>6
    <2>4. \A d \in Callers : call[d].at \in {"removing", "granting"} =>
              \E g \in receipts' : g.settler = d
      BY <1>2, <1>4, <1>6, NobodyAssumption DEF ReceiptsOwned
    <2> QED BY <1>1, <1>2, <1>6, <2>1, <2>2, <2>3, <2>4 DEF ReceiptsOwned
  <1>8. FrameInv'
    BY <1>1, FrameSame DEF FilterInv
  <1>9. StoreTypes' /\ Filter!RetryKept'
    BY <1>1 DEF FilterInv, StoreTypes, Filter!RetryKept
  <1>10. SlotsCounted'
    BY <1>1, <1>6 DEF FilterInv, SlotsCounted, Slotted
  <1> QED BY <1>7, <1>8, <1>9, <1>10 DEF FilterInv

\* A settled receipt frees its slot.
LEMMA SettlesKeeps ==
  ASSUME FilterInv, NEW c \in Callers, NEW r \in Requests, Filter!Settles(c, r)
  PROVE  FilterInv'
  <1> DEFINE S == Filter!Unsettled(r, c)
             e == Filter!Oldest(S)
  <1>1. /\ S # {} /\ receipts' = receipts \ {e} /\ slots' = slots - 1
        /\ UNCHANGED <<FrameVars, call, limit, leaked, allowances, marked, owed,
                       volatile, reserved>>
    BY DEF Filter!Settles, Filter!transition, Filter!fixed, Filter!history, FrameVars
  <1>2. ReceiptsOwned /\ IsFiniteSet(SlotReceipts) /\ IsFiniteSet(Slotted)
    BY DEF FilterInv, SlotsCounted
  <1>3. e \in S
    BY <1>1, <1>2, OldestIsOne DEF Filter!Unsettled
  <1>4. e \in receipts /\ e.settler = Nobody /\ e.slot
    BY <1>2, <1>3 DEF Filter!Unsettled, ReceiptsOwned
  <1> HIDE DEF S, e
  <1>5. ReceiptsOwned'
    <2>1. receipts' \subseteq receipts
      BY <1>1
    <2>2. \A d \in Callers : call[d].at \in {"removing", "granting"} =>
              \E g \in receipts' : g.settler = d
      BY <1>1, <1>2, <1>4, NobodyAssumption DEF ReceiptsOwned
    <2> QED BY <1>1, <1>2, <2>1, <2>2 DEF ReceiptsOwned
  <1>6. /\ IsFiniteSet(SlotReceipts') /\ Cardinality(SlotReceipts) \in Nat
        /\ Cardinality(SlotReceipts') = Cardinality(SlotReceipts) - 1
    <2>1. SlotReceipts' = SlotReceipts \ {e} /\ e \in SlotReceipts
      BY <1>1, <1>4 DEF SlotReceipts
    <2> QED BY <1>2, <2>1, FS_RemoveElement, FS_CardinalityType
  <1>7. FrameInv'
    BY <1>1, FrameSame DEF FilterInv
  <1>8. StoreTypes' /\ Filter!RetryKept'
    BY <1>1 DEF FilterInv, StoreTypes, Filter!RetryKept
  <1>9. Slotted' = Slotted /\ Cardinality(Slotted) \in Nat
    BY <1>1, <1>2, FS_CardinalityType DEF Slotted
  <1>10. SlotsCounted'
    <2>1. slots \in Nat /\ limit \in Nat /\ Cardinality(allowances) \in Nat
          /\ Cardinality(allowances) + slots <= limit
      BY SlotNumbers
    <2> QED BY <1>1, <1>2, <1>6, <1>9, <2>1, SlotsStep
  <1> QED BY <1>5, <1>7, <1>8, <1>10 DEF FilterInv

\* The receipt is marked as that of the forget, and of no other.
LEMMA ForgetBeginsKeeps ==
  ASSUME FilterInv, NEW c \in Callers, NEW r \in Requests, Filter!ForgetBegins(c, r)
  PROVE  FilterInv'
  <1> DEFINE mine == Filter!Unsettled(r, c)
             open == IF r \in retired THEN {} ELSE Filter!Unsettled(r, Nobody)
             S == IF mine # {} THEN mine ELSE open
             e == Filter!Oldest(S)
             f == [e EXCEPT !.settler = c]
             x == [Filter!Idle EXCEPT !.at = "forgetting", !.request = r, !.epoch = epoch]
  <1>1. /\ mine \union open # {} /\ Filter!Changed(e, f)
        /\ call[c].at = "idle" /\ call' = [call EXCEPT ![c] = x]
        /\ UNCHANGED <<FrameVars, limit, slots, leaked, allowances, marked, owed,
                       volatile, reserved>>
    BY DEF Filter!ForgetBegins, Filter!At, Filter!transition, Filter!fixed, Filter!history,
           FrameVars
  <1>2. ReceiptsOwned /\ IsFiniteSet(SlotReceipts) /\ IsFiniteSet(Slotted) /\ CallsSound
    BY DEF FilterInv, SlotsCounted, FrameInv
  <1>3. S # {} /\ S \subseteq receipts
    BY <1>1 DEF Filter!Unsettled
  <1>4. e \in S
    BY <1>2, <1>3, OldestIsOne
  <1>5. e \in receipts /\ e.settler = Nobody /\ e.request = r /\ e \in FilterReceipts /\ e.slot
    BY <1>2, <1>4 DEF Filter!Unsettled, ReceiptsOwned
  <1> HIDE DEF mine, open, S, e
  <1>6. f \in FilterReceipts /\ f.no = e.no /\ f.slot = e.slot /\ f.settler = c /\ f.request = r
    BY <1>5 DEF FilterReceipts
  <1> HIDE DEF f
  <1>7. /\ receipts' \subseteq FilterReceipts /\ receipts' = (receipts \ {e}) \union {f}
        /\ \E n \in Nat : \A d \in receipts' : d.no <= n
        /\ \A d, g \in receipts' : d.no = g.no => d = g
        /\ IsFiniteSet(SlotReceipts') /\ Cardinality(SlotReceipts') = Cardinality(SlotReceipts)
    BY <1>1, <1>2, <1>5, <1>6, ChangedCounts
  <1>8. /\ x.at = "forgetting" /\ x.request = r /\ x.slot = FALSE /\ CallSound(x)
    BY DEF FilterInv, FrameInv, FrameTypes, Filter!Idle, CallSound, FilterCalls, FilterPlaces,
           Filter!Operations
  <1> HIDE DEF x
  <1>9. call[c].slot = FALSE /\ c # Nobody
    BY <1>1, NobodyAssumption DEF FilterInv, FrameInv, CallsSound, CallSound, FilterCalls
  <1>10. /\ call'[c] = x /\ \A d \in Callers : d # c => call'[d] = call[d]
    BY <1>1, <1>2, <1>8, CallsMove
  <1>11. /\ call[c].at \notin FramePlaces /\ x.at \notin FramePlaces
         /\ x.at \notin Filter!Operations /\ call[c].at \notin ForgetPlaces
    BY <1>1, <1>8 DEF FramePlaces, OpenPlaces, ClearPlaces, ReleasePlaces, Filter!Operations,
                      ForgetPlaces
  <1>12. FrameInv'
    BY <1>1, <1>8, <1>11, WorkKeeps DEF FilterInv
  <1>13. ReceiptsOwned'
    <2>1. \A d \in receipts' : d.settler = Nobody => d.slot
      BY <1>2, <1>6, <1>7, <1>9 DEF ReceiptsOwned
    <2>2. \A d \in receipts : d.settler # c
      BY <1>2, <1>9, <1>11 DEF ReceiptsOwned
    <2>3. \A d, g \in receipts' : d.settler # Nobody /\ d.settler = g.settler => d = g
      BY <1>2, <1>6, <1>7, <2>2 DEF ReceiptsOwned
    <2>4. \A d \in receipts : d.settler # Nobody =>
            d.settler \in Callers /\ call'[d.settler] = call[d.settler]
      BY <1>2, <1>10, <2>2 DEF ReceiptsOwned, FilterReceipts
    <2>5. \A d \in receipts' : d.settler # Nobody =>
            /\ call'[d.settler].at \in ForgetPlaces /\ call'[d.settler].request = d.request
            /\ call'[d.settler].at # "forgotten" => d.slot
      <3> SUFFICES ASSUME NEW d \in receipts', d.settler # Nobody
                   PROVE  /\ call'[d.settler].at \in ForgetPlaces
                          /\ call'[d.settler].request = d.request
                          /\ call'[d.settler].at # "forgotten" => d.slot
        OBVIOUS
      <3>1. CASE d = f
        BY <1>5, <1>6, <1>8, <1>10, <3>1 DEF ForgetPlaces
      <3>2. CASE d # f
        BY <1>2, <1>7, <2>4, <3>2 DEF ReceiptsOwned
      <3> QED BY <3>1, <3>2
    <2>6. \A d \in Callers : call'[d].at \in {"removing", "granting"} =>
              \E g \in receipts' : g.settler = d
      BY <1>2, <1>5, <1>7, <1>8, <1>10, NobodyAssumption DEF ReceiptsOwned
    <2> QED BY <1>7, <2>1, <2>3, <2>5, <2>6 DEF ReceiptsOwned
  <1>14. StoreTypes' /\ Filter!RetryKept'
    BY <1>1 DEF FilterInv, StoreTypes, Filter!RetryKept
  <1>15. SlotsCounted'
    <2>1. IsFiniteSet(Slotted') /\ Cardinality(Slotted') = Cardinality(Slotted)
      BY <1>1, <1>2, <1>8, <1>9, SlottedStep
    <2>2. slots \in Nat /\ Cardinality(allowances) + slots <= limit
      BY SlotNumbers
    <2> QED BY <1>1, <1>7, <2>1, <2>2 DEF FilterInv, SlotsCounted
  <1> QED BY <1>12, <1>13, <1>14, <1>15 DEF FilterInv

\* The receipt a forget is settling, if it still has one.
LEMMA SettlingOne ==
  ASSUME ReceiptsOwned, NEW c \in Callers, NEW e \in Filter!Settling(c)
  PROVE  Filter!Settling(c) = {e} /\ e \in receipts /\ e.settler = c
  BY NobodyAssumption DEF ReceiptsOwned, Filter!Settling

\* With a receipt its slot goes, and with none nothing.
LEMMA DropCounts ==
  ASSUME ReceiptsOwned, IsFiniteSet(SlotReceipts), slots \in Int,
         NEW c \in Callers, Filter!Drops(c)
  PROVE  /\ IsFiniteSet(SlotReceipts') /\ slots' \in Int /\ slots' <= slots
         /\ Cardinality(SlotReceipts) \in Nat /\ Cardinality(SlotReceipts') \in Nat
         /\ slots' - Cardinality(SlotReceipts') = slots - Cardinality(SlotReceipts)
         /\ receipts' = {e \in receipts : e.settler # c}
  <1>1. receipts' = {e \in receipts : e.settler # c}
    BY DEF Filter!Drops, Filter!Settling
  <1>2. Cardinality(SlotReceipts) \in Nat
    BY FS_CardinalityType
  <1>3. CASE \E e \in Filter!Settling(c) : e.slot
    <2>1. PICK e \in Filter!Settling(c) : e.slot
      BY <1>3
    <2>2. Filter!Settling(c) = {e} /\ e \in receipts /\ e.settler = c
      BY SettlingOne
    <2>3. SlotReceipts' = SlotReceipts \ {e} /\ e \in SlotReceipts
      BY <2>1, <2>2 DEF SlotReceipts, Filter!Drops
    <2>4. /\ IsFiniteSet(SlotReceipts')
          /\ Cardinality(SlotReceipts') = Cardinality(SlotReceipts) - 1
      BY <2>3, FS_RemoveElement
    <2>5. Cardinality(SlotReceipts') \in Nat
      BY <2>4, FS_CardinalityType
    <2>6. slots' = slots - 1
      BY <1>3 DEF Filter!Drops
    <2> QED BY <1>1, <1>2, <2>4, <2>5, <2>6
  <1>4. CASE ~ \E e \in Filter!Settling(c) : e.slot
    <2>1. SlotReceipts' = SlotReceipts
      BY <1>4 DEF SlotReceipts, Filter!Drops, Filter!Settling
    <2>2. slots' = slots
      BY <1>4 DEF Filter!Drops
    <2> QED BY <1>1, <1>2, <2>1, <2>2
  <1> QED BY <1>3, <1>4

\* The end of a forget.
LEMMA DropKeeps ==
  ASSUME FilterInv, NEW c \in Callers, call[c].at \in {"forgetting", "forgotten"},
         call' = [call EXCEPT ![c] = Filter!Idle], Filter!Drops(c),
         UNCHANGED <<FrameVars, limit, leaked, allowances, marked, owed, volatile, reserved>>
  PROVE  FilterInv'
  <1> DEFINE x == Filter!Idle
  <1>1. /\ CallSound(x) /\ x.slot = FALSE /\ x.at = "idle" /\ call' = [call EXCEPT ![c] = x]
    BY MovedCall DEF Filter!Idle
  <1> HIDE DEF x
  <1>2. ReceiptsOwned /\ IsFiniteSet(SlotReceipts) /\ IsFiniteSet(Slotted) /\ CallsSound
    BY DEF FilterInv, SlotsCounted, FrameInv
  <1>3. /\ slots \in Int /\ limit \in Int /\ Cardinality(allowances) \in Int
        /\ Cardinality(allowances) + slots <= limit
    BY SlotNumbers
  <1>4. /\ IsFiniteSet(SlotReceipts') /\ slots' \in Int /\ slots' <= slots
        /\ Cardinality(SlotReceipts) \in Nat /\ Cardinality(SlotReceipts') \in Nat
        /\ slots' - Cardinality(SlotReceipts') = slots - Cardinality(SlotReceipts)
        /\ receipts' = {e \in receipts : e.settler # c}
    BY <1>2, <1>3, DropCounts
  <1>5. call[c].slot = FALSE
    BY DEF FilterInv, FrameInv, CallsSound, CallSound, FilterCalls
  <1>6. /\ call'[c] = x /\ \A d \in Callers : d # c => call'[d] = call[d]
    BY <1>1, <1>2, CallsMove
  <1>7. /\ call[c].at \notin FramePlaces /\ x.at \notin FramePlaces
        /\ x.at \notin Filter!Operations
    BY <1>1 DEF FramePlaces, OpenPlaces, ClearPlaces, ReleasePlaces, Filter!Operations
  <1>8. FrameInv'
    BY <1>1, <1>7, WorkKeeps DEF FilterInv
  <1>9. ReceiptsOwned'
    <2>1. \A d \in receipts' : d \in receipts /\ (d.settler # Nobody =>
            d.settler \in Callers /\ call'[d.settler] = call[d.settler])
      BY <1>2, <1>4, <1>6 DEF ReceiptsOwned, FilterReceipts
    <2>2. \A d \in Callers : call'[d].at \in {"removing", "granting"} =>
              \E g \in receipts' : g.settler = d
      BY <1>1, <1>2, <1>4, <1>6 DEF ReceiptsOwned
    <2> QED BY <1>2, <2>1, <2>2 DEF ReceiptsOwned
  <1>10. StoreTypes' /\ Filter!RetryKept'
    BY DEF FilterInv, StoreTypes, Filter!RetryKept
  <1>11. SlotsCounted'
    <2>1. /\ IsFiniteSet(Slotted') /\ Cardinality(Slotted') = Cardinality(Slotted)
          /\ Cardinality(Slotted) \in Nat
      BY <1>1, <1>2, <1>5, SlottedStep
    <2>2. Cardinality(allowances') + slots' <= limit
      BY <1>3, <1>4
    <2> QED BY <1>3, <1>4, <2>1, <2>2, SlotsStep
  <1> QED BY <1>8, <1>9, <1>10, <1>11 DEF FilterInv

\* A forget goes on with the receipt it has.
LEMMA ForgetStep ==
  ASSUME FilterInv, NEW c \in Callers, NEW x, CallSound(x), call' = [call EXCEPT ![c] = x],
         call[c].at \in {"forgetting", "removing"}, x.at \in {"removing", "granting", "forgotten"},
         x.request = call[c].request, x.epoch = epoch,
         call[c].at \in Filter!Operations \/ Filter!Admitting,
         Filter!Settling(c) # {},
         UNCHANGED <<FrameVars, receipts, limit, slots, leaked, allowances>>,
         StoreTypes', Filter!RetryKept'
  PROVE  FilterInv'
  <1>1. /\ call[c].at \notin FramePlaces /\ x.at \notin FramePlaces
        /\ x.slot = FALSE /\ call[c].slot = FALSE
    BY DEF FilterInv, FrameInv, CallsSound, CallSound, FilterCalls, FramePlaces, OpenPlaces,
           ClearPlaces, ReleasePlaces
  <1>2. ReceiptsOwned /\ IsFiniteSet(Slotted) /\ CallsSound
    BY DEF FilterInv, SlotsCounted, FrameInv
  <1>3. /\ call'[c] = x /\ \A d \in Callers : d # c => call'[d] = call[d]
    BY <1>2, CallsMove
  <1>4. FrameInv'
    BY <1>1, WorkKeeps DEF FilterInv
  <1>5. ReceiptsOwned'
    <2>1. \A e \in receipts : e.settler # Nobody =>
            /\ call'[e.settler].at \in ForgetPlaces /\ call'[e.settler].request = e.request
            /\ call'[e.settler].at # "forgotten" => e.slot
      <3> SUFFICES ASSUME NEW e \in receipts, e.settler # Nobody
                   PROVE  /\ call'[e.settler].at \in ForgetPlaces
                          /\ call'[e.settler].request = e.request
                          /\ call'[e.settler].at # "forgotten" => e.slot
        OBVIOUS
      <3>1. e.settler \in Callers
        BY <1>2 DEF ReceiptsOwned, FilterReceipts
      <3>2. CASE e.settler = c
        BY <1>2, <1>3, <3>2 DEF ReceiptsOwned, ForgetPlaces
      <3>3. CASE e.settler # c
        BY <1>2, <1>3, <3>1, <3>3 DEF ReceiptsOwned
      <3> QED BY <3>2, <3>3
    <2>2. \A d \in Callers : call'[d].at \in {"removing", "granting"} =>
              \E e \in receipts : e.settler = d
      BY <1>2, <1>3 DEF ReceiptsOwned, Filter!Settling
    <2> QED BY <1>2, <2>1, <2>2 DEF ReceiptsOwned
  <1>6. SlotsCounted'
    <2>1. IsFiniteSet(Slotted') /\ Cardinality(Slotted') = Cardinality(Slotted)
      BY <1>1, <1>2, SlottedStep
    <2>2. SlotReceipts' = SlotReceipts
      BY DEF SlotReceipts
    <2> QED BY <2>1, <2>2 DEF FilterInv, SlotsCounted
  <1> QED BY <1>4, <1>5, <1>6 DEF FilterInv

\* The forget is admitted with its receipt, or drops it.
LEMMA ForgetAdmittedKeeps ==
  ASSUME FilterInv, NEW c \in Callers, Filter!ForgetAdmitted(c)
  PROVE  FilterInv'
  <1>1. /\ call[c].at = "forgetting"
        /\ UNCHANGED <<FrameVars, limit, leaked, allowances, marked, owed, volatile, reserved>>
    BY DEF Filter!ForgetAdmitted, Filter!At, Filter!transition, Filter!fixed, Filter!history,
           FrameVars
  <1>2. CASE Filter!Leaves(c) /\ Filter!Drops(c)
    <2>1. call' = [call EXCEPT ![c] = Filter!Idle]
      BY <1>2, MovedCall
    <2> QED BY <1>1, <1>2, <2>1, DropKeeps
  <1>3. CASE /\ Filter!Settling(c) # {} /\ Filter!Admitting
             /\ call' = [call EXCEPT ![c].at = "removing", ![c].epoch = epoch]
             /\ UNCHANGED <<receipts, slots>>
    <2> DEFINE x == [call[c] EXCEPT !.at = "removing", !.epoch = epoch]
    <2>1. call \in [Callers -> FilterCalls] /\ call[c].request \in Requests
      BY <1>1, PrintKnown DEF FilterInv, FrameInv, CallsSound
    <2>2. call' = [call EXCEPT ![c] = x]
      BY <1>3, <2>1
    <2>3. /\ x.at = "removing" /\ x.request = call[c].request /\ x.epoch = epoch /\ CallSound(x)
      BY <1>1, <2>1 DEF FilterInv, FrameInv, FrameTypes, CallsSound, CallSound, FilterCalls,
                        FilterPlaces, Filter!Operations
    <2>4. StoreTypes' /\ Filter!RetryKept'
      BY <1>1 DEF FilterInv, StoreTypes, Filter!RetryKept
    <2> HIDE DEF x
    <2> QED BY <1>1, <1>3, <2>2, <2>3, <2>4, ForgetStep
  <1> QED BY <1>2, <1>3 DEF Filter!ForgetAdmitted

\* The marker is gone, or an allowance is to be granted.
LEMMA RemovesKeeps ==
  ASSUME FilterInv, NEW c \in Callers, Filter!Removes(c)
  PROVE  FilterInv'
  <1> DEFINE f == Filter!PrintOf(c)
  <1>1. /\ call[c].at = "removing"
        /\ UNCHANGED <<FrameVars, receipts, limit, slots, leaked, allowances, volatile, reserved>>
        /\ marked' \subseteq marked
        /\ owed' = owed \/ (owed' = owed \union {f} /\ marked' = marked \ {f})
        /\ \E s \in {"forgotten", "granting"} : Filter!Goto(c, s)
    BY DEF Filter!Removes, Filter!At, Filter!transition, Filter!fixed, Filter!history,
           Filter!ledger, FrameVars
  <1>2. PICK s \in {"forgotten", "granting"} : Filter!Goto(c, s)
    BY <1>1
  <1> DEFINE x == [call[c] EXCEPT !.at = s]
  <1>3. call' = [call EXCEPT ![c] = x]
    BY <1>2, MovedCall
  <1>4. /\ x.at = s /\ x.request = call[c].request /\ x.epoch = epoch /\ CallSound(x)
    BY <1>1 DEF FilterInv, FrameInv, CallsSound, CallSound, FilterCalls, FilterPlaces,
                Filter!Operations, EpochsCurrent, Filter!Active
  <1>5. Filter!Settling(c) # {}
    BY <1>1 DEF FilterInv, ReceiptsOwned, Filter!Settling
  <1>6. StoreTypes' /\ Filter!RetryKept'
    BY <1>1 DEF FilterInv, StoreTypes, Filter!RetryKept
  <1>7. call[c].at \in Filter!Operations
    BY <1>1 DEF Filter!Operations
  <1> HIDE DEF x
  <1> QED BY <1>1, <1>3, <1>4, <1>5, <1>6, <1>7, ForgetStep

\* The slot of the receipt becomes the allowance.
LEMMA GrantsKeeps ==
  ASSUME FilterInv, NEW c \in Callers, Filter!Grants(c)
  PROVE  FilterInv'
  <1> DEFINE p == Filter!PrintOf(c)
             x == [call[c] EXCEPT !.at = "forgotten"]
  <1>1. /\ call[c].at = "granting" /\ Filter!Goto(c, "forgotten")
        /\ allowances' = allowances \union {p} /\ slots' = slots - 1
        /\ owed' = owed \union {p}
        /\ receipts' = (receipts \ Filter!Settling(c))
                       \union {[e EXCEPT !.slot = FALSE] : e \in Filter!Settling(c)}
        /\ UNCHANGED <<FrameVars, limit, leaked, marked, volatile, reserved>>
    BY DEF Filter!Grants, Filter!Grant, Filter!At, Filter!transition, Filter!fixed, FrameVars
  <1>2. ReceiptsOwned /\ IsFiniteSet(SlotReceipts) /\ IsFiniteSet(Slotted) /\ CallsSound
    BY DEF FilterInv, SlotsCounted, FrameInv
  <1>3. call' = [call EXCEPT ![c] = x]
    BY <1>1, MovedCall
  <1>4. /\ x.at = "forgotten" /\ x.request = call[c].request /\ x.epoch = epoch /\ CallSound(x)
        /\ x.slot = FALSE /\ call[c].slot = FALSE
    BY <1>1 DEF FilterInv, FrameInv, CallsSound, CallSound, FilterCalls, FilterPlaces,
                Filter!Operations, EpochsCurrent, Filter!Active
  <1> HIDE DEF x
  <1>5. /\ call'[c] = x /\ \A d \in Callers : d # c => call'[d] = call[d]
    BY <1>2, <1>3, <1>4, CallsMove
  <1>6. /\ call[c].at \notin FramePlaces /\ x.at \notin FramePlaces
        /\ call[c].at \in Filter!Operations
    BY <1>1, <1>4 DEF FramePlaces, OpenPlaces, ClearPlaces, ReleasePlaces, Filter!Operations
  <1>7. FrameInv'
    BY <1>1, <1>3, <1>4, <1>6, WorkKeeps DEF FilterInv
  <1>8. PICK e \in receipts : e.settler = c
    BY <1>1, <1>2 DEF ReceiptsOwned
  <1>9. Filter!Settling(c) = {e}
    BY <1>2, <1>8, SettlingOne DEF Filter!Settling
  <1> DEFINE f == [e EXCEPT !.slot = FALSE]
  <1>10. receipts' = (receipts \ {e}) \union {f}
    BY <1>1, <1>9
  <1>11. /\ f \in FilterReceipts /\ f.no = e.no /\ f.slot = FALSE /\ f.settler = c
         /\ f.request = e.request
    BY <1>2, <1>8 DEF ReceiptsOwned, FilterReceipts
  <1>12. e.slot /\ c # Nobody /\ e.request = call[c].request
    BY <1>1, <1>2, <1>8, NobodyAssumption DEF ReceiptsOwned
  <1> HIDE DEF f
  <1>13. ReceiptsOwned'
    <2>1. receipts' \subseteq FilterReceipts
      BY <1>2, <1>10, <1>11 DEF ReceiptsOwned
    <2>2. \E n \in Nat : \A d \in receipts' : d.no <= n
      BY <1>2, <1>10, <1>11 DEF ReceiptsOwned
    <2>3. \A d, g \in receipts' : d.no = g.no => d = g
      BY <1>2, <1>10, <1>11 DEF ReceiptsOwned
    <2>4. \A d \in receipts' : d.settler = Nobody => d.slot
      BY <1>2, <1>10, <1>11, <1>12 DEF ReceiptsOwned
    <2>5. \A d, g \in receipts' : d.settler # Nobody /\ d.settler = g.settler => d = g
      BY <1>2, <1>8, <1>10, <1>11, <1>12 DEF ReceiptsOwned
    <2>6. \A d \in receipts : d.settler # Nobody /\ d # e =>
            d.settler \in Callers /\ call'[d.settler] = call[d.settler]
      BY <1>2, <1>5, <1>8, <1>12 DEF ReceiptsOwned, FilterReceipts
    <2>7. \A d \in receipts' : d.settler # Nobody =>
            /\ call'[d.settler].at \in ForgetPlaces /\ call'[d.settler].request = d.request
            /\ call'[d.settler].at # "forgotten" => d.slot
      <3> SUFFICES ASSUME NEW d \in receipts', d.settler # Nobody
                   PROVE  /\ call'[d.settler].at \in ForgetPlaces
                          /\ call'[d.settler].request = d.request
                          /\ call'[d.settler].at # "forgotten" => d.slot
        OBVIOUS
      <3>1. CASE d = f
        BY <1>4, <1>5, <1>11, <1>12, <3>1 DEF ForgetPlaces
      <3>2. CASE d # f
        BY <1>2, <1>10, <2>6, <3>2 DEF ReceiptsOwned
      <3> QED BY <3>1, <3>2
    <2>8. \A d \in Callers : call'[d].at \in {"removing", "granting"} =>
              \E g \in receipts' : g.settler = d
      BY <1>2, <1>4, <1>5, <1>8, <1>10 DEF ReceiptsOwned
    <2> QED BY <2>1, <2>2, <2>3, <2>4, <2>5, <2>7, <2>8 DEF ReceiptsOwned
  <1>14. /\ IsFiniteSet(SlotReceipts') /\ Cardinality(SlotReceipts) \in Nat
         /\ Cardinality(SlotReceipts') = Cardinality(SlotReceipts) - 1
    <2>1. SlotReceipts' = SlotReceipts \ {e} /\ e \in SlotReceipts
      BY <1>8, <1>10, <1>11, <1>12 DEF SlotReceipts
    <2> QED BY <1>2, <2>1, FS_RemoveElement, FS_CardinalityType
  <1>15. /\ IsFiniteSet(Slotted') /\ Cardinality(Slotted') = Cardinality(Slotted)
         /\ Cardinality(Slotted) \in Nat
    BY <1>2, <1>3, <1>4, SlottedStep
  <1>16. /\ slots \in Nat /\ limit \in Nat /\ Cardinality(allowances) \in Nat
         /\ IsFiniteSet(allowances) /\ Cardinality(allowances) + slots <= limit
    BY SlotNumbers
  <1>17. /\ IsFiniteSet(allowances') /\ Cardinality(allowances') \in Nat
         /\ Cardinality(allowances') <= Cardinality(allowances) + 1
    BY <1>1, <1>16, AddCounts
  <1>18. p \in Filter!Prints
    BY <1>6, PrintKnown
  <1> HIDE DEF p
  <1>19. StoreTypes' /\ Filter!RetryKept'
    BY <1>1, <1>17, <1>18 DEF FilterInv, StoreTypes, Filter!RetryKept
  <1>20. SlotsCounted'
    <2>1. slots' \in Int /\ Cardinality(allowances') + slots' <= limit
      BY <1>1, <1>16, <1>17
    <2>2. slots' - Cardinality(Slotted') - Cardinality(SlotReceipts')
           = slots - Cardinality(Slotted) - Cardinality(SlotReceipts)
      BY <1>1, <1>14, <1>15, <1>16
    <2> QED BY <1>1, <1>14, <1>15, <2>1, <2>2, SlotsStep
  <1> QED BY <1>7, <1>13, <1>19, <1>20 DEF FilterInv

\* What is left of the receipt goes.
LEMMA ForgetEndsKeeps ==
  ASSUME FilterInv, NEW c \in Callers, Filter!ForgetEnds(c)
  PROVE  FilterInv'
  <1>1. /\ call[c].at = "forgotten" /\ Filter!Leaves(c) /\ Filter!Drops(c)
        /\ UNCHANGED <<FrameVars, limit, leaked, allowances, marked, owed, volatile, reserved>>
    BY DEF Filter!ForgetEnds, Filter!At, Filter!transition, Filter!fixed, Filter!history,
           FrameVars
  <1>2. call' = [call EXCEPT ![c] = Filter!Idle]
    BY <1>1, MovedCall
  <1> QED BY <1>1, <1>2, DropKeeps

\* With a Request its receipts go, none of which is being settled.
LEMMA CollectedKeeps ==
  ASSUME FilterInv, NEW r \in Requests, Filter!Collected(r)
  PROVE  FilterInv'
  <1> DEFINE lost == {e \in receipts : e.request = r}
             gone == {e \in lost : e.slot}
  <1>1. /\ \A c \in Callers : call[c].request # r
        /\ receipts' = receipts \ lost /\ slots' = slots - Cardinality(gone)
        /\ UNCHANGED <<FrameVars, call, limit, leaked, allowances, marked, owed, volatile,
                       reserved>>
    BY FilterCardinality DEF Filter!Collected, Filter!transition, Filter!fixed, Filter!history,
           FrameVars
  <1>2. ReceiptsOwned /\ IsFiniteSet(SlotReceipts) /\ IsFiniteSet(Slotted)
    BY DEF FilterInv, SlotsCounted
  <1>3. ReceiptsOwned'
    <2>1. receipts' \subseteq receipts
      BY <1>1
    <2>2. \A d \in Callers : call[d].at \in {"removing", "granting"} =>
              \E g \in receipts' : g.settler = d
      BY <1>1, <1>2, NobodyAssumption DEF ReceiptsOwned
    <2> QED BY <1>1, <1>2, <2>1, <2>2 DEF ReceiptsOwned
  <1>4. FrameInv'
    BY <1>1, FrameSame DEF FilterInv
  <1>5. StoreTypes' /\ Filter!RetryKept'
    BY <1>1 DEF FilterInv, StoreTypes, Filter!RetryKept
  <1>6. /\ SlotReceipts' = SlotReceipts \ gone /\ SlotReceipts \cap gone = gone
    BY <1>1 DEF SlotReceipts
  <1> HIDE DEF gone, lost
  <1>7. /\ IsFiniteSet(SlotReceipts')
        /\ Cardinality(SlotReceipts') = Cardinality(SlotReceipts) - Cardinality(gone)
    <2>1. /\ IsFiniteSet(SlotReceipts \ gone)
          /\ Cardinality(SlotReceipts \ gone)
               = Cardinality(SlotReceipts) - Cardinality(SlotReceipts \cap gone)
      BY <1>2, FS_Difference
    <2>2. SlotReceipts' = SlotReceipts \ gone /\ SlotReceipts \cap gone = gone
      BY <1>6
    <2> QED BY <2>1, <2>2
  <1>8. IsFiniteSet(gone)
    BY <1>2, <1>6, FS_Subset
  <1>9. /\ Cardinality(gone) \in Nat /\ Cardinality(SlotReceipts) \in Nat
        /\ Cardinality(Slotted) \in Nat /\ Slotted' = Slotted
    BY <1>1, <1>2, <1>8, FS_CardinalityType DEF Slotted
  <1>10. SlotsCounted'
    <2>1. /\ slots \in Nat /\ limit \in Nat /\ Cardinality(allowances) \in Nat
          /\ Cardinality(allowances) + slots <= limit
      BY SlotNumbers
    <2>2. slots' \in Int /\ Cardinality(allowances') + slots' <= limit
      BY <1>1, <1>9, <2>1
    <2>3. slots' - Cardinality(Slotted') - Cardinality(SlotReceipts')
           = slots - Cardinality(Slotted) - Cardinality(SlotReceipts)
      BY <1>1, <1>7, <1>9, <2>1
    <2> QED BY <1>1, <1>2, <1>7, <1>9, <2>2, <2>3, SlotsStep
  <1> QED BY <1>3, <1>4, <1>5, <1>10 DEF FilterInv

-----------------------------------------------------------------------------
(* open, clear and release. *)

\* A transition moves outside the calls and the forgets: the slots and the receipts
\* stay, or all of them are reset when nobody is inside.
LEMMA FrameStep ==
  ASSUME FilterInv, FrameInv', UNCHANGED limit,
         NEW c \in Callers, NEW x, CallSound(x), call' = [call EXCEPT ![c] = x],
         call[c].at \in FramePlaces \union {"idle"}, x.at \in FramePlaces \union {"idle"},
         marked' \in {marked, {}},
         \/ UNCHANGED <<volatile, allowances, slots, receipts, reserved, owed, leaked>>
         \/ Filter!Active = {} /\ \E n : Filter!Resets(n)
  PROVE  FilterInv'
  <1>1. /\ call[c].at \notin ForgetPlaces /\ x.at \notin ForgetPlaces
        /\ x.slot = FALSE /\ call[c].slot = FALSE
    BY DEF FilterInv, FrameInv, CallsSound, CallSound, FilterCalls, FramePlaces, OpenPlaces,
           ClearPlaces, ReleasePlaces, ForgetPlaces
  <1>2. ReceiptsOwned /\ IsFiniteSet(Slotted) /\ CallsSound
    BY DEF FilterInv, SlotsCounted, FrameInv
  <1>3. IsFiniteSet(Slotted') /\ Cardinality(Slotted') = Cardinality(Slotted)
    BY <1>1, <1>2, SlottedStep
  <1>4. CASE UNCHANGED <<volatile, allowances, slots, receipts, reserved, owed, leaked>>
    <2>1. StoreTypes' /\ Filter!RetryKept'
      BY <1>4 DEF FilterInv, StoreTypes, Filter!RetryKept
    <2>2. ReceiptsOwned' /\ SlotReceipts' = SlotReceipts
      BY <1>1, <1>2, <1>4, ReceiptsSame
    <2>3. SlotsCounted'
      BY <1>3, <1>4, <2>2 DEF FilterInv, SlotsCounted
    <2> QED BY <2>1, <2>2, <2>3 DEF FilterInv
  <1>5. CASE Filter!Active = {} /\ \E n : Filter!Resets(n)
    <2>1. /\ volatile' = <<>> /\ allowances' = {} /\ slots' = 0 /\ receipts' = {}
          /\ reserved' = {} /\ owed' = {} /\ leaked' = 0
      BY <1>5 DEF Filter!Resets
    <2>2. /\ call'[c] = x /\ \A d \in Callers : d # c => call'[d] = call[d]
      BY <1>2, CallsMove
    <2>3. StoreTypes'
      <3>1. volatile' \in Seq(Filter!Prints) /\ Len(volatile') = 0
        BY <2>1
      <3>2. IsFiniteSet(allowances')
        BY <2>1, FS_EmptySet
      <3> QED BY <2>1, <3>1, <3>2, LimitsAssumption DEF FilterInv, StoreTypes
    <2>4. Filter!RetryKept'
      BY <2>1 DEF Filter!RetryKept
    <2>5. \A d \in Callers : call'[d].at \notin {"removing", "granting"}
      BY <1>1, <1>5, <2>2 DEF Filter!Active, Filter!Operations, ForgetPlaces
    <2>6. ReceiptsOwned'
      BY <2>1, <2>5 DEF ReceiptsOwned
    <2>7. Slotted' = {} /\ SlotReceipts' = {}
      <3>1. \A d \in Callers : d # c => ~call[d].slot
        BY <1>2, <1>5 DEF CallsSound, CallSound, Filter!Active, Filter!Operations
      <3> QED BY <1>1, <2>1, <2>2, <3>1 DEF Slotted, SlotReceipts
    <2>8. SlotsCounted'
      <3>1. limit \in Nat
        BY DEF FilterInv, StoreTypes
      <3> QED BY <2>1, <2>7, <3>1, FS_EmptySet DEF SlotsCounted
    <2> QED BY <2>3, <2>4, <2>6, <2>8 DEF FilterInv
  <1> QED BY <1>4, <1>5

\* What a caller has when it starts a transition or ends one.
LEMMA FrameCalls ==
  ASSUME NEW s \in FramePlaces \union {"idle"}
  PROVE  /\ CallSound([Filter!Idle EXCEPT !.at = s]) /\ [Filter!Idle EXCEPT !.at = s].at = s
         /\ s \notin Filter!Operations /\ s \in FilterPlaces
  BY DEF CallSound, FilterCalls, FilterPlaces, Filter!Idle, Filter!Operations, FramePlaces,
         OpenPlaces, ClearPlaces, ReleasePlaces

\* The same of a caller that goes on within one.
LEMMA FrameGoes ==
  ASSUME FilterInv, NEW c \in Callers, call[c].at \in FramePlaces,
         NEW s \in FramePlaces \union {"idle"}
  PROVE  CallSound([call[c] EXCEPT !.at = s]) /\ [call[c] EXCEPT !.at = s].at = s
  BY FrameCalls DEF FilterInv, FrameInv, CallsSound, CallSound, FilterCalls, FilterPlaces,
         Filter!Operations, FramePlaces, OpenPlaces, ClearPlaces, ReleasePlaces

\* A step of a transition: what is left to show is who holds it.
LEMMA TransitionStep ==
  ASSUME FilterInv, UNCHANGED limit, FrameTypes', FramesHeld',
         NEW c \in Callers, NEW x, CallSound(x), call' = [call EXCEPT ![c] = x],
         call[c].at \in FramePlaces \union {"idle"}, x.at \in FramePlaces \union {"idle"},
         x.at \in {"opening_filter", "clearing_filter", "closing_filter"} =>
           Filter!Active = {},
         reopened => reopened',
         marked' \in {marked, {}},
         \/ UNCHANGED <<epoch, volatile, allowances, slots, receipts, reserved, owed, leaked>>
         \/ Filter!Active = {} /\ \E n : Filter!Resets(n)
  PROVE  FilterInv'
  <1>1. CallsSound /\ x.at \notin Filter!Operations
    BY FrameCalls DEF FilterInv, FrameInv
  <1>2. /\ CallsSound' /\ call'[c] = x
        /\ \A d \in Callers : d # c => call'[d] = call[d]
        /\ \A d \in Filter!Active' : d \in Filter!Active
        /\ c \notin Filter!Active'
    BY <1>1, CallsMove
  <1>3. DrainedFirst'
    BY <1>2 DEF FilterInv, FrameInv, DrainedFirst, Filter!Active
  <1>4. epoch' = epoch \/ Filter!Active = {}
    OBVIOUS
  <1>5. EpochsCurrent'
    BY <1>2, <1>4 DEF FilterInv, FrameInv, EpochsCurrent, Filter!Active
  <1>6. FrameInv'
    BY <1>2, <1>3, <1>5 DEF FrameInv
  <1>7. \/ UNCHANGED <<volatile, allowances, slots, receipts, reserved, owed, leaked>>
        \/ Filter!Active = {} /\ \E n : Filter!Resets(n)
    OBVIOUS
  <1> QED BY <1>6, <1>7, FrameStep

\* An open begins where no transition is under way.
LEMMA OpenBeginsKeeps ==
  ASSUME FilterInv, NEW c \in Callers, Filter!OpenBegins(c)
  PROVE  FilterInv'
  <1> DEFINE x == [Filter!Idle EXCEPT !.at = "open_waits"]
  <1>1. /\ call[c].at = "idle" /\ call' = [call EXCEPT ![c] = x]
        /\ phase = "new" /\ phase' = "opening" /\ opener' = c
        /\ closeRequested' = FALSE
        /\ UNCHANGED <<prior, clearer, releaser, reopened, limit, marked, epoch, volatile,
                       allowances, slots, receipts, reserved, owed, leaked>>
    BY MovedCall DEF Filter!OpenBegins, Filter!At, Filter!Starts, Filter!transition,
       Filter!fixed, Filter!ledger, Filter!history
  <1>2. CallSound(x) /\ x.at = "open_waits"
    BY FrameCalls DEF FramePlaces, OpenPlaces, ClearPlaces, ReleasePlaces
  <1> HIDE DEF x
  <1>3. call'[c] = x /\ \A d \in Callers : d # c => call'[d] = call[d]
    BY <1>1 DEF FilterInv, FrameInv, CallsSound
  <1>5. FrameTypes'
    BY <1>1 DEF FilterInv, FrameInv, FrameTypes, Filter!Phases
  <1>6. FramesHeld'
    BY <1>1, <1>2, <1>3, NobodyAssumption
       DEF FilterInv, FrameInv, FrameTypes, FramesHeld, OpenPlaces, ClearPlaces, ReleasePlaces
  <1>8. /\ call[c].at \in FramePlaces \union {"idle"} /\ x.at \in FramePlaces \union {"idle"}
        /\ x.at \in {"opening_filter", "clearing_filter", "closing_filter"} =>
             Filter!Active = {}
    BY <1>1, <1>2 DEF FramePlaces, OpenPlaces, ClearPlaces, ReleasePlaces
  <1> QED BY <1>1, <1>2, <1>5, <1>6, <1>8, TransitionStep

\* The admitted calls are gone: the receipts of the epoch are reset.
LEMMA OpenDrainedKeeps ==
  ASSUME FilterInv, NEW c \in Callers, Filter!OpenDrained(c)
  PROVE  FilterInv'
  <1> DEFINE x == [call[c] EXCEPT !.at = "opening_filter"]
  <1>1. /\ call[c].at = "open_waits" /\ call' = [call EXCEPT ![c] = x]
        /\ UNCHANGED <<phase, prior, opener, clearer, closeRequested, releaser, reopened,
                       limit, marked>>
        /\ Filter!Active = {} /\ \E n : Filter!Resets(n)
        /\ epoch' = epoch + 1
    BY MovedCall DEF Filter!OpenDrained, Filter!At, Filter!Starts, Filter!transition,
       Filter!fixed, Filter!ledger, Filter!history, Filter!Quiescent, Filter!Resets
  <1>2. CallSound(x) /\ x.at = "opening_filter"
    BY <1>1, FrameGoes DEF FramePlaces, OpenPlaces, ClearPlaces, ReleasePlaces
  <1> HIDE DEF x
  <1>3. call'[c] = x /\ \A d \in Callers : d # c => call'[d] = call[d]
    BY <1>1 DEF FilterInv, FrameInv, CallsSound
  <1>4. epoch \in Nat /\ epoch' \in Nat
    BY <1>1 DEF FilterInv, FrameInv, FrameTypes, Filter!Resets
  <1>5. FrameTypes'
    BY <1>1, <1>4 DEF FilterInv, FrameInv, FrameTypes, Filter!Phases
  <1>6. FramesHeld'
    BY <1>1, <1>2, <1>3, NobodyAssumption
       DEF FilterInv, FrameInv, FrameTypes, FramesHeld, OpenPlaces, ClearPlaces, ReleasePlaces
  <1>8. /\ call[c].at \in FramePlaces \union {"idle"} /\ x.at \in FramePlaces \union {"idle"}
        /\ x.at \in {"opening_filter", "clearing_filter", "closing_filter"} =>
             Filter!Active = {}
    BY <1>1, <1>2 DEF FramePlaces, OpenPlaces, ClearPlaces, ReleasePlaces
  <1> QED BY <1>1, <1>2, <1>5, <1>6, <1>8, TransitionStep

\* The open gives up before the filter was touched.
LEMMA OpenWaitFailsKeeps ==
  ASSUME FilterInv, NEW c \in Callers, Filter!OpenWaitFails(c)
  PROVE  FilterInv'
  <1> DEFINE x == Filter!Idle
  <1>1. /\ call[c].at = "open_waits" /\ call' = [call EXCEPT ![c] = x]
        /\ phase' = "new" /\ opener' = Nobody
        /\ UNCHANGED <<prior, clearer, closeRequested, releaser, reopened, limit, marked,
                       epoch, volatile, allowances, slots, receipts, reserved, owed, leaked>>
    BY MovedCall DEF Filter!OpenWaitFails, Filter!At, Filter!Starts, Filter!transition,
       Filter!fixed, Filter!ledger, Filter!history
  <1>2. CallSound(x) /\ x.at = "idle"
    BY MovedCall
  <1> HIDE DEF x
  <1>3. call'[c] = x /\ \A d \in Callers : d # c => call'[d] = call[d]
    BY <1>1 DEF FilterInv, FrameInv, CallsSound
  <1>5. FrameTypes'
    BY <1>1 DEF FilterInv, FrameInv, FrameTypes, Filter!Phases
  <1>6. FramesHeld'
    BY <1>1, <1>2, <1>3, NobodyAssumption
       DEF FilterInv, FrameInv, FrameTypes, FramesHeld, OpenPlaces, ClearPlaces, ReleasePlaces
  <1>8. /\ call[c].at \in FramePlaces \union {"idle"} /\ x.at \in FramePlaces \union {"idle"}
        /\ x.at \in {"opening_filter", "clearing_filter", "closing_filter"} =>
             Filter!Active = {}
    BY <1>1, <1>2 DEF FramePlaces, OpenPlaces, ClearPlaces, ReleasePlaces
  <1> QED BY <1>1, <1>2, <1>5, <1>6, <1>8, TransitionStep

\* The filter is open, and perhaps cleared.
LEMMA FilterOpensKeeps ==
  ASSUME FilterInv, NEW c \in Callers, Filter!FilterOpens(c)
  PROVE  FilterInv'
  <1> DEFINE x == Filter!Idle
  <1>1. /\ call[c].at = "opening_filter" /\ call' = [call EXCEPT ![c] = x]
        /\ phase' = "open" /\ opener' = Nobody
        /\ UNCHANGED <<prior, clearer, closeRequested, releaser, reopened, limit>>
        /\ marked' \in {marked, {}}
        /\ \/ UNCHANGED <<epoch, volatile, allowances, slots, receipts, reserved, owed, leaked>>
           \/ \E n : n \in {epoch, epoch + 1} /\ Filter!Resets(n)
    BY MovedCall DEF Filter!FilterOpens, Filter!At, Filter!Starts, Filter!transition,
       Filter!fixed, Filter!ledger, Filter!history
  <1>2. CallSound(x) /\ x.at = "idle"
    BY MovedCall
  <1> HIDE DEF x
  <1>3. call'[c] = x /\ \A d \in Callers : d # c => call'[d] = call[d]
    BY <1>1 DEF FilterInv, FrameInv, CallsSound
  <1>4. epoch \in Nat /\ epoch' \in Nat
    BY <1>1 DEF FilterInv, FrameInv, FrameTypes, Filter!Resets
  <1>5. FrameTypes'
    BY <1>1, <1>4 DEF FilterInv, FrameInv, FrameTypes, Filter!Phases
  <1>6. FramesHeld'
    BY <1>1, <1>2, <1>3, NobodyAssumption
       DEF FilterInv, FrameInv, FrameTypes, FramesHeld, OpenPlaces, ClearPlaces, ReleasePlaces
  <1>7. Filter!Active = {}
    BY <1>1 DEF FilterInv, FrameInv, DrainedFirst
  <1>8. /\ call[c].at \in FramePlaces \union {"idle"} /\ x.at \in FramePlaces \union {"idle"}
        /\ x.at \in {"opening_filter", "clearing_filter", "closing_filter"} =>
             Filter!Active = {}
    BY <1>1, <1>2 DEF FramePlaces, OpenPlaces, ClearPlaces, ReleasePlaces
  <1> QED BY <1>1, <1>2, <1>5, <1>6, <1>7, <1>8, TransitionStep

\* An interrupted open leaves its phase behind.
LEMMA OpenAbandonedKeeps ==
  ASSUME FilterInv, NEW c \in Callers, Filter!OpenAbandoned(c)
  PROVE  FilterInv'
  <1> DEFINE x == Filter!Idle
  <1>1. /\ call[c].at = "opening_filter" /\ call' = [call EXCEPT ![c] = x]
        /\ opener' = Nobody
        /\ UNCHANGED <<phase, prior, clearer, closeRequested, releaser, reopened, limit,
                       marked, epoch, volatile, allowances, slots, receipts, reserved, owed,
                       leaked>>
    BY MovedCall DEF Filter!OpenAbandoned, Filter!At, Filter!Starts, Filter!transition,
       Filter!fixed, Filter!ledger, Filter!history
  <1>2. CallSound(x) /\ x.at = "idle"
    BY MovedCall
  <1> HIDE DEF x
  <1>3. call'[c] = x /\ \A d \in Callers : d # c => call'[d] = call[d]
    BY <1>1 DEF FilterInv, FrameInv, CallsSound
  <1>5. FrameTypes'
    BY <1>1 DEF FilterInv, FrameInv, FrameTypes, Filter!Phases
  <1>6. FramesHeld'
    BY <1>1, <1>2, <1>3, NobodyAssumption
       DEF FilterInv, FrameInv, FrameTypes, FramesHeld, OpenPlaces, ClearPlaces, ReleasePlaces
  <1>8. /\ call[c].at \in FramePlaces \union {"idle"} /\ x.at \in FramePlaces \union {"idle"}
        /\ x.at \in {"opening_filter", "clearing_filter", "closing_filter"} =>
             Filter!Active = {}
    BY <1>1, <1>2 DEF FramePlaces, OpenPlaces, ClearPlaces, ReleasePlaces
  <1> QED BY <1>1, <1>2, <1>5, <1>6, <1>8, TransitionStep

\* A clear begins where calls are admitted.
LEMMA ClearBeginsKeeps ==
  ASSUME FilterInv, NEW c \in Callers, Filter!ClearBegins(c)
  PROVE  FilterInv'
  <1> DEFINE x == [Filter!Idle EXCEPT !.at = "clear_waits"]
  <1>1. /\ call[c].at = "idle" /\ call' = [call EXCEPT ![c] = x]
        /\ phase \in {"new", "open"} /\ prior' = phase /\ phase' = "clearing" /\ clearer' = c
        /\ UNCHANGED <<opener, closeRequested, releaser, reopened, limit, marked, epoch,
                       volatile, allowances, slots, receipts, reserved, owed, leaked>>
    BY MovedCall DEF Filter!ClearBegins, Filter!At, Filter!Starts, Filter!transition,
       Filter!fixed, Filter!ledger, Filter!history, Filter!Admitting
  <1>2. CallSound(x) /\ x.at = "clear_waits"
    BY FrameCalls DEF FramePlaces, OpenPlaces, ClearPlaces, ReleasePlaces
  <1> HIDE DEF x
  <1>3. call'[c] = x /\ \A d \in Callers : d # c => call'[d] = call[d]
    BY <1>1 DEF FilterInv, FrameInv, CallsSound
  <1>5. FrameTypes'
    BY <1>1 DEF FilterInv, FrameInv, FrameTypes, Filter!Phases
  <1>6. FramesHeld'
    BY <1>1, <1>2, <1>3, NobodyAssumption
       DEF FilterInv, FrameInv, FrameTypes, FramesHeld, OpenPlaces, ClearPlaces, ReleasePlaces
  <1>8. /\ call[c].at \in FramePlaces \union {"idle"} /\ x.at \in FramePlaces \union {"idle"}
        /\ x.at \in {"opening_filter", "clearing_filter", "closing_filter"} =>
             Filter!Active = {}
    BY <1>1, <1>2 DEF FramePlaces, OpenPlaces, ClearPlaces, ReleasePlaces
  <1> QED BY <1>1, <1>2, <1>5, <1>6, <1>8, TransitionStep

\* The admitted calls are gone, and no other comes.
LEMMA ClearDrainedKeeps ==
  ASSUME FilterInv, NEW c \in Callers, Filter!ClearDrained(c)
  PROVE  FilterInv'
  <1> DEFINE x == [call[c] EXCEPT !.at = "clearing_filter"]
  <1>1. /\ call[c].at = "clear_waits" /\ call' = [call EXCEPT ![c] = x]
        /\ Filter!Active = {}
        /\ UNCHANGED <<phase, prior, opener, clearer, closeRequested, releaser, reopened,
                       limit, marked, epoch, volatile, allowances, slots, receipts, reserved,
                       owed, leaked>>
    BY MovedCall DEF Filter!ClearDrained, Filter!At, Filter!Starts, Filter!transition,
       Filter!fixed, Filter!ledger, Filter!history, Filter!Quiescent
  <1>2. CallSound(x) /\ x.at = "clearing_filter"
    BY <1>1, FrameGoes DEF FramePlaces, OpenPlaces, ClearPlaces, ReleasePlaces
  <1> HIDE DEF x
  <1>3. call'[c] = x /\ \A d \in Callers : d # c => call'[d] = call[d]
    BY <1>1 DEF FilterInv, FrameInv, CallsSound
  <1>5. FrameTypes'
    BY <1>1 DEF FilterInv, FrameInv, FrameTypes, Filter!Phases
  <1>6. FramesHeld'
    BY <1>1, <1>2, <1>3, NobodyAssumption
       DEF FilterInv, FrameInv, FrameTypes, FramesHeld, OpenPlaces, ClearPlaces, ReleasePlaces
  <1>8. /\ call[c].at \in FramePlaces \union {"idle"} /\ x.at \in FramePlaces \union {"idle"}
        /\ x.at \in {"opening_filter", "clearing_filter", "closing_filter"} =>
             Filter!Active = {}
    BY <1>1, <1>2 DEF FramePlaces, OpenPlaces, ClearPlaces, ReleasePlaces
  <1> QED BY <1>1, <1>2, <1>5, <1>6, <1>8, TransitionStep

\* A clear that gives up may undo the closing phase: then it is reopened.
LEMMA ClearWaitFailsKeeps ==
  ASSUME FilterInv, NEW c \in Callers, Filter!ClearWaitFails(c)
  PROVE  FilterInv'
  <1> DEFINE x == Filter!Idle
  <1>1. /\ call[c].at = "clear_waits" /\ call' = [call EXCEPT ![c] = x]
        /\ phase' = prior /\ clearer' = Nobody /\ prior' = "new"
        /\ reopened' = (reopened \/ (phase = "closing" /\ prior # "closing"))
        /\ UNCHANGED <<opener, closeRequested, releaser, limit, marked, epoch, volatile,
                       allowances, slots, receipts, reserved, owed, leaked>>
    BY MovedCall DEF Filter!ClearWaitFails, Filter!At, Filter!Starts, Filter!transition,
       Filter!fixed, Filter!ledger, Filter!history, Filter!Undoes
  <1>2. CallSound(x) /\ x.at = "idle"
    BY MovedCall
  <1> HIDE DEF x
  <1>3. call'[c] = x /\ \A d \in Callers : d # c => call'[d] = call[d]
    BY <1>1 DEF FilterInv, FrameInv, CallsSound
  <1>5. FrameTypes'
    BY <1>1 DEF FilterInv, FrameInv, FrameTypes, Filter!Phases
  <1>6. FramesHeld'
    BY <1>1, <1>2, <1>3, NobodyAssumption
       DEF FilterInv, FrameInv, FrameTypes, FramesHeld, OpenPlaces, ClearPlaces, ReleasePlaces
  <1>8. /\ call[c].at \in FramePlaces \union {"idle"} /\ x.at \in FramePlaces \union {"idle"}
        /\ x.at \in {"opening_filter", "clearing_filter", "closing_filter"} =>
             Filter!Active = {}
    BY <1>1, <1>2 DEF FramePlaces, OpenPlaces, ClearPlaces, ReleasePlaces
  <1> QED BY <1>1, <1>2, <1>5, <1>6, <1>8, TransitionStep

\* The filter is cleared, or it fails.
LEMMA FilterClearsKeeps ==
  ASSUME FilterInv, NEW c \in Callers, Filter!FilterClears(c)
  PROVE  FilterInv'
  <1> DEFINE x == Filter!Idle
  <1>1. /\ call[c].at = "clearing_filter" /\ call' = [call EXCEPT ![c] = x]
        /\ phase' = (IF closeRequested THEN "closing" ELSE prior)
        /\ clearer' = Nobody /\ prior' = "new"
        /\ reopened' = (reopened \/ (phase = "closing" /\ phase' # "closing"))
        /\ UNCHANGED <<opener, closeRequested, releaser, limit>>
        /\ marked' \in {marked, {}}
        /\ \/ UNCHANGED <<epoch, volatile, allowances, slots, receipts, reserved, owed, leaked>>
           \/ \E n : n \in {epoch, epoch + 1} /\ Filter!Resets(n)
    BY MovedCall DEF Filter!FilterClears, Filter!At, Filter!Starts, Filter!transition,
       Filter!fixed, Filter!ledger, Filter!history, Filter!Undoes
  <1>2. CallSound(x) /\ x.at = "idle"
    BY MovedCall
  <1> HIDE DEF x
  <1>3. call'[c] = x /\ \A d \in Callers : d # c => call'[d] = call[d]
    BY <1>1 DEF FilterInv, FrameInv, CallsSound
  <1>4. epoch \in Nat /\ epoch' \in Nat
    BY <1>1 DEF FilterInv, FrameInv, FrameTypes, Filter!Resets
  <1>5. FrameTypes'
    BY <1>1, <1>4 DEF FilterInv, FrameInv, FrameTypes, Filter!Phases
  <1>6. FramesHeld'
    BY <1>1, <1>2, <1>3, NobodyAssumption
       DEF FilterInv, FrameInv, FrameTypes, FramesHeld, OpenPlaces, ClearPlaces, ReleasePlaces
  <1>7. Filter!Active = {}
    BY <1>1 DEF FilterInv, FrameInv, DrainedFirst
  <1>8. /\ call[c].at \in FramePlaces \union {"idle"} /\ x.at \in FramePlaces \union {"idle"}
        /\ x.at \in {"opening_filter", "clearing_filter", "closing_filter"} =>
             Filter!Active = {}
    BY <1>1, <1>2 DEF FramePlaces, OpenPlaces, ClearPlaces, ReleasePlaces
  <1> QED BY <1>1, <1>2, <1>5, <1>6, <1>7, <1>8, TransitionStep

\* A release begins where no other does, and perhaps under a clear.
LEMMA ReleaseBeginsKeeps ==
  ASSUME FilterInv, NEW c \in Callers, NEW o \in Owners, Filter!ReleaseBegins(c, o)
  PROVE  FilterInv'
  <1> DEFINE x == [Filter!Idle EXCEPT !.at = "release_waits"]
  <1>1. /\ call[c].at = "idle" /\ call' = [call EXCEPT ![c] = x]
        /\ opener = Nobody /\ releaser = Nobody /\ releaser' = c
        /\ closeRequested' = (phase = "clearing") /\ phase' = "closing"
        /\ UNCHANGED <<prior, opener, clearer, reopened, limit, marked, epoch, volatile,
                       allowances, slots, receipts, reserved, owed, leaked>>
    BY MovedCall DEF Filter!ReleaseBegins, Filter!At, Filter!Starts, Filter!transition,
       Filter!fixed, Filter!ledger, Filter!history, Filter!MayRelease
  <1>2. CallSound(x) /\ x.at = "release_waits"
    BY FrameCalls DEF FramePlaces, OpenPlaces, ClearPlaces, ReleasePlaces
  <1> HIDE DEF x
  <1>3. call'[c] = x /\ \A d \in Callers : d # c => call'[d] = call[d]
    BY <1>1 DEF FilterInv, FrameInv, CallsSound
  <1>5. FrameTypes'
    BY <1>1 DEF FilterInv, FrameInv, FrameTypes, Filter!Phases
  <1>6. FramesHeld'
    BY <1>1, <1>2, <1>3, NobodyAssumption
       DEF FilterInv, FrameInv, FrameTypes, FramesHeld, OpenPlaces, ClearPlaces, ReleasePlaces
  <1>8. /\ call[c].at \in FramePlaces \union {"idle"} /\ x.at \in FramePlaces \union {"idle"}
        /\ x.at \in {"opening_filter", "clearing_filter", "closing_filter"} =>
             Filter!Active = {}
    BY <1>1, <1>2 DEF FramePlaces, OpenPlaces, ClearPlaces, ReleasePlaces
  <1> QED BY <1>1, <1>2, <1>5, <1>6, <1>8, TransitionStep

\* The clear under way is over.
LEMMA ClearEndedKeeps ==
  ASSUME FilterInv, NEW c \in Callers, Filter!ClearEnded(c)
  PROVE  FilterInv'
  <1> DEFINE x == [call[c] EXCEPT !.at = "release_drains"]
  <1>1. /\ call[c].at = "release_waits" /\ call' = [call EXCEPT ![c] = x]
        /\ clearer = Nobody
        /\ UNCHANGED <<phase, prior, opener, clearer, closeRequested, releaser, reopened,
                       limit, marked, epoch, volatile, allowances, slots, receipts, reserved,
                       owed, leaked>>
    BY MovedCall DEF Filter!ClearEnded, Filter!At, Filter!Starts, Filter!transition,
       Filter!fixed, Filter!ledger, Filter!history
  <1>2. CallSound(x) /\ x.at = "release_drains"
    BY <1>1, FrameGoes DEF FramePlaces, OpenPlaces, ClearPlaces, ReleasePlaces
  <1> HIDE DEF x
  <1>3. call'[c] = x /\ \A d \in Callers : d # c => call'[d] = call[d]
    BY <1>1 DEF FilterInv, FrameInv, CallsSound
  <1>5. FrameTypes'
    BY <1>1 DEF FilterInv, FrameInv, FrameTypes, Filter!Phases
  <1>6. FramesHeld'
    BY <1>1, <1>2, <1>3, NobodyAssumption
       DEF FilterInv, FrameInv, FrameTypes, FramesHeld, OpenPlaces, ClearPlaces, ReleasePlaces
  <1>8. /\ call[c].at \in FramePlaces \union {"idle"} /\ x.at \in FramePlaces \union {"idle"}
        /\ x.at \in {"opening_filter", "clearing_filter", "closing_filter"} =>
             Filter!Active = {}
    BY <1>1, <1>2 DEF FramePlaces, OpenPlaces, ClearPlaces, ReleasePlaces
  <1> QED BY <1>1, <1>2, <1>5, <1>6, <1>8, TransitionStep

\* The admitted calls are gone: the receipts of the last epoch are reset.
LEMMA ReleaseDrainedKeeps ==
  ASSUME FilterInv, NEW c \in Callers, Filter!ReleaseDrained(c)
  PROVE  FilterInv'
  <1> DEFINE x == [call[c] EXCEPT !.at = "closing_filter"]
  <1>1. /\ call[c].at = "release_drains" /\ call' = [call EXCEPT ![c] = x]
        /\ UNCHANGED <<phase, prior, opener, clearer, closeRequested, releaser, reopened,
                       limit, marked>>
        /\ Filter!Active = {} /\ \E n : Filter!Resets(n)
        /\ epoch' = epoch + 1
    BY MovedCall DEF Filter!ReleaseDrained, Filter!At, Filter!Starts, Filter!transition,
       Filter!fixed, Filter!ledger, Filter!history, Filter!Quiescent, Filter!Resets
  <1>2. CallSound(x) /\ x.at = "closing_filter"
    BY <1>1, FrameGoes DEF FramePlaces, OpenPlaces, ClearPlaces, ReleasePlaces
  <1> HIDE DEF x
  <1>3. call'[c] = x /\ \A d \in Callers : d # c => call'[d] = call[d]
    BY <1>1 DEF FilterInv, FrameInv, CallsSound
  <1>4. epoch \in Nat /\ epoch' \in Nat
    BY <1>1 DEF FilterInv, FrameInv, FrameTypes, Filter!Resets
  <1>5. FrameTypes'
    BY <1>1, <1>4 DEF FilterInv, FrameInv, FrameTypes, Filter!Phases
  <1>6. FramesHeld'
    BY <1>1, <1>2, <1>3, NobodyAssumption
       DEF FilterInv, FrameInv, FrameTypes, FramesHeld, OpenPlaces, ClearPlaces, ReleasePlaces
  <1>8. /\ call[c].at \in FramePlaces \union {"idle"} /\ x.at \in FramePlaces \union {"idle"}
        /\ x.at \in {"opening_filter", "clearing_filter", "closing_filter"} =>
             Filter!Active = {}
    BY <1>1, <1>2 DEF FramePlaces, OpenPlaces, ClearPlaces, ReleasePlaces
  <1> QED BY <1>1, <1>2, <1>5, <1>6, <1>8, TransitionStep

\* The release gives up.
LEMMA ReleaseWaitFailsKeeps ==
  ASSUME FilterInv, NEW c \in Callers, Filter!ReleaseWaitFails(c)
  PROVE  FilterInv'
  <1> DEFINE x == Filter!Idle
  <1>1. /\ call[c].at \in {"release_waits", "release_drains"} /\ call' = [call EXCEPT ![c] = x]
        /\ releaser' = Nobody
        /\ UNCHANGED <<phase, prior, opener, clearer, closeRequested, reopened, limit,
                       marked, epoch, volatile, allowances, slots, receipts, reserved, owed,
                       leaked>>
    BY MovedCall DEF Filter!ReleaseWaitFails, Filter!At, Filter!Starts, Filter!transition,
       Filter!fixed, Filter!ledger, Filter!history
  <1>2. CallSound(x) /\ x.at = "idle"
    BY MovedCall
  <1> HIDE DEF x
  <1>3. call'[c] = x /\ \A d \in Callers : d # c => call'[d] = call[d]
    BY <1>1 DEF FilterInv, FrameInv, CallsSound
  <1>5. FrameTypes'
    BY <1>1 DEF FilterInv, FrameInv, FrameTypes, Filter!Phases
  <1>6. FramesHeld'
    BY <1>1, <1>2, <1>3, NobodyAssumption
       DEF FilterInv, FrameInv, FrameTypes, FramesHeld, OpenPlaces, ClearPlaces, ReleasePlaces
  <1>8. /\ call[c].at \in FramePlaces \union {"idle"} /\ x.at \in FramePlaces \union {"idle"}
        /\ x.at \in {"opening_filter", "clearing_filter", "closing_filter"} =>
             Filter!Active = {}
    BY <1>1, <1>2 DEF FramePlaces, OpenPlaces, ClearPlaces, ReleasePlaces
  <1> QED BY <1>1, <1>2, <1>5, <1>6, <1>8, TransitionStep

\* The filter is closed, or what failed is left to the next release.
LEMMA FilterClosesKeeps ==
  ASSUME FilterInv, NEW c \in Callers, Filter!FilterCloses(c)
  PROVE  FilterInv'
  <1> DEFINE x == Filter!Idle
  <1>1. /\ call[c].at = "closing_filter" /\ call' = [call EXCEPT ![c] = x]
        /\ releaser' = Nobody /\ phase' \in {phase, "closed"}
        /\ closeRequested' \in BOOLEAN
        /\ UNCHANGED <<prior, opener, clearer, reopened, limit, marked, epoch, volatile,
                       allowances, slots, receipts, reserved, owed, leaked>>
    BY MovedCall DEF Filter!FilterCloses, Filter!At, Filter!Starts, Filter!transition,
       Filter!fixed, Filter!ledger, Filter!history
  <1>2. CallSound(x) /\ x.at = "idle"
    BY MovedCall
  <1> HIDE DEF x
  <1>3. call'[c] = x /\ \A d \in Callers : d # c => call'[d] = call[d]
    BY <1>1 DEF FilterInv, FrameInv, CallsSound
  <1>5. FrameTypes'
    BY <1>1 DEF FilterInv, FrameInv, FrameTypes, Filter!Phases
  <1>6. FramesHeld'
    BY <1>1, <1>2, <1>3, NobodyAssumption
       DEF FilterInv, FrameInv, FrameTypes, FramesHeld, OpenPlaces, ClearPlaces, ReleasePlaces
  <1>8. /\ call[c].at \in FramePlaces \union {"idle"} /\ x.at \in FramePlaces \union {"idle"}
        /\ x.at \in {"opening_filter", "clearing_filter", "closing_filter"} =>
             Filter!Active = {}
    BY <1>1, <1>2 DEF FramePlaces, OpenPlaces, ClearPlaces, ReleasePlaces
  <1> QED BY <1>1, <1>2, <1>5, <1>6, <1>8, TransitionStep

\* A failed open releases, or leaves.
LEMMA FilterOpenFailsKeeps ==
  ASSUME FilterInv, NEW c \in Callers, Filter!FilterOpenFails(c)
  PROVE  FilterInv'
  <1>1. /\ call[c].at = "opening_filter" /\ opener' = Nobody /\ marked' \in {marked, {}}
        /\ UNCHANGED <<prior, clearer, reopened, limit, epoch, volatile, allowances, slots,
                       receipts, reserved, owed, leaked>>
    BY DEF Filter!FilterOpenFails, Filter!At, Filter!fixed, Filter!ledger, Filter!history
  <1>2. CASE /\ releaser = Nobody /\ releaser' = c /\ closeRequested' = FALSE
             /\ phase' = "closing" /\ Filter!Goto(c, "release_waits")
    <2> DEFINE x == [call[c] EXCEPT !.at = "release_waits"]
    <2>1. call' = [call EXCEPT ![c] = x]
      BY <1>2, MovedCall
    <2>2. CallSound(x) /\ x.at = "release_waits"
      BY <1>1, FrameGoes DEF FramePlaces, OpenPlaces, ReleasePlaces
    <2> HIDE DEF x
    <2>3. call'[c] = x /\ \A d \in Callers : d # c => call'[d] = call[d]
      BY <2>1 DEF FilterInv, FrameInv, CallsSound
    <2>4. FrameTypes'
      BY <1>1, <1>2 DEF FilterInv, FrameInv, FrameTypes, Filter!Phases
    <2>5. FramesHeld'
      BY <1>1, <1>2, <2>2, <2>3, NobodyAssumption
         DEF FilterInv, FrameInv, FrameTypes, FramesHeld, OpenPlaces, ClearPlaces, ReleasePlaces
    <2>6. /\ call[c].at \in FramePlaces \union {"idle"} /\ x.at \in FramePlaces \union {"idle"}
          /\ x.at \notin {"opening_filter", "clearing_filter", "closing_filter"}
      BY <1>1, <2>2 DEF FramePlaces, OpenPlaces, ReleasePlaces
    <2> QED BY <1>1, <2>1, <2>2, <2>4, <2>5, <2>6, TransitionStep
  <1>3. CASE Filter!Leaves(c) /\ UNCHANGED <<phase, releaser, closeRequested>>
    <2> DEFINE x == Filter!Idle
    <2>1. call' = [call EXCEPT ![c] = x] /\ CallSound(x) /\ x.at = "idle"
      BY <1>3, MovedCall
    <2> HIDE DEF x
    <2>3. call'[c] = x /\ \A d \in Callers : d # c => call'[d] = call[d]
      BY <2>1 DEF FilterInv, FrameInv, CallsSound
    <2>4. FrameTypes'
      BY <1>1, <1>3 DEF FilterInv, FrameInv, FrameTypes, Filter!Phases
    <2>5. FramesHeld'
      BY <1>1, <1>3, <2>1, <2>3, NobodyAssumption
         DEF FilterInv, FrameInv, FrameTypes, FramesHeld, OpenPlaces, ClearPlaces, ReleasePlaces
    <2>6. /\ call[c].at \in FramePlaces \union {"idle"} /\ x.at \in FramePlaces \union {"idle"}
          /\ x.at \notin {"opening_filter", "clearing_filter", "closing_filter"}
      BY <1>1, <2>1 DEF FramePlaces, OpenPlaces
    <2> QED BY <1>1, <2>1, <2>4, <2>5, <2>6, TransitionStep
  <1> QED BY <1>2, <1>3 DEF Filter!FilterOpenFails, Filter!MayRelease

-----------------------------------------------------------------------------
\* The steps of a decision.
LEMMA DecisionKeeps ==
  ASSUME FilterInv, NEW c \in Callers, Filter!Decision(c)
  PROVE  FilterInv'
  BY SeenBeginsKeeps, LooksUpKeeps, ProbesKeeps, AddsKeeps, AddInterruptedKeeps, AnswersKeeps,
     AnswerInterruptedKeeps, CompensateKeeps, DecidesKeeps, Zenon DEF Filter!Decision

\* The steps of its settlement.
LEMMA SettlementKeeps ==
  ASSUME FilterInv, NEW c \in Callers, Filter!Settlement(c)
  PROVE  FilterInv'
  BY CommitBeginsKeeps, CommitKeeps, ConsumesKeeps, SettlesKeeps, ForgetBeginsKeeps,
     ForgetAdmittedKeeps, RemovesKeeps, GrantsKeeps, ForgetEndsKeeps, Zenon
  DEF Filter!Settlement

\* The steps of a transition.
LEMMA TransitionKeeps ==
  ASSUME FilterInv, NEW c \in Callers, Filter!Transition(c)
  PROVE  FilterInv'
  BY OpenBeginsKeeps, OpenDrainedKeeps, OpenWaitFailsKeeps, FilterOpensKeeps,
     FilterOpenFailsKeeps, OpenAbandonedKeeps, ClearBeginsKeeps, ClearDrainedKeeps,
     ClearWaitFailsKeeps, FilterClearsKeeps, ReleaseBeginsKeeps, ClearEndedKeeps,
     ReleaseDrainedKeeps, ReleaseWaitFailsKeeps, FilterClosesKeeps, Zenon
  DEF Filter!Transition

\* A step of the delivery core leaves the filter of the model alone.
LEMMA FilterAlone ==
  ASSUME FilterInv, UNCHANGED dupefilterVars
  PROVE  FilterInv'
  <1>1. UNCHANGED <<FrameVars, call, receipts, limit, slots, leaked, allowances, marked, owed,
                    volatile, reserved>>
    BY DEF dupefilterVars, FrameVars
  <1>2. FrameInv'
    BY <1>1, FrameSame DEF FilterInv
  <1>3. StoreTypes' /\ Filter!RetryKept' /\ ReceiptsOwned'
    BY <1>1 DEF FilterInv, StoreTypes, Filter!RetryKept, ReceiptsOwned
  <1>4. Slotted' = Slotted /\ SlotReceipts' = SlotReceipts
    BY <1>1 DEF Slotted, SlotReceipts
  <1>5. SlotsCounted'
    BY <1>1, <1>4 DEF FilterInv, SlotsCounted
  <1> QED BY <1>2, <1>3, <1>5 DEF FilterInv

\* Every step keeps the invariant.
LEMMA FilterInvStep ==
  ASSUME FilterInv, [MCNext]_<<which, vars, dupefilterVars>>
  PROVE  FilterInv'
  <1>1. CASE UNCHANGED dupefilterVars
    BY <1>1, FilterAlone
  <1>2. CASE Filter!Next
    BY <1>2, DecisionKeeps, SettlementKeeps, TransitionKeeps, CollectedKeeps, Zenon
    DEF Filter!Next
  <1>3. UNCHANGED dupefilterVars \/ Filter!Next
    BY DEF MCNext, FilterRests
  <1> QED BY <1>1, <1>2, <1>3

\* It holds of a new filter.
LEMMA FilterInvInit == MCInit => FilterInv
  <1> SUFFICES ASSUME Filter!Init PROVE FilterInv
    BY DEF MCInit
  <1>1. /\ phase = "new" /\ epoch = 0 /\ prior = "new" /\ opener = Nobody /\ clearer = Nobody
        /\ closeRequested = FALSE /\ releaser = Nobody /\ reopened = FALSE
        /\ marked = {} /\ limit \in Limits /\ volatile = <<>> /\ allowances = {} /\ slots = 0
        /\ receipts = {} /\ reserved = {} /\ owed = {} /\ leaked = 0
        /\ call = [c \in Callers |-> Filter!Idle]
    BY DEF Filter!Init
  <1>2. \A c \in Callers : call[c] = Filter!Idle
    BY <1>1
  <1>3. CallSound(Filter!Idle) /\ Filter!Idle \in FilterCalls
    BY DEF CallSound, FilterCalls, FilterPlaces, Filter!Idle, Filter!Operations
  <1>4. /\ Filter!Idle.at = "idle" /\ Filter!Idle.slot = FALSE
    BY DEF Filter!Idle
  <1>5. CallsSound
    BY <1>1, <1>2, <1>3 DEF CallsSound
  <1>6. FrameTypes
    BY <1>1 DEF FrameTypes, Filter!Phases
  <1>7. FramesHeld
    BY <1>1, <1>2, <1>4, NobodyAssumption DEF FramesHeld, OpenPlaces, ClearPlaces, ReleasePlaces
  <1>8. Filter!Active = {}
    BY <1>2, <1>4 DEF Filter!Active, Filter!Operations
  <1>9. FrameInv
    BY <1>5, <1>6, <1>7, <1>8 DEF FrameInv, DrainedFirst, EpochsCurrent
  <1>10. StoreTypes
    <2>1. IsFiniteSet(allowances)
      BY <1>1, FS_EmptySet
    <2>2. volatile \in Seq(Filter!Prints) /\ Len(volatile) = 0
      BY <1>1
    <2> QED BY <1>1, <2>1, <2>2, LimitsAssumption DEF StoreTypes
  <1>11. ReceiptsOwned
    BY <1>1, <1>2, <1>4 DEF ReceiptsOwned
  <1>12. Slotted = {} /\ SlotReceipts = {}
    BY <1>1, <1>2, <1>4 DEF Slotted, SlotReceipts
  <1>13. limit \in Nat
    BY <1>1, LimitsAssumption
  <1>14. SlotsCounted
    BY <1>1, <1>12, <1>13, FS_EmptySet DEF SlotsCounted
  <1> QED BY <1>1, <1>9, <1>10, <1>11, <1>14 DEF FilterInv, Filter!RetryKept

\* The invariant holds for any threads, Requests, fingerprints and limits.
THEOREM FilterInvHolds == MCSpec => []FilterInv
<1>1. MCInit => FilterInv
  BY FilterInvInit
<1>2. FilterInv /\ [MCNext]_<<which, vars, dupefilterVars>> => FilterInv'
  BY FilterInvStep
<1> QED BY <1>1, <1>2, PTL DEF MCSpec

\* What the filter promises follows.
LEMMA FilterInvSound == FilterInv => FilterSound
  <1> SUFFICES ASSUME FilterInv PROVE Filter!FilterSound
    BY DEF FilterSound
  <1>1. Filter!TypeOK
    BY DEF FilterInv, FrameInv, FrameTypes, StoreTypes, Filter!TypeOK
  <1>2. Filter!SlotsAccounted
    <2>1. {c \in Filter!Active : call[c].slot} = Slotted
      BY DEF FilterInv, FrameInv, CallsSound, CallSound, Filter!Active, Filter!Operations,
             Slotted
    <2>2. SlotsCounted
      BY DEF FilterInv
    <2>3. /\ Filter!Cardinality({c \in Filter!Active : call[c].slot}) = Cardinality(Slotted)
          /\ Filter!Cardinality({e \in receipts : e.slot}) = Cardinality(SlotReceipts)
          /\ Filter!Cardinality(allowances) = Cardinality(allowances)
      BY <2>1, FilterCardinality DEF SlotReceipts
    <2> QED BY <2>2, <2>3 DEF SlotsCounted, Filter!SlotsAccounted
  <1>3. Filter!TransitionsAlone
    <2>1. \A c \in Filter!Active : call[c].epoch = epoch
      BY DEF FilterInv, FrameInv, EpochsCurrent
    <2>2. ASSUME ~reopened, NEW c \in Callers,
                 call[c].at \in {"opening_filter", "clearing_filter", "closing_filter"}
          PROVE  /\ Filter!Active = {}
                 /\ \A d \in Callers \ {c} :
                      call[d].at \notin {"opening_filter", "clearing_filter", "closing_filter"}
      <3>1. Filter!Active = {}
        BY <2>2 DEF FilterInv, FrameInv, DrainedFirst
      <3>2. \A d \in Callers \ {c} :
              call[d].at \notin {"opening_filter", "clearing_filter", "closing_filter"}
        BY <2>2, NobodyAssumption
           DEF FilterInv, FrameInv, FramesHeld, OpenPlaces, ClearPlaces, ReleasePlaces
      <3> QED BY <3>1, <3>2
    <2> QED BY <2>1, <2>2 DEF Filter!TransitionsAlone
  <1> QED BY <1>1, <1>2, <1>3 DEF FilterInv, Filter!FilterSound

\* Of one filter, whatever its threads do and however often they are interrupted:
\* a request that went nowhere can be sent again, every slot for a retry allowance
\* is somebody's, and open, clear and close touch the filter under no call
\* (request_seen, forget, clear, release).
THEOREM FilterIsSound == MCSpec => []FilterSound
  BY FilterInvHolds, FilterInvSound, PTL
=============================================================================
