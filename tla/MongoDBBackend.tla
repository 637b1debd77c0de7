--------------------------- MODULE MongoDBBackend ---------------------------
(***************************************************************************)
(* The MongoDB backend, src/scrapy_extension/backends/mongodb.py.          *)
(*                                                                         *)
(* One thread connects at a time and a disconnect waits for it, so a       *)
(* candidate is published without a check.  A disconnect refuses new       *)
(* leases, waits for the old ones, and only then removes the generation.   *)
(* A read that finds an expired document deletes it: between its two       *)
(* commands another process may have stored the key again.                 *)
(***************************************************************************)
EXTENDS StoreServer

Init == Starts({"none", "ours", "other"})

ConnectBegin(c) ==
  /\ op[c] = Idle /\ conn.gen = NoGen /\ ~conn.leaving /\ ~Connecting
  /\ op' = [op EXCEPT ![c] = [kind |-> "connect", gen |-> NoGen]]
  /\ UNCHANGED <<conn, broker, hist>>

\* The marker of a collection is read, inserted if it is missing, and read
\* again if somebody else's insert came first: one of them claims it.
DomainClaimed ==
  /\ broker.domain # "other"
  /\ broker' = [broker EXCEPT !.domain = "ours"]

ConnectDone(c) ==
  /\ op[c].kind = "connect" /\ DomainClaimed
  /\ conn' = [conn EXCEPT !.gen = conn.made + 1, !.made = @ + 1]
  /\ Ends(c)
  /\ UNCHANGED hist

ConnectFails(c) ==
  /\ op[c].kind = "connect"
  /\ Ends(c)
  /\ UNCHANGED <<conn, broker, hist>>

DisconnectBegin ==
  /\ ~conn.leaving /\ ~Connecting /\ conn.epoch < MaxDisconnects
  /\ conn' = [conn EXCEPT !.epoch = @ + 1, !.leaving = TRUE]
  /\ UNCHANGED <<broker, op, hist>>

DisconnectEnd ==
  /\ conn.leaving /\ \A c \in Clients : op[c] = Idle
  /\ conn' = [conn EXCEPT !.leaving = FALSE, !.gen = NoGen,
                          !.closed = @ \cup ({conn.gen} \ {NoGen})]
  /\ UNCHANGED <<broker, op, hist>>

\* _lease_generation: refused while disconnecting or not connected.
Lease(c) ==
  /\ op[c] = Idle /\ ~conn.leaving /\ conn.gen # NoGen
  /\ Leases(c)
  /\ UNCHANGED <<conn, broker, hist>>
-----------------------------------------------------------------------------
(* Queue and set                                                           *)

Push(c, m, priority, stored) ==
  /\ Using(c) /\ Enqueues(m, priority, stored)
  /\ Ends(c) /\ UNCHANGED conn

\* find_one_and_delete: the highest priority first; two documents of one
\* priority may carry the same created_at.
Pop(c, e, heard) ==
  /\ Using(c) /\ e \in broker.queue
  /\ \A x \in broker.queue : x.pri <= e.pri
  /\ Dequeues(e, heard)
  /\ Ends(c) /\ UNCHANGED conn

PopEmpty(c) == broker.queue = {} /\ Returns(c)
QueueLen(c) == Returns(c)
ClearQueue(c) == Using(c) /\ ClearsQueue /\ Ends(c) /\ UNCHANGED conn

\* The unique index makes the insert a test and set.
Add(c) == Using(c) /\ Adds /\ Ends(c) /\ UNCHANGED conn
Remove(c) == Using(c) /\ Removes /\ Ends(c) /\ UNCHANGED conn
Contains(c) == Returns(c)
SetLen(c) == Returns(c)
ClearSet(c) == Using(c) /\ Removes /\ Ends(c) /\ UNCHANGED conn
-----------------------------------------------------------------------------
(* Storage                                                                 *)

Store(c, k, ttl) == Using(c) /\ Writes(k, ttl) /\ Ends(c) /\ UNCHANGED conn

\* The first command of a read: an expired document is reaped next, under
\* the same lease; any other answer ends the read.
Looks(c, k) ==
  /\ Using(c)
  /\ LET seen == {item \in Present(k) : Expired(item)}
     IN  op' = [op EXCEPT ![c] =
           IF seen = {} THEN Idle
           ELSE [kind |-> "reap", gen |-> @.gen, key |-> k, seen |-> seen]]
  /\ UNCHANGED <<conn, broker, hist>>

Retrieve(c, k) == Looks(c, k)
Exists(c, k) == Looks(c, k)
Ttl(c, k) == Looks(c, k)

\* Mutant: the reaper deletes the key, whatever it holds by now.
LazyReapAny(c) ==
  /\ op[c].kind = "reap"
  /\ Reaps(op[c].key, Present(op[c].key))
  /\ Ends(c) /\ UNCHANGED conn

\* _lazy_reap_expired_storage: only a document with the expiry that was seen
\* is deleted; a failure of the deletion is swallowed.
LazyReap(c) ==
  /\ op[c].kind = "reap"
  /\ Reaps(op[c].key, {item \in Present(op[c].key) :
                         \E s \in op[c].seen : item.expires = s.expires})
  /\ Ends(c) /\ UNCHANGED conn

Delete(c, k) == Using(c) /\ Deletes({k}) /\ Ends(c) /\ UNCHANGED conn
ClearStorage(c, K) == Using(c) /\ Deletes(K) /\ Ends(c) /\ UNCHANGED conn

\* The TTL index of the server.
ServerExpires(k) ==
  /\ \E item \in Present(k) : Expired(item)
  /\ Reaps(k, Present(k))
  /\ UNCHANGED <<conn, op>>
-----------------------------------------------------------------------------
Connections ==
  \/ \E c \in Clients : ConnectBegin(c) \/ ConnectDone(c) \/ ConnectFails(c)
  \/ DisconnectBegin \/ DisconnectEnd
  \/ \E c \in Clients : Lease(c)

Operations(c) ==
  \/ \E m \in Messages, priority \in Priorities, stored \in BOOLEAN :
       Push(c, m, priority, stored)
  \/ \E e \in broker.queue, heard \in BOOLEAN : Pop(c, e, heard)
  \/ PopEmpty(c) \/ QueueLen(c) \/ ClearQueue(c)
  \/ Add(c) \/ Remove(c) \/ Contains(c) \/ SetLen(c) \/ ClearSet(c)
  \/ \E k \in Keys, ttl \in {Never, 1} : Store(c, k, ttl)
  \/ \E k \in Keys : Retrieve(c, k) \/ Exists(c, k) \/ Ttl(c, k) \/ Delete(c, k)
  \/ LazyReap(c)
  \/ \E K \in SUBSET Keys : ClearStorage(c, K)

Next ==
  \/ Connections \/ Tick
  \/ \E c \in Clients : Operations(c)
  \/ \E k \in Keys : ServerExpires(k)
  \/ \E k \in Keys, ttl \in {Never, 1} : OtherStores(k, ttl)

Spec == Init /\ [][Next]_vars
=============================================================================
