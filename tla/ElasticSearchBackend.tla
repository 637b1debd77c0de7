------------------------ MODULE ElasticSearchBackend ------------------------
(***************************************************************************)
(* The Elasticsearch backend,                                              *)
(* src/scrapy_extension/backends/elasticsearch.py.                         *)
(*                                                                         *)
(* connect and disconnect exclude each other with _lifecycle_lock.  The    *)
(* server has no pop: the first document of the queue is searched and then *)
(* deleted with its sequence number, so one of the callers that found it   *)
(* wins and the others search again.                                       *)
(***************************************************************************)
EXTENDS StoreServer

MaxAttempts == 3

Init == Starts({"none"})

ConnectBegin(c) ==
  /\ op[c] = Idle /\ conn.gen = NoGen /\ ~conn.leaving /\ ~Connecting
  /\ op' = [op EXCEPT ![c] = [kind |-> "connect", gen |-> NoGen,
                              epoch |-> conn.epoch, then |-> "idle"]]
  /\ UNCHANGED <<conn, broker, hist>>

\* The candidate answers a ping, its indices exist, and it is published.
ConnectDone(c) ==
  /\ op[c].kind = "connect"
  /\ conn' = [conn EXCEPT !.gen = conn.made + 1, !.made = @ + 1]
  /\ op' = [op EXCEPT ![c] = IF @.then = "idle" THEN Idle
                             ELSE [@ EXCEPT !.kind = "connected"]]
  /\ UNCHANGED <<broker, hist>>

\* _abort_failed_connect closes the candidate.
ConnectFails(c) ==
  /\ op[c].kind = "connect"
  /\ Ends(c)
  /\ UNCHANGED <<conn, broker, hist>>

Lease(c) ==
  /\ op[c] = Idle /\ ~conn.leaving /\ conn.gen # NoGen
  /\ Leases(c)
  /\ UNCHANGED <<conn, broker, hist>>

\* _lease_generation without a generation: it notes the epoch, waits for
\* _lifecycle_lock, and connects unless a disconnect came first.
LeaseWants(c) ==
  /\ op[c] = Idle /\ ~conn.leaving /\ conn.gen = NoGen
  /\ op' = [op EXCEPT ![c] = [kind |-> "wants", gen |-> NoGen,
                              epoch |-> conn.epoch, then |-> "use"]]
  /\ UNCHANGED <<conn, broker, hist>>

LeaseConnects(c) ==
  /\ op[c].kind = "wants" /\ ~Connecting /\ ~conn.leaving
  /\ op' = [op EXCEPT ![c] =
       IF @.epoch # conn.epoch THEN Idle
       ELSE [@ EXCEPT !.kind = IF conn.gen = NoGen THEN "connect"
                               ELSE "connected"]]
  /\ UNCHANGED <<conn, broker, hist>>

\* The lock is free again: a disconnect may have come before the lease.
LeaseFollows(c) ==
  /\ op[c].kind = "connected"
  /\ IF op[c].epoch = conn.epoch /\ ~conn.leaving /\ conn.gen # NoGen
     THEN Leases(c) ELSE Ends(c)
  /\ UNCHANGED <<conn, broker, hist>>

DisconnectBegin ==
  /\ ~conn.leaving /\ ~Connecting /\ conn.epoch < MaxDisconnects
  /\ conn' = [conn EXCEPT !.epoch = @ + 1, !.leaving = TRUE]
  /\ UNCHANGED <<broker, op, hist>>

DisconnectEnd ==
  /\ conn.leaving /\ (conn.gen # NoGen => ~Leased(conn.gen))
  /\ conn' = [conn EXCEPT !.leaving = FALSE, !.gen = NoGen,
                          !.closed = @ \cup ({conn.gen} \ {NoGen})]
  /\ UNCHANGED <<broker, op, hist>>
-----------------------------------------------------------------------------
(* Queue                                                                   *)

Push(c, m, priority, stored) ==
  /\ Using(c) /\ Enqueues(m, priority, stored)
  /\ Ends(c) /\ UNCHANGED conn

\* pop: refresh and search, in one of three attempts.
PopSearches(c, e, attempt) ==
  /\ \/ Using(c) /\ attempt = 1
     \/ op[c].kind = "again" /\ attempt = op[c].attempt
  /\ e \in broker.queue /\ \A x \in broker.queue : x.pri <= e.pri
  /\ op' = [op EXCEPT ![c] = [kind |-> "found", gen |-> @.gen,
                              entry |-> e, attempt |-> attempt]]
  /\ UNCHANGED <<conn, broker, hist>>

PopFindsNothing(c) ==
  /\ Using(c) \/ op[c].kind = "again"
  /\ broker.queue = {}
  /\ Ends(c) /\ UNCHANGED <<conn, broker, hist>>

PopDeletes(c, heard) ==
  /\ op[c].kind = "found" /\ op[c].entry \in broker.queue
  /\ Dequeues(op[c].entry, heard)
  /\ Ends(c) /\ UNCHANGED conn

\* The deletion finds another sequence number or nothing at all.
PopConflicts(c) ==
  /\ op[c].kind = "found" /\ op[c].entry \notin broker.queue
  /\ op' = [op EXCEPT ![c] =
       IF @.attempt = MaxAttempts THEN Idle
       ELSE [kind |-> "again", gen |-> @.gen, attempt |-> @.attempt + 1]]
  /\ UNCHANGED <<conn, broker, hist>>

\* The search or the deletion raises, and nothing was deleted.
PopRaises(c) ==
  /\ op[c].kind \in {"found", "again"}
  /\ Ends(c) /\ UNCHANGED <<conn, broker, hist>>

QueueLen(c) == Returns(c)

\* delete_by_query removes what its refresh showed, or a part of it when it
\* is interrupted.
ClearQueue(c, E) ==
  /\ Using(c)
  /\ broker' = [broker EXCEPT !.queue = @ \ E]
  /\ hist' = [hist EXCEPT !.lost = @ \cup {e.msg : e \in E}]
  /\ Ends(c) /\ UNCHANGED conn
-----------------------------------------------------------------------------
(* Set and storage                                                         *)

\* op_type create makes the indexing of a member a test and set.
Add(c) == Using(c) /\ Adds /\ Ends(c) /\ UNCHANGED conn
Remove(c) == Using(c) /\ Removes /\ Ends(c) /\ UNCHANGED conn
Contains(c) == Returns(c)
SetLen(c) == Returns(c)
ClearSet(c) == Using(c) /\ Removes /\ Ends(c) /\ UNCHANGED conn

Store(c, k, ttl) == Using(c) /\ Writes(k, ttl) /\ Ends(c) /\ UNCHANGED conn

\* A read of an expired document goes on to delete it.
Looks(c, k) ==
  /\ Using(c)
  /\ LET seen == {item \in Present(k) : Expired(item)}
     IN  op' = [op EXCEPT ![c] =
           IF seen = {} THEN Idle
           ELSE [kind |-> "reap", gen |-> @.gen, key |-> k, seen |-> seen]]
  /\ UNCHANGED <<conn, broker, hist>>

Retrieve(c, k) == Looks(c, k)
Exists(c, k) == Looks(c, k)
Ttl(c, k) == Looks(c, k)

\* _lazy_reap_if_expired: the sequence number that was read, or a conflict.
LazyReap(c) ==
  /\ op[c].kind = "reap"
  /\ Reaps(op[c].key, op[c].seen)
  /\ Ends(c) /\ UNCHANGED conn

Delete(c, k) == Using(c) /\ Deletes({k}) /\ Ends(c) /\ UNCHANGED conn
ClearStorage(c, K) == Using(c) /\ Deletes(K) /\ Ends(c) /\ UNCHANGED conn
-----------------------------------------------------------------------------
Connections ==
  \/ \E c \in Clients :
       \/ ConnectBegin(c) \/ ConnectDone(c) \/ ConnectFails(c)
       \/ Lease(c) \/ LeaseWants(c) \/ LeaseConnects(c) \/ LeaseFollows(c)
  \/ DisconnectBegin \/ DisconnectEnd

Operations(c) ==
  \/ \E m \in Messages, priority \in Priorities, stored \in BOOLEAN :
       Push(c, m, priority, stored)
  \/ \E e \in broker.queue, a \in 1..MaxAttempts : PopSearches(c, e, a)
  \/ \E heard \in BOOLEAN : PopDeletes(c, heard)
  \/ PopFindsNothing(c) \/ PopConflicts(c) \/ PopRaises(c) \/ QueueLen(c)
  \/ \E E \in SUBSET broker.queue : ClearQueue(c, E)
  \/ Add(c) \/ Remove(c) \/ Contains(c) \/ SetLen(c) \/ ClearSet(c)
  \/ \E k \in Keys, ttl \in {Never, 1} : Store(c, k, ttl)
  \/ \E k \in Keys : Retrieve(c, k) \/ Exists(c, k) \/ Ttl(c, k) \/ Delete(c, k)
  \/ LazyReap(c)
  \/ \E K \in SUBSET Keys : ClearStorage(c, K)

Next ==
  \/ Connections \/ Tick
  \/ \E c \in Clients : Operations(c)
  \/ \E k \in Keys, ttl \in {Never, 1} : OtherStores(k, ttl)

Spec == Init /\ [][Next]_vars
=============================================================================
