-------------------------- MODULE DynamoDBBackend ---------------------------
(***************************************************************************)
(* The DynamoDB storage backend,                                           *)
(* src/scrapy_extension/backends/dynamodb.py.                              *)
(*                                                                         *)
(* Operations run one at a time under _operation_lock.  A connect builds   *)
(* its candidate without the lock and publishes it only if no disconnect   *)
(* came in between.  clear_storage scans the table and deletes item by     *)
(* item, each under the condition that the scanned revision is still there.*)
(***************************************************************************)
EXTENDS StoreServer

Init == Starts({"none"})

OperationLockFree == \A c \in Clients : op[c].kind \in {"idle", "connect"}

\* connect: refused during a disconnect; one candidate at a time.
ConnectBegin(c) ==
  /\ op[c] = Idle /\ ~conn.leaving /\ conn.gen = NoGen
  /\ ~Connecting /\ OperationLockFree
  /\ op' = [op EXCEPT ![c] = [kind |-> "connect", gen |-> NoGen,
                              epoch |-> conn.epoch]]
  /\ UNCHANGED <<conn, broker, hist>>

ConnectDone(c) ==
  /\ op[c].kind = "connect" /\ OperationLockFree
  /\ op[c].epoch = conn.epoch /\ conn.gen = NoGen /\ ~conn.leaving
  /\ conn' = [conn EXCEPT !.gen = conn.made + 1, !.made = @ + 1]
  /\ Ends(c)
  /\ UNCHANGED <<broker, hist>>

\* The candidate fails, or is fenced, and its resource is closed.
ConnectDropped(c) ==
  /\ op[c].kind = "connect"
  /\ Ends(c)
  /\ UNCHANGED <<conn, broker, hist>>

\* _disconnect_barrier: operations that have not begun are refused.
DisconnectBegin ==
  /\ ~conn.leaving /\ conn.epoch < MaxDisconnects
  /\ conn' = [conn EXCEPT !.leaving = TRUE]
  /\ UNCHANGED <<broker, op, hist>>

DisconnectEnd ==
  /\ conn.leaving /\ OperationLockFree
  /\ conn' = [conn EXCEPT !.leaving = FALSE, !.epoch = @ + 1, !.gen = NoGen,
                          !.closed = @ \cup ({conn.gen} \ {NoGen})]
  /\ UNCHANGED <<broker, op, hist>>

\* _operation
Lease(c) ==
  /\ op[c] = Idle /\ ~conn.leaving /\ conn.gen # NoGen /\ OperationLockFree
  /\ Leases(c)
  /\ UNCHANGED <<conn, broker, hist>>
-----------------------------------------------------------------------------
Store(c, k, ttl) == Using(c) /\ Writes(k, ttl) /\ Ends(c) /\ UNCHANGED conn

Looks(c, k) ==
  /\ Using(c)
  /\ LET seen == {item \in Present(k) : Expired(item)}
     IN  op' = [op EXCEPT ![c] =
           IF seen = {} THEN Idle
           ELSE [kind |-> "reap", gen |-> @.gen, key |-> k, seen |-> seen]]
  /\ UNCHANGED <<conn, broker, hist>>

Retrieve(c, k) == Looks(c, k)
Exists(c, k) == Looks(c, k)
Ttl(c, k) == Looks(c, k)

\* _lazy_reap_if_expired: deletes under the condition on expire_at.
LazyReap(c) ==
  /\ op[c].kind = "reap"
  /\ Reaps(op[c].key, {item \in Present(op[c].key) :
                         \E s \in op[c].seen : item.expires = s.expires})
  /\ Ends(c) /\ UNCHANGED conn

Delete(c, k) == Using(c) /\ Deletes({k}) /\ Ends(c) /\ UNCHANGED conn

\* clear_storage: a page of the scan.
ClearScans(c) ==
  /\ Using(c)
  /\ op' = [op EXCEPT ![c] = [kind |-> "clear", gen |-> @.gen,
                              todo |-> UNION {Present(k) : k \in Keys}]]
  /\ UNCHANGED <<conn, broker, hist>>

\* _delete_clear_item: the revision is still there, and the item goes.
DeleteClearItem(c, item) ==
  /\ op[c].kind = "clear" /\ item \in op[c].todo
  /\ item \in Present(item.key)
  /\ broker' = [broker EXCEPT !.kv[item.key] = @ \ {item}]
  /\ hist' = [hist EXCEPT !.ended = @ \cup {item}]
  /\ op' = [op EXCEPT ![c].todo = @ \ {item}]
  /\ UNCHANGED conn

\* All items are gone; or the condition fails, because of a concurrent write,
\* and the clear raises half-way.
ClearEnds(c) ==
  /\ op[c].kind = "clear"
  /\ op[c].todo = {} \/ \E item \in op[c].todo : item \notin Present(item.key)
  /\ Ends(c) /\ UNCHANGED <<conn, broker, hist>>

ServerExpires(k) ==
  /\ \E item \in Present(k) : Expired(item)
  /\ Reaps(k, Present(k))
  /\ UNCHANGED <<conn, op>>
-----------------------------------------------------------------------------
Connections ==
  \/ \E c \in Clients :
       ConnectBegin(c) \/ ConnectDone(c) \/ ConnectDropped(c) \/ Lease(c)
  \/ DisconnectBegin \/ DisconnectEnd

Operations(c) ==
  \/ \E k \in Keys, ttl \in {Never, 1} : Store(c, k, ttl)
  \/ \E k \in Keys : Retrieve(c, k) \/ Exists(c, k) \/ Ttl(c, k) \/ Delete(c, k)
  \/ LazyReap(c) \/ ClearScans(c) \/ ClearEnds(c)
  \/ \E item \in hist.stored : DeleteClearItem(c, item)

Next ==
  \/ Connections \/ Tick
  \/ \E c \in Clients : Operations(c)
  \/ \E k \in Keys : ServerExpires(k)
  \/ \E k \in Keys, ttl \in {Never, 1} : OtherStores(k, ttl)

Spec == Init /\ [][Next]_vars
=============================================================================
