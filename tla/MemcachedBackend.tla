-------------------------- MODULE MemcachedBackend --------------------------
(***************************************************************************)
(* The Memcached storage backend,                                          *)
(* src/scrapy_extension/backends/memcached.py.                             *)
(*                                                                         *)
(* Each thread has a client of its own, made from the published snapshot.  *)
(* A disconnect collects all clients, unpublishes the snapshot, waits for  *)
(* the operations in flight and closes what it collected: the clients of   *)
(* one snapshot are one generation here.                                   *)
(***************************************************************************)
EXTENDS StoreServer

Init == Starts({"none"})

\* One candidate at a time (_connect_lock); the generation is noted.
ConnectBegin(c) ==
  /\ op[c] = Idle /\ ~conn.leaving /\ conn.gen = NoGen /\ ~Connecting
  /\ op' = [op EXCEPT ![c] = [kind |-> "connect", gen |-> NoGen,
                              epoch |-> conn.epoch]]
  /\ UNCHANGED <<conn, broker, hist>>

ConnectDone(c) ==
  /\ op[c].kind = "connect" /\ op[c].epoch = conn.epoch /\ ~conn.leaving
  /\ conn' = [conn EXCEPT !.gen = conn.made + 1, !.made = @ + 1]
  /\ Ends(c)
  /\ UNCHANGED <<broker, hist>>

ConnectDropped(c) ==
  /\ op[c].kind = "connect"
  /\ Ends(c)
  /\ UNCHANGED <<conn, broker, hist>>

DisconnectBegin ==
  /\ ~conn.leaving /\ conn.epoch < MaxDisconnects
  /\ conn' = [conn EXCEPT !.leaving = TRUE, !.epoch = @ + 1,
                          !.retired = conn.gen, !.gen = NoGen]
  /\ UNCHANGED <<broker, op, hist>>

DisconnectEnd ==
  /\ conn.leaving /\ \A c \in Clients : op[c].gen = NoGen
  /\ conn' = [conn EXCEPT !.leaving = FALSE, !.retired = NoGen,
                          !.closed = @ \cup ({conn.retired} \ {NoGen})]
  /\ UNCHANGED <<broker, op, hist>>

\* _operation and _thread_client_locked
Lease(c) ==
  /\ op[c] = Idle /\ ~conn.leaving /\ conn.gen # NoGen
  /\ Leases(c)
  /\ UNCHANGED <<conn, broker, hist>>
-----------------------------------------------------------------------------
Store(c, k, ttl) == Using(c) /\ Writes(k, ttl) /\ Ends(c) /\ UNCHANGED conn
Retrieve(c) == Returns(c)
Delete(c, k) == Using(c) /\ Deletes({k}) /\ Ends(c) /\ UNCHANGED conn
Exists(c) == Returns(c)

\* The whole server is flushed, if the settings allow it; the snapshot is
\* read again, and a disconnect that began meanwhile refuses the flush.
ClearStorage(c) ==
  /\ Using(c) /\ conn.gen = op[c].gen /\ Deletes(Keys)
  /\ Ends(c) /\ UNCHANGED conn

\* The server forgets what has expired, and evicts what it has no room for.
ServerExpires(k) ==
  /\ Present(k) # {}
  /\ Deletes({k})
  /\ UNCHANGED <<conn, op>>
-----------------------------------------------------------------------------
Connections ==
  \/ \E c \in Clients :
       ConnectBegin(c) \/ ConnectDone(c) \/ ConnectDropped(c) \/ Lease(c)
  \/ DisconnectBegin \/ DisconnectEnd

Operations(c) ==
  \/ \E k \in Keys, ttl \in {Never, 1} : Store(c, k, ttl)
  \/ Retrieve(c) \/ Exists(c) \/ ClearStorage(c)
  \/ \E k \in Keys : Delete(c, k)

Next ==
  \/ Connections \/ Tick
  \/ \E c \in Clients : Operations(c)
  \/ \E k \in Keys : ServerExpires(k)
  \/ \E k \in Keys, ttl \in {Never, 1} : OtherStores(k, ttl)

Spec == Init /\ [][Next]_vars
=============================================================================
