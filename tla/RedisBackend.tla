---------------------------- MODULE RedisBackend ----------------------------
(***************************************************************************)
(* The Redis backend, src/scrapy_extension/backends/redis.py.              *)
(*                                                                         *)
(* An operation that finds no generation connects first.  A disconnect     *)
(* removes the generation at once, which wakes the pops that wait in it,   *)
(* and closes its client when the leases have ended.  Each queue operation *)
(* is one script of the server: it cannot be interleaved, but its answer   *)
(* may be lost, and is not asked for again.                                *)
(***************************************************************************)
EXTENDS StoreServer

Init == Starts({"none"})

\* connect, and the first half of an operation without a generation (then is
\* "use"): the epoch is noted, and checked when the candidate is published.
ConnectBegin(c, then) ==
  /\ op[c] = Idle /\ conn.gen = NoGen /\ ~conn.leaving
  /\ op' = [op EXCEPT ![c] = [kind |-> "connect", gen |-> NoGen,
                              epoch |-> conn.epoch, then |-> then]]
  /\ UNCHANGED <<conn, broker, hist>>

Continues(c, gen) ==
  op' = [op EXCEPT ![c] = IF @.then = "idle" THEN Idle
                          ELSE [kind |-> @.then, gen |-> gen]]

\* The candidate is published unless the connection changed meanwhile.
ConnectDone(c) ==
  /\ op[c].kind = "connect" /\ op[c].epoch = conn.epoch
  /\ ~conn.leaving /\ conn.gen = NoGen
  /\ conn' = [conn EXCEPT !.gen = conn.made + 1, !.made = @ + 1]
  /\ Continues(c, conn.made + 1)
  /\ UNCHANGED <<broker, hist>>

\* Another thread connected first: its generation is used.
ConnectJoins(c) ==
  /\ op[c].kind = "connect" /\ op[c].epoch = conn.epoch
  /\ ~conn.leaving /\ conn.gen # NoGen
  /\ Continues(c, conn.gen)
  /\ UNCHANGED <<conn, broker, hist>>

\* The candidate failed or was cancelled, and its handles are closed.
ConnectAborted(c) ==
  /\ op[c].kind = "connect"
  /\ Ends(c)
  /\ UNCHANGED <<conn, broker, hist>>

DisconnectBegin ==
  /\ ~conn.leaving /\ conn.epoch < MaxDisconnects
  /\ conn' = [conn EXCEPT !.epoch = @ + 1, !.leaving = TRUE,
                          !.retired = conn.gen, !.gen = NoGen]
  /\ UNCHANGED <<broker, op, hist>>

\* Mutant: the client is closed under the operations that still use it.
DisconnectEndAtOnce ==
  /\ conn.leaving
  /\ conn' = [conn EXCEPT !.leaving = FALSE, !.retired = NoGen,
                          !.closed = @ \cup ({conn.retired} \ {NoGen})]
  /\ UNCHANGED <<broker, op, hist>>

DisconnectEnd ==
  /\ conn.leaving /\ (conn.retired # NoGen => ~Leased(conn.retired))
  /\ conn' = [conn EXCEPT !.leaving = FALSE, !.retired = NoGen,
                          !.closed = @ \cup ({conn.retired} \ {NoGen})]
  /\ UNCHANGED <<broker, op, hist>>

Lease(c) ==
  /\ op[c] = Idle /\ ~conn.leaving /\ conn.gen # NoGen
  /\ Leases(c)
  /\ UNCHANGED <<conn, broker, hist>>
-----------------------------------------------------------------------------
(* Queue                                                                   *)

\* The order of the sorted set: the negated priority, then the counter.
First(e) ==
  \A x \in broker.queue :
    x.pri < e.pri \/ (x.pri = e.pri /\ x.seq >= e.seq)

Push(c, m, priority, stored) ==
  /\ Using(c) /\ Enqueues(m, priority, stored)
  /\ Ends(c) /\ UNCHANGED conn

\* Mutant: a pop whose answer is lost is sent again.
PopReplayed(c, e, heard) ==
  /\ Using(c) /\ e \in broker.queue /\ First(e)
  /\ broker' = [broker EXCEPT !.queue = @ \ {e}]
  /\ hist' = IF heard THEN [hist EXCEPT !.given[e.msg] = @ + 1] ELSE hist
  /\ IF heard THEN Ends(c) ELSE UNCHANGED op
  /\ UNCHANGED conn

\* The script takes the first entry and its payload.
Pop(c, e, heard) ==
  /\ Using(c) /\ e \in broker.queue /\ First(e)
  /\ Dequeues(e, heard)
  /\ Ends(c) /\ UNCHANGED conn

\* An empty queue: the pop returns nothing, polls again until its time is
\* over, or raises because the generation was retired.
PopEmpty(c) == broker.queue = {} /\ Returns(c)

ClearQueue(c) == Using(c) /\ ClearsQueue /\ Ends(c) /\ UNCHANGED conn

\* queue_len, contains, set_len, retrieve, exists and ttl are one command.
QueueLen(c) == Returns(c)
Contains(c) == Returns(c)
SetLen(c) == Returns(c)
Retrieve(c) == Returns(c)
Exists(c) == Returns(c)
Ttl(c) == Returns(c)
-----------------------------------------------------------------------------
(* Set and storage                                                         *)

Add(c) == Using(c) /\ Adds /\ Ends(c) /\ UNCHANGED conn
Remove(c) == Using(c) /\ Removes /\ Ends(c) /\ UNCHANGED conn
ClearSet(c) == Using(c) /\ Removes /\ Ends(c) /\ UNCHANGED conn

Store(c, k, ttl) == Using(c) /\ Writes(k, ttl) /\ Ends(c) /\ UNCHANGED conn
Delete(c, k) == Using(c) /\ Deletes({k}) /\ Ends(c) /\ UNCHANGED conn

\* The server forgets what has expired by itself.
ServerExpires(k) ==
  /\ \E item \in Present(k) : Expired(item)
  /\ Reaps(k, Present(k))
  /\ UNCHANGED <<conn, op>>

\* clear_storage deletes the keys of a scan and may stop half-way; a key is
\* deleted with whatever it holds then.
ClearStorage(c, K) == Using(c) /\ Deletes(K) /\ Ends(c) /\ UNCHANGED conn
-----------------------------------------------------------------------------
Connections ==
  \/ \E c \in Clients, then \in {"use", "idle"} : ConnectBegin(c, then)
  \/ \E c \in Clients : ConnectDone(c) \/ ConnectJoins(c) \/ ConnectAborted(c)
  \/ DisconnectBegin \/ DisconnectEnd
  \/ \E c \in Clients : Lease(c)

Reads(c) ==
  QueueLen(c) \/ Contains(c) \/ SetLen(c) \/ Retrieve(c) \/ Exists(c) \/ Ttl(c)

Operations(c) ==
  \/ \E m \in Messages, priority \in Priorities, stored \in BOOLEAN :
       Push(c, m, priority, stored)
  \/ \E e \in broker.queue, heard \in BOOLEAN : Pop(c, e, heard)
  \/ PopEmpty(c) \/ ClearQueue(c) \/ Reads(c)
  \/ Add(c) \/ Remove(c) \/ ClearSet(c)
  \/ \E k \in Keys, ttl \in {Never, 1} : Store(c, k, ttl)
  \/ \E k \in Keys : Delete(c, k)
  \/ \E K \in SUBSET Keys : ClearStorage(c, K)

Next ==
  \/ Connections \/ Tick
  \/ \E c \in Clients : Operations(c)
  \/ \E k \in Keys : ServerExpires(k)
  \/ \E k \in Keys, ttl \in {Never, 1} : OtherStores(k, ttl)

Spec == Init /\ [][Next]_vars
=============================================================================
