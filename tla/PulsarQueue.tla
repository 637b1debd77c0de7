----------------------------- MODULE PulsarQueue -----------------------------
(***************************************************************************)
(* The Pulsar backend, src/scrapy_extension/backends/pulsar.py.            *)
(*                                                                         *)
(* A pop reads the buffer of a receive pump, a daemon thread that owns the *)
(* consumer of the topic: it subscribes, receives into the buffer, and     *)
(* stops when its receive fails or its connection is retired.  The         *)
(* consumer of a pump that stopped is closed by a retirement, and no new   *)
(* pump is built before that retirement has completed.  It completes also  *)
(* when close() raises: the broker may then still know the consumer, a     *)
(* stray one that this backend does not use again.  The shared state       *)
(* is guarded by _lifecycle_lock; the SDK calls of a pump (subscribe,      *)
(* receive, close) run outside of it.  A pump and its consumer have the    *)
(* same number.                                                            *)
(***************************************************************************)
EXTENDS Naturals, Sequences, FiniteSets

CONSTANTS
  Messages,        \* the payloads
  BufferSize,      \* _receive_buffer_size
  MaxDisconnects,  \* bound: disconnects
  MaxPumps,        \* bound: receive pumps built
  MaxDeliveries    \* bound: deliveries made in one behaviour

VARIABLES
  conn,     \* the backend object
  broker,   \* the subscription, on the servers: its messages and who holds it,
            \* a consumer of this backend (live) or a stray one
  table,    \* table[i]: receive pump i
  tokens,   \* the delivery tokens in the application's hands
  op,       \* unused: no operation of this backend spans two steps
  hist      \* what was stored, and what the application asked for

vars == <<conn, broker, table, tokens, op, hist>>

NoPump == 0
NoMessage == {}

Init ==
  /\ conn = [generation |-> 0, client |-> FALSE, pump |-> NoPump,
             consumer |-> NoPump, retirement |-> NoPump, disconnects |-> 0,
             deliveries |-> 0, last |-> NoMessage, settled |-> {}]
  /\ broker = [backlog |-> {}, live |-> {}, stray |-> {}, unacked |-> {}]
  /\ table = <<>> /\ tokens = {} /\ op = "idle"
  /\ hist = [accepted |-> {}, asked |-> {}, unsure |-> {},
             holder |-> [m \in Messages |-> {}]]

Accepted == hist.accepted
Gone == hist.accepted \ (broker.backlog \cup {u.msg : u \in broker.unacked})

\* A closed consumer gives its unacknowledged messages back.
Closed(b, i) ==
  [b EXCEPT !.live = @ \ {i}, !.stray = @ \ {i},
            !.unacked = {u \in @ : u.consumer # i},
            !.backlog = @ \cup {u.msg : u \in {x \in b.unacked : x.consumer = i}}]

\* consumer.close() returns, or raises and leaves a stray consumer.
CloseConsumer(i) ==
  \/ broker' = Closed(broker, i)
  \/ broker' = [broker EXCEPT !.live = @ \ {i}, !.stray = @ \cup {i}]

\* generation_is_live of a pump: nothing has replaced or retired it.
PumpLive(i) ==
  /\ table[i].accepting /\ conn.client
  /\ conn.generation = table[i].generation /\ conn.pump = i
-----------------------------------------------------------------------------
(* Connections                                                             *)

Connect ==
  /\ ~conn.client
  /\ conn' = [conn EXCEPT !.client = TRUE, !.generation = @ + 1]
  /\ UNCHANGED <<broker, table, tokens, op, hist>>

\* Mutant: a disconnect forgets the retirement of the pump it stops.
DisconnectForgets ==
  /\ conn.client /\ conn.disconnects < MaxDisconnects
  /\ conn' = [conn EXCEPT !.client = FALSE, !.generation = @ + 1,
                !.pump = NoPump, !.consumer = NoPump,
                !.disconnects = @ + 1, !.last = NoMessage]
  /\ table' = [i \in DOMAIN table |->
                 IF i = conn.pump THEN [table[i] EXCEPT !.accepting = FALSE]
                 ELSE table[i]]
  /\ UNCHANGED <<broker, tokens, op, hist>>

\* disconnect: the pump is stopped and handed to a retirement, which waits
\* for the pump's own thread if that has no consumer yet.
Disconnect ==
  /\ conn.client /\ conn.disconnects < MaxDisconnects
  /\ LET i == conn.pump
         retired == i # NoPump /\ (conn.consumer = i \/ ~table[i].stopped)
     IN  /\ conn' = [conn EXCEPT !.client = FALSE, !.generation = @ + 1,
                       !.pump = NoPump, !.consumer = NoPump,
                       !.retirement = IF retired THEN i ELSE @,
                       !.disconnects = @ + 1, !.last = NoMessage]
         /\ table' = [j \in DOMAIN table |->
              IF j = i THEN [table[j] EXCEPT !.accepting = FALSE,
                                             !.retired = @ \/ retired]
              ELSE table[j]]
  /\ UNCHANGED <<broker, tokens, op, hist>>
-----------------------------------------------------------------------------
(* The receive pump                                                        *)

\* _ensure_receive_pump: an incomplete retirement of the topic comes first.
EnsurePump ==
  /\ conn.client /\ conn.pump = NoPump /\ conn.retirement = NoPump
  /\ Len(table) < MaxPumps
  /\ table' = Append(table, [generation |-> conn.generation,
                             phase |-> "subscribe", accepting |-> TRUE,
                             failed |-> FALSE, records |-> <<>>,
                             got |-> NoMessage, retired |-> FALSE,
                             stopped |-> FALSE])
  /\ conn' = [conn EXCEPT !.pump = Len(table) + 1]
  /\ UNCHANGED <<broker, tokens, op, hist>>

\* The SDK call of a pump returns a consumer.
PumpSubscribes(i) ==
  /\ table[i].phase = "subscribe"
  /\ broker' = [broker EXCEPT !.live = @ \cup {i}]
  /\ table' = [table EXCEPT ![i].phase = "publish"]
  /\ UNCHANGED <<conn, tokens, op, hist>>

\* ... or fails: a live pump reports it to the next pop.
PumpCannotSubscribe(i) ==
  /\ table[i].phase = "subscribe"
  /\ table' = [table EXCEPT ![i].phase = "stopped", ![i].stopped = TRUE,
                            ![i].failed = PumpLive(i)]
  /\ conn' = [conn EXCEPT !.retirement = IF @ = i THEN NoPump ELSE @]
  /\ UNCHANGED <<broker, tokens, op, hist>>

\* The consumer is published, or closed when the pump is not live any more.
PumpPublishes(i) ==
  /\ table[i].phase = "publish" /\ PumpLive(i)
  /\ conn' = [conn EXCEPT !.consumer = i]
  /\ table' = [table EXCEPT ![i].phase = "receive"]
  /\ UNCHANGED <<broker, tokens, op, hist>>

PumpClosesStale(i) ==
  /\ table[i].phase = "publish" /\ ~PumpLive(i)
  /\ CloseConsumer(i)
  /\ table' = [table EXCEPT ![i].phase = "stopped", ![i].stopped = TRUE]
  /\ conn' = [conn EXCEPT !.retirement = IF @ = i THEN NoPump ELSE @]
  /\ UNCHANGED <<tokens, op, hist>>

\* consumer.receive, with room in the buffer; it may have been called before
\* the pump was stopped.
PumpReceives(i, m) ==
  /\ table[i].phase = "receive" /\ Len(table[i].records) < BufferSize
  /\ i \in broker.live \cup broker.stray /\ m \in broker.backlog
  /\ broker' = [broker EXCEPT !.backlog = @ \ {m},
                  !.unacked = @ \cup {[consumer |-> i, msg |-> m]}]
  /\ table' = [table EXCEPT ![i].phase = "buffer", ![i].got = {m}]
  /\ UNCHANGED <<conn, tokens, op, hist>>

\* The message is buffered, or dropped with its pump.
PumpBuffers(i) ==
  /\ table[i].phase = "buffer"
  /\ LET m == CHOOSE x \in table[i].got : TRUE
     IN  table' = IF PumpLive(i) /\ conn.consumer = i
                  THEN [table EXCEPT ![i].phase = "receive", ![i].got = {},
                          ![i].records = Append(@, m)]
                  ELSE [table EXCEPT ![i].phase = "stopped", ![i].got = {},
                          ![i].stopped = TRUE]
  /\ UNCHANGED <<conn, broker, tokens, op, hist>>

\* The receive raises, or the pump finds that it was stopped.
PumpEnds(i) ==
  /\ table[i].phase = "receive"
  /\ table' = [table EXCEPT ![i].phase = "stopped", ![i].stopped = TRUE,
                            ![i].failed = PumpLive(i)]
  /\ UNCHANGED <<conn, broker, tokens, op, hist>>

\* _run_consumer_retirement: the consumer is closed, and the topic is free.
Retire(i) ==
  /\ table[i].retired /\ i \in broker.live
  /\ table[i].phase # "publish"
  /\ CloseConsumer(i)
  /\ conn' = [conn EXCEPT !.retirement = IF @ = i THEN NoPump ELSE @]
  /\ UNCHANGED <<table, tokens, op, hist>>

\* A stray consumer goes with its client, or the broker drops it.
StrayDropped(i) ==
  /\ i \in broker.stray
  /\ broker' = Closed(broker, i)
  /\ UNCHANGED <<conn, table, tokens, op, hist>>
-----------------------------------------------------------------------------
(* Push and pop                                                            *)

Push(m, stored) ==
  /\ conn.client /\ m \notin hist.accepted
  /\ broker' = [broker EXCEPT !.backlog = IF stored THEN @ \cup {m} ELSE @]
  /\ hist' = [hist EXCEPT !.accepted = IF stored THEN @ \cup {m} ELSE @]
  /\ UNCHANGED <<conn, table, tokens, op>>

\* _receive takes the oldest record of a live pump.
Receive(withToken) ==
  /\ conn.pump # NoPump /\ PumpLive(conn.pump)
  /\ table[conn.pump].records # <<>> /\ conn.deliveries < MaxDeliveries
  /\ LET i == conn.pump
         m == Head(table[i].records)
         token == [consumer |-> i, generation |-> conn.generation, msg |-> m,
                   delivery |-> conn.deliveries + 1]
     IN  /\ table' = [table EXCEPT ![i].records = Tail(@)]
         /\ conn' = [conn EXCEPT !.deliveries = @ + 1,
                                 !.last = IF withToken THEN @ ELSE {token}]
         /\ tokens' = IF withToken THEN tokens \cup {token} ELSE tokens
         /\ hist' = [hist EXCEPT !.asked = @ \ {m}, !.holder[m] = {token}]
  /\ UNCHANGED <<broker, op>>

PopWithAck == Receive(TRUE)
Pop == Receive(FALSE)

\* A pop that finds the buffer empty and its pump failed: the pump is retired
\* and the error is raised.
PopFindsFailure ==
  /\ conn.pump # NoPump /\ PumpLive(conn.pump)
  /\ table[conn.pump].records = <<>> /\ table[conn.pump].failed
  /\ LET i == conn.pump
         published == conn.consumer = i
     IN  /\ table' = [table EXCEPT ![i].accepting = FALSE,
                                   ![i].retired = published]
         /\ conn' = [conn EXCEPT !.pump = NoPump, !.consumer = NoPump,
                       !.retirement = IF published THEN i ELSE @]
  /\ UNCHANGED <<broker, tokens, op, hist>>
-----------------------------------------------------------------------------
(* Ack and nack                                                            *)

\* _consumer_for_token, and the token is still pending.
Usable(t) ==
  /\ conn.client /\ t.generation = conn.generation
  /\ conn.consumer = t.consumer /\ t \notin conn.settled

Asks(t) ==
  IF t \in hist.holder[t.msg] THEN hist.asked \cup {t.msg} ELSE hist.asked

Unacked(t) == {u \in broker.unacked : u.consumer = t.consumer /\ u.msg = t.msg}

Acknowledged(t) == [broker EXCEPT !.unacked = @ \ Unacked(t)]
Redelivered(t) ==
  [broker EXCEPT !.unacked = @ \ Unacked(t),
                 !.backlog = @ \cup {u.msg : u \in Unacked(t)}]

Ack(t) ==
  /\ Usable(t)
  /\ broker' = Acknowledged(t)
  /\ conn' = [conn EXCEPT !.settled = @ \cup {t}]
  /\ hist' = [hist EXCEPT !.asked = Asks(t)]
  /\ UNCHANGED <<table, tokens, op>>

\* The SDK raises: the token is pending again.
AckFails(t) ==
  /\ Usable(t)
  /\ broker' = Acknowledged(t)
  /\ hist' = [hist EXCEPT !.asked = Asks(t),
                          !.unsure = @ \cup {u.msg : u \in Unacked(t)}]
  /\ UNCHANGED <<conn, table, tokens, op>>

\* A token of an older connection or of a retired consumer turns stale.
SettleStale(t) ==
  /\ ~Usable(t) /\ t \notin conn.settled
  /\ conn' = [conn EXCEPT !.settled = @ \cup {t}]
  /\ hist' = [hist EXCEPT !.asked = Asks(t)]
  /\ UNCHANGED <<broker, table, tokens, op>>

Nack(t) ==
  /\ Usable(t)
  /\ broker' = Redelivered(t)
  /\ conn' = [conn EXCEPT !.settled = @ \cup {t}]
  /\ UNCHANGED <<table, tokens, op, hist>>

\* ack and nack without a token use the consumer of the last delivery of pop.
LegacySettle(ack) ==
  /\ conn.last # NoMessage
  /\ LET t == CHOOSE x \in conn.last : TRUE
     IN  /\ t.consumer \in broker.live \cup broker.stray
         /\ broker' = IF ack THEN Acknowledged(t) ELSE Redelivered(t)
         /\ hist' = IF ack THEN [hist EXCEPT !.asked = Asks(t)] ELSE hist
  /\ conn' = [conn EXCEPT !.last = NoMessage]
  /\ UNCHANGED <<table, tokens, op>>
-----------------------------------------------------------------------------
PumpStep(i) ==
  \/ PumpSubscribes(i) \/ PumpCannotSubscribe(i)
  \/ PumpPublishes(i) \/ PumpClosesStale(i)
  \/ \E m \in Messages : PumpReceives(i, m)
  \/ PumpBuffers(i) \/ PumpEnds(i) \/ Retire(i) \/ StrayDropped(i)

Next ==
  \/ Connect \/ Disconnect \/ EnsurePump
  \/ \E i \in DOMAIN table : PumpStep(i)
  \/ \E m \in Messages, stored \in BOOLEAN : Push(m, stored)
  \/ PopWithAck \/ Pop \/ PopFindsFailure
  \/ \E t \in tokens : Ack(t) \/ AckFails(t) \/ SettleStale(t) \/ Nack(t)
  \/ \E ack \in BOOLEAN : LegacySettle(ack)

Spec == Init /\ [][Next]_vars

\* At most one consumer holds the subscription besides those whose close()
\* raised, over disconnects and over pumps that outlive them, and none of the
\* stray ones is in use.
OneConsumer ==
  /\ Cardinality(broker.live) <= 1
  /\ broker.stray \cap (broker.live \cup {conn.pump, conn.consumer}) = {}
=============================================================================
