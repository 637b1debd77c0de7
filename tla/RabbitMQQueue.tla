---------------------------- MODULE RabbitMQQueue ----------------------------
(***************************************************************************)
(* The RabbitMQ backend, src/scrapy_extension/backends/rabbitmq.py.        *)
(*                                                                         *)
(* One AMQP channel at a time.  Delivery tags are numbered from 1 on every *)
(* channel, so a token carries the channel generation it was minted on.    *)
(* Every broker call runs under _delivery_lock, which disconnect takes     *)
(* too: an operation is one step.  connect releases the lock while it      *)
(* builds its candidate, so a disconnect may overtake it (op).             *)
(***************************************************************************)
EXTENDS Naturals, FiniteSets

CONSTANTS
  Messages,        \* the payloads
  MaxInFlight,     \* _MAX_IN_FLIGHT, the cap of the diagnostic set
  MaxDisconnects,  \* bound: disconnects, and channels lost
  MaxDeliveries    \* bound: deliveries made on one channel

VARIABLES
  conn,     \* the backend object and its session
  broker,   \* the queue on the server
  table,    \* the delivery bookkeeping of the published channel
  tokens,   \* the delivery tokens in the application's hands
  op,       \* a connect that is building its candidate
  hist      \* what was stored, and what the application asked for

vars == <<conn, broker, table, tokens, op, hist>>

Idle == [kind |-> "idle"]
NoChannel == 0
NoTag == 0

NoDeliveries ==
  [declared |-> FALSE, pending |-> 0, inFlight |-> {}, last |-> NoTag,
   completed |-> {}]

Init ==
  /\ conn = [epoch |-> 0, channel |-> NoChannel, generation |-> 0,
             open |-> FALSE, tags |-> 0, losses |-> 0]
  /\ broker \in [durable : BOOLEAN, ready : {{}}, unacked : {{}}]
  /\ table = NoDeliveries /\ tokens = {} /\ op = Idle
  /\ hist = [accepted |-> {}, asked |-> {}, unsure |-> {}, cleared |-> {},
             holder |-> [m \in Messages |-> {}]]

\* What survives a restart of the server is what the contract counts.
Accepted == IF broker.durable THEN hist.accepted ELSE {}
Stored == broker.ready \cup {u.msg : u \in broker.unacked}
Gone == Accepted \ Stored
Asked == hist.asked \cap Accepted
Unsure == hist.unsure \cap Accepted
Cleared == hist.cleared \cap Accepted

\* _session_is_healthy_locked
Healthy == conn.channel # NoChannel /\ conn.open

\* The server sees the channel go: its unacked deliveries are ready again.
Requeued(b) ==
  [b EXCEPT !.ready = @ \cup {u.msg : u \in b.unacked}, !.unacked = {}]

QueueLen == Cardinality(broker.ready)
-----------------------------------------------------------------------------
(* Connections                                                             *)

\* connect, up to the construction: an unhealthy session is retired, its
\* tables are replaced and its handles closed.
ConnectBegin ==
  /\ op = Idle /\ ~Healthy
  /\ op' = [kind |-> "connect", epoch |-> conn.epoch]
  /\ conn' = [conn EXCEPT !.channel = NoChannel, !.open = FALSE]
  /\ table' = NoDeliveries
  /\ broker' = Requeued(broker)
  /\ UNCHANGED <<tokens, hist>>

\* _publish_handles_locked: the candidate becomes the next channel
\* generation, unless a disconnect has come in between.
ConnectDone ==
  /\ op # Idle /\ op.epoch = conn.epoch
  /\ conn' = [conn EXCEPT !.generation = @ + 1, !.channel = conn.generation + 1,
                          !.open = TRUE, !.tags = 0]
  /\ table' = NoDeliveries /\ op' = Idle
  /\ UNCHANGED <<broker, tokens, hist>>

\* The construction failed, or was cancelled and its candidate closed.
ConnectAborted ==
  /\ op # Idle
  /\ op' = Idle
  /\ UNCHANGED <<conn, broker, table, tokens, hist>>

Disconnect ==
  /\ conn.epoch < MaxDisconnects
  /\ conn' = [conn EXCEPT !.epoch = @ + 1, !.channel = NoChannel,
                          !.open = FALSE]
  /\ table' = NoDeliveries
  /\ broker' = Requeued(broker)
  /\ UNCHANGED <<tokens, op, hist>>

\* The server or the network closes the channel; the session stays published
\* until connect or disconnect retires it.  A restart of the server also
\* drops what is not durable.
ChannelLost(restart) ==
  /\ Healthy /\ conn.losses < MaxDisconnects
  /\ conn' = [conn EXCEPT !.open = FALSE, !.losses = @ + 1]
  /\ broker' = IF restart /\ ~broker.durable
               THEN [broker EXCEPT !.ready = {}, !.unacked = {}]
               ELSE Requeued(broker)
  /\ UNCHANGED <<table, tokens, op, hist>>
-----------------------------------------------------------------------------
(* Push and pop                                                            *)

\* _push_with_durability: refused if durability is required and the policy
\* does not give it; a publish that is not confirmed may still be stored.
Push(m, requireDurable, stored) ==
  /\ Healthy /\ m \notin hist.accepted
  /\ requireDurable => broker.durable
  /\ table' = [table EXCEPT !.declared = TRUE]
  /\ broker' = [broker EXCEPT !.ready = IF stored THEN @ \cup {m} ELSE @]
  /\ hist' = [hist EXCEPT !.accepted = IF stored THEN @ \cup {m} ELSE @]
  /\ UNCHANGED <<conn, tokens, op>>

\* _basic_get with a message there.  The diagnostic set is capped; the
\* count of pending deliveries is not.
BasicGet(m, track) ==
  /\ Healthy /\ m \in broker.ready /\ conn.tags < MaxDeliveries
  /\ LET token == [channel |-> conn.channel, tag |-> conn.tags + 1, msg |-> m]
         tracked == IF track /\ Cardinality(table.inFlight) < MaxInFlight
                    THEN {token} ELSE {}
     IN  /\ broker' = [broker EXCEPT !.ready = @ \ {m},
                                     !.unacked = @ \cup {token}]
         /\ table' = [table EXCEPT !.declared = TRUE, !.pending = @ + 1,
                        !.inFlight = @ \cup tracked,
                        !.last = IF track THEN @ ELSE token.tag]
         /\ tokens' = IF track THEN tokens \cup {token} ELSE tokens
         /\ hist' = [hist EXCEPT !.asked = @ \ {m}, !.holder[m] = {token}]
  /\ conn' = [conn EXCEPT !.tags = @ + 1]
  /\ UNCHANGED op

PopWithAck(m) == BasicGet(m, TRUE)
Pop(m) == BasicGet(m, FALSE)
-----------------------------------------------------------------------------
(* Ack and nack                                                            *)

\* The token names a delivery of the published channel that is not settled.
Current(t) == t.channel = conn.generation /\ t \notin table.completed

Asks(t) ==
  IF t \in hist.holder[t.msg] THEN hist.asked \cup {t.msg} ELSE hist.asked

\* The deliveries the server knows by this tag of the open channel.
Tagged(tag) == {u \in broker.unacked : u.tag = tag}

\* _settle_pending_delivery, and the token is completed.
Settled(t) ==
  [table EXCEPT !.pending = IF @ <= 1 THEN 0 ELSE @ - 1,
                !.inFlight = @ \ {t}, !.completed = @ \cup {t}]

\* basic_ack does not wait for the server: the frame may be lost with the
\* channel, and the message is then delivered again.
Ack(t, applied) ==
  /\ conn.channel # NoChannel /\ Current(t) /\ conn.open
  /\ broker' = [broker EXCEPT
       !.unacked = IF applied THEN @ \ Tagged(t.tag) ELSE @]
  /\ table' = Settled(t)
  /\ hist' = [hist EXCEPT !.asked = Asks(t)]
  /\ UNCHANGED <<conn, tokens, op>>

\* The connection breaks under the ack: the token stays open.
AckFails(t, applied) ==
  /\ conn.channel # NoChannel /\ Current(t) /\ conn.open
  /\ conn.losses < MaxDisconnects
  /\ conn' = [conn EXCEPT !.open = FALSE, !.losses = @ + 1]
  /\ LET b == [broker EXCEPT
                 !.unacked = IF applied THEN @ \ Tagged(t.tag) ELSE @]
     IN  broker' = Requeued(b)
  /\ hist' = [hist EXCEPT !.asked = Asks(t),
                !.unsure = IF applied THEN @ \cup {t.msg} ELSE @]
  /\ UNCHANGED <<table, tokens, op>>

\* ack or nack of a settled token, of an older channel, or with no session:
\* a silent no-op.
SettleStale(t) ==
  /\ conn.channel = NoChannel \/ ~Current(t)
  /\ hist' = [hist EXCEPT !.asked = Asks(t)]
  /\ UNCHANGED <<conn, broker, table, tokens, op>>

Nack(t) ==
  /\ conn.channel # NoChannel /\ Current(t) /\ conn.open
  /\ broker' = [broker EXCEPT
       !.ready = @ \cup {u.msg : u \in Tagged(t.tag)},
       !.unacked = @ \ Tagged(t.tag)]
  /\ table' = Settled(t)
  /\ UNCHANGED <<conn, tokens, op, hist>>

\* ack and nack without a token settle the last delivery of pop.
LegacySettled ==
  [table EXCEPT !.pending = IF @ <= 1 THEN 0 ELSE @ - 1, !.last = NoTag]

AckLegacy(applied) ==
  /\ Healthy /\ table.last # NoTag
  /\ broker' = [broker EXCEPT
       !.unacked = IF applied THEN @ \ Tagged(table.last) ELSE @]
  /\ table' = LegacySettled
  /\ hist' = [hist EXCEPT !.asked =
                @ \cup {u.msg : u \in {x \in Tagged(table.last) :
                                         x \in hist.holder[x.msg]}}]
  /\ UNCHANGED <<conn, tokens, op>>

NackLegacy ==
  /\ Healthy /\ table.last # NoTag
  /\ broker' = [broker EXCEPT
       !.ready = @ \cup {u.msg : u \in Tagged(table.last)},
       !.unacked = @ \ Tagged(table.last)]
  /\ table' = LegacySettled
  /\ UNCHANGED <<conn, tokens, op, hist>>

\* clear_queue is refused while deliveries of this channel are pending.
ClearQueue ==
  /\ Healthy /\ table.pending = 0 /\ broker.ready # {}
  /\ broker' = [broker EXCEPT !.ready = {}]
  /\ table' = [table EXCEPT !.declared = TRUE]
  /\ hist' = [hist EXCEPT !.cleared = @ \cup broker.ready]
  /\ UNCHANGED <<conn, tokens, op>>
-----------------------------------------------------------------------------
Next ==
  \/ ConnectBegin \/ ConnectDone \/ ConnectAborted \/ Disconnect
  \/ \E restart \in BOOLEAN : ChannelLost(restart)
  \/ \E m \in Messages, require, stored \in BOOLEAN : Push(m, require, stored)
  \/ \E m \in Messages : PopWithAck(m) \/ Pop(m)
  \/ \E t \in tokens : SettleStale(t) \/ Nack(t)
  \/ \E t \in tokens, applied \in BOOLEAN : Ack(t, applied) \/ AckFails(t, applied)
  \/ \E applied \in BOOLEAN : AckLegacy(applied)
  \/ NackLegacy \/ ClearQueue

Spec == Init /\ [][Next]_vars
=============================================================================
