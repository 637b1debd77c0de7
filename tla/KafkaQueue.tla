----------------------------- MODULE KafkaQueue -----------------------------
(***************************************************************************)
(* The Kafka backend, src/scrapy_extension/backends/kafka.py.              *)
(*                                                                         *)
(* One topic, a partition per priority, one consumer of a consumer group.  *)
(* Offsets are acked in any order; only the contiguous prefix of finished  *)
(* offsets of a partition is committed.  A rebalance callback or a         *)
(* disconnect makes every older delivery token stale.                      *)
(*                                                                         *)
(* Locks: connect, pop and the second half of disconnect run under         *)
(* _connection_lock; pop, ack and nack run under _consumer_io_lock; the    *)
(* first half of disconnect (the lifecycle epoch) takes neither.  An ack   *)
(* releases _delivery_lock while it commits, and holds no connection lock: *)
(* op is the operation that is between two of its critical sections.       *)
(***************************************************************************)
EXTENDS Integers, Sequences, FiniteSetsExt, TLC

CONSTANTS
  Messages,        \* the payloads
  NumPartitions,   \* num_partitions of the topic
  Priorities,      \* the priorities of the pushes
  MaxDisconnects,  \* bound: disconnects; one consumer more can be built
  MaxEpoch,        \* bound: a rebalance moves the assignment epoch up to this
  MaxDeliveries    \* bound: deliveries made in one behaviour

VARIABLES
  conn,     \* the backend object
  broker,   \* the topic and the consumer group, on the servers
  table,    \* table[g]: the handles of generation g (_KafkaGenerationHandles)
  tokens,   \* the delivery tokens in the application's hands
  op,       \* the operation between two of its critical sections
  hist      \* what the application asked for

vars == <<conn, broker, table, tokens, op, hist>>

Partitions == 0..(NumPartitions - 1)
Idle == [kind |-> "idle"]
None == -1
NoRecord == <<>>
NoGen == 0
NoConsumer == 0

\* push's partition: the priority as an integer, clamped to the partitions.
Partition(priority) == Max({0, Min({priority, Max(Partitions)})})

\* The handles of a generation, before anything is delivered on it.
Fresh(producer, consumer, consumerGen, assignEpoch) ==
  [active |-> {}, inFlight |-> [p \in Partitions |-> {}],
   watermarks |-> [p \in Partitions |-> None],
   highWater |-> [p \in Partitions |-> 0], legacy |-> NoRecord,
   producer |-> producer, consumer |-> consumer,
   consumerGen |-> consumerGen, assignEpoch |-> assignEpoch,
   retired |-> FALSE, topicKnown |-> FALSE]

Drained == Fresh(FALSE, NoConsumer, 0, 0)

\* _clear_delivery_state_locked
NoDeliveries(h) ==
  [h EXCEPT !.active = {}, !.inFlight = [p \in Partitions |-> {}],
            !.watermarks = [p \in Partitions |-> None],
            !.highWater = [p \in Partitions |-> 0], !.legacy = NoRecord]

Init ==
  /\ conn \in [config : {"valid", "invalid"}, producer : {FALSE},
               consumer : {NoConsumer}, gen : {NoGen}, consumerGen : {0},
               assignEpoch : {0}, epoch : {0}, attempts : {0},
               consumers : {0}, subscribed : {FALSE}, leaving : {FALSE}]
  /\ broker \in [topic : {"absent", "match", "other"},
                 log : {[p \in Partitions |-> <<>>]},
                 committed : {[p \in Partitions |-> 0]},
                 position : {[p \in Partitions |-> 0]},
                 owner : {[p \in Partitions |-> NoConsumer]},
                 assigned : {{}}]
  /\ table = <<>> /\ tokens = {} /\ op = Idle
  /\ hist = [asked |-> {}, unsure |-> {}, left |-> {},
             holders |-> [m \in Messages |-> {}]]

Current == conn.gen # NoGen
Handles == table[conn.gen]
ConnectionLockFree == op.kind \in {"idle", "ack"}
IoLockFree == op.kind = "idle"

MessageAt(p, o) == broker.log[p][o + 1]
Below(p, w) == {MessageAt(p, o) : o \in 0..(w - 1)}
\* A message has left once a commit has passed it.
Gone == hist.left
Accepted == UNION {{broker.log[p][i] : i \in DOMAIN broker.log[p]}
                   : p \in Partitions}

\* _consumer_group_lag with auto_offset_reset="earliest" (the default).
QueueLen ==
  LET lag(p) == Max({0, Len(broker.log[p]) - broker.committed[p]})
  IN  MapThenSumSet(lag, Partitions)

-----------------------------------------------------------------------------
(* Connections                                                             *)

\* _publish_generation_locked: nothing to publish, or published already.
Published(c) ==
  IF conn.gen # NoGen \/ (~c.producer /\ c.consumer = NoConsumer)
  THEN [table |-> table, gen |-> conn.gen]
  ELSE [table |-> Append(table, Fresh(c.producer, c.consumer,
                                      c.consumerGen, c.assignEpoch)),
        gen |-> Len(table) + 1]

\* The finalizer of a retired generation: its consumer leaves the group.
Left(b, c) ==
  [b EXCEPT !.owner = [p \in Partitions |->
                         IF b.owner[p] = c THEN NoConsumer
                         ELSE b.owner[p]]]

\* Retire the current generation and drain it.  A leased generation keeps its
\* clients until the lease ends; the tables belong to the generation, so what
\* the backend uses next starts empty.
RetireGeneration ==
  IF ~Current THEN UNCHANGED <<table, broker>>
  ELSE LET g == conn.gen
           leased == op.kind = "ack" /\ op.gen = g
       IN  /\ table' = [table EXCEPT ![g] =
                  IF leased THEN [table[g] EXCEPT !.retired = TRUE]
                  ELSE Drained]
           /\ broker' = IF leased THEN broker
                        ELSE Left(broker, table[g].consumer)

\* connect up to the construction of the clients, which notes the epoch.
ConnectBegin ==
  /\ ConnectionLockFree /\ op.kind = "idle" /\ ~conn.producer
  /\ conn.config = "valid"
  /\ op' = [kind |-> "connect", epoch |-> conn.epoch]
  /\ UNCHANGED <<conn, broker, table, tokens, hist>>

\* connect's end: a disconnect that began meanwhile fences the attempt.
ConnectDone ==
  /\ op.kind = "connect" /\ op.epoch = conn.epoch
  /\ LET c == [conn EXCEPT !.producer = TRUE]
         new == Published(c)
     IN  conn' = [c EXCEPT !.gen = new.gen] /\ table' = new.table
  /\ op' = Idle
  /\ UNCHANGED <<broker, tokens, hist>>

\* A failed or fenced attempt: _abort_partial_connect detaches everything.
ConnectAborted ==
  /\ op.kind = "connect"
  /\ RetireGeneration
  /\ conn' = [conn EXCEPT !.gen = NoGen, !.consumer = NoConsumer]
  /\ op' = Idle
  /\ UNCHANGED <<tokens, hist>>

DisconnectBegin ==
  /\ conn.epoch < MaxDisconnects /\ ~conn.leaving
  /\ conn' = [conn EXCEPT !.epoch = @ + 1, !.leaving = TRUE]
  /\ UNCHANGED <<broker, table, tokens, op, hist>>

Disconnect ==
  /\ conn.leaving /\ ConnectionLockFree
  /\ RetireGeneration
  /\ conn' = [conn EXCEPT !.leaving = FALSE, !.producer = FALSE,
                          !.consumer = NoConsumer, !.gen = NoGen,
                          !.consumerGen = @ + 1, !.assignEpoch = @ + 1,
                          !.subscribed = FALSE]
  /\ UNCHANGED <<tokens, op, hist>>
-----------------------------------------------------------------------------
(* Push                                                                    *)

\* _ensure_topic_exists: create the topic, or check the policy of one that
\* exists, once per generation.
TopicUsable == Handles.topicKnown \/ broker.topic # "other"

\* The broker stores the message or not; the caller hears of a stored one or
\* gets an indeterminate outcome.
Push(m, priority, stored) ==
  /\ m \notin Accepted
  /\ Current /\ Handles.producer /\ TopicUsable
  /\ table' = [table EXCEPT ![conn.gen].topicKnown = TRUE]
  /\ broker' = [broker EXCEPT
       !.topic = "match",
       !.log[Partition(priority)] = IF stored THEN Append(@, m) ELSE @]
  /\ UNCHANGED <<conn, tokens, op, hist>>
-----------------------------------------------------------------------------
(* Pop                                                                     *)

\* A pop without a consumer builds one, also while disconnected.
PopBuildsConsumer ==
  /\ IoLockFree /\ conn.consumer = NoConsumer
  /\ conn.config = "valid" /\ conn.consumers <= MaxDisconnects
  /\ op' = [kind |-> "build", epoch |-> conn.epoch]
  /\ conn' = [conn EXCEPT !.consumers = @ + 1]
  /\ UNCHANGED <<broker, table, tokens, hist>>

Registered(h, c) ==
  [NoDeliveries(h) EXCEPT !.consumer = c.consumer,
                          !.consumerGen = c.consumerGen,
                          !.assignEpoch = c.assignEpoch]

\* The consumer is registered with its generation (a new one if there is
\* none) and subscribed: the epoch moves, the delivery tables are cleared.
\* Its first poll joins the group and yields nothing.
ConsumerReady ==
  /\ op.kind = "build" /\ op.epoch = conn.epoch
  /\ LET c == [conn EXCEPT !.consumer = conn.consumers,
                           !.consumerGen = @ + 1, !.assignEpoch = @ + 1,
                           !.subscribed = TRUE]
         new == Published(c)
     IN  /\ conn' = [c EXCEPT !.gen = new.gen]
         /\ table' = [new.table EXCEPT ![new.gen] =
               Registered(new.table[new.gen], c)]
  /\ op' = Idle
  /\ broker' = [broker EXCEPT !.assigned = {}]
  /\ UNCHANGED <<tokens, hist>>

\* The construction is fenced or fails: the consumer is closed again.
ConsumerLost ==
  /\ op.kind = "build"
  /\ op' = Idle
  /\ UNCHANGED <<conn, broker, table, tokens, hist>>

\* The first poll raises: _cleanup_partial_consumer takes the registration
\* back, and retires a generation that has no client left.
ConsumerCleanup ==
  /\ op.kind = "build" /\ op.epoch = conn.epoch
  /\ conn' = [conn EXCEPT !.consumerGen = @ + 2, !.assignEpoch = @ + 2,
                          !.subscribed = FALSE]
  /\ table' = IF Current THEN [table EXCEPT ![conn.gen] = NoDeliveries(Handles)]
              ELSE table
  /\ op' = Idle
  /\ UNCHANGED <<broker, tokens, hist>>

\* A poll in which the group rebalances: the members' partitions change, the
\* positions go back to the committed offsets, and the listener makes the
\* older deliveries stale (_on_assignment_changed, revoked and assigned).
PopRebalances(mine) ==
  /\ IoLockFree /\ Current /\ Handles.consumer # NoConsumer
  /\ conn.assignEpoch < MaxEpoch
  /\ mine # broker.assigned \/ \E p \in mine : broker.owner[p] # conn.consumer
  /\ broker' = [broker EXCEPT
       !.assigned = mine,
       !.owner = [p \in Partitions |->
                    IF p \in mine THEN conn.consumer ELSE NoConsumer],
       !.position = [p \in Partitions |->
                       IF p \in mine THEN broker.committed[p] ELSE 0]]
  /\ conn' = [conn EXCEPT !.assignEpoch = @ + 1]
  /\ table' = [table EXCEPT ![conn.gen] =
                 [NoDeliveries(Handles) EXCEPT !.assignEpoch = conn'.assignEpoch]]
  /\ UNCHANGED <<tokens, op, hist>>

\* The servers expel the member (its session timed out); it has not heard yet
\* and still hands out what it fetched.
Expelled(p) ==
  /\ p \in broker.assigned /\ broker.owner[p] # NoConsumer
  /\ broker' = [broker EXCEPT !.owner[p] = NoConsumer]
  /\ UNCHANGED <<conn, table, tokens, op, hist>>

Pollable(p) ==
  /\ IoLockFree /\ Current /\ Handles.consumer # NoConsumer
  /\ p \in broker.assigned /\ broker.position[p] < Len(broker.log[p])
  /\ conn.attempts < MaxDeliveries

Entered(h, p, o) ==
  [h EXCEPT !.inFlight[p] = @ \cup {o},
            !.watermarks[p] = IF @ = None THEN o ELSE @,
            !.highWater[p] = IF @ > o THEN @ ELSE o + 1]

Attempted(h, p, o, a) ==
  [Entered(h, p, o) EXCEPT
     !.active = {x \in @ : <<x[1], x[2]>> # <<p, o>>} \cup {<<p, o, a>>}]

\* The message is in the hands of a new holder, and of the older ones (others)
\* that the backend lets settle it still.
Handed(p, token, others) ==
  LET m == MessageAt(p, broker.position[p])
  IN  /\ broker' = [broker EXCEPT !.position[p] = @ + 1]
      /\ hist' = [hist EXCEPT !.asked = @ \ {m},
                              !.holders[m] = (@ \cap others) \cup {token}]

\* pop, the legacy read: the record is remembered, there is no token.
LegacyRead(p, o) ==
  [part |-> p, offset |-> o, gen |-> NoGen, epoch |-> conn.assignEpoch, attempt |-> 0]

\* _token_is_active_locked
TokenActive(h, t) ==
  /\ t.gen = h.consumerGen /\ t.epoch = h.assignEpoch
  /\ <<t.part, t.offset, t.attempt>> \in h.active

Live(t) ==
  IF Current THEN Handles.consumer # NoConsumer /\ TokenActive(Handles, t)
  ELSE FALSE

\* pop_with_ack: the newest attempt of an offset replaces the older one; a
\* legacy slot stays armed.
PopWithAck(p) ==
  /\ Pollable(p)
  /\ LET o == broker.position[p]
         a == conn.attempts + 1
         token == [part |-> p, offset |-> o, gen |-> conn.consumerGen,
                   epoch |-> conn.assignEpoch, attempt |-> a]
     IN  /\ conn' = [conn EXCEPT !.attempts = a]
         /\ table' = [table EXCEPT ![conn.gen] = Attempted(Handles, p, o, a)]
         /\ tokens' = tokens \cup {token}
         /\ Handed(p, token, IF Handles.legacy = <<p, o>>
                             THEN {LegacyRead(p, o)} ELSE {})
  /\ UNCHANGED op

\* pop registers no attempt: a live token of the same offset stays live.
Pop(p) ==
  /\ Pollable(p)
  /\ conn' = [conn EXCEPT !.attempts = @ + 1]
  /\ LET o == broker.position[p]
     IN  /\ table' = [table EXCEPT ![conn.gen] =
                        [Entered(Handles, p, o) EXCEPT !.legacy = <<p, o>>]]
         /\ Handed(p, LegacyRead(p, o), {t \in tokens : Live(t)})
  /\ UNCHANGED <<tokens, op>>
-----------------------------------------------------------------------------
(* Ack and nack                                                            *)

\* _finish_attempt_locked
Finished(h, t) ==
  [h EXCEPT !.active = @ \ {<<t.part, t.offset, t.attempt>>}]

\* A partition without deliveries in flight is forgotten.
Forgotten(h, p) ==
  IF h.inFlight[p] # {} THEN h
  ELSE [h EXCEPT !.watermarks[p] = None, !.highWater[p] = 0]

\* Mutant: everything delivered is committed.
WatermarkHigh(h, p) == h.highWater[p]

\* The committable offset: the first one in flight, or the high water.
Watermark(h, p) ==
  LET base == h.watermarks[p]
      ends == {w \in base..h.highWater[p] :
                 w = h.highWater[p] \/ w \in h.inFlight[p]}
  IN  IF ends = {} THEN base ELSE Min(ends)

Asks(t) ==
  LET m == MessageAt(t.part, t.offset)
  IN  hist' = IF t \in hist.holders[m] THEN [hist EXCEPT !.asked = @ \cup {m}]
              ELSE hist

\* ack of a live token: the offset is taken out of flight.  A watermark that
\* did not move ends the ack, otherwise the commit follows.
AckBegin(t) ==
  /\ IoLockFree /\ Live(t)
  /\ LET h == [Handles EXCEPT !.inFlight[t.part] = @ \ {t.offset}]
         w == Watermark(h, t.part)
         moved == w > h.watermarks[t.part]
     IN  /\ table' = [table EXCEPT ![conn.gen] =
                        IF moved THEN h ELSE Forgotten(Finished(h, t), t.part)]
         /\ op' = IF moved THEN [kind |-> "ack", gen |-> conn.gen, token |-> t,
                                 watermark |-> w, legacy |-> FALSE]
                  ELSE Idle
  /\ Asks(t)
  /\ UNCHANGED <<conn, broker, tokens>>

\* ack of a stale token, or without a generation: a silent no-op.
AckStale(t) ==
  /\ IoLockFree /\ ~Live(t)
  /\ Asks(t)
  /\ UNCHANGED <<conn, broker, table, tokens, op>>

\* The lease of the ack ends: a generation retired meanwhile is closed.
LeaseEnds(h) ==
  /\ table' = [table EXCEPT ![op.gen] = IF h.retired THEN Drained ELSE h]
  /\ op' = Idle

\* The broker takes the commit of a member only.
Commits(b) ==
  LET p == op.token.part
      member == broker.owner[p] = table[op.gen].consumer
      closed == IF table[op.gen].retired THEN Left(b, table[op.gen].consumer)
                ELSE b
  IN  /\ member
      /\ broker' = [closed EXCEPT !.committed[p] = op.watermark]

\* An ack of an offset that was read again moves the committed offset back.
TakenBack ==
  LET p == op.token.part
  IN  {MessageAt(p, o) : o \in op.watermark..(broker.committed[p] - 1)}

AckCommitted ==
  /\ op.kind = "ack" /\ Commits(broker)
  /\ LET t == op.token
         h == table[op.gen]
         live == TokenActive(h, t)
         done == IF op.legacy
                 THEN [h EXCEPT !.legacy = NoRecord,
                                !.inFlight[t.part] = @ \ {t.offset}]
                 ELSE Finished([h EXCEPT !.watermarks[t.part] = op.watermark],
                               t)
     IN  LeaseEnds(IF live \/ op.legacy THEN Forgotten(done, t.part) ELSE h)
  /\ hist' = [hist EXCEPT !.unsure = @ \cup TakenBack,
                          !.left = @ \cup Below(op.token.part, op.watermark)]
  /\ UNCHANGED <<conn, tokens>>

\* The commit raises, whether or not the servers took it: the offset is back
\* in flight.
AckFailed(taken) ==
  /\ op.kind = "ack"
  /\ LET t == op.token
         h == table[op.gen]
         before == broker.committed[t.part]
         settled == {MessageAt(t.part, o) : o \in before..(op.watermark - 1)}
     IN  /\ LeaseEnds(IF ~op.legacy /\ TokenActive(h, t)
                      THEN [h EXCEPT !.inFlight[t.part] = @ \cup {t.offset}]
                      ELSE h)
         /\ IF taken
            THEN /\ Commits(broker)
                 /\ hist' = [hist EXCEPT
                      !.unsure = @ \cup settled \cup TakenBack,
                      !.left = @ \cup Below(t.part, op.watermark)]
            ELSE /\ broker' = IF h.retired THEN Left(broker, h.consumer)
                              ELSE broker
                 /\ UNCHANGED hist
  /\ UNCHANGED <<conn, tokens>>

\* ack without a token: refused while the partition has token deliveries or
\* other offsets in flight.
AckLegacy ==
  /\ IoLockFree /\ Current /\ Handles.consumer # NoConsumer
  /\ Handles.legacy # NoRecord
  /\ LET p == Handles.legacy[1]
         o == Handles.legacy[2]
         m == MessageAt(p, o)
     IN  /\ \A x \in Handles.active : x[1] # p
         /\ Handles.inFlight[p] \subseteq {o}
         /\ op' = [kind |-> "ack", gen |-> conn.gen, watermark |-> o + 1,
                   token |-> [part |-> p, offset |-> o, gen |-> None,
                              epoch |-> None, attempt |-> None],
                   legacy |-> TRUE]
         /\ hist' = IF LegacyRead(p, o) \in hist.holders[m]
                    THEN [hist EXCEPT !.asked = @ \cup {m}] ELSE hist
  /\ UNCHANGED <<conn, broker, table, tokens>>

\* Seek back if the partition is still assigned.  The offsets after o that
\* were read already are read again, also those that are acked by then.
SeekBack(p, o) ==
  IF p \notin broker.assigned THEN UNCHANGED <<broker, hist>>
  ELSE /\ broker' = [broker EXCEPT !.position[p] = o]
       /\ hist' = [hist EXCEPT !.unsure = @ \cup
            {MessageAt(p, x) : x \in (o + 1)..(broker.position[p] - 1)}]

\* nack of a live token: seek back and finish the attempt; the offset stays
\* in flight, so no commit passes it.
Nack(t) ==
  /\ IoLockFree /\ Live(t)
  /\ SeekBack(t.part, t.offset)
  /\ table' = [table EXCEPT ![conn.gen] = Finished(Handles, t)]
  /\ UNCHANGED <<conn, tokens, op>>

NackLegacy ==
  /\ IoLockFree /\ Current /\ Handles.consumer # NoConsumer
  /\ Handles.legacy # NoRecord
  /\ LET p == Handles.legacy[1]
         o == Handles.legacy[2]
         h == [Handles EXCEPT !.legacy = NoRecord]
     IN  /\ SeekBack(p, o)
         /\ table' = [table EXCEPT ![conn.gen] =
              IF \E x \in h.active : x[1] = p THEN h
              ELSE Forgotten([h EXCEPT !.inFlight[p] = @ \ {o}], p)]
  /\ UNCHANGED <<conn, tokens, op>>
-----------------------------------------------------------------------------
Lifecycle ==
  \/ ConnectBegin \/ ConnectDone \/ ConnectAborted
  \/ DisconnectBegin \/ Disconnect
  \/ PopBuildsConsumer \/ ConsumerReady \/ ConsumerLost \/ ConsumerCleanup
  \/ \E mine \in SUBSET Partitions : PopRebalances(mine)
  \/ \E p \in Partitions : Expelled(p)

Traffic ==
  \/ \E m \in Messages, priority \in Priorities, stored \in BOOLEAN :
       Push(m, priority, stored)
  \/ \E p \in Partitions : PopWithAck(p) \/ Pop(p)
  \/ \E t \in tokens : AckBegin(t) \/ AckStale(t) \/ Nack(t)
  \/ AckCommitted \/ AckLegacy \/ NackLegacy
  \/ \E taken \in BOOLEAN : AckFailed(taken)

Next == Lifecycle \/ Traffic

Spec == Init /\ [][Next]_vars
=============================================================================
