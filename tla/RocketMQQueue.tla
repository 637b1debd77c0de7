---------------------------- MODULE RocketMQQueue ----------------------------
(***************************************************************************)
(* The RocketMQ backend, src/scrapy_extension/backends/rocketmq.py.        *)
(*                                                                         *)
(* A receive pump, one daemon thread per consumer generation, fetches one  *)
(* message per demand into a buffer of one; the server leases it and takes *)
(* it back when the invisible duration ends.  _connection_lock covers      *)
(* connect, the first half of a pop and the retirement in disconnect, not  *)
(* the epoch with which a disconnect begins, nor the wait of a pop for its *)
(* delivery, nor the SDK call of an ack or nack: op is the operation that  *)
(* is between two critical sections.  A consumer has the number of its     *)
(* generation.                                                             *)
(***************************************************************************)
EXTENDS Naturals, Sequences

CONSTANTS
  Messages,        \* the payloads
  MaxDisconnects,  \* bound: disconnects
  MaxDeliveries    \* bound: messages leased in one behaviour

VARIABLES
  conn,     \* the backend object
  broker,   \* the topic, on the server
  table,    \* table[i]: receive pump i
  tokens,   \* the delivery tokens in the application's hands
  op,       \* the operation between two critical sections
  hist      \* what was stored, and what the application asked for

vars == <<conn, broker, table, tokens, op, hist>>

Idle == [kind |-> "idle"]
NoConsumer == 0

\* The receive state that _fence_receive_pump_unlocked resets.
NoSelection ==
  [consumer |-> NoConsumer, buffer |-> {}, demand |-> 0, failed |-> FALSE]

Init ==
  /\ conn = [epoch |-> 0, leaving |-> FALSE, consumer |-> NoConsumer,
             generation |-> 0, select |-> NoSelection, last |-> {},
             settled |-> {}]
  /\ broker = [visible |-> {}, leased |-> {}, receipts |-> 0]
  /\ table = <<>> /\ tokens = {} /\ op = Idle
  /\ hist = [accepted |-> {}, asked |-> {}, unsure |-> {},
             holder |-> [m \in Messages |-> {}]]

Accepted == hist.accepted
Gone == hist.accepted \ (broker.visible \cup {d.msg : d \in broker.leased})
-----------------------------------------------------------------------------
(* Connections                                                             *)

ConnectBegin ==
  /\ op = Idle /\ conn.consumer = NoConsumer
  /\ op' = [kind |-> "connect", epoch |-> conn.epoch]
  /\ UNCHANGED <<conn, broker, table, tokens, hist>>

\* The clients are published unless a disconnect fenced the attempt.
ConnectDone ==
  /\ op.kind = "connect" /\ op.epoch = conn.epoch
  /\ conn' = [conn EXCEPT !.generation = @ + 1,
                          !.consumer = conn.generation + 1]
  /\ op' = Idle
  /\ UNCHANGED <<broker, table, tokens, hist>>

\* A client fails to start, or the attempt was fenced: both are shut down.
ConnectAborted ==
  /\ op.kind = "connect"
  /\ op' = Idle
  /\ UNCHANGED <<conn, broker, table, tokens, hist>>

DisconnectBegin ==
  /\ conn.epoch < MaxDisconnects /\ ~conn.leaving
  /\ conn' = [conn EXCEPT !.epoch = @ + 1, !.leaving = TRUE]
  /\ UNCHANGED <<broker, table, tokens, op, hist>>

\* The generation is retired and the pump fenced; the clients are shut down
\* when the leases of the generation have ended, which the server ignores.
Disconnect ==
  /\ conn.leaving /\ op.kind # "connect"
  /\ conn' = [conn EXCEPT !.leaving = FALSE, !.consumer = NoConsumer,
                          !.generation = @ + 1, !.select = NoSelection,
                          !.last = {}]
  /\ UNCHANGED <<broker, table, tokens, op, hist>>
-----------------------------------------------------------------------------
(* The receive pump                                                        *)

\* _pump_is_current_locked: the selection has not been fenced since.
PumpCurrent(i) == conn.select.consumer = table[i].consumer

PumpSubscribes(i) ==
  /\ table[i].phase = "subscribe"
  /\ table' = [table EXCEPT ![i].phase = IF PumpCurrent(i) THEN "wait"
                                         ELSE "ended"]
  /\ UNCHANGED <<conn, broker, tokens, op, hist>>

\* The pump waits for an empty buffer and a demand, or for being fenced.
PumpWakes(i) ==
  /\ table[i].phase = "wait"
  /\ PumpCurrent(i) => conn.select.buffer = {} /\ conn.select.demand = 1
  /\ IF PumpCurrent(i)
     THEN /\ conn' = [conn EXCEPT !.select.demand = 0]
          /\ table' = [table EXCEPT ![i].phase = "receive"]
     ELSE /\ table' = [table EXCEPT ![i].phase = "ended"]
          /\ UNCHANGED conn
  /\ UNCHANGED <<broker, tokens, op, hist>>

\* consumer.receive returns at most one message, which is buffered unless the
\* pump has been fenced; it then stays leased until its time is over.
PumpReceives(i, got) ==
  /\ table[i].phase = "receive"
  /\ got \subseteq broker.visible
  /\ got # {} => broker.receipts < MaxDeliveries
  /\ LET leases == {[msg |-> m, receipt |-> broker.receipts + 1] : m \in got}
     IN  /\ broker' = [visible |-> broker.visible \ got,
                       leased |-> broker.leased \cup leases,
                       receipts |-> IF got = {} THEN broker.receipts
                                    ELSE broker.receipts + 1]
         /\ conn' = IF PumpCurrent(i)
                    THEN [conn EXCEPT !.select.buffer = leases] ELSE conn
  /\ table' = [table EXCEPT ![i].phase = IF PumpCurrent(i) THEN "wait"
                                         ELSE "ended"]
  /\ UNCHANGED <<tokens, op, hist>>

\* The SDK raises: a current pump latches the failure and ends.
PumpFails(i) ==
  /\ table[i].phase \in {"subscribe", "receive"}
  /\ conn' = [conn EXCEPT !.select.failed = @ \/ PumpCurrent(i)]
  /\ table' = [table EXCEPT ![i].phase = "ended"]
  /\ UNCHANGED <<broker, tokens, op, hist>>

\* The server takes an unsettled message back.
InvisibleDurationEnds(d) ==
  /\ d \in broker.leased
  /\ broker' = [broker EXCEPT !.leased = @ \ {d},
                              !.visible = @ \cup {d.msg}]
  /\ UNCHANGED <<conn, table, tokens, op, hist>>
-----------------------------------------------------------------------------
(* Push and pop                                                            *)

\* A send that raises, or that ends on a retired generation, may be stored.
Push(m, stored) ==
  /\ conn.consumer # NoConsumer /\ m \notin hist.accepted
  /\ broker' = [broker EXCEPT !.visible = IF stored THEN @ \cup {m} ELSE @]
  /\ hist' = [hist EXCEPT !.accepted = IF stored THEN @ \cup {m} ELSE @]
  /\ UNCHANGED <<conn, table, tokens, op>>

\* _receive_delivery: the first pop selects the topic for the generation; a
\* pop has at most one demand, and starts the pump if there is none.
PopAsks ==
  /\ conn.consumer # NoConsumer /\ op = Idle /\ conn.select.demand = 0
  /\ conn.select.consumer \in {NoConsumer, conn.consumer}
  /\ LET fresh == conn.select.consumer = NoConsumer
         running == \E i \in DOMAIN table :
                      table[i].consumer = conn.consumer
                        /\ table[i].phase # "ended"
     IN  /\ conn' = [conn EXCEPT !.select =
              [IF fresh THEN NoSelection ELSE @ EXCEPT
                 !.consumer = conn.consumer, !.demand = 1]]
         /\ table' = IF running \/ conn'.select.failed THEN table
                     ELSE Append(table, [consumer |-> conn.consumer,
                                         phase |-> "subscribe"])
  /\ UNCHANGED <<broker, tokens, op, hist>>

\* ... and takes what is in the buffer before it hears of a failure.
PopTakes ==
  /\ op = Idle /\ conn.select.buffer # {}
  /\ op' = [kind |-> "pop", got |-> conn.select.buffer,
            consumer |-> conn.select.consumer]
  /\ conn' = [conn EXCEPT !.select.buffer = {}]
  /\ UNCHANGED <<broker, table, tokens, hist>>

\* The delivery is handed out if its generation is still published, with a
\* token (pop_with_ack) or as the last delivery (pop) ...
PopDelivers(withToken) ==
  /\ op.kind = "pop" /\ op.consumer = conn.consumer
  /\ LET token == [consumer |-> op.consumer,
                   lease |-> CHOOSE d \in op.got : TRUE]
         m == token.lease.msg
     IN  /\ tokens' = IF withToken THEN tokens \cup {token} ELSE tokens
         /\ conn' = [conn EXCEPT !.last = IF withToken THEN @ ELSE {token}]
         /\ hist' = [hist EXCEPT !.asked = @ \ {m}, !.holder[m] = {token}]
  /\ op' = Idle
  /\ UNCHANGED <<broker, table>>

\* ... and reported as lost with the connection otherwise.
PopDrops ==
  /\ op.kind = "pop" /\ op.consumer # conn.consumer
  /\ op' = Idle
  /\ UNCHANGED <<conn, broker, table, tokens, hist>>
-----------------------------------------------------------------------------
(* Ack and nack                                                            *)

Asks(t) ==
  IF t \in hist.holder[t.lease.msg] THEN hist.asked \cup {t.lease.msg}
  ELSE hist.asked

\* The server knows the newest lease of a message only.
Acknowledged(t) == [broker EXCEPT !.leased = @ \ {t.lease}]
Released(t) ==
  [broker EXCEPT !.leased = @ \ {t.lease},
     !.visible = @ \cup {d.msg : d \in broker.leased \cap {t.lease}}]

Pending(t) == t \notin conn.settled

\* _ack_token and _nack_token under the lease of the token's generation.
SettleBegin(t, ack) ==
  /\ op = Idle /\ Pending(t) /\ conn.consumer = t.consumer
  /\ op' = [kind |-> "settle", token |-> t, ack |-> ack]
  /\ hist' = IF ack THEN [hist EXCEPT !.asked = Asks(t)] ELSE hist
  /\ UNCHANGED <<conn, broker, table, tokens>>

\* The SDK call returns; a retirement meanwhile makes it an error, although
\* the token is settled.
SettleEnd ==
  /\ op.kind = "settle"
  /\ broker' = IF op.ack THEN Acknowledged(op.token) ELSE Released(op.token)
  /\ conn' = [conn EXCEPT
       !.settled = @ \cup {op.token},
       !.last = IF op.token.consumer = conn.consumer THEN @ \ {op.token}
                ELSE @]
  /\ op' = Idle
  /\ UNCHANGED <<table, tokens, hist>>

\* It raises, whether or not the server took it: the token is pending again.
SettleFails(taken) ==
  /\ op.kind = "settle"
  /\ broker' = IF taken /\ op.ack THEN Acknowledged(op.token) ELSE broker
  /\ hist' = [hist EXCEPT !.unsure =
       IF broker' # broker THEN @ \cup {op.token.lease.msg} ELSE @]
  /\ op' = Idle
  /\ UNCHANGED <<conn, table, tokens>>

\* A token of another generation turns stale.
SettleStale(t, ack) ==
  /\ op = Idle /\ Pending(t) /\ conn.consumer # t.consumer
  /\ conn' = [conn EXCEPT !.settled = @ \cup {t}]
  /\ hist' = IF ack THEN [hist EXCEPT !.asked = Asks(t)] ELSE hist
  /\ UNCHANGED <<broker, table, tokens, op>>

\* ack and nack without a token settle the last delivery of pop.
LegacySettle(t, ack) ==
  /\ op = Idle /\ t \in conn.last
  /\ broker' = IF ack THEN Acknowledged(t) ELSE Released(t)
  /\ hist' = IF ack THEN [hist EXCEPT !.asked = Asks(t)] ELSE hist
  /\ conn' = [conn EXCEPT !.last = {}]
  /\ UNCHANGED <<table, tokens, op>>
-----------------------------------------------------------------------------
PumpStep(i) ==
  \/ PumpSubscribes(i) \/ PumpWakes(i) \/ PumpFails(i)
  \/ PumpReceives(i, {}) \/ \E m \in Messages : PumpReceives(i, {m})

Next ==
  \/ ConnectBegin \/ ConnectDone \/ ConnectAborted
  \/ DisconnectBegin \/ Disconnect
  \/ \E i \in DOMAIN table : PumpStep(i)
  \/ \E d \in broker.leased : InvisibleDurationEnds(d)
  \/ \E m \in Messages, stored \in BOOLEAN : Push(m, stored)
  \/ PopAsks \/ PopTakes \/ PopDrops
  \/ \E withToken \in BOOLEAN : PopDelivers(withToken)
  \/ \E t \in tokens, ack \in BOOLEAN : SettleBegin(t, ack) \/ SettleStale(t, ack)
  \/ \E t \in conn.last, ack \in BOOLEAN : LegacySettle(t, ack)
  \/ SettleEnd \/ \E taken \in BOOLEAN : SettleFails(taken)

Spec == Init /\ [][Next]_vars
=============================================================================
