------------------------------ MODULE SqsQueue ------------------------------
(***************************************************************************)
(* The SQS backend, src/scrapy_extension/backends/sqs.py.                  *)
(*                                                                         *)
(* Operations lease the client generation; a disconnect removes the        *)
(* generation at once and then waits for the leases, holding _connect_lock *)
(* so that no connect overtakes it.  The lifecycle of a queue lets the     *)
(* operations run concurrently and a purge alone: clear_queue raises the   *)
(* queue epoch, which makes the older receipts void, and keeps the others  *)
(* out for the minute in which the server purges.  op is an operation that *)
(* is inside its lease.                                                    *)
(***************************************************************************)
EXTENDS Naturals, FiniteSets

CONSTANTS
  Messages,        \* the payloads
  MaxInFlight,     \* _MAX_IN_FLIGHT, the cap of the diagnostic set
  MaxDisconnects,  \* bound: disconnects
  MaxClears,       \* bound: purges
  MaxDeliveries    \* bound: messages leased in one behaviour

VARIABLES
  conn,     \* the backend object
  broker,   \* the queue, on the server
  table,    \* the deliveries and the lifecycle of the queue
  tokens,   \* the delivery tokens in the application's hands
  op,       \* the operation inside its lease
  hist      \* what was stored, and what the application asked for

vars == <<conn, broker, table, tokens, op, hist>>

Idle == [kind |-> "idle"]
NoGeneration == 0
NoDeliveries == [inFlight |-> {}, last |-> {}]

Init ==
  /\ conn \in [generation : {NoGeneration}, made : {0}, leaving : {FALSE},
               disconnects : {0}, resolved : {FALSE}, verifies : BOOLEAN]
  /\ broker \in [owner : {"absent", "ours", "other"}, visible : {{}},
                 leased : {{}}, receipts : {0}]
  /\ table = [deliveries |-> NoDeliveries, epoch |-> 0, settled |-> {}]
  /\ tokens = {} /\ op = Idle
  /\ hist = [accepted |-> {}, asked |-> {}, unsure |-> {}, cleared |-> {},
             holder |-> [m \in Messages |-> {}]]

Accepted == hist.accepted
Gone == hist.accepted \ (broker.visible \cup {d.msg : d \in broker.leased})
Connected == conn.generation # NoGeneration

\* lifecycle.operation: no purge of the same generation is running.
OperationMayRun == op.kind = "clear" => op.generation # conn.generation

QueueLen == Cardinality(broker.visible) + Cardinality(broker.leased)
-----------------------------------------------------------------------------
(* Connections                                                             *)

\* A new client generation, with its own queue addresses and lifecycles.
Connect ==
  /\ ~Connected /\ ~conn.leaving
  /\ conn' = [conn EXCEPT !.generation = conn.made + 1, !.made = @ + 1,
                          !.resolved = FALSE]
  /\ table' = [table EXCEPT !.epoch = 0]
  /\ UNCHANGED <<broker, tokens, op, hist>>

DisconnectBegin ==
  /\ Connected /\ ~conn.leaving /\ conn.disconnects < MaxDisconnects
  /\ conn' = [conn EXCEPT !.generation = NoGeneration, !.leaving = TRUE,
                          !.disconnects = @ + 1, !.resolved = FALSE]
  /\ UNCHANGED <<broker, table, tokens, op, hist>>

\* The leases of the generation have ended.
DisconnectEnd ==
  /\ conn.leaving /\ op = Idle
  /\ conn' = [conn EXCEPT !.leaving = FALSE]
  /\ table' = [table EXCEPT !.deliveries = NoDeliveries]
  /\ UNCHANGED <<broker, tokens, op, hist>>
-----------------------------------------------------------------------------
(* Push and pop                                                            *)

\* _queue_url_for_generation: look the queue up or create it, and check its
\* owner; the answer is kept for the generation.
QueueUrl ==
  /\ Connected
  /\ conn.resolved \/ ~conn.verifies \/ broker.owner # "other"

Resolved == [conn EXCEPT !.resolved = TRUE]
Created(b) == [b EXCEPT !.owner = IF @ = "absent" THEN "ours" ELSE @]

Push(m, stored) ==
  /\ QueueUrl /\ OperationMayRun /\ m \notin hist.accepted
  /\ conn' = Resolved
  /\ broker' = [Created(broker) EXCEPT
       !.visible = IF stored THEN @ \cup {m} ELSE @]
  /\ hist' = [hist EXCEPT !.accepted = IF stored THEN @ \cup {m} ELSE @]
  /\ UNCHANGED <<table, tokens, op>>

\* _receive with a message there, which the server leases.
Receive(m, issueToken) ==
  /\ QueueUrl /\ OperationMayRun /\ m \in broker.visible
  /\ broker.receipts < MaxDeliveries
  /\ LET lease == [msg |-> m, receipt |-> broker.receipts + 1]
         token == [generation |-> conn.generation, epoch |-> table.epoch,
                   lease |-> lease]
         inFlight == table.deliveries.inFlight
     IN  /\ broker' = [Created(broker) EXCEPT !.visible = @ \ {m},
                         !.leased = @ \cup {lease}, !.receipts = @ + 1]
         /\ table' = [table EXCEPT !.deliveries =
              IF ~issueToken THEN [@ EXCEPT !.last = {token}]
              ELSE IF Cardinality(inFlight) < MaxInFlight
                   THEN [@ EXCEPT !.inFlight = inFlight \cup {token}] ELSE @]
         /\ tokens' = IF issueToken THEN tokens \cup {token} ELSE tokens
         /\ hist' = [hist EXCEPT !.asked = @ \ {m}, !.holder[m] = {token}]
  /\ conn' = Resolved
  /\ UNCHANGED op

Pop(m) == Receive(m, FALSE)
PopWithAck(m) == Receive(m, TRUE)

\* The server takes an unsettled message back.
VisibilityTimeoutEnds(d) ==
  /\ d \in broker.leased
  /\ broker' = [broker EXCEPT !.leased = @ \ {d},
                              !.visible = @ \cup {d.msg}]
  /\ UNCHANGED <<conn, table, tokens, op, hist>>
-----------------------------------------------------------------------------
(* Ack and nack                                                            *)

Asks(t) ==
  IF t \in hist.holder[t.lease.msg] THEN hist.asked \cup {t.lease.msg}
  ELSE hist.asked

Forgotten(t) ==
  [table EXCEPT !.deliveries.inFlight = @ \ {t}, !.deliveries.last = @ \ {t},
                !.settled = @ \cup {t}]

\* The server knows the newest lease of a message only.
Deleted(t) == [broker EXCEPT !.leased = @ \ {t.lease}]
Released(t) ==
  [broker EXCEPT !.leased = @ \ {t.lease},
     !.visible = @ \cup {d.msg : d \in broker.leased \cap {t.lease}}]

Pending(t) == t \notin table.settled

\* _settle_token and _settle_legacy_receipt: the receipt is of the published
\* generation and of the epoch that the lifecycle admits the operation in.
SettleBegin(t, ack) ==
  /\ op = Idle /\ Pending(t)
  /\ conn.generation = t.generation /\ table.epoch = t.epoch
  /\ op' = [kind |-> "settle", token |-> t, ack |-> ack]
  /\ hist' = IF ack THEN [hist EXCEPT !.asked = Asks(t)] ELSE hist
  /\ UNCHANGED <<conn, broker, table, tokens>>

SettleEnd ==
  /\ op.kind = "settle"
  /\ broker' = IF op.ack THEN Deleted(op.token) ELSE Released(op.token)
  /\ table' = Forgotten(op.token)
  /\ op' = Idle
  /\ UNCHANGED <<conn, tokens, hist>>

\* The client raises, whether or not the server took it: pending again.
SettleFails(taken) ==
  /\ op.kind = "settle"
  /\ broker' = IF taken /\ op.ack THEN Deleted(op.token) ELSE broker
  /\ hist' = [hist EXCEPT !.unsure =
       IF broker' # broker THEN @ \cup {op.token.lease.msg} ELSE @]
  /\ op' = Idle
  /\ UNCHANGED <<conn, table, tokens>>

\* A receipt of another generation is stale, one of another epoch cleared.
SettleStale(t, ack) ==
  /\ op = Idle /\ Pending(t)
  /\ conn.generation # t.generation \/ table.epoch # t.epoch
  /\ table' = Forgotten(t)
  /\ hist' = IF ack THEN [hist EXCEPT !.asked = Asks(t)] ELSE hist
  /\ UNCHANGED <<conn, broker, tokens, op>>
-----------------------------------------------------------------------------
(* clear_queue                                                             *)

\* The purge starts when the other operations have ended.
ClearBegin ==
  /\ QueueUrl /\ op = Idle /\ table.epoch < MaxClears
  /\ conn' = Resolved
  /\ broker' = Created(broker)
  /\ table' = [table EXCEPT !.epoch = @ + 1, !.deliveries = NoDeliveries]
  /\ op' = [kind |-> "clear", generation |-> conn.generation]
  /\ hist' = [hist EXCEPT !.cleared = @ \cup hist.accepted]
  /\ UNCHANGED tokens

\* The server purges within the window, or the purge failed.
ClearEnd(purged) ==
  /\ op.kind = "clear"
  /\ broker' = IF purged THEN [broker EXCEPT !.visible = {}, !.leased = {}]
               ELSE broker
  /\ op' = Idle
  /\ UNCHANGED <<conn, table, tokens, hist>>
-----------------------------------------------------------------------------
Next ==
  \/ Connect \/ DisconnectBegin \/ DisconnectEnd
  \/ \E m \in Messages, stored \in BOOLEAN : Push(m, stored)
  \/ \E m \in Messages : Pop(m) \/ PopWithAck(m)
  \/ \E d \in broker.leased : VisibilityTimeoutEnds(d)
  \/ \E t \in tokens \cup table.deliveries.last, ack \in BOOLEAN :
       SettleBegin(t, ack) \/ SettleStale(t, ack)
  \/ SettleEnd \/ \E taken \in BOOLEAN : SettleFails(taken)
  \/ ClearBegin \/ \E purged \in BOOLEAN : ClearEnd(purged)

Spec == Init /\ [][Next]_vars
=============================================================================
