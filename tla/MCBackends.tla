----------------------------- MODULE MCBackends -----------------------------
(***************************************************************************)
(* The ten backends, model-checked side by side: which says the backend a  *)
(* behaviour is about.  The five that acknowledge are checked against the  *)
(* contract they share, the five others against what StoreServer says of   *)
(* the answers.                                                            *)
(***************************************************************************)
EXTENDS Naturals, TLC

CONSTANTS
  Messages, NumPartitions, Priorities, MaxDisconnects, MaxEpoch,
  MaxDeliveries, KafkaDeliveries, MaxInFlight, BufferSize, MaxPumps, MaxClears,
  Clients, StorePriorities, Keys, MaxWrites, MaxTime

VARIABLES which, conn, broker, table, tokens, op, hist

MCvars == <<which, conn, broker, table, tokens, op, hist>>

Kafka == INSTANCE KafkaQueue WITH MaxDeliveries <- KafkaDeliveries
RabbitMQ == INSTANCE RabbitMQQueue
Pulsar == INSTANCE PulsarQueue
RocketMQ == INSTANCE RocketMQQueue
Sqs == INSTANCE SqsQueue

Server == INSTANCE StoreServer WITH Priorities <- StorePriorities
Redis == INSTANCE RedisBackend WITH Priorities <- StorePriorities
MongoDB == INSTANCE MongoDBBackend WITH Priorities <- StorePriorities
ElasticSearch == INSTANCE ElasticSearchBackend WITH Priorities <- StorePriorities
DynamoDB == INSTANCE DynamoDBBackend WITH Priorities <- StorePriorities
Memcached == INSTANCE MemcachedBackend WITH Priorities <- StorePriorities

Stores == {"redis", "mongodb", "elasticsearch", "dynamodb", "memcached"}
\* Deliveries and their tokens are the acknowledging backends' own.
NothingDelivered == table = {} /\ tokens = {}

MCInit ==
  \/ which = "kafka" /\ Kafka!Init
  \/ which = "rabbitmq" /\ RabbitMQ!Init
  \/ which = "pulsar" /\ Pulsar!Init
  \/ which = "rocketmq" /\ RocketMQ!Init
  \/ which = "sqs" /\ Sqs!Init
  \/ which = "redis" /\ Redis!Init /\ NothingDelivered
  \/ which = "mongodb" /\ MongoDB!Init /\ NothingDelivered
  \/ which = "elasticsearch" /\ ElasticSearch!Init /\ NothingDelivered
  \/ which = "dynamodb" /\ DynamoDB!Init /\ NothingDelivered
  \/ which = "memcached" /\ Memcached!Init /\ NothingDelivered

MCNext ==
  /\ which' = which
  /\ \/ which = "kafka" /\ Kafka!Next
     \/ which = "rabbitmq" /\ RabbitMQ!Next
     \/ which = "pulsar" /\ Pulsar!Next
     \/ which = "rocketmq" /\ RocketMQ!Next
     \/ which = "sqs" /\ Sqs!Next
     \/ which = "redis" /\ Redis!Next /\ UNCHANGED <<table, tokens>>
     \/ which = "mongodb" /\ MongoDB!Next /\ UNCHANGED <<table, tokens>>
     \/ which = "elasticsearch" /\ ElasticSearch!Next /\ UNCHANGED <<table, tokens>>
     \/ which = "dynamodb" /\ DynamoDB!Next /\ UNCHANGED <<table, tokens>>
     \/ which = "memcached" /\ Memcached!Next /\ UNCHANGED <<table, tokens>>

MCSpec == MCInit /\ [][MCNext]_MCvars

Symmetry == Permutations(Messages) \cup Permutations(Clients)
-----------------------------------------------------------------------------
(* The refinement: what of a backend's state the contract speaks about.    *)

Accepted ==
  CASE which = "kafka" -> Kafka!Accepted
    [] which = "rabbitmq" -> RabbitMQ!Accepted
    [] which \in Stores -> {}
    [] OTHER -> hist.accepted
Gone ==
  CASE which = "kafka" -> Kafka!Gone
    [] which = "rabbitmq" -> RabbitMQ!Gone
    [] which = "pulsar" -> Pulsar!Gone
    [] which = "rocketmq" -> RocketMQ!Gone
    [] which = "sqs" -> Sqs!Gone
    [] which \in Stores -> {}
Asked ==
  CASE which = "rabbitmq" -> RabbitMQ!Asked [] which \in Stores -> {} [] OTHER -> hist.asked
Unsure ==
  CASE which = "rabbitmq" -> RabbitMQ!Unsure [] which \in Stores -> {} [] OTHER -> hist.unsure
\* The other three have no clear_queue.
Cleared ==
  CASE which = "rabbitmq" -> RabbitMQ!Cleared
    [] which = "sqs" -> hist.cleared
    [] OTHER -> {}

\* RabbitMQ promises nothing for a queue that is not durable.
Contract == INSTANCE DeliveryContract WITH
  accepted <- Accepted, asked <- Asked, gone <- Gone, unsure <- Unsure,
  cleared <- Cleared

\* Whatever connects, disconnects, rebalances, late acks and stale tokens
\* happen, a stored message leaves the broker for good only by the ack of its
\* newest delivery or by a clear (ack and nack of the five backends).
Refines == Contract!Spec

\* At most one consumer of the Pulsar backend holds the subscription besides
\* those whose close() raised, and none of these is in use again
\* (_run_receive_pump, _run_consumer_retirement and disconnect).
OneConsumer == which = "pulsar" => Pulsar!OneConsumer

\* A message of a queue without acknowledgements is handed to one caller at
\* most, and none disappears unaccounted for (pop of the five stores).
PopsAccounted == which \in Stores => Server!PopsAccounted

\* A stored value stays until it expires, is overwritten or deleted on request
\* (store, delete and the lazy cleanups of the five stores).
StoredIsKept == which \in Stores => Server!StoredIsKept

\* A client is closed only when no operation uses it (disconnect).
NoUseAfterClose == which \in Stores => Server!NoUseAfterClose
=============================================================================
