\* Two messages in one partition, one disconnect: enough for a stale token, a
\* rebalance between delivery and ack, and acks out of order.  Two threads on
\* one store client, two payloads of two priorities, a key that is written
\* twice, one disconnect.
CONSTANTS
  Messages = {m1, m2}
  NumPartitions = 1
  Priorities = {0}
  MaxDisconnects = 1
  MaxEpoch = 4
  MaxDeliveries = 2
  KafkaDeliveries = 3
  MaxInFlight = 1
  BufferSize = 1
  MaxPumps = 2
  MaxClears = 1
  Clients = {c1, c2}
  StorePriorities = {0, 1}
  Keys = {k1}
  MaxWrites = 2
  MaxTime = 1
SPECIFICATION MCSpec
SYMMETRY Symmetry
INVARIANTS OneConsumer PopsAccounted StoredIsKept NoUseAfterClose
PROPERTY Refines
CHECK_DEADLOCK FALSE
