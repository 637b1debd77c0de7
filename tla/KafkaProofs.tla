---------------------------- MODULE KafkaProofs -----------------------------
(***************************************************************************)
(* The Kafka backend keeps DeliveryContract: one inductive invariant of    *)
(* the consumer, its generation and the committed offsets, and a lemma per *)
(* action that keeps it and makes a step of the contract.  The theorem for *)
(* all acknowledging backends is in SettlementProofs.                      *)
(***************************************************************************)
EXTENDS MCBackends, Sequences, Integers, FiniteSetTheorems, WellFoundedInduction, TLAPS

----------------------------------------------------------------------------
(* The steps of the contract that the acknowledging backends share. *)

ContractStep == [Contract!Next]_(Contract!vars)

\* Nothing the contract speaks about changes.
LEMMA NoPromise ==
  ASSUME Accepted' = Accepted, Asked' = Asked, Gone' = Gone, Unsure' = Unsure, Cleared' = Cleared
  PROVE  ContractStep
  BY DEF ContractStep, Contract!vars

\* A message is stored.
LEMMA PromisesPush ==
  ASSUME NEW m \in Messages, m \notin Accepted, Accepted' = Accepted \union {m},
         Asked' = Asked, Gone' = Gone, Unsure' = Unsure, Cleared' = Cleared
  PROVE  ContractStep
  <1>1. Contract!Push(m)
    BY DEF Contract!Push
  <1> QED BY <1>1, Zenon DEF ContractStep, Contract!Next

\* A message is handed out, and its older deliveries are superseded.
LEMMA PromisesDeliver ==
  ASSUME NEW m \in Messages, m \in Accepted, m \in Gone => m \in Unsure, Asked' = Asked \ {m},
         Accepted' = Accepted, Gone' = Gone, Unsure' = Unsure, Cleared' = Cleared
  PROVE  ContractStep
  <1>1. Contract!Deliver(m)
    BY DEF Contract!Deliver
  <1> QED BY <1>1, Zenon DEF ContractStep, Contract!Next

\* The holder of the newest delivery asks for its end.
LEMMA PromisesAck ==
  ASSUME NEW m \in Messages, m \in Accepted, Asked' = Asked \union {m},
         Gone' \in {Gone, Gone \union {m}}, Unsure' \in {Unsure, Unsure \union {m}},
         Accepted' = Accepted, Cleared' = Cleared
  PROVE  ContractStep
  <1>1. Contract!Ack(m)
    BY DEF Contract!Ack
  <1> QED BY <1>1, Zenon DEF ContractStep, Contract!Next

\* Messages that were asked for leave, and some of unknown outcome come back.
LEMMA PromisesSettle ==
  ASSUME NEW S \in SUBSET Messages, NEW back \in SUBSET Messages, S \subseteq Asked, back \subseteq Unsure,
         Gone' = (Gone \ back) \union S, Unsure' \in {Unsure, Unsure \union S},
         Accepted' = Accepted, Asked' = Asked, Cleared' = Cleared
  PROVE  ContractStep
  <1>1. Contract!Settle(S, back)
    BY DEF Contract!Settle
  <1> QED BY <1>1, Zenon DEF ContractStep, Contract!Next

\* The queue is cleared.
LEMMA PromisesClear ==
  ASSUME NEW C \in SUBSET Messages, NEW S \in SUBSET Messages, C \subseteq Accepted,
         S \subseteq Cleared \union C, Cleared' = Cleared \union C, Gone' = Gone \union S,
         Accepted' = Accepted, Asked' = Asked, Unsure' = Unsure
  PROVE  ContractStep
  <1>1. Contract!Clear(C, S)
    BY DEF Contract!Clear
  <1> QED BY <1>1, Zenon DEF ContractStep, Contract!Next

\* A nack or a late ack moves the consumer back over S.
LEMMA PromisesRewind ==
  ASSUME NEW S \in SUBSET Messages, S \subseteq Accepted, Unsure' = Unsure \union S,
         Accepted' = Accepted, Asked' = Asked, Gone' = Gone, Cleared' = Cleared
  PROVE  ContractStep
  <1>1. Contract!Rewind(S)
    BY DEF Contract!Rewind
  <1> QED BY <1>1, Zenon DEF ContractStep, Contract!Next

----------------------------------------------------------------------------
(* Kafka: the state, and what a partition's deliveries, acks and commits say of each other. *)

KParts == Kafka!Partitions
KafkaTokens == [part : KParts, offset : Nat, gen : Nat, epoch : Nat, attempt : Nat]
KafkaConns ==
  [config : {"valid", "invalid"}, producer : BOOLEAN, consumer : Nat, gen : Nat, consumerGen : Nat,
   assignEpoch : Nat, epoch : Nat, attempts : Nat, consumers : Nat, subscribed : BOOLEAN,
   leaving : BOOLEAN]
KafkaBrokers ==
  [topic : {"absent", "match", "other"}, log : [KParts -> Seq(Messages)], committed : [KParts -> Nat],
   position : [KParts -> Nat], owner : [KParts -> Nat], assigned : SUBSET KParts]
KafkaHandles ==
  [active : SUBSET (KParts \X Nat \X Nat), inFlight : [KParts -> SUBSET Nat],
   watermarks : [KParts -> Int], highWater : [KParts -> Nat],
   legacy : {<<>>} \union (KParts \X Nat), producer : BOOLEAN, consumer : Nat, consumerGen : Nat,
   assignEpoch : Nat, retired : BOOLEAN, topicKnown : BOOLEAN]
KafkaHists ==
  [asked : SUBSET Messages, unsure : SUBSET Messages, left : SUBSET Messages,
   holders : [Messages -> SUBSET KafkaTokens]]

KafkaTypes ==
  /\ conn \in KafkaConns /\ broker \in KafkaBrokers /\ table \in Seq(KafkaHandles)
  /\ tokens \subseteq KafkaTokens /\ hist \in KafkaHists /\ conn.gen <= Len(table)

\* The messages of a partition, by offset.
At(p, x) == broker.log[p][x + 1]
Offsets(p) == {x \in Nat : x < Len(broker.log[p])}
AskedAt(p) == {x \in Offsets(p) : At(p, x) \in hist.asked}
LeftAt(p) == {x \in Offsets(p) : At(p, x) \in hist.left}
UnsureAt(p) == {x \in Offsets(p) : At(p, x) \in hist.unsure}
Position(p) == broker.position[p]

\* The generation in use: the offsets in flight, those that have a live token
\* and the one in the legacy slot, the base of the watermark and its limit.
Cur == table[conn.gen]
Reading == conn.gen # 0 /\ conn.consumer # 0
InFlight(p) == Cur.inFlight[p]
LiveAt(p) == {x \in Nat : \E a \in Nat : <<p, x, a>> \in Cur.active}
SlotAt(p) == {x \in Nat : Cur.legacy = <<p, x>>}
Base(p) == Cur.watermarks[p]
High(p) == Cur.highWater[p]

\* A message has one place in the logs, and only stored ones are spoken of.
OnePlace ==
  /\ \A p, q \in KParts : \A x \in Offsets(p), y \in Offsets(q) : At(p, x) = At(q, y) => p = q /\ x = y
  /\ hist.asked \union hist.left \union hist.unsure \subseteq Kafka!Accepted

\* A commit has passed what is below the committed offset; what it passed and
\* is above again, or will be read again, may be handed out again.
Committed(p) ==
  /\ broker.committed[p] <= Len(broker.log[p])
  /\ \A x \in Nat : x < broker.committed[p] => x \in LeftAt(p)
  /\ \A x \in LeftAt(p) : x >= broker.committed[p] => x \in UnsureAt(p)
  /\ p \in broker.assigned =>
       /\ Position(p) <= Len(broker.log[p])
       /\ \A x \in LeftAt(p) : x >= Position(p) => x \in UnsureAt(p)

\* The generation in use has the backend's consumer.
KafkaGeneration ==
  /\ conn.gen = 0 => conn.consumer = 0
  /\ conn.gen # 0 => Cur.consumer = conn.consumer /\ ~Cur.retired
  /\ op.kind = "build" => conn.consumer = 0 /\ conn.consumers > 0

\* The nack of the legacy record took it out of flight: it is read next.
Loose(p, x) == x = Position(p) /\ LiveAt(p) = {} /\ SlotAt(p) = {}

Entries(p) ==
  /\ InFlight(p) \subseteq Offsets(p) /\ LiveAt(p) \subseteq Offsets(p) /\ SlotAt(p) \subseteq Offsets(p)
  /\ \A x \in InFlight(p) \union LiveAt(p) : x < High(p) /\ Base(p) >= 0
  /\ High(p) <= Len(broker.log[p]) /\ Base(p) <= High(p) /\ Base(p) >= -1
  /\ p \notin broker.assigned => InFlight(p) = {} /\ LiveAt(p) = {} /\ SlotAt(p) = {}

\* What was read is in flight, acked, committed, or read next.
Accounted(p) ==
  \A x \in Nat : x < Position(p) \/ x < High(p) \/ (\E y \in SlotAt(p) : x < y) =>
    x \in InFlight(p) \/ x \in AskedAt(p) \/ x \in LeftAt(p) \/ Loose(p, x)

\* What is acked or still held, and is read again, may be handed out again.
Reread(p) ==
  /\ \A x \in AskedAt(p) : x >= Position(p) /\ (x < High(p) \/ \E y \in SlotAt(p) : x < y) =>
       x \in InFlight(p) \/ x \in UnsureAt(p) \/ Loose(p, x)
  /\ \A x \in LiveAt(p) \union SlotAt(p) : x >= Position(p) \/ x \in LeftAt(p) => x \in UnsureAt(p)
  /\ \A x \in SlotAt(p) : x \in LiveAt(p) \/ x \notin InFlight(p) => x \in UnsureAt(p)

\* What is handed out below the base of the watermark, and what is read next
\* up to it, a commit has passed.
WatermarkBase(p) == IF Base(p) = -1 THEN Position(p) ELSE Base(p)
BasePassed(p) ==
  /\ \A y \in InFlight(p) \union LiveAt(p) \union SlotAt(p) \union {Position(p)} :
       \A x \in Nat : y <= x /\ x < WatermarkBase(p) => x \in LeftAt(p)
  /\ SlotAt(p) # {} /\ Base(p) # -1 => Position(p) <= High(p)

Cohort(p) == Entries(p) /\ (p \in broker.assigned => Accounted(p) /\ Reread(p) /\ BasePassed(p))

\* One live token of an offset, in flight unless its ack commits.
Attempts ==
  /\ \A x, y \in Cur.active : x[1] = y[1] /\ x[2] = y[2] => x = y
  /\ \A x \in Cur.active :
       \/ x[2] \in InFlight(x[1])
       \/ op.kind = "ack" /\ x = <<op.token.part, op.token.offset, op.token.attempt>>

\* Who can settle a message is one of its holders.
TokenLive(t) ==
  /\ t.gen = Cur.consumerGen /\ t.epoch = Cur.assignEpoch
  /\ <<t.part, t.offset, t.attempt>> \in Cur.active
SlotHeld ==
  \A p \in KParts : \A x \in SlotAt(p) : Kafka!LegacyRead(p, x) \in hist.holders[At(p, x)]
Holders ==
  /\ \A t \in tokens : t.offset \in Offsets(t.part) /\ t.attempt <= conn.attempts
  /\ Reading => SlotHeld /\ \A t \in tokens : TokenLive(t) => t \in hist.holders[At(t.part, t.offset)]

\* A commit under way passes what may leave, for the generation in use or for
\* one that was retired under it.
Passes(p, w) ==
  \A x \in Nat : x < w =>
    \/ x \in LeftAt(p)
    \/ x \in AskedAt(p) /\ (p \in broker.assigned /\ x >= Position(p) => x \in UnsureAt(p))
Committing ==
  LET p == op.token.part
      o == op.token.offset
  IN  /\ Reading /\ p \in broker.assigned
      /\ ~op.legacy => /\ op.token \in tokens /\ TokenLive(op.token) /\ o \notin InFlight(p)
                       /\ op.watermark = High(p) \/ op.watermark \in InFlight(p)
                       /\ \A x \in InFlight(p) : x < op.watermark => x \in LeftAt(p)
      /\ op.legacy => /\ Cur.legacy = <<p, o>> /\ LiveAt(p) = {} /\ InFlight(p) \subseteq {o}
                      /\ op.watermark = o + 1
Acking ==
  op.kind = "ack" =>
    /\ op.gen \in 1..Len(table) /\ conn.gen \in {0, op.gen} /\ op.legacy \in BOOLEAN
    /\ op.token.part \in KParts /\ op.token.offset \in Nat /\ op.watermark \in Nat
    /\ op.watermark <= Len(broker.log[op.token.part])
    /\ Passes(op.token.part, op.watermark)
    /\ conn.gen # 0 => Committing

KafkaInv ==
  /\ KafkaTypes /\ OnePlace /\ KafkaGeneration
  /\ \A p \in KParts : Committed(p)
  /\ Reading => (\A p \in KParts : Cohort(p)) /\ Attempts
  /\ Holders /\ Acking

----------------------------------------------------------------------------
(* What the steps share: partitions and handles that stay as they are. *)

LEMMA KafkaMapped ==
  ASSUME which = "kafka"
  PROVE  /\ Accepted = Kafka!Accepted /\ Asked = hist.asked /\ Unsure = hist.unsure
         /\ Cleared = {} /\ Gone = hist.left
  BY DEF Accepted, Asked, Unsure, Cleared, Gone, Stores, Kafka!Gone

LEMMA KafkaMappedNext ==
  ASSUME which' = "kafka"
  PROVE  /\ Accepted' = Kafka!Accepted' /\ Asked' = hist'.asked /\ Unsure' = hist'.unsure
         /\ Cleared' = {} /\ Gone' = hist'.left
  BY DEF Accepted, Asked, Unsure, Cleared, Gone, Stores, Kafka!Gone

\* The stored messages are those of the logs.
LEMMA AcceptedAt ==
  ASSUME KafkaTypes
  PROVE  /\ \A p \in KParts : \A x \in Offsets(p) : At(p, x) \in Kafka!Accepted /\ At(p, x) \in Messages
         /\ \A m \in Kafka!Accepted : \E p \in KParts : \E x \in Offsets(p) : m = At(p, x)
  <1>1. \A p \in KParts : broker.log[p] \in Seq(Messages)
    BY DEF KafkaTypes, KafkaBrokers
  <1>2. ASSUME NEW p \in KParts, NEW x \in Offsets(p)
        PROVE  At(p, x) \in Kafka!Accepted /\ At(p, x) \in Messages
    <2>1. x + 1 \in DOMAIN broker.log[p]
      BY <1>1 DEF Offsets
    <2>2. At(p, x) \in Messages
      BY <1>1, <2>1 DEF At
    <2>3. At(p, x) \in {broker.log[p][i] : i \in DOMAIN broker.log[p]}
      BY <2>1 DEF At
    <2> QED BY <2>2, <2>3 DEF Kafka!Accepted, KParts
  <1>3. ASSUME NEW m \in Kafka!Accepted
        PROVE  \E p \in KParts : \E x \in Offsets(p) : m = At(p, x)
    <2>1. PICK p \in KParts : m \in {broker.log[p][i] : i \in DOMAIN broker.log[p]}
      BY DEF Kafka!Accepted, KParts
    <2>2. PICK i \in DOMAIN broker.log[p] : m = broker.log[p][i]
      BY <2>1
    <2>3. i - 1 \in Offsets(p) /\ (i - 1) + 1 = i
      BY <1>1, <2>2 DEF Offsets
    <2>4. m = At(p, i - 1)
      BY <2>2, <2>3 DEF At
    <2> QED BY <2>3, <2>4
  <1> QED BY <1>2, <1>3

LEMMA AcceptedAtNext ==
  ASSUME KafkaTypes'
  PROVE  /\ \A p \in KParts : \A x \in Offsets(p)' : At(p, x)' \in Kafka!Accepted' /\ At(p, x)' \in Messages
         /\ \A m \in Kafka!Accepted' : \E p \in KParts : \E x \in Offsets(p)' : m = At(p, x)'
  <1>1. \A p \in KParts : broker'.log[p] \in Seq(Messages)
    BY DEF KafkaTypes, KafkaBrokers
  <1>2. ASSUME NEW p \in KParts, NEW x \in Offsets(p)'
        PROVE  At(p, x)' \in Kafka!Accepted' /\ At(p, x)' \in Messages
    <2>1. x + 1 \in DOMAIN broker'.log[p] /\ At(p, x)' = broker'.log[p][x + 1]
      BY <1>1 DEF Offsets, At
    <2>2. At(p, x)' \in Messages
      BY <1>1, <2>1
    <2>3. At(p, x)' \in {broker'.log[p][i] : i \in DOMAIN broker'.log[p]}
      BY <2>1
    <2> QED BY <2>2, <2>3 DEF Kafka!Accepted, KParts
  <1>3. ASSUME NEW m \in Kafka!Accepted'
        PROVE  \E p \in KParts : \E x \in Offsets(p)' : m = At(p, x)'
    <2>1. PICK p \in KParts : m \in {broker'.log[p][i] : i \in DOMAIN broker'.log[p]}
      BY DEF Kafka!Accepted, KParts
    <2>2. PICK i \in DOMAIN broker'.log[p] : m = broker'.log[p][i]
      BY <2>1
    <2>3. i - 1 \in Offsets(p)' /\ (i - 1) + 1 = i
      BY <1>1, <2>2 DEF Offsets
    <2>4. m = At(p, i - 1)'
      BY <2>2, <2>3 DEF At
    <2> QED BY <2>3, <2>4
  <1> QED BY <1>2, <1>3

\* Nothing is stored and nothing is said of what is.
LEMMA KafkaSame ==
  ASSUME which = "kafka", which' = which, hist' = hist, broker'.log = broker.log
  PROVE  ContractStep
  <1>1. Kafka!Accepted' = Kafka!Accepted
    BY DEF Kafka!Accepted
  <1> QED BY <1>1, KafkaMapped, KafkaMappedNext, NoPromise

\* A partition that a step does not touch.
SamePartition(p) ==
  /\ Offsets(p)' = Offsets(p) /\ Len(broker'.log[p]) = Len(broker.log[p])
  /\ AskedAt(p)' = AskedAt(p) /\ LeftAt(p)' = LeftAt(p) /\ UnsureAt(p)' = UnsureAt(p)
  /\ Position(p)' = Position(p) /\ (p \in broker'.assigned <=> p \in broker.assigned)
SameCohort(p) ==
  /\ InFlight(p)' = InFlight(p) /\ LiveAt(p)' = LiveAt(p) /\ SlotAt(p)' = SlotAt(p)
  /\ Base(p)' = Base(p) /\ High(p)' = High(p)

LEMMA CohortKept ==
  ASSUME NEW p \in KParts, SamePartition(p), SameCohort(p), Cohort(p)
  PROVE  Cohort(p)'
  <1>1. Entries(p)'
    BY DEF SamePartition, SameCohort, Cohort, Entries
  <1>2. p \in broker'.assigned => Accounted(p)'
    BY DEF SamePartition, SameCohort, Cohort, Accounted, Loose
  <1>3. p \in broker'.assigned => Reread(p)'
    BY DEF SamePartition, SameCohort, Cohort, Reread, Loose
  <1>4. p \in broker'.assigned => BasePassed(p)'
    BY DEF SamePartition, SameCohort, Cohort, BasePassed, WatermarkBase
  <1> QED BY <1>1, <1>2, <1>3, <1>4 DEF Cohort

LEMMA CommittedKept ==
  ASSUME NEW p \in KParts, SamePartition(p), broker'.committed[p] = broker.committed[p], Committed(p)
  PROVE  Committed(p)'
  BY DEF SamePartition, Committed

\* The logs and what is said of their messages stay.
LEMMA SameLogs ==
  ASSUME hist'.asked = hist.asked, hist'.left = hist.left, hist'.unsure = hist.unsure,
         broker'.log = broker.log
  PROVE  /\ \A p \in KParts :
              /\ Offsets(p)' = Offsets(p) /\ Len(broker'.log[p]) = Len(broker.log[p])
              /\ AskedAt(p)' = AskedAt(p) /\ LeftAt(p)' = LeftAt(p) /\ UnsureAt(p)' = UnsureAt(p)
         /\ \A p, x : At(p, x)' = At(p, x)
         /\ OnePlace => OnePlace'
  <1>1. \A p, x : At(p, x)' = At(p, x)
    BY DEF At
  <1>2. \A p : Offsets(p)' = Offsets(p)
    BY DEF Offsets
  <1>3. \A p : AskedAt(p)' = AskedAt(p) /\ LeftAt(p)' = LeftAt(p) /\ UnsureAt(p)' = UnsureAt(p)
    BY <1>1, <1>2 DEF AskedAt, LeftAt, UnsureAt
  <1>4. Kafka!Accepted' = Kafka!Accepted
    BY DEF Kafka!Accepted
  <1> QED BY <1>1, <1>2, <1>3, <1>4 DEF OnePlace

\* The current handles keep what was delivered on them.
SameHandles ==
  /\ Cur'.active = Cur.active /\ Cur'.inFlight = Cur.inFlight /\ Cur'.legacy = Cur.legacy
  /\ Cur'.watermarks = Cur.watermarks /\ Cur'.highWater = Cur.highWater
  /\ Cur'.consumerGen = Cur.consumerGen /\ Cur'.assignEpoch = Cur.assignEpoch

LEMMA SameHandlesCohort ==
  ASSUME SameHandles
  PROVE  (\A p : SameCohort(p)) /\ (\A t : TokenLive(t)' <=> TokenLive(t))
  <1>1. \A p : InFlight(p)' = InFlight(p) /\ Base(p)' = Base(p) /\ High(p)' = High(p)
    BY DEF SameHandles, InFlight, Base, High
  <1>2. \A p : LiveAt(p)' = LiveAt(p) /\ SlotAt(p)' = SlotAt(p)
    BY DEF SameHandles, LiveAt, SlotAt
  <1> QED BY <1>1, <1>2 DEF SameCohort, SameHandles, TokenLive

\* A step of the connection: nothing is handed out, acked or stored, and the
\* generation in use stays as it is or is given up.
LEMMA KafkaQuiet ==
  ASSUME KafkaInv, which = "kafka", which' = which, KafkaTypes', KafkaGeneration',
         hist' = hist, tokens' = tokens, conn'.attempts = conn.attempts,
         broker'.log = broker.log, broker'.committed = broker.committed,
         broker'.position = broker.position, broker'.assigned = broker.assigned,
         Reading' => Reading /\ conn'.assignEpoch = conn.assignEpoch /\ SameHandles,
         op' = op \/ (op.kind # "ack" /\ op'.kind # "ack"),
         op.kind = "ack" => /\ Len(table') = Len(table) /\ conn'.gen \in {0, conn.gen}
                            /\ conn'.gen # 0 => Reading'
  PROVE  KafkaInv' /\ ContractStep
  <1>1. /\ \A p \in KParts : SamePartition(p)
        /\ \A p, x : At(p, x)' = At(p, x)
        /\ OnePlace'
    BY SameLogs DEF SamePartition, Position, KafkaInv
  <1>2. \A p \in KParts : Committed(p)'
    BY <1>1, CommittedKept DEF KafkaInv
  <1>3. ASSUME Reading'
        PROVE  (\A p \in KParts : Cohort(p)') /\ Attempts' /\ SlotHeld'
               /\ \A t \in tokens' : TokenLive(t)' => t \in hist'.holders[At(t.part, t.offset)']
    <2>1. Reading /\ conn'.assignEpoch = conn.assignEpoch /\ SameHandles
      BY <1>3
    <2>2. (\A p \in KParts : SameCohort(p)) /\ \A t : TokenLive(t)' <=> TokenLive(t)
      BY <2>1, SameHandlesCohort
    <2>3. \A p \in KParts : Cohort(p)'
      BY <1>1, <2>1, <2>2, CohortKept DEF KafkaInv
    <2>4. \A q : InFlight(q)' = InFlight(q)
      BY <2>1, SameHandlesCohort DEF SameCohort
    <2>5. Attempts'
      BY <2>1, <2>4 DEF KafkaInv, Attempts, SameHandles
    <2>6. \A p, x : Kafka!LegacyRead(p, x)' = Kafka!LegacyRead(p, x)
      BY <2>1 DEF Kafka!LegacyRead
    <2>7. SlotHeld'
      BY <1>1, <2>1, <2>2, <2>6 DEF KafkaInv, Holders, SlotHeld, SameCohort
    <2> QED BY <1>1, <2>1, <2>2, <2>3, <2>5, <2>7 DEF KafkaInv, Holders
  <1>4. Holders'
    <2>1. \A t \in tokens' : t.offset \in Offsets(t.part)' /\ t.attempt <= conn'.attempts
      <3>1. \A t \in tokens : t.part \in KParts
        BY DEF KafkaInv, KafkaTypes, KafkaTokens
      <3> QED BY <1>1, <3>1 DEF KafkaInv, Holders, SamePartition
    <2> QED BY <1>3, <2>1 DEF Holders
  <1>5. Acking'
    <2> SUFFICES ASSUME op'.kind = "ack"
                 PROVE  Acking'
      BY DEF Acking
    <2>1. op' = op /\ op.kind = "ack"
      OBVIOUS
    <2>2. Passes(op.token.part, op.watermark)'
      BY <1>1, <2>1 DEF KafkaInv, Acking, Passes, SamePartition
    <2>3. conn'.gen # 0 => Committing'
      <3> SUFFICES ASSUME conn'.gen # 0
                   PROVE  Committing'
        OBVIOUS
      <3>1. Reading' /\ Reading /\ SameHandles /\ Committing
        BY <2>1 DEF KafkaInv, Acking
      <3>2. SameCohort(op.token.part) /\ (TokenLive(op.token)' <=> TokenLive(op.token))
        BY <3>1, SameHandlesCohort
      <3> QED BY <1>1, <2>1, <3>1, <3>2 DEF KafkaInv, Acking, Committing, SameCohort, SameHandles, SamePartition
    <2> QED BY <1>1, <2>1, <2>2, <2>3 DEF KafkaInv, Acking, SamePartition
  <1>6. ContractStep
    BY KafkaSame
  <1> QED BY <1>1, <1>2, <1>3, <1>4, <1>5, <1>6 DEF KafkaInv

----------------------------------------------------------------------------
(* Kafka's connections. *)

LEMMA FreshHandles ==
  ASSUME NEW a \in BOOLEAN, NEW c \in Nat, NEW g \in Nat, NEW e \in Nat
  PROVE  LET h == Kafka!Fresh(a, c, g, e)
         IN  /\ h \in KafkaHandles /\ h.consumer = c /\ ~h.retired
             /\ h.consumerGen = g /\ h.assignEpoch = e
  <1>1. [p \in KParts |-> {}] \in [KParts -> SUBSET Nat] /\ [p \in KParts |-> -1] \in [KParts -> Int]
        /\ [p \in KParts |-> 0] \in [KParts -> Nat]
    OBVIOUS
  <1> QED BY <1>1 DEF Kafka!Fresh, Kafka!None, Kafka!NoRecord, KafkaHandles, KParts

LEMMA ClearedHandles ==
  ASSUME NEW h \in KafkaHandles
  PROVE  LET g == Kafka!NoDeliveries(h)
         IN  /\ g \in KafkaHandles /\ g.consumer = h.consumer /\ g.retired = h.retired
             /\ g.consumerGen = h.consumerGen /\ g.assignEpoch = h.assignEpoch
             /\ g.active = {} /\ g.inFlight = [p \in KParts |-> {}] /\ g.legacy = <<>>
             /\ g.watermarks = [p \in KParts |-> -1] /\ g.highWater = [p \in KParts |-> 0]
  <1>1. [p \in KParts |-> {}] \in [KParts -> SUBSET Nat] /\ [p \in KParts |-> -1] \in [KParts -> Int]
        /\ [p \in KParts |-> 0] \in [KParts -> Nat]
    OBVIOUS
  <1> QED BY <1>1 DEF Kafka!NoDeliveries, Kafka!None, Kafka!NoRecord, KafkaHandles, KParts

\* The generation in use begins anew: its consumer reads from the committed
\* offsets of the partitions it has.
LEMMA KafkaCleared ==
  ASSUME KafkaInv, which = "kafka", which' = which, KafkaTypes', KafkaGeneration',
         hist' = hist, tokens' = tokens, conn'.attempts = conn.attempts,
         broker'.log = broker.log, broker'.committed = broker.committed,
         \A p \in broker'.assigned : broker'.position[p] = broker.committed[p],
         op.kind # "ack", op'.kind # "ack",
         Reading' => /\ Cur'.active = {} /\ Cur'.inFlight = [p \in KParts |-> {}] /\ Cur'.legacy = <<>>
                     /\ Cur'.watermarks = [p \in KParts |-> -1] /\ Cur'.highWater = [p \in KParts |-> 0]
  PROVE  KafkaInv' /\ ContractStep
  <1>1. /\ \A p \in KParts :
             /\ Offsets(p)' = Offsets(p) /\ Len(broker'.log[p]) = Len(broker.log[p])
             /\ AskedAt(p)' = AskedAt(p) /\ LeftAt(p)' = LeftAt(p) /\ UnsureAt(p)' = UnsureAt(p)
        /\ \A p, x : At(p, x)' = At(p, x)
        /\ OnePlace'
    BY SameLogs DEF KafkaInv
  <1>2. \A p \in KParts : Committed(p)'
    BY <1>1 DEF KafkaInv, Committed, Position
  <1>3. ASSUME Reading'
        PROVE  (\A p \in KParts : Cohort(p)') /\ Attempts' /\ SlotHeld'
               /\ \A t \in tokens' : ~TokenLive(t)'
    <2>1. \A p \in KParts : /\ InFlight(p)' = {} /\ LiveAt(p)' = {} /\ SlotAt(p)' = {}
                            /\ Base(p)' = -1 /\ High(p)' = 0
      <3>1. \A p \in KParts : InFlight(p)' = {} /\ Base(p)' = -1 /\ High(p)' = 0
        BY <1>3 DEF InFlight, Base, High
      <3>2. \A p \in KParts : LiveAt(p)' = {}
        BY <1>3 DEF LiveAt
      <3>4. \A p \in KParts : SlotAt(p)' = {}
        <4> SUFFICES ASSUME NEW p \in KParts, NEW x \in SlotAt(p)'
                     PROVE  FALSE
          OBVIOUS
        <4>1. Cur'.legacy = <<p, x>>
          BY DEF SlotAt
        <4>2. Cur'.legacy = <<>>
          BY <1>3
        <4>3. <<>> # <<p, x>>
          OBVIOUS
        <4> QED BY ONLY <4>1, <4>2, <4>3
      <3> QED BY <3>1, <3>2, <3>4
    <2>2. ASSUME NEW p \in KParts
          PROVE  Cohort(p)'
      <3>1. broker.log[p] \in Seq(Messages)
        BY DEF KafkaInv, KafkaTypes, KafkaBrokers
      <3>2. Entries(p)'
        BY <1>1, <2>1, <3>1 DEF Entries
      <3>3. p \in broker'.assigned => Accounted(p)'
        BY <1>1, <1>2, <2>1 DEF Accounted, Position, KafkaInv, Committed
      <3>4. Reread(p)'
        BY <1>1, <2>1 DEF Reread, AskedAt, Offsets
      <3>5. broker'.position[p] \in Nat
        BY DEF KafkaTypes, KafkaBrokers
      <3>6. BasePassed(p)'
        BY <2>1, <3>5 DEF BasePassed, WatermarkBase, Position
      <3> QED BY <3>2, <3>3, <3>4, <3>6 DEF Cohort
    <2>3. Attempts' /\ \A t \in tokens' : ~TokenLive(t)'
      BY <1>3 DEF Attempts, TokenLive
    <2>4. SlotHeld'
      BY <2>1 DEF SlotHeld
    <2> QED BY <2>2, <2>3, <2>4
  <1>4. Holders'
    <2>1. \A t \in tokens' : t.offset \in Offsets(t.part)' /\ t.attempt <= conn'.attempts
      <3>1. \A t \in tokens : t.part \in KParts
        BY DEF KafkaInv, KafkaTypes, KafkaTokens
      <3> QED BY <1>1, <3>1 DEF KafkaInv, Holders
    <2> QED BY <1>3, <2>1 DEF Holders
  <1>5. Acking'
    BY DEF Acking
  <1>6. ContractStep
    BY KafkaSame
  <1> QED BY <1>1, <1>2, <1>3, <1>4, <1>5, <1>6 DEF KafkaInv

\* A generation that is given up, drained or left to the ack that leases it.
LEMMA KafkaRetires ==
  ASSUME KafkaInv, Kafka!RetireGeneration
  PROVE  /\ table' \in Seq(KafkaHandles) /\ Len(table') = Len(table) /\ broker' \in KafkaBrokers
         /\ broker'.log = broker.log /\ broker'.committed = broker.committed
         /\ broker'.position = broker.position /\ broker'.assigned = broker.assigned
  <1>0. /\ conn \in KafkaConns /\ broker \in KafkaBrokers /\ table \in Seq(KafkaHandles)
        /\ conn.gen <= Len(table) /\ conn.gen \in Nat
    BY DEF KafkaInv, KafkaTypes, KafkaConns
  <1>1. CASE conn.gen = 0
    BY <1>0, <1>1 DEF Kafka!RetireGeneration, Kafka!Current, Kafka!NoGen
  <1>2. CASE conn.gen # 0
    <2>1. conn.gen \in 1..Len(table) /\ table[conn.gen] \in KafkaHandles
      BY <1>0, <1>2
    <2>2. Kafka!Drained \in KafkaHandles
      BY FreshHandles DEF Kafka!Drained, Kafka!NoConsumer
    <2>3. [table[conn.gen] EXCEPT !.retired = TRUE] \in KafkaHandles
      BY <2>1 DEF KafkaHandles
    <2>4. \E h \in KafkaHandles : table' = [table EXCEPT ![conn.gen] = h]
      BY <1>2, <2>1, <2>2, <2>3 DEF Kafka!RetireGeneration, Kafka!Current, Kafka!NoGen
    <2>5. table' \in Seq(KafkaHandles) /\ Len(table') = Len(table)
      BY <1>0, <2>1, <2>4
    <2>6. broker' = broker \/ broker' = Kafka!Left(broker, table[conn.gen].consumer)
      BY <1>2 DEF Kafka!RetireGeneration, Kafka!Current, Kafka!NoGen
    <2>7. Kafka!Left(broker, table[conn.gen].consumer) \in KafkaBrokers
      BY <1>0 DEF Kafka!Left, KafkaBrokers, KParts, Kafka!NoConsumer
    <2> QED BY <1>0, <2>5, <2>6, <2>7 DEF Kafka!Left, KafkaBrokers
  <1> QED BY <1>1, <1>2

\* The fields of the connection that the steps set, by their types.
LEMMA ConnSets ==
  ASSUME NEW c \in KafkaConns, NEW n \in Nat, NEW k \in Nat, NEW g \in Nat, NEW e \in Nat
  PROVE  /\ [c EXCEPT !.epoch = n, !.leaving = TRUE] \in KafkaConns
         /\ [c EXCEPT !.gen = n] \in KafkaConns
         /\ [c EXCEPT !.attempts = n] \in KafkaConns
         /\ [c EXCEPT !.consumers = n] \in KafkaConns
         /\ [c EXCEPT !.assignEpoch = n] \in KafkaConns
         /\ [c EXCEPT !.gen = 0, !.consumer = 0] \in KafkaConns
         /\ [c EXCEPT !.consumerGen = g, !.assignEpoch = e, !.subscribed = FALSE] \in KafkaConns
         /\ [c EXCEPT !.consumer = k, !.consumerGen = g, !.assignEpoch = e, !.subscribed = TRUE] \in KafkaConns
         /\ [c EXCEPT !.leaving = FALSE, !.producer = FALSE, !.consumer = 0, !.gen = 0, !.consumerGen = g,
                      !.assignEpoch = e, !.subscribed = FALSE] \in KafkaConns
  BY DEF KafkaConns

\* connect, disconnect, and a consumer that is built in vain.
LEMMA KafkaConnects ==
  ASSUME KafkaInv, which = "kafka", which' = which,
         \/ Kafka!ConnectBegin \/ Kafka!ConnectDone \/ Kafka!ConnectAborted \/ Kafka!DisconnectBegin
         \/ Kafka!Disconnect \/ Kafka!PopBuildsConsumer \/ Kafka!ConsumerLost \/ Kafka!ConsumerCleanup
         \/ \E p \in Kafka!Partitions : Kafka!Expelled(p)
  PROVE  KafkaInv' /\ ContractStep
  <1>c. conn \in KafkaConns
    BY DEF KafkaInv, KafkaTypes
  <1>b. broker \in KafkaBrokers
    BY DEF KafkaInv, KafkaTypes
  <1>0. /\ conn \in KafkaConns /\ broker \in KafkaBrokers /\ table \in Seq(KafkaHandles)
        /\ conn.gen <= Len(table) /\ conn.gen \in Nat /\ tokens \subseteq KafkaTokens /\ hist \in KafkaHists
        /\ (conn.gen # 0 => conn.gen \in 1..Len(table) /\ Cur \in KafkaHandles)
    BY DEF KafkaInv, KafkaTypes, KafkaConns, Cur
  <1>1. CASE Kafka!ConnectBegin \/ Kafka!ConsumerLost
    <2>1. /\ UNCHANGED <<conn, broker, table, tokens, hist>> /\ op.kind # "ack"
          /\ op'.kind # "ack" /\ op'.kind # "build"
      BY <1>1 DEF Kafka!ConnectBegin, Kafka!ConsumerLost, Kafka!Idle
    <2>2. Cur' = Cur
      BY <2>1 DEF Cur
    <2>3. KafkaTypes' /\ KafkaGeneration' /\ (Reading' => Reading) /\ SameHandles
      BY <2>1, <2>2 DEF KafkaInv, KafkaTypes, KafkaGeneration, Reading, SameHandles
    <2> QED BY <2>1, <2>3, KafkaQuiet
  <1>2. CASE Kafka!DisconnectBegin
    <2>1. /\ UNCHANGED <<broker, table, tokens, op, hist>>
          /\ conn' = [conn EXCEPT !.epoch = conn.epoch + 1, !.leaving = TRUE]
      BY <1>2 DEF Kafka!DisconnectBegin
    <2>2. /\ conn' \in KafkaConns /\ conn'.gen = conn.gen /\ conn'.consumer = conn.consumer
          /\ conn'.attempts = conn.attempts /\ conn'.assignEpoch = conn.assignEpoch
          /\ conn'.consumers = conn.consumers
      <3>1. /\ conn.epoch + 1 \in Nat /\ conn'.gen = conn.gen /\ conn'.consumer = conn.consumer
            /\ conn'.attempts = conn.attempts /\ conn'.assignEpoch = conn.assignEpoch
            /\ conn'.consumers = conn.consumers
        BY <1>c, <2>1 DEF KafkaConns
      <3> QED BY <1>c, <2>1, <3>1, ConnSets
    <2>3. Cur' = Cur
      BY <2>1, <2>2 DEF Cur
    <2>4. KafkaTypes' /\ KafkaGeneration' /\ (Reading' <=> Reading) /\ SameHandles
      BY <2>1, <2>2, <2>3 DEF KafkaInv, KafkaTypes, KafkaGeneration, Reading, SameHandles
    <2>5. op.kind = "ack" /\ conn.gen # 0 => Reading
      BY DEF KafkaInv, Acking, Committing
    <2> QED BY <2>1, <2>2, <2>4, <2>5, KafkaQuiet
  <1>3. CASE Kafka!ConnectDone
    <2>1. /\ UNCHANGED <<broker, tokens, hist>> /\ op.kind = "connect" /\ op'.kind = "idle"
      BY <1>3 DEF Kafka!ConnectDone, Kafka!Idle
    <2> DEFINE c == [conn EXCEPT !.producer = TRUE]
    <2>2. conn' = [c EXCEPT !.gen = Kafka!Published(c).gen] /\ table' = Kafka!Published(c).table
      BY <1>3 DEF Kafka!ConnectDone
    <2>3. c \in KafkaConns /\ c.producer /\ c.consumer = conn.consumer /\ c.attempts = conn.attempts
          /\ c.assignEpoch = conn.assignEpoch /\ c.consumers = conn.consumers
      BY <1>c DEF KafkaConns
    <2> HIDE DEF c
    <2>4. CASE conn.gen # 0
      <3>1. Kafka!Published(c) = [table |-> table, gen |-> conn.gen]
        BY <2>4 DEF Kafka!Published, Kafka!NoGen
      <3>2. /\ conn' \in KafkaConns /\ conn'.gen = conn.gen /\ conn'.consumer = conn.consumer
            /\ conn'.attempts = conn.attempts /\ conn'.assignEpoch = conn.assignEpoch /\ table' = table
            /\ conn'.consumers = conn.consumers
        BY <1>c, <2>2, <2>3, <3>1 DEF KafkaConns
      <3>3. Cur' = Cur
        BY <3>2 DEF Cur
      <3>4. KafkaTypes' /\ KafkaGeneration' /\ (Reading' <=> Reading) /\ SameHandles
        BY <2>1, <3>2, <3>3 DEF KafkaInv, KafkaTypes, KafkaGeneration, Reading, SameHandles
      <3> QED BY <2>1, <3>2, <3>4, KafkaQuiet
    <2>5. CASE conn.gen = 0
      <3> DEFINE h == Kafka!Fresh(c.producer, c.consumer, c.consumerGen, c.assignEpoch)
      <3>1. Kafka!Published(c) = [table |-> Append(table, h), gen |-> Len(table) + 1]
        BY <2>3, <2>5 DEF Kafka!Published, Kafka!NoGen
      <3>2. h \in KafkaHandles /\ h.consumer = conn.consumer /\ ~h.retired
        <4>1. c.producer \in BOOLEAN /\ c.consumer \in Nat /\ c.consumerGen \in Nat /\ c.assignEpoch \in Nat
          BY <2>3 DEF KafkaConns
        <4> QED BY <2>3, <4>1, FreshHandles
      <3> HIDE DEF h
      <3>3. table' = Append(table, h)
        BY <2>2, <3>1
      <3>4. /\ conn' \in KafkaConns /\ conn'.gen = Len(table) + 1 /\ conn'.consumer = conn.consumer
            /\ conn'.attempts = conn.attempts /\ conn'.consumers = conn.consumers
        <4>1. conn' = [c EXCEPT !.gen = Len(table) + 1] /\ Len(table) + 1 \in Nat
          BY <1>0, <2>2, <3>1
        <4>2. conn' \in KafkaConns
          BY <2>3, <4>1, ConnSets
        <4> QED BY <2>3, <4>1 DEF KafkaConns
      <3>5. table' \in Seq(KafkaHandles) /\ Len(table') = Len(table) + 1 /\ Cur' = h
        BY <1>0, <3>2, <3>3, <3>4 DEF Cur
      <3>6. KafkaTypes'
        BY <1>0, <2>1, <3>4, <3>5 DEF KafkaTypes
      <3>7. conn.consumer = 0
        BY <2>5 DEF KafkaInv, KafkaGeneration
      <3>8. KafkaGeneration' /\ ~Reading'
        BY <2>1, <3>2, <3>4, <3>5, <3>7 DEF KafkaGeneration, Reading
      <3> QED BY <2>1, <3>4, <3>6, <3>8, KafkaQuiet
    <2> QED BY <2>4, <2>5
  <1>4. CASE Kafka!ConnectAborted \/ Kafka!Disconnect
    <2>1. /\ Kafka!RetireGeneration /\ UNCHANGED <<tokens, hist>>
          /\ op' = op \/ (op.kind # "ack" /\ op'.kind = "idle")
      BY <1>4 DEF Kafka!ConnectAborted, Kafka!Disconnect, Kafka!Idle, Kafka!ConnectionLockFree
    <2>2. op'.kind # "build"
      BY <1>4 DEF Kafka!ConnectAborted, Kafka!Disconnect, Kafka!Idle, Kafka!ConnectionLockFree
    <2>3. conn' \in KafkaConns /\ conn'.gen = 0 /\ conn'.consumer = 0 /\ conn'.attempts = conn.attempts
      <3>1. CASE Kafka!ConnectAborted
        <4>1. conn' = [conn EXCEPT !.gen = 0, !.consumer = 0]
          BY <3>1 DEF Kafka!ConnectAborted, Kafka!NoGen, Kafka!NoConsumer
        <4>2. conn' \in KafkaConns
          BY <1>c, <4>1, ConnSets
        <4> QED BY <1>c, <4>1, <4>2 DEF KafkaConns
      <3>2. CASE Kafka!Disconnect
        <4>1. conn' = [conn EXCEPT !.leaving = FALSE, !.producer = FALSE, !.consumer = 0, !.gen = 0,
                         !.consumerGen = conn.consumerGen + 1, !.assignEpoch = conn.assignEpoch + 1,
                         !.subscribed = FALSE]
          BY <3>2 DEF Kafka!Disconnect, Kafka!NoGen, Kafka!NoConsumer
        <4>2. conn.consumerGen + 1 \in Nat /\ conn.assignEpoch + 1 \in Nat
          BY <1>c DEF KafkaConns
        <4>3. conn' \in KafkaConns
          BY <1>c, <4>1, <4>2, ConnSets
        <4> QED BY <1>c, <4>1, <4>3 DEF KafkaConns
      <3> QED BY <1>4, <3>1, <3>2
    <2>4. /\ table' \in Seq(KafkaHandles) /\ Len(table') = Len(table) /\ broker' \in KafkaBrokers
          /\ broker'.log = broker.log /\ broker'.committed = broker.committed
          /\ broker'.position = broker.position /\ broker'.assigned = broker.assigned
      BY <2>1, KafkaRetires
    <2>5. KafkaTypes'
      BY <1>0, <2>1, <2>3, <2>4 DEF KafkaTypes
    <2>6. KafkaGeneration' /\ ~Reading'
      BY <2>2, <2>3 DEF KafkaGeneration, Reading
    <2> QED BY <2>1, <2>3, <2>4, <2>5, <2>6, KafkaQuiet
  <1>5. CASE Kafka!PopBuildsConsumer
    <2>1. /\ UNCHANGED <<broker, table, tokens, hist>> /\ op.kind = "idle" /\ op'.kind = "build"
          /\ conn.consumer = 0 /\ conn' = [conn EXCEPT !.consumers = conn.consumers + 1]
      BY <1>5 DEF Kafka!PopBuildsConsumer, Kafka!IoLockFree, Kafka!NoConsumer
    <2>2. /\ conn' \in KafkaConns /\ conn'.gen = conn.gen /\ conn'.consumer = 0
          /\ conn'.attempts = conn.attempts /\ conn'.consumers > 0
      BY <1>c, <2>1 DEF KafkaConns
    <2>3. Cur' = Cur
      BY <2>1, <2>2 DEF Cur
    <2>4. KafkaTypes' /\ KafkaGeneration' /\ ~Reading'
      BY <2>1, <2>2, <2>3 DEF KafkaInv, KafkaTypes, KafkaGeneration, Reading
    <2> QED BY <2>1, <2>2, <2>4, KafkaQuiet
  <1>6. CASE Kafka!ConsumerCleanup
    <2>1. /\ UNCHANGED <<broker, tokens, hist>> /\ op.kind = "build" /\ op'.kind = "idle"
          /\ conn' = [conn EXCEPT !.consumerGen = conn.consumerGen + 2,
                                  !.assignEpoch = conn.assignEpoch + 2, !.subscribed = FALSE]
          /\ table' = IF conn.gen # 0 THEN [table EXCEPT ![conn.gen] = Kafka!NoDeliveries(Cur)] ELSE table
      BY <1>6 DEF Kafka!ConsumerCleanup, Kafka!Idle, Kafka!Current, Kafka!NoGen, Kafka!Handles, Cur
    <2>2. conn.consumer = 0
      BY <2>1 DEF KafkaInv, KafkaGeneration
    <2>3. /\ conn' \in KafkaConns /\ conn'.gen = conn.gen /\ conn'.consumer = 0
          /\ conn'.attempts = conn.attempts
      <3>1. conn.consumerGen + 2 \in Nat /\ conn.assignEpoch + 2 \in Nat
        BY <1>c DEF KafkaConns
      <3>2. conn' \in KafkaConns
        BY <1>c, <2>1, <3>1, ConnSets
      <3>3. conn'.gen = conn.gen /\ conn'.consumer = conn.consumer /\ conn'.attempts = conn.attempts
        BY <1>c, <2>1 DEF KafkaConns
      <3> QED BY <2>2, <3>2, <3>3
    <2>4. /\ table' \in Seq(KafkaHandles) /\ Len(table') = Len(table)
          /\ conn.gen # 0 => Cur'.consumer = Cur.consumer /\ Cur'.retired = Cur.retired
      <3>1. CASE conn.gen # 0
        <4> DEFINE g == Kafka!NoDeliveries(Cur)
        <4>1. g \in KafkaHandles /\ g.consumer = Cur.consumer /\ g.retired = Cur.retired
          BY <1>0, <3>1, ClearedHandles
        <4>2. table' = [table EXCEPT ![conn.gen] = g]
          BY <2>1, <3>1
        <4> HIDE DEF g
        <4>3. table' \in Seq(KafkaHandles) /\ Len(table') = Len(table) /\ Cur' = g
          BY <1>0, <2>3, <3>1, <4>1, <4>2 DEF Cur
        <4> QED BY <4>1, <4>3
      <3>2. CASE conn.gen = 0
        BY <1>0, <2>1, <3>2
      <3> QED BY <3>1, <3>2
    <2>5. KafkaTypes'
      BY <1>0, <2>1, <2>3, <2>4 DEF KafkaTypes
    <2>6. KafkaGeneration' /\ ~Reading'
      BY <2>1, <2>2, <2>3, <2>4 DEF KafkaInv, KafkaGeneration, Reading
    <2> QED BY <2>1, <2>3, <2>5, <2>6, KafkaQuiet
  <1>7. CASE \E p \in Kafka!Partitions : Kafka!Expelled(p)
    <2>1. PICK p \in KParts : Kafka!Expelled(p)
      BY <1>7 DEF KParts
    <2>2. /\ UNCHANGED <<conn, table, tokens, op, hist>>
          /\ broker' = [broker EXCEPT !.owner[p] = 0]
      BY <2>1 DEF Kafka!Expelled, Kafka!NoConsumer
    <2>3. /\ broker' \in KafkaBrokers /\ broker'.log = broker.log /\ broker'.committed = broker.committed
          /\ broker'.position = broker.position /\ broker'.assigned = broker.assigned
      BY <1>b, <2>2 DEF KafkaBrokers
    <2>4. Cur' = Cur
      BY <2>2 DEF Cur
    <2>5. KafkaTypes' /\ KafkaGeneration' /\ (Reading' <=> Reading) /\ SameHandles
      BY <2>2, <2>3, <2>4 DEF KafkaInv, KafkaTypes, KafkaGeneration, Reading, SameHandles
    <2>6. op.kind = "ack" /\ conn.gen # 0 => Reading
      BY DEF KafkaInv, Acking, Committing
    <2> QED BY <2>2, <2>3, <2>5, <2>6, KafkaQuiet
  <1> QED BY <1>1, <1>2, <1>3, <1>4, <1>5, <1>6, <1>7

\* A consumer is ready, or its partitions change: it begins anew.
LEMMA KafkaJoins ==
  ASSUME KafkaInv, which = "kafka", which' = which,
         Kafka!ConsumerReady \/ \E mine \in SUBSET Kafka!Partitions : Kafka!PopRebalances(mine)
  PROVE  KafkaInv' /\ ContractStep
  <1>c. conn \in KafkaConns
    BY DEF KafkaInv, KafkaTypes
  <1>b. broker \in KafkaBrokers
    BY DEF KafkaInv, KafkaTypes
  <1>0. /\ conn \in KafkaConns /\ broker \in KafkaBrokers /\ table \in Seq(KafkaHandles)
        /\ conn.gen <= Len(table) /\ conn.gen \in Nat /\ tokens \subseteq KafkaTokens /\ hist \in KafkaHists
        /\ (conn.gen # 0 => conn.gen \in 1..Len(table) /\ Cur \in KafkaHandles)
    BY DEF KafkaInv, KafkaTypes, KafkaConns, Cur
  <1>1. CASE Kafka!ConsumerReady
    <2> DEFINE c == [conn EXCEPT !.consumer = conn.consumers, !.consumerGen = conn.consumerGen + 1,
                                 !.assignEpoch = conn.assignEpoch + 1, !.subscribed = TRUE]
               new == Kafka!Published(c)
    <2>1. /\ op.kind = "build" /\ op'.kind = "idle" /\ UNCHANGED <<tokens, hist>>
          /\ broker' = [broker EXCEPT !.assigned = {}]
          /\ conn' = [c EXCEPT !.gen = new.gen]
          /\ table' = [new.table EXCEPT ![new.gen] = Kafka!Registered(new.table[new.gen], c)]
      BY <1>1 DEF Kafka!ConsumerReady, Kafka!Idle
    <2>2. conn.consumers > 0
      BY <2>1 DEF KafkaInv, KafkaGeneration
    <2>3. c \in KafkaConns /\ c.consumer # 0 /\ c.attempts = conn.attempts
      <3>1. conn.consumerGen + 1 \in Nat /\ conn.assignEpoch + 1 \in Nat /\ conn.consumers \in Nat
        BY <1>c DEF KafkaConns
      <3>2. c \in KafkaConns
        BY <1>c, <3>1, ConnSets
      <3> QED BY <1>c, <2>2, <3>2 DEF KafkaConns
    <2> HIDE DEF c
    <2>4. /\ new.table \in Seq(KafkaHandles) /\ new.gen \in 1..Len(new.table)
          /\ ~new.table[new.gen].retired
      <3>1. CASE conn.gen # 0
        <4>1. new = [table |-> table, gen |-> conn.gen]
          BY <3>1 DEF Kafka!Published, Kafka!NoGen
        <4> QED BY <1>0, <3>1, <4>1 DEF KafkaInv, KafkaGeneration, Cur
      <3>2. CASE conn.gen = 0
        <4> DEFINE h == Kafka!Fresh(c.producer, c.consumer, c.consumerGen, c.assignEpoch)
        <4>1. new = [table |-> Append(table, h), gen |-> Len(table) + 1]
          BY <2>3, <3>2 DEF Kafka!Published, Kafka!NoGen, Kafka!NoConsumer
        <4>2. h \in KafkaHandles /\ ~h.retired
          BY <2>3, FreshHandles DEF KafkaConns
        <4> HIDE DEF h
        <4> QED BY <1>0, <4>1, <4>2
      <3> QED BY <3>1, <3>2
    <2> HIDE DEF new
    <2> DEFINE h == new.table[new.gen]
               g == Kafka!Registered(h, c)
    <2>5. /\ g \in KafkaHandles /\ g.consumer = c.consumer /\ ~g.retired
          /\ g.active = {} /\ g.inFlight = [p \in KParts |-> {}] /\ g.legacy = <<>>
          /\ g.watermarks = [p \in KParts |-> -1] /\ g.highWater = [p \in KParts |-> 0]
      <3> DEFINE n == Kafka!NoDeliveries(h)
      <3>1. h \in KafkaHandles /\ ~h.retired
        BY <2>4
      <3>2. /\ n \in KafkaHandles /\ ~n.retired
            /\ n.active = {} /\ n.inFlight = [p \in KParts |-> {}] /\ n.legacy = <<>>
            /\ n.watermarks = [p \in KParts |-> -1] /\ n.highWater = [p \in KParts |-> 0]
        BY <3>1, ClearedHandles
      <3>3. g = [n EXCEPT !.consumer = c.consumer, !.consumerGen = c.consumerGen,
                          !.assignEpoch = c.assignEpoch]
        BY DEF Kafka!Registered
      <3> HIDE DEF n, h, g
      <3>4. c.consumer \in Nat /\ c.consumerGen \in Nat /\ c.assignEpoch \in Nat
        BY <2>3 DEF KafkaConns
      <3> QED BY <3>2, <3>3, <3>4 DEF KafkaHandles
    <2> HIDE DEF h, g
    <2>6. table' = [new.table EXCEPT ![new.gen] = g]
      BY <2>1 DEF g, h
    <2>7. conn' \in KafkaConns /\ conn'.gen = new.gen /\ conn'.consumer = c.consumer
          /\ conn'.attempts = conn.attempts
      <3>1. new.gen \in Nat
        BY <2>4
      <3>2. conn' \in KafkaConns
        BY <2>1, <2>3, <3>1, ConnSets
      <3> QED BY <2>1, <2>3, <3>2 DEF KafkaConns
    <2>8. table' \in Seq(KafkaHandles) /\ Len(table') = Len(new.table) /\ Cur' = g
      BY <2>4, <2>5, <2>6, <2>7 DEF Cur
    <2>9. /\ broker' \in KafkaBrokers /\ broker'.log = broker.log
          /\ broker'.committed = broker.committed /\ broker'.assigned = {}
      BY <1>b, <2>1 DEF KafkaBrokers
    <2>10. KafkaTypes'
      BY <1>0, <2>1, <2>4, <2>7, <2>8, <2>9 DEF KafkaTypes
    <2>11. KafkaGeneration'
      BY <2>1, <2>4, <2>5, <2>7, <2>8 DEF KafkaGeneration
    <2> QED BY <2>1, <2>5, <2>7, <2>8, <2>9, <2>10, <2>11, KafkaCleared
  <1>2. CASE \E mine \in SUBSET Kafka!Partitions : Kafka!PopRebalances(mine)
    <2>1. PICK mine \in SUBSET KParts : Kafka!PopRebalances(mine)
      BY <1>2 DEF KParts
    <2>2. /\ op.kind = "idle" /\ UNCHANGED <<tokens, op, hist>> /\ conn.gen # 0
          /\ conn' = [conn EXCEPT !.assignEpoch = conn.assignEpoch + 1]
          /\ table' = [table EXCEPT ![conn.gen] =
                         [Kafka!NoDeliveries(Cur) EXCEPT !.assignEpoch = conn'.assignEpoch]]
      BY <2>1 DEF Kafka!PopRebalances, Kafka!IoLockFree, Kafka!Current, Kafka!NoGen, Kafka!Handles, Cur
    <2>3. broker' = [broker EXCEPT
            !.assigned = mine,
            !.owner = [p \in KParts |-> IF p \in mine THEN conn.consumer ELSE 0],
            !.position = [p \in KParts |-> IF p \in mine THEN broker.committed[p] ELSE 0]]
      BY <2>1 DEF Kafka!PopRebalances, Kafka!NoConsumer, KParts
    <2>4. /\ conn' \in KafkaConns /\ conn'.gen = conn.gen /\ conn'.consumer = conn.consumer
          /\ conn'.attempts = conn.attempts
      BY <1>c, <2>2 DEF KafkaConns
    <2> DEFINE g == [Kafka!NoDeliveries(Cur) EXCEPT !.assignEpoch = conn'.assignEpoch]
    <2>5. /\ g \in KafkaHandles /\ g.consumer = Cur.consumer /\ g.retired = Cur.retired
          /\ g.active = {} /\ g.inFlight = [p \in KParts |-> {}] /\ g.legacy = <<>>
          /\ g.watermarks = [p \in KParts |-> -1] /\ g.highWater = [p \in KParts |-> 0]
      <3> DEFINE n == Kafka!NoDeliveries(Cur)
      <3>1. /\ n \in KafkaHandles /\ n.consumer = Cur.consumer /\ n.retired = Cur.retired
            /\ n.active = {} /\ n.inFlight = [p \in KParts |-> {}] /\ n.legacy = <<>>
            /\ n.watermarks = [p \in KParts |-> -1] /\ n.highWater = [p \in KParts |-> 0]
        BY <1>0, <2>2, ClearedHandles
      <3>2. conn'.assignEpoch \in Nat
        BY <2>4 DEF KafkaConns
      <3> HIDE DEF n
      <3>3. g = [n EXCEPT !.assignEpoch = conn'.assignEpoch]
        BY DEF n
      <3> QED BY <3>1, <3>2, <3>3 DEF KafkaHandles
    <2> HIDE DEF g
    <2>6. table' = [table EXCEPT ![conn.gen] = g]
      BY <2>2 DEF g
    <2>7. table' \in Seq(KafkaHandles) /\ Len(table') = Len(table) /\ Cur' = g
      BY <1>0, <2>2, <2>4, <2>5, <2>6 DEF Cur
    <2>8. /\ broker' \in KafkaBrokers /\ broker'.log = broker.log
          /\ broker'.committed = broker.committed /\ broker'.assigned = mine
          /\ broker'.position = [p \in KParts |-> IF p \in mine THEN broker.committed[p] ELSE 0]
      <3>1. /\ [p \in KParts |-> IF p \in mine THEN conn.consumer ELSE 0] \in [KParts -> Nat]
            /\ [p \in KParts |-> IF p \in mine THEN broker.committed[p] ELSE 0] \in [KParts -> Nat]
        BY <1>0 DEF KafkaConns, KafkaBrokers
      <3> QED BY <1>b, <2>3, <3>1 DEF KafkaBrokers
    <2>9. KafkaTypes' /\ KafkaGeneration'
      BY <1>0, <2>2, <2>4, <2>5, <2>7, <2>8 DEF KafkaInv, KafkaTypes, KafkaGeneration
    <2> QED BY <2>2, <2>4, <2>5, <2>7, <2>8, <2>9, KafkaCleared
  <1> QED BY <1>1, <1>2

----------------------------------------------------------------------------
(* A push. *)

\* The types of the generation in use.
LEMMA CurTyped ==
  ASSUME KafkaInv, conn.gen # 0
  PROVE  /\ conn.gen \in 1..Len(table) /\ Cur \in KafkaHandles
         /\ \A p \in KParts : /\ InFlight(p) \subseteq Nat /\ Base(p) \in Int /\ High(p) \in Nat
                              /\ Position(p) \in Nat /\ broker.committed[p] \in Nat
                              /\ broker.log[p] \in Seq(Messages) /\ Len(broker.log[p]) \in Nat
  <1>1. conn \in KafkaConns /\ table \in Seq(KafkaHandles) /\ conn.gen <= Len(table) /\ broker \in KafkaBrokers
    BY DEF KafkaInv, KafkaTypes
  <1>2. conn.gen \in Nat
    BY <1>1 DEF KafkaConns
  <1>3. conn.gen \in 1..Len(table) /\ Cur \in KafkaHandles
    BY <1>1, <1>2 DEF Cur
  <1>4. \A p \in KParts : InFlight(p) \subseteq Nat /\ Base(p) \in Int /\ High(p) \in Nat
    BY <1>3 DEF KafkaHandles, InFlight, Base, High
  <1>5. \A p \in KParts : /\ Position(p) \in Nat /\ broker.committed[p] \in Nat
                          /\ broker.log[p] \in Seq(Messages) /\ Len(broker.log[p]) \in Nat
    BY <1>1 DEF KafkaBrokers, Position
  <1> QED BY <1>3, <1>4, <1>5

\* A push: the log of a partition grows by a message that is in no log.
LEMMA KafkaGrows ==
  ASSUME KafkaInv, which = "kafka", which' = which, NEW q \in KParts, NEW m \in Messages, m \notin Kafka!Accepted,
         KafkaTypes', conn' = conn, hist' = hist, tokens' = tokens, op' = op, SameHandles,
         Cur'.consumer = Cur.consumer, Cur'.retired = Cur.retired, Len(table') = Len(table),
         broker'.log = [broker.log EXCEPT ![q] = Append(@, m)],
         broker'.committed = broker.committed, broker'.position = broker.position,
         broker'.assigned = broker.assigned
  PROVE  KafkaInv' /\ ContractStep
  <1>0. broker.log \in [KParts -> Seq(Messages)] /\ broker.log[q] \in Seq(Messages)
    BY DEF KafkaInv, KafkaTypes, KafkaBrokers
  <1>1. /\ \A p \in KParts : p # q => broker'.log[p] = broker.log[p]
        /\ broker'.log[q] = Append(broker.log[q], m)
    BY <1>0
  <1>2. /\ Len(broker'.log[q]) = Len(broker.log[q]) + 1
        /\ broker'.log[q][Len(broker.log[q]) + 1] = m
        /\ \A x \in Nat : x < Len(broker.log[q]) => broker'.log[q][x + 1] = broker.log[q][x + 1]
    BY <1>0, <1>1
  <1>n. PICK n \in Nat : n = Len(broker.log[q])
    BY <1>0
  <1>3. \A p \in KParts : \A x \in Offsets(p) : x \in Offsets(p)' /\ At(p, x)' = At(p, x)
    <2>1. ASSUME NEW x \in Offsets(q)
          PROVE  x \in Offsets(q)' /\ At(q, x)' = At(q, x)
      BY <1>0, <1>2 DEF Offsets, At
    <2>2. ASSUME NEW p \in KParts, p # q, NEW x \in Offsets(p)
          PROVE  x \in Offsets(p)' /\ At(p, x)' = At(p, x)
      BY <1>1, <2>2 DEF Offsets, At
    <2> QED BY <2>1, <2>2
  <1>4. \A p \in KParts : \A x \in Offsets(p)' : x \in Offsets(p) \/ (p = q /\ x = n /\ At(p, x)' = m)
    <2>1. ASSUME NEW x \in Offsets(q)'
          PROVE  x \in Offsets(q) \/ (x = n /\ At(q, x)' = m)
      <3>1. x \in Nat /\ x < n + 1
        BY <1>2, <1>n DEF Offsets
      <3>2. CASE x = n
        BY <1>2, <1>n, <3>2 DEF At
      <3>3. CASE x # n
        BY <1>n, <3>1, <3>3 DEF Offsets
      <3> QED BY <3>2, <3>3
    <2>2. ASSUME NEW p \in KParts, p # q, NEW x \in Offsets(p)'
          PROVE  x \in Offsets(p)
      BY <1>1, <2>2 DEF Offsets
    <2> QED BY <2>1, <2>2
  <1>5. m \notin hist.asked /\ m \notin hist.left /\ m \notin hist.unsure
    BY DEF KafkaInv, OnePlace
  <1>6. \A p \in KParts : /\ AskedAt(p)' = AskedAt(p) /\ LeftAt(p)' = LeftAt(p) /\ UnsureAt(p)' = UnsureAt(p)
                          /\ Len(broker'.log[p]) >= Len(broker.log[p]) /\ Len(broker.log[p]) \in Nat
                          /\ Len(broker'.log[p]) \in Nat
                          /\ Position(p)' = Position(p)
    <2> SUFFICES ASSUME NEW p \in KParts
                 PROVE  /\ AskedAt(p)' = AskedAt(p) /\ LeftAt(p)' = LeftAt(p) /\ UnsureAt(p)' = UnsureAt(p)
                        /\ Len(broker'.log[p]) >= Len(broker.log[p]) /\ Len(broker.log[p]) \in Nat
                        /\ Len(broker'.log[p]) \in Nat
                        /\ Position(p)' = Position(p)
      OBVIOUS
    <2>1. AskedAt(p)' = AskedAt(p)
      BY <1>3, <1>4, <1>5 DEF AskedAt
    <2>2. LeftAt(p)' = LeftAt(p)
      BY <1>3, <1>4, <1>5 DEF LeftAt
    <2>3. UnsureAt(p)' = UnsureAt(p)
      BY <1>3, <1>4, <1>5 DEF UnsureAt
    <2>4. broker.log[p] \in Seq(Messages) /\ Len(broker.log[p]) \in Nat
      BY <1>0
    <2>5. Len(broker'.log[p]) >= Len(broker.log[p]) /\ Len(broker'.log[p]) \in Nat
      BY <1>1, <1>2, <2>4
    <2> QED BY <2>1, <2>2, <2>3, <2>4, <2>5 DEF Position
  <1>7. Kafka!Accepted' = Kafka!Accepted \union {m}
    <2>1. ASSUME NEW y \in Kafka!Accepted'
          PROVE  y \in Kafka!Accepted \union {m}
      <3>1. PICK p \in KParts : \E x \in Offsets(p)' : y = At(p, x)'
        BY AcceptedAtNext
      <3>2. PICK x \in Offsets(p)' : y = At(p, x)'
        BY <3>1
      <3>3. CASE x \in Offsets(p)
        BY <1>3, <3>2, <3>3, AcceptedAt DEF KafkaInv
      <3>4. CASE x \notin Offsets(p)
        BY <1>4, <3>2, <3>4
      <3> QED BY <3>3, <3>4
    <2>2. ASSUME NEW y \in Kafka!Accepted
          PROVE  y \in Kafka!Accepted'
      <3>1. PICK p \in KParts : \E x \in Offsets(p) : y = At(p, x)
        BY AcceptedAt DEF KafkaInv
      <3>2. PICK x \in Offsets(p) : y = At(p, x)
        BY <3>1
      <3>3. x \in Offsets(p)' /\ At(p, x)' = y
        BY <1>3, <3>2
      <3> QED BY <3>3, AcceptedAtNext
    <2>3. m \in Kafka!Accepted'
      <3>1. n \in Offsets(q)' /\ At(q, n)' = m
        BY <1>n, <1>2 DEF Offsets, At
      <3> QED BY <3>1, AcceptedAtNext
    <2> QED BY <2>1, <2>2, <2>3
  <1>8. OnePlace'
    <2>1. \A p \in KParts : \A x \in Offsets(p) : At(p, x) # m
      BY AcceptedAt DEF KafkaInv
    <2>2. ASSUME NEW p \in KParts, NEW r \in KParts, NEW x \in Offsets(p)', NEW y \in Offsets(r)',
                 At(p, x)' = At(r, y)'
          PROVE  p = r /\ x = y
      <3>1. CASE x \in Offsets(p) /\ y \in Offsets(r)
        BY <1>3, <2>2, <3>1 DEF KafkaInv, OnePlace
      <3>2. CASE x \in Offsets(p) /\ y \notin Offsets(r)
        BY <1>3, <1>4, <2>1, <2>2, <3>2
      <3>3. CASE x \notin Offsets(p) /\ y \in Offsets(r)
        BY <1>3, <1>4, <2>1, <2>2, <3>3
      <3>4. CASE x \notin Offsets(p) /\ y \notin Offsets(r)
        BY <1>4, <2>2, <3>4
      <3> QED BY <3>1, <3>2, <3>3, <3>4
    <2> QED BY <1>7, <2>2 DEF OnePlace, KafkaInv
  <1>9. \A p \in KParts : Committed(p)'
    <2> SUFFICES ASSUME NEW p \in KParts
                 PROVE  Committed(p)'
      OBVIOUS
    <2>1. Committed(p) /\ broker.committed[p] \in Nat /\ broker.position[p] \in Nat
      BY DEF KafkaInv, KafkaTypes, KafkaBrokers
    <2> QED BY <1>6, <2>1 DEF Committed, Position
  <1>10. Cur'.active = Cur.active /\ (Reading' <=> Reading) /\ \A p : SameCohort(p)
    BY SameHandlesCohort DEF Reading, SameHandles
  <1>11. ASSUME Reading, NEW p \in KParts
         PROVE  Cohort(p)'
    <2>1. Cohort(p) /\ SameCohort(p)
      BY <1>10, <1>11 DEF KafkaInv
    <2>2. Entries(p)'
      <3>1. High(p) \in Nat
        BY <1>11, CurTyped DEF Reading
      <3>2. High(p)' <= Len(broker'.log[p])
        BY <1>6, <2>1, <3>1 DEF Cohort, Entries, SameCohort
      <3> QED BY <1>3, <2>1, <3>2 DEF Cohort, Entries, SameCohort
    <2>3. p \in broker'.assigned => Accounted(p)'
      BY <1>6, <2>1 DEF SameCohort, Cohort, Accounted, Loose
    <2>4. p \in broker'.assigned => Reread(p)'
      BY <1>6, <2>1 DEF SameCohort, Cohort, Reread, Loose
    <2>5. p \in broker'.assigned => BasePassed(p)'
      BY <1>6, <2>1 DEF SameCohort, Cohort, BasePassed, WatermarkBase
    <2> QED BY <2>2, <2>3, <2>4, <2>5 DEF Cohort
  <1>12. Reading' => Attempts'
    BY <1>10 DEF KafkaInv, Attempts, SameCohort
  <1>13. Holders'
    <2>1. \A t \in tokens : t.part \in KParts /\ t.offset \in Offsets(t.part) /\ t.attempt <= conn.attempts
      BY DEF KafkaInv, KafkaTypes, KafkaTokens, Holders
    <2>2. \A t : TokenLive(t)' <=> TokenLive(t)
      BY SameHandlesCohort
    <2>3. \A p, x : Kafka!LegacyRead(p, x)' = Kafka!LegacyRead(p, x)
      BY DEF Kafka!LegacyRead
    <2>4. ASSUME Reading
          PROVE  SlotHeld'
      <3>1. \A p \in KParts : SlotAt(p) \subseteq Offsets(p) /\ SlotAt(p)' = SlotAt(p)
        BY <1>10, <2>4 DEF KafkaInv, Cohort, Entries, SameCohort
      <3> QED BY <1>3, <2>3, <2>4, <3>1 DEF KafkaInv, Holders, SlotHeld
    <2> QED BY <1>3, <1>10, <2>1, <2>2, <2>4 DEF KafkaInv, Holders
  <1>14. Acking'
    <2> SUFFICES ASSUME op.kind = "ack"
                 PROVE  Acking'
      BY DEF Acking
    <2>1. Passes(op.token.part, op.watermark)'
      BY <1>6 DEF KafkaInv, Acking, Passes
    <2>2. op.watermark <= Len(broker'.log[op.token.part])
      BY <1>6 DEF KafkaInv, Acking
    <2>3. conn.gen # 0 => Committing'
      BY <1>6, <1>10, SameHandlesCohort DEF KafkaInv, Acking, Committing, SameCohort, SameHandles
    <2> QED BY <2>1, <2>2, <2>3 DEF KafkaInv, Acking
  <1>15. KafkaGeneration'
    BY DEF KafkaInv, KafkaGeneration
  <1>16. ContractStep
    BY <1>7, KafkaMapped, KafkaMappedNext, PromisesPush
  <1> QED BY <1>8, <1>9, <1>10, <1>11, <1>12, <1>13, <1>14, <1>15, <1>16 DEF KafkaInv

LEMMA KafkaPush ==
  ASSUME KafkaInv, which = "kafka", which' = which, NEW m \in Messages, NEW priority, NEW stored \in BOOLEAN,
         Kafka!Push(m, priority, stored)
  PROVE  KafkaInv' /\ ContractStep
  <1> DEFINE q == Kafka!Partition(priority)
             h == [Cur EXCEPT !.topicKnown = TRUE]
  <1>1. /\ m \notin Kafka!Accepted /\ conn.gen # 0 /\ UNCHANGED <<conn, tokens, op, hist>>
        /\ table' = [table EXCEPT ![conn.gen] = h]
        /\ broker' = [broker EXCEPT !.topic = "match", !.log[q] = IF stored THEN Append(@, m) ELSE @]
    BY DEF Kafka!Push, Kafka!Current, Kafka!NoGen, Cur
  <1>0. /\ broker \in KafkaBrokers /\ table \in Seq(KafkaHandles) /\ conn.gen \in 1..Len(table)
        /\ Cur \in KafkaHandles
    BY <1>1 DEF KafkaInv, KafkaTypes, KafkaConns, Cur
  <1>2. /\ h \in KafkaHandles /\ h.active = Cur.active /\ h.inFlight = Cur.inFlight /\ h.legacy = Cur.legacy
        /\ h.watermarks = Cur.watermarks /\ h.highWater = Cur.highWater
        /\ h.consumerGen = Cur.consumerGen /\ h.assignEpoch = Cur.assignEpoch
        /\ h.consumer = Cur.consumer /\ h.retired = Cur.retired
    BY <1>0 DEF KafkaHandles
  <1> HIDE DEF h
  <1>3. table' \in Seq(KafkaHandles) /\ Len(table') = Len(table) /\ Cur' = h
    BY <1>0, <1>1, <1>2 DEF Cur
  <1>4. SameHandles /\ Cur'.consumer = Cur.consumer /\ Cur'.retired = Cur.retired
    BY <1>2, <1>3 DEF SameHandles
  <1>5. \E log \in [KParts -> Seq(Messages)] :
          /\ broker' = [broker EXCEPT !.topic = "match", !.log = log]
          /\ log = broker.log \/ (q \in KParts /\ log = [broker.log EXCEPT ![q] = Append(@, m)])
    <2> DEFINE log == [broker.log EXCEPT ![q] = IF stored THEN Append(@, m) ELSE @]
    <2>1. broker' = [broker EXCEPT !.topic = "match", !.log = log]
      BY <1>0, <1>1 DEF KafkaBrokers
    <2>2. broker.log \in [KParts -> Seq(Messages)]
      BY <1>0 DEF KafkaBrokers
    <2>3. CASE q \in KParts /\ stored
      <3>1. log = [broker.log EXCEPT ![q] = Append(@, m)] /\ log \in [KParts -> Seq(Messages)]
        BY <2>2, <2>3
      <3> QED BY <2>1, <2>3, <3>1
    <2>4. CASE ~(q \in KParts /\ stored)
      <3>1. log = broker.log
        BY <2>2, <2>4
      <3> QED BY <2>1, <2>2, <3>1
    <2> QED BY <2>3, <2>4
  <1> HIDE DEF q
  <1>6. PICK log \in [KParts -> Seq(Messages)] :
          /\ broker' = [broker EXCEPT !.topic = "match", !.log = log]
          /\ log = broker.log \/ (q \in KParts /\ log = [broker.log EXCEPT ![q] = Append(@, m)])
    BY <1>5
  <1>7. /\ broker' \in KafkaBrokers /\ broker'.log = log /\ broker'.committed = broker.committed
        /\ broker'.position = broker.position /\ broker'.assigned = broker.assigned
    BY <1>0, <1>6 DEF KafkaBrokers
  <1>8. KafkaTypes'
    BY <1>1, <1>3, <1>7 DEF KafkaInv, KafkaTypes
  <1>9. CASE log = broker.log
    <2>1. KafkaGeneration' /\ (Reading' <=> Reading)
      BY <1>1, <1>4 DEF KafkaInv, KafkaGeneration, Reading
    <2>2. op.kind = "ack" /\ conn.gen # 0 => Reading
      BY DEF KafkaInv, Acking, Committing
    <2> QED BY <1>1, <1>3, <1>4, <1>7, <1>8, <1>9, <2>1, <2>2, KafkaQuiet
  <1>10. CASE q \in KParts /\ log = [broker.log EXCEPT ![q] = Append(@, m)]
    BY <1>1, <1>3, <1>4, <1>7, <1>8, <1>10, KafkaGrows
  <1> QED BY <1>6, <1>9, <1>10

----------------------------------------------------------------------------
(* Kafka's deliveries. *)

\* What a delivery of the next offset of p leaves of the partition.
HandsOut(p) ==
  /\ InFlight(p)' = InFlight(p) \union {Position(p)}
  /\ Base(p)' = IF Base(p) = -1 THEN Position(p) ELSE Base(p)
  /\ High(p)' = IF High(p) > Position(p) THEN High(p) ELSE Position(p) + 1
  /\ LiveAt(p)' \subseteq LiveAt(p) \union {Position(p)} /\ SlotAt(p)' \subseteq SlotAt(p) \union {Position(p)}
  /\ Position(p) \in LiveAt(p)' /\ Position(p) \in SlotAt(p)' => Position(p) \in LiveAt(p) \union SlotAt(p)

\* The partition the delivery is of.
LEMMA CohortHandsOut ==
  ASSUME KafkaInv, Reading, NEW p \in KParts, p \in broker.assigned, HandsOut(p),
         Offsets(p)' = Offsets(p), broker'.log = broker.log, broker'.assigned = broker.assigned,
         Position(p) \in Offsets(p), Position(p)' = Position(p) + 1,
         AskedAt(p)' = AskedAt(p) \ {Position(p)}, LeftAt(p)' = LeftAt(p), UnsureAt(p)' = UnsureAt(p)
  PROVE  Cohort(p)'
  <1>0. /\ InFlight(p) \subseteq Nat /\ Base(p) \in Int /\ High(p) \in Nat /\ Position(p) \in Nat
        /\ LiveAt(p) \subseteq Nat /\ SlotAt(p) \subseteq Nat /\ Len(broker.log[p]) \in Nat
    BY CurTyped DEF Reading, LiveAt, SlotAt
  <1>1. Cohort(p) /\ Committed(p)
    BY DEF KafkaInv
  <1> DEFINE o == Position(p)
  <1>2. o \in Nat /\ o < Len(broker.log[p])
    BY <1>0 DEF Offsets
  <1>3. Entries(p)'
    <2>1. InFlight(p)' \subseteq Offsets(p)' /\ LiveAt(p)' \subseteq Offsets(p)' /\ SlotAt(p)' \subseteq Offsets(p)'
      BY <1>1 DEF Cohort, Entries, HandsOut
    <2>2. \A x \in InFlight(p)' \union LiveAt(p)' : x < High(p)' /\ Base(p)' >= 0
      BY <1>0, <1>1, <1>2 DEF Cohort, Entries, HandsOut
    <2>3. High(p)' <= Len(broker'.log[p]) /\ Base(p)' <= High(p)' /\ Base(p)' >= -1
      BY <1>0, <1>1, <1>2 DEF Cohort, Entries, HandsOut
    <2> QED BY <2>1, <2>2, <2>3 DEF Entries
  <1>4. Accounted(p)'
    <2> SUFFICES ASSUME NEW x \in Nat, x < Position(p)' \/ x < High(p)' \/ (\E y \in SlotAt(p)' : x < y), x # o
                 PROVE  x \in InFlight(p)' \/ x \in AskedAt(p)' \/ x \in LeftAt(p)'
      BY DEF Accounted, HandsOut
    <2>1. x < o \/ x < High(p) \/ (\E y \in SlotAt(p) : x < y)
      BY <1>0, <1>2 DEF HandsOut
    <2>2. x \in InFlight(p) \/ x \in AskedAt(p) \/ x \in LeftAt(p) \/ Loose(p, x)
      BY <1>1, <2>1 DEF Cohort, Accounted
    <2> QED BY <2>2 DEF HandsOut, Loose
  <1>5. Reread(p)'
    <2>1. ASSUME NEW x \in AskedAt(p)', x >= Position(p)', x < High(p)' \/ \E y \in SlotAt(p)' : x < y
          PROVE  x \in InFlight(p)' \/ x \in UnsureAt(p)'
      <3>1. x \in AskedAt(p) /\ x \in Nat /\ x >= o /\ x # o /\ (x < High(p) \/ \E y \in SlotAt(p) : x < y)
        BY <1>0, <1>2, <2>1 DEF HandsOut, AskedAt, Offsets
      <3> QED BY <1>1, <3>1 DEF Cohort, Reread, Loose, HandsOut
    <2>2. ASSUME NEW x \in LiveAt(p)' \union SlotAt(p)', x >= Position(p)' \/ x \in LeftAt(p)'
          PROVE  x \in UnsureAt(p)'
      <3>1. CASE x = o
        BY <1>1, <1>2, <2>2, <3>1 DEF Committed
      <3>2. CASE x # o
        <4>1. x \in LiveAt(p) \union SlotAt(p) /\ x \in Nat
          BY <1>0, <3>2 DEF HandsOut
        <4>2. x >= o \/ x \in LeftAt(p)
          BY <1>2, <2>2, <4>1
        <4> QED BY <1>1, <4>1, <4>2 DEF Cohort, Reread
      <3> QED BY <3>1, <3>2
    <2>3. ASSUME NEW x \in SlotAt(p)', x \in LiveAt(p)' \/ x \notin InFlight(p)'
          PROVE  x \in UnsureAt(p)'
      <3>1. CASE x = o
        <4>1. o \in LiveAt(p) \union SlotAt(p)
          BY <2>3, <3>1 DEF HandsOut
        <4> QED BY <1>1, <1>2, <3>1, <4>1 DEF Cohort, Reread
      <3>2. CASE x # o
        BY <1>1, <2>3, <3>2 DEF Cohort, Reread, HandsOut
      <3> QED BY <3>1, <3>2
    <2> QED BY <2>1, <2>2, <2>3 DEF Reread
  <1>6. BasePassed(p)'
    <2>1. WatermarkBase(p)' = WatermarkBase(p)
      BY <1>0, <1>2 DEF WatermarkBase, HandsOut
    <2>2. ASSUME NEW y \in InFlight(p)' \union LiveAt(p)' \union SlotAt(p)' \union {Position(p)'},
                 NEW x \in Nat, y <= x, x < WatermarkBase(p)'
          PROVE  x \in LeftAt(p)'
      <3>1. PICK z \in InFlight(p) \union LiveAt(p) \union SlotAt(p) \union {o} : z <= x
        <4>1. CASE y = Position(p)'
          <5>1. y = o + 1
            BY <4>1
          <5>2. o <= x
            BY <1>2, <2>2, <5>1
          <5> QED BY <5>2
        <4>2. CASE y # Position(p)'
          BY <2>2, <4>2 DEF HandsOut
        <4> QED BY <4>1, <4>2
      <3> QED BY <1>1, <2>1, <2>2, <3>1 DEF Cohort, BasePassed
    <2>3. Position(p)' <= High(p)'
      BY <1>0, <1>2 DEF HandsOut
    <2> QED BY <2>2, <2>3 DEF BasePassed
  <1> QED BY <1>3, <1>4, <1>5, <1>6 DEF Cohort

\* A delivery, when it leaves the tokens and the slot to their holders.
LEMMA KafkaHands ==
  ASSUME KafkaInv, Reading, which = "kafka", which' = which, op.kind = "idle", op' = op,
         NEW p \in KParts, p \in broker.assigned, Position(p) \in Offsets(p),
         NEW m, m = At(p, Position(p)),
         KafkaTypes', KafkaGeneration', Attempts', Holders',
         broker'.log = broker.log, broker'.committed = broker.committed, broker'.assigned = broker.assigned,
         broker'.position = [broker.position EXCEPT ![p] = Position(p) + 1],
         hist'.asked = hist.asked \ {m}, hist'.left = hist.left, hist'.unsure = hist.unsure,
         HandsOut(p),
         \A q \in KParts : q # p => /\ InFlight(q)' = InFlight(q) /\ LiveAt(q)' = LiveAt(q)
                                    /\ SlotAt(q)' \subseteq SlotAt(q)
                                    /\ Base(q)' = Base(q) /\ High(q)' = High(q)
  PROVE  KafkaInv' /\ ContractStep
  <1>1. \A q, x : At(q, x)' = At(q, x)
    BY DEF At
  <1>2. \A q : Offsets(q)' = Offsets(q)
    BY DEF Offsets
  <1>3. Kafka!Accepted' = Kafka!Accepted
    BY DEF Kafka!Accepted
  <1>4. OnePlace'
    BY <1>1, <1>2, <1>3 DEF KafkaInv, OnePlace
  <1>5. \A q : LeftAt(q)' = LeftAt(q) /\ UnsureAt(q)' = UnsureAt(q)
    BY <1>1, <1>2 DEF LeftAt, UnsureAt
  <1>6. /\ AskedAt(p)' = AskedAt(p) \ {Position(p)}
        /\ \A q \in KParts : q # p => AskedAt(q)' = AskedAt(q)
    <2>1. \A q \in KParts : \A x \in Offsets(q) : At(q, x) = m => q = p /\ x = Position(p)
      BY DEF KafkaInv, OnePlace
    <2>2. \A q \in KParts : \A x : x \in AskedAt(q)' <=> x \in AskedAt(q) /\ ~(q = p /\ x = Position(p))
      BY <1>1, <1>2, <2>1 DEF AskedAt
    <2>3. AskedAt(p)' = AskedAt(p) \ {Position(p)}
      BY <2>2
    <2>4. \A q \in KParts : q # p => AskedAt(q)' = AskedAt(q)
      BY <2>2
    <2> QED BY <2>3, <2>4
  <1>7. /\ Position(p)' = Position(p) + 1 /\ \A q \in KParts : q # p => Position(q)' = Position(q)
        /\ Position(p) \in Nat /\ Position(p) < Len(broker.log[p]) /\ Len(broker.log[p]) \in Nat
    <2>1. broker.position \in [KParts -> Nat] /\ broker.log[p] \in Seq(Messages)
      BY DEF KafkaInv, KafkaTypes, KafkaBrokers
    <2> QED BY <2>1 DEF Position, Offsets
  <1>8. \A q \in KParts : Committed(q)'
    <2>1. Committed(p)'
      <3>1. Committed(p) /\ broker.committed[p] \in Nat
        BY DEF KafkaInv, KafkaTypes, KafkaBrokers
      <3>2. \A x \in LeftAt(p) : x \in Nat
        BY DEF LeftAt, Offsets
      <3> QED BY <1>2, <1>5, <1>7, <3>1, <3>2 DEF Committed
    <2>2. ASSUME NEW q \in KParts, q # p
          PROVE  Committed(q)'
      BY <1>2, <1>5, <1>7, <2>2 DEF KafkaInv, Committed
    <2> QED BY <2>1, <2>2
  <1>9. \A q \in KParts : Cohort(q)'
    <2>1. Cohort(p)'
      BY <1>2, <1>5, <1>6, <1>7, CohortHandsOut
    <2>2. ASSUME NEW q \in KParts, q # p
          PROVE  Cohort(q)'
      <3>1. Cohort(q) /\ SlotAt(q)' \subseteq SlotAt(q) /\ InFlight(q)' = InFlight(q) /\ LiveAt(q)' = LiveAt(q)
            /\ Base(q)' = Base(q) /\ High(q)' = High(q)
        BY <2>2 DEF KafkaInv
      <3>2. Position(q)' = Position(q) /\ AskedAt(q)' = AskedAt(q)
        BY <1>6, <1>7, <2>2
      <3>3. Entries(q)'
        BY <1>2, <3>1 DEF Cohort, Entries
      <3>4. q \in broker'.assigned => Accounted(q)'
        BY <1>5, <3>1, <3>2 DEF Cohort, Accounted, Loose
      <3>5. q \in broker'.assigned => Reread(q)'
        BY <1>5, <3>1, <3>2 DEF Cohort, Reread, Loose
      <3>6. q \in broker'.assigned => BasePassed(q)'
        BY <1>5, <3>1, <3>2 DEF Cohort, BasePassed, WatermarkBase
      <3> QED BY <3>3, <3>4, <3>5, <3>6 DEF Cohort
    <2> QED BY <2>1, <2>2
  <1>10. ContractStep
    <2>1. m \in Kafka!Accepted /\ m \in Messages
      BY AcceptedAt DEF KafkaInv
    <2>2. m \in hist.left => m \in hist.unsure
      <3> SUFFICES ASSUME m \in hist.left
                   PROVE  m \in hist.unsure
        OBVIOUS
      <3>1. Position(p) \in LeftAt(p)
        BY DEF LeftAt
      <3>2. Position(p) \in UnsureAt(p)
        BY <1>7, <3>1 DEF KafkaInv, Committed
      <3> QED BY <3>2 DEF UnsureAt
    <2> QED BY <1>3, <2>1, <2>2, KafkaMapped, KafkaMappedNext, PromisesDeliver
  <1>11. Acking'
    BY DEF Acking
  <1> QED BY <1>4, <1>8, <1>9, <1>10, <1>11 DEF KafkaInv

\* The fields of the handles that a delivery sets.
LEMMA EnteredHandles ==
  ASSUME NEW h \in KafkaHandles, NEW p \in KParts, NEW o \in Nat
  PROVE  LET e == Kafka!Entered(h, p, o)
         IN  /\ e \in KafkaHandles /\ e.active = h.active /\ e.legacy = h.legacy
             /\ e.consumer = h.consumer /\ e.retired = h.retired
             /\ e.consumerGen = h.consumerGen /\ e.assignEpoch = h.assignEpoch
             /\ e.inFlight = [h.inFlight EXCEPT ![p] = @ \union {o}]
             /\ e.watermarks = [h.watermarks EXCEPT ![p] = IF @ = -1 THEN o ELSE @]
             /\ e.highWater = [h.highWater EXCEPT ![p] = IF @ > o THEN @ ELSE o + 1]
  <1> DEFINE f == [h.inFlight EXCEPT ![p] = @ \union {o}]
             w == [h.watermarks EXCEPT ![p] = IF @ = -1 THEN o ELSE @]
             g == [h.highWater EXCEPT ![p] = IF @ > o THEN @ ELSE o + 1]
             e == Kafka!Entered(h, p, o)
  <1>1. f \in [KParts -> SUBSET Nat] /\ w \in [KParts -> Int] /\ g \in [KParts -> Nat]
    <2>1. h.inFlight \in [KParts -> SUBSET Nat] /\ h.watermarks \in [KParts -> Int] /\ h.highWater \in [KParts -> Nat]
      BY DEF KafkaHandles
    <2> QED BY <2>1
  <1>2. e = [h EXCEPT !.inFlight = f, !.watermarks = w, !.highWater = g]
    BY DEF Kafka!Entered, Kafka!None, KafkaHandles
  <1> HIDE DEF f, w, g, e
  <1>3. /\ e \in KafkaHandles /\ e.active = h.active /\ e.legacy = h.legacy
        /\ e.consumer = h.consumer /\ e.retired = h.retired
        /\ e.consumerGen = h.consumerGen /\ e.assignEpoch = h.assignEpoch
        /\ e.inFlight = f /\ e.watermarks = w /\ e.highWater = g
    BY <1>1, <1>2 DEF KafkaHandles
  <1> QED BY <1>3 DEF f, w, g, e

\* What both kinds of pop do.
LEMMA KafkaPolled ==
  ASSUME KafkaInv, NEW p \in KParts, Kafka!Pollable(p)
  PROVE  /\ Reading /\ op.kind = "idle" /\ p \in broker.assigned /\ Position(p) \in Offsets(p)
         /\ Position(p) \in Nat /\ Cur \in KafkaHandles /\ conn.gen \in 1..Len(table)
         /\ conn \in KafkaConns /\ broker \in KafkaBrokers /\ table \in Seq(KafkaHandles)
         /\ tokens \subseteq KafkaTokens /\ hist \in KafkaHists
         /\ At(p, Position(p)) \in Messages
         /\ Kafka!MessageAt(p, broker.position[p]) = At(p, Position(p))
  <1>1. conn.gen # 0 /\ op.kind = "idle" /\ p \in broker.assigned /\ Cur.consumer # 0
        /\ broker.position[p] < Len(broker.log[p])
    BY DEF Kafka!Pollable, Kafka!IoLockFree, Kafka!Current, Kafka!NoGen, Kafka!NoConsumer, Kafka!Handles, Cur
  <1>2. Reading
    BY <1>1 DEF Reading, KafkaInv, KafkaGeneration
  <1>3. /\ conn \in KafkaConns /\ broker \in KafkaBrokers /\ table \in Seq(KafkaHandles)
        /\ tokens \subseteq KafkaTokens /\ hist \in KafkaHists
    BY DEF KafkaInv, KafkaTypes
  <1>4. Position(p) \in Nat /\ Cur \in KafkaHandles /\ conn.gen \in 1..Len(table)
    BY <1>1, CurTyped
  <1>5. Position(p) \in Offsets(p)
    BY <1>1, <1>4 DEF Offsets, Position
  <1>6. At(p, Position(p)) \in Messages
    BY <1>5, AcceptedAt DEF KafkaInv
  <1> QED BY <1>1, <1>2, <1>3, <1>4, <1>5, <1>6 DEF Kafka!MessageAt, At, Position

\* The broker and the history after a message was handed out.
LEMMA KafkaHanded ==
  ASSUME broker \in KafkaBrokers, hist \in KafkaHists, NEW p \in KParts, NEW t \in KafkaTokens, NEW others,
         NEW m \in Messages, m = Kafka!MessageAt(p, broker.position[p]), Kafka!Handed(p, t, others)
  PROVE  /\ broker' \in KafkaBrokers /\ hist' \in KafkaHists
         /\ broker'.log = broker.log /\ broker'.committed = broker.committed
         /\ broker'.assigned = broker.assigned
         /\ broker'.position = [broker.position EXCEPT ![p] = Position(p) + 1]
         /\ hist'.asked = hist.asked \ {m} /\ hist'.left = hist.left /\ hist'.unsure = hist.unsure
         /\ hist'.holders[m] = (hist.holders[m] \intersect others) \union {t}
         /\ \A n \in Messages : n # m => hist'.holders[n] = hist.holders[n]
  <1> DEFINE position == [broker.position EXCEPT ![p] = Position(p) + 1]
             holders == [hist.holders EXCEPT ![m] = (@ \cap others) \cup {t}]
             asked == hist.asked \ {m}
  <1>1. broker' = [broker EXCEPT !.position = position]
    BY DEF Kafka!Handed, Position, KafkaBrokers
  <1>2. hist' = [hist EXCEPT !.asked = asked, !.holders = holders]
    BY DEF Kafka!Handed, KafkaHists
  <1>3. position \in [KParts -> Nat]
    BY DEF KafkaBrokers, Position
  <1>4. asked \in SUBSET Messages /\ holders \in [Messages -> SUBSET KafkaTokens]
    BY DEF KafkaHists
  <1>5. /\ holders[m] = (hist.holders[m] \intersect others) \union {t}
        /\ \A n \in Messages : n # m => holders[n] = hist.holders[n]
    BY DEF KafkaHists
  <1> HIDE DEF position, holders, asked
  <1>6. /\ broker' \in KafkaBrokers /\ broker'.log = broker.log /\ broker'.committed = broker.committed
        /\ broker'.assigned = broker.assigned /\ broker'.position = position
    BY <1>1, <1>3 DEF KafkaBrokers
  <1>7. /\ hist' \in KafkaHists /\ hist'.asked = asked /\ hist'.holders = holders
        /\ hist'.left = hist.left /\ hist'.unsure = hist.unsure
    BY <1>2, <1>4 DEF KafkaHists
  <1> QED BY <1>5, <1>6, <1>7 DEF position, asked

LEMMA KafkaPopWithAck ==
  ASSUME KafkaInv, which = "kafka", which' = which, NEW p \in KParts, Kafka!PopWithAck(p)
  PROVE  KafkaInv' /\ ContractStep
  <1>0. Kafka!Pollable(p)
    BY DEF Kafka!PopWithAck
  <1>1. /\ Reading /\ op.kind = "idle" /\ p \in broker.assigned /\ Position(p) \in Offsets(p)
        /\ Position(p) \in Nat /\ Cur \in KafkaHandles /\ conn.gen \in 1..Len(table)
        /\ conn \in KafkaConns /\ broker \in KafkaBrokers /\ table \in Seq(KafkaHandles)
        /\ tokens \subseteq KafkaTokens /\ hist \in KafkaHists
        /\ At(p, Position(p)) \in Messages
        /\ Kafka!MessageAt(p, broker.position[p]) = At(p, Position(p))
    BY <1>0, KafkaPolled
  <1>2. PICK o \in Nat : o = Position(p)
    BY <1>1
  <1>3. PICK m \in Messages : m = At(p, Position(p))
    BY <1>1
  <1>4. conn.attempts \in Nat /\ conn.consumerGen \in Nat /\ conn.assignEpoch \in Nat
    BY <1>1 DEF KafkaConns
  <1>5. PICK a \in Nat : a = conn.attempts + 1
    BY <1>4
  <1>6. PICK t \in KafkaTokens : t = [part |-> p, offset |-> o, gen |-> conn.consumerGen,
                                      epoch |-> conn.assignEpoch, attempt |-> a]
    BY <1>4 DEF KafkaTokens
  <1>7. PICK others : others = IF Cur.legacy = <<p, o>> THEN {Kafka!LegacyRead(p, o)} ELSE {}
    OBVIOUS
  <1>8. /\ conn' = [conn EXCEPT !.attempts = a] /\ op' = op /\ tokens' = tokens \union {t}
        /\ table' = [table EXCEPT ![conn.gen] = Kafka!Attempted(Cur, p, o, a)]
        /\ Kafka!Handed(p, t, others)
    BY <1>2, <1>5, <1>6, <1>7 DEF Kafka!PopWithAck, Kafka!Handles, Cur, Position
  <1>9. /\ conn' \in KafkaConns /\ conn'.gen = conn.gen /\ conn'.consumer = conn.consumer
        /\ conn'.attempts = a /\ conn'.assignEpoch = conn.assignEpoch
    BY <1>1, <1>8 DEF KafkaConns
  <1>10. /\ broker' \in KafkaBrokers /\ hist' \in KafkaHists
         /\ broker'.log = broker.log /\ broker'.committed = broker.committed
         /\ broker'.assigned = broker.assigned
         /\ broker'.position = [broker.position EXCEPT ![p] = Position(p) + 1]
         /\ hist'.asked = hist.asked \ {m} /\ hist'.left = hist.left /\ hist'.unsure = hist.unsure
         /\ hist'.holders[m] = (hist.holders[m] \intersect others) \union {t}
         /\ \A n \in Messages : n # m => hist'.holders[n] = hist.holders[n]
    <2>1. broker \in KafkaBrokers /\ hist \in KafkaHists /\ m = Kafka!MessageAt(p, broker.position[p])
      BY <1>1, <1>3
    <2>2. Kafka!Handed(p, t, others)
      BY <1>8
    <2> QED BY ONLY <2>1, <2>2, KafkaHanded
  <1> DEFINE active == {x \in Cur.active : <<x[1], x[2]>> # <<p, o>>} \union {<<p, o, a>>}
             h == Kafka!Attempted(Cur, p, o, a)
  <1>11. /\ h \in KafkaHandles /\ h.active = active /\ h.legacy = Cur.legacy
         /\ h.consumer = Cur.consumer /\ h.retired = Cur.retired
         /\ h.consumerGen = Cur.consumerGen /\ h.assignEpoch = Cur.assignEpoch
         /\ h.inFlight = [Cur.inFlight EXCEPT ![p] = @ \union {o}]
         /\ h.watermarks = [Cur.watermarks EXCEPT ![p] = IF @ = -1 THEN o ELSE @]
         /\ h.highWater = [Cur.highWater EXCEPT ![p] = IF @ > o THEN @ ELSE o + 1]
    <2> DEFINE e == Kafka!Entered(Cur, p, o)
    <2>1. /\ e \in KafkaHandles /\ e.active = Cur.active /\ e.legacy = Cur.legacy
          /\ e.consumer = Cur.consumer /\ e.retired = Cur.retired
          /\ e.consumerGen = Cur.consumerGen /\ e.assignEpoch = Cur.assignEpoch
          /\ e.inFlight = [Cur.inFlight EXCEPT ![p] = @ \union {o}]
          /\ e.watermarks = [Cur.watermarks EXCEPT ![p] = IF @ = -1 THEN o ELSE @]
          /\ e.highWater = [Cur.highWater EXCEPT ![p] = IF @ > o THEN @ ELSE o + 1]
      BY <1>1, EnteredHandles
    <2>2. h = [e EXCEPT !.active = {x \in e.active : <<x[1], x[2]>> # <<p, o>>} \union {<<p, o, a>>}]
      BY <2>1 DEF Kafka!Attempted, KafkaHandles
    <2>3. h = [e EXCEPT !.active = active]
      BY <2>1, <2>2
    <2>4. active \in SUBSET (KParts \X Nat \X Nat)
      <3>1. Cur.active \subseteq KParts \X Nat \X Nat /\ <<p, o, a>> \in KParts \X Nat \X Nat
        BY <1>1 DEF KafkaHandles
      <3> QED BY <3>1
    <2> HIDE DEF e, h, active
    <2>5. /\ h \in KafkaHandles /\ h.active = active /\ h.legacy = e.legacy
          /\ h.consumer = e.consumer /\ h.retired = e.retired
          /\ h.consumerGen = e.consumerGen /\ h.assignEpoch = e.assignEpoch
          /\ h.inFlight = e.inFlight /\ h.watermarks = e.watermarks /\ h.highWater = e.highWater
      BY <2>1, <2>3, <2>4 DEF KafkaHandles
    <2> QED BY <2>1, <2>5
  <1> HIDE DEF h
  <1>12. table' \in Seq(KafkaHandles) /\ Len(table') = Len(table) /\ Cur' = h
    BY <1>1, <1>8, <1>9, <1>11 DEF Cur, h
  <1>13. KafkaTypes'
    BY <1>1, <1>6, <1>8, <1>9, <1>10, <1>12 DEF KafkaTypes
  <1>14. KafkaGeneration' /\ Reading'
    BY <1>1, <1>8, <1>9, <1>11, <1>12 DEF KafkaInv, KafkaGeneration, Reading
  <1>15. Cur.inFlight \in [KParts -> SUBSET Nat] /\ Cur.watermarks \in [KParts -> Int]
         /\ Cur.highWater \in [KParts -> Nat] /\ Cur.active \subseteq KParts \X Nat \X Nat
    BY <1>1 DEF KafkaHandles
  <1>16. /\ InFlight(p)' = InFlight(p) \union {o}
         /\ Base(p)' = IF Base(p) = -1 THEN o ELSE Base(p)
         /\ High(p)' = IF High(p) > o THEN High(p) ELSE o + 1
         /\ \A q \in KParts : q # p => InFlight(q)' = InFlight(q) /\ Base(q)' = Base(q) /\ High(q)' = High(q)
    BY <1>11, <1>12, <1>15 DEF InFlight, Base, High
  <1>17. \A q : SlotAt(q)' = SlotAt(q)
    BY <1>11, <1>12 DEF SlotAt
  <1>18. \A q \in KParts, x \in Nat, b \in Nat :
           <<q, x, b>> \in active <=> (<<q, x, b>> \in Cur.active /\ ~(q = p /\ x = o)) \/ (q = p /\ x = o /\ b = a)
    OBVIOUS
  <1> HIDE DEF active
  <1>19. LiveAt(p)' \subseteq LiveAt(p) \union {o} /\ \A q \in KParts : q # p => LiveAt(q)' = LiveAt(q)
    <2>1. \A q \in KParts : \A x \in LiveAt(q)' : x \in Nat /\ \E b \in Nat : <<q, x, b>> \in active
      BY <1>11, <1>12 DEF LiveAt
    <2>2. LiveAt(p)' \subseteq LiveAt(p) \union {o}
      BY <1>18, <2>1 DEF LiveAt
    <2>3. \A q \in KParts : q # p => LiveAt(q)' \subseteq LiveAt(q)
      BY <1>18, <2>1 DEF LiveAt
    <2>4. \A q \in KParts : q # p => LiveAt(q) \subseteq LiveAt(q)'
      BY <1>11, <1>12, <1>18 DEF LiveAt
    <2> QED BY <2>2, <2>3, <2>4
  <1>20. HandsOut(p)
    BY <1>2, <1>16, <1>17, <1>19 DEF HandsOut
  <1>21. Attempts'
    <2>0. Cur'.active = active /\ \A x \in active : x \in Cur.active \/ x = <<p, o, a>>
      BY <1>11, <1>12 DEF active
    <2>1. ASSUME NEW x \in active, NEW y \in active, x[1] = y[1], x[2] = y[2]
          PROVE  x = y
      BY <1>1, <2>1 DEF active, KafkaInv, Attempts
    <2>2. ASSUME NEW x \in active
          PROVE  x[2] \in InFlight(x[1])'
      <3>1. CASE x = <<p, o, a>>
        BY <1>16, <3>1
      <3>2. CASE x \in Cur.active
        <4>1. x[2] \in InFlight(x[1]) /\ x[1] \in KParts
          BY <1>1, <1>15, <3>2 DEF KafkaInv, Attempts
        <4> QED BY <1>16, <4>1
      <3> QED BY <2>0, <3>1, <3>2
    <2> QED BY <2>0, <2>1, <2>2 DEF Attempts
  <1>22. \A q, x : At(q, x)' = At(q, x) /\ Offsets(q)' = Offsets(q)
    BY <1>10 DEF At, Offsets
  <1>23. \A q \in KParts : \A x \in Offsets(q) : At(q, x) = m => q = p /\ x = o
    BY <1>1, <1>2, <1>3 DEF KafkaInv, OnePlace
  <1>24. Holders'
    <2>1. ASSUME NEW u \in tokens'
          PROVE  u.offset \in Offsets(u.part)' /\ u.attempt <= conn'.attempts
      <3>1. CASE u = t
        BY <1>1, <1>2, <1>5, <1>6, <1>9, <1>22, <3>1
      <3>2. CASE u \in tokens
        <4>1. u.attempt \in Nat
          BY <1>1, <3>2 DEF KafkaTokens
        <4> QED BY <1>4, <1>5, <1>9, <1>22, <3>2, <4>1 DEF KafkaInv, Holders
      <3> QED BY <1>8, <3>1, <3>2
    <2>2. SlotHeld'
      <3> SUFFICES ASSUME NEW q \in KParts, NEW x \in SlotAt(q)
                   PROVE  Kafka!LegacyRead(q, x)' \in hist'.holders[At(q, x)']
        BY <1>17 DEF SlotHeld
      <3>1. Kafka!LegacyRead(q, x)' = Kafka!LegacyRead(q, x)
        BY <1>9 DEF Kafka!LegacyRead
      <3>2. Kafka!LegacyRead(q, x) \in hist.holders[At(q, x)] /\ x \in Offsets(q)
        BY <1>1 DEF KafkaInv, Holders, SlotHeld, Cohort, Entries
      <3>3. CASE At(q, x) = m
        <4>1. q = p /\ x = o /\ Cur.legacy = <<p, o>>
          BY <1>23, <3>2, <3>3 DEF SlotAt
        <4> QED BY <1>7, <1>10, <1>22, <3>1, <3>2, <3>3, <4>1
      <3>4. CASE At(q, x) # m
        <4>1. At(q, x) \in Messages
          BY <3>2, AcceptedAt DEF KafkaInv
        <4> QED BY <1>10, <1>22, <3>1, <3>2, <3>4, <4>1
      <3> QED BY <3>3, <3>4
    <2>3. ASSUME NEW u \in tokens', TokenLive(u)'
          PROVE  u \in hist'.holders[At(u.part, u.offset)']
      <3>1. CASE u = t
        BY <1>2, <1>3, <1>6, <1>10, <1>22, <3>1
      <3>2. CASE u # t
        <4>1. u \in tokens /\ u.part \in KParts /\ u.offset \in Nat /\ u.attempt \in Nat
          BY <1>1, <1>8, <3>2 DEF KafkaTokens
        <4>2. u.offset \in Offsets(u.part) /\ u.attempt <= conn.attempts
          BY <4>1 DEF KafkaInv, Holders
        <4>3. /\ u.gen = Cur.consumerGen /\ u.epoch = Cur.assignEpoch
              /\ <<u.part, u.offset, u.attempt>> \in active
          BY <1>11, <1>12, <2>3 DEF TokenLive
        <4>4. u.attempt # a
          BY <1>4, <1>5, <4>1, <4>2
        <4>5. <<u.part, u.offset, u.attempt>> \in Cur.active /\ ~(u.part = p /\ u.offset = o)
          BY <1>18, <4>1, <4>3, <4>4
        <4>6. u \in hist.holders[At(u.part, u.offset)]
          BY <1>1, <4>1, <4>3, <4>5 DEF KafkaInv, Holders, TokenLive
        <4>7. At(u.part, u.offset) # m /\ At(u.part, u.offset) \in Messages
          BY <1>23, <4>1, <4>2, <4>5, AcceptedAt DEF KafkaInv
        <4> QED BY <1>10, <1>22, <4>6, <4>7
      <3> QED BY <3>1, <3>2
    <2> QED BY <1>22, <2>1, <2>2, <2>3 DEF Holders
  <1> QED BY <1>1, <1>3, <1>8, <1>10, <1>13, <1>14, <1>16, <1>17, <1>19, <1>20, <1>21, <1>24, KafkaHands

LEMMA KafkaPop ==
  ASSUME KafkaInv, which = "kafka", which' = which, NEW p \in KParts, Kafka!Pop(p)
  PROVE  KafkaInv' /\ ContractStep
  <1>0. Kafka!Pollable(p)
    BY DEF Kafka!Pop
  <1>1. /\ Reading /\ op.kind = "idle" /\ p \in broker.assigned /\ Position(p) \in Offsets(p)
        /\ Position(p) \in Nat /\ Cur \in KafkaHandles /\ conn.gen \in 1..Len(table)
        /\ conn \in KafkaConns /\ broker \in KafkaBrokers /\ table \in Seq(KafkaHandles)
        /\ tokens \subseteq KafkaTokens /\ hist \in KafkaHists
        /\ At(p, Position(p)) \in Messages
        /\ Kafka!MessageAt(p, broker.position[p]) = At(p, Position(p))
    BY <1>0, KafkaPolled
  <1>2. PICK o \in Nat : o = Position(p)
    BY <1>1
  <1>3. PICK m \in Messages : m = At(p, Position(p))
    BY <1>1
  <1>4. conn.attempts \in Nat /\ conn.assignEpoch \in Nat
    BY <1>1 DEF KafkaConns
  <1>5. PICK a \in Nat : a = conn.attempts + 1
    BY <1>4
  <1>6. PICK t \in KafkaTokens : t = Kafka!LegacyRead(p, o)
    BY <1>4 DEF KafkaTokens, Kafka!LegacyRead, Kafka!NoGen
  <1>7. PICK others : others = {u \in tokens : TokenLive(u)}
    OBVIOUS
  <1>8. \A u : Kafka!Live(u) <=> TokenLive(u)
    BY <1>1 DEF Kafka!Live, Kafka!Current, Kafka!NoGen, Kafka!NoConsumer, Kafka!Handles, Kafka!TokenActive,
                TokenLive, Cur, Reading, KafkaInv, KafkaGeneration
  <1>9. /\ conn' = [conn EXCEPT !.attempts = a] /\ op' = op /\ tokens' = tokens
        /\ table' = [table EXCEPT ![conn.gen] = [Kafka!Entered(Cur, p, o) EXCEPT !.legacy = <<p, o>>]]
        /\ Kafka!Handed(p, t, others)
    <2>1. others = {u \in tokens : Kafka!Live(u)}
      BY <1>7, <1>8
    <2> QED BY <1>2, <1>5, <1>6, <2>1 DEF Kafka!Pop, Kafka!Handles, Cur, Position
  <1>10. /\ conn' \in KafkaConns /\ conn'.gen = conn.gen /\ conn'.consumer = conn.consumer
         /\ conn'.attempts = a /\ conn'.assignEpoch = conn.assignEpoch
    BY <1>1, <1>9 DEF KafkaConns
  <1>11. /\ broker' \in KafkaBrokers /\ hist' \in KafkaHists
         /\ broker'.log = broker.log /\ broker'.committed = broker.committed
         /\ broker'.assigned = broker.assigned
         /\ broker'.position = [broker.position EXCEPT ![p] = Position(p) + 1]
         /\ hist'.asked = hist.asked \ {m} /\ hist'.left = hist.left /\ hist'.unsure = hist.unsure
         /\ hist'.holders[m] = (hist.holders[m] \intersect others) \union {t}
         /\ \A n \in Messages : n # m => hist'.holders[n] = hist.holders[n]
    <2>1. broker \in KafkaBrokers /\ hist \in KafkaHists /\ m = Kafka!MessageAt(p, broker.position[p])
      BY <1>1, <1>3
    <2>2. Kafka!Handed(p, t, others)
      BY <1>9
    <2> QED BY ONLY <2>1, <2>2, KafkaHanded
  <1> DEFINE e == Kafka!Entered(Cur, p, o)
             h == [e EXCEPT !.legacy = <<p, o>>]
  <1>12. /\ h \in KafkaHandles /\ h.active = Cur.active /\ h.legacy = <<p, o>>
         /\ h.consumer = Cur.consumer /\ h.retired = Cur.retired
         /\ h.consumerGen = Cur.consumerGen /\ h.assignEpoch = Cur.assignEpoch
         /\ h.inFlight = [Cur.inFlight EXCEPT ![p] = @ \union {o}]
         /\ h.watermarks = [Cur.watermarks EXCEPT ![p] = IF @ = -1 THEN o ELSE @]
         /\ h.highWater = [Cur.highWater EXCEPT ![p] = IF @ > o THEN @ ELSE o + 1]
    <2>1. /\ e \in KafkaHandles /\ e.active = Cur.active
          /\ e.consumer = Cur.consumer /\ e.retired = Cur.retired
          /\ e.consumerGen = Cur.consumerGen /\ e.assignEpoch = Cur.assignEpoch
          /\ e.inFlight = [Cur.inFlight EXCEPT ![p] = @ \union {o}]
          /\ e.watermarks = [Cur.watermarks EXCEPT ![p] = IF @ = -1 THEN o ELSE @]
          /\ e.highWater = [Cur.highWater EXCEPT ![p] = IF @ > o THEN @ ELSE o + 1]
      <3>1. Cur \in KafkaHandles /\ p \in KParts /\ o \in Nat
        BY <1>1
      <3> QED BY ONLY <3>1, EnteredHandles
    <2>2. PICK slot \in KParts \X Nat : slot = <<p, o>>
      OBVIOUS
    <2>3. h = [e EXCEPT !.legacy = slot]
      BY <2>2
    <2> HIDE DEF e, h
    <2>4. /\ h \in KafkaHandles /\ h.active = e.active /\ h.legacy = slot
          /\ h.consumer = e.consumer /\ h.retired = e.retired
          /\ h.consumerGen = e.consumerGen /\ h.assignEpoch = e.assignEpoch
          /\ h.inFlight = e.inFlight /\ h.watermarks = e.watermarks /\ h.highWater = e.highWater
      BY <2>1, <2>3 DEF KafkaHandles
    <2> QED BY <2>1, <2>2, <2>4
  <1> HIDE DEF h, e
  <1>13. table' \in Seq(KafkaHandles) /\ Len(table') = Len(table) /\ Cur' = h
    <2>1. table' = [table EXCEPT ![conn.gen] = h]
      BY <1>9 DEF h, e
    <2> QED BY <1>1, <1>10, <1>12, <2>1 DEF Cur
  <1>14. KafkaTypes'
    BY <1>1, <1>9, <1>10, <1>11, <1>13 DEF KafkaTypes
  <1>15. KafkaGeneration' /\ Reading'
    BY <1>1, <1>9, <1>10, <1>12, <1>13 DEF KafkaInv, KafkaGeneration, Reading
  <1>16. Cur.inFlight \in [KParts -> SUBSET Nat] /\ Cur.watermarks \in [KParts -> Int]
         /\ Cur.highWater \in [KParts -> Nat] /\ Cur.active \subseteq KParts \X Nat \X Nat
    BY <1>1 DEF KafkaHandles
  <1>17. /\ InFlight(p)' = InFlight(p) \union {o}
         /\ Base(p)' = IF Base(p) = -1 THEN o ELSE Base(p)
         /\ High(p)' = IF High(p) > o THEN High(p) ELSE o + 1
         /\ \A q \in KParts : q # p => InFlight(q)' = InFlight(q) /\ Base(q)' = Base(q) /\ High(q)' = High(q)
    BY <1>12, <1>13, <1>16 DEF InFlight, Base, High
  <1>18. \A q : LiveAt(q)' = LiveAt(q)
    BY <1>12, <1>13 DEF LiveAt
  <1>19. \A q : \A x \in SlotAt(q)' : q = p /\ x = o
    BY <1>12, <1>13 DEF SlotAt
  <1>20. HandsOut(p)
    BY <1>2, <1>17, <1>18, <1>19 DEF HandsOut
  <1>21. Attempts'
    <2>1. ASSUME NEW x \in Cur.active
          PROVE  x[2] \in InFlight(x[1])'
      <3>1. x[2] \in InFlight(x[1]) /\ x[1] \in KParts
        BY <1>1, <1>16 DEF KafkaInv, Attempts
      <3> QED BY <1>17, <3>1
    <2> QED BY <1>1, <1>12, <1>13, <2>1 DEF Attempts, KafkaInv
  <1>22. \A q, x : At(q, x)' = At(q, x) /\ Offsets(q)' = Offsets(q)
    BY <1>11 DEF At, Offsets
  <1>23. Holders'
    <2>1. ASSUME NEW u \in tokens'
          PROVE  u.offset \in Offsets(u.part)' /\ u.attempt <= conn'.attempts
      <3>1. u \in tokens /\ u.attempt \in Nat
        BY <1>1, <1>9 DEF KafkaTokens
      <3> QED BY <1>4, <1>5, <1>10, <1>22, <3>1 DEF KafkaInv, Holders
    <2>2. SlotHeld'
      <3> SUFFICES ASSUME NEW q \in KParts, NEW x \in SlotAt(q)'
                   PROVE  Kafka!LegacyRead(q, x)' \in hist'.holders[At(q, x)']
        BY DEF SlotHeld
      <3>1. q = p /\ x = o
        BY <1>19
      <3>2. Kafka!LegacyRead(p, o)' = t
        BY <1>6, <1>10 DEF Kafka!LegacyRead
      <3> QED BY <1>2, <1>3, <1>11, <1>22, <3>1, <3>2
    <2>3. ASSUME NEW u \in tokens', TokenLive(u)'
          PROVE  u \in hist'.holders[At(u.part, u.offset)']
      <3>1. u \in tokens /\ u.part \in KParts /\ TokenLive(u)
        BY <1>1, <1>9, <1>12, <1>13, <2>3 DEF KafkaTokens, TokenLive
      <3>2. u \in hist.holders[At(u.part, u.offset)] /\ u.offset \in Offsets(u.part)
        BY <1>1, <3>1 DEF KafkaInv, Holders
      <3>3. At(u.part, u.offset) \in Messages
        BY <3>1, <3>2, AcceptedAt DEF KafkaInv
      <3> QED BY <1>7, <1>11, <1>22, <3>1, <3>2, <3>3
    <2> QED BY <1>22, <2>1, <2>2, <2>3 DEF Holders
  <1>24. \A q \in KParts : q # p => /\ InFlight(q)' = InFlight(q) /\ LiveAt(q)' = LiveAt(q)
                                    /\ SlotAt(q)' \subseteq SlotAt(q)
                                    /\ Base(q)' = Base(q) /\ High(q)' = High(q)
    BY <1>17, <1>18, <1>19
  <1> QED BY <1>1, <1>3, <1>9, <1>11, <1>14, <1>15, <1>20, <1>21, <1>23, <1>24, KafkaHands

----------------------------------------------------------------------------
(* Kafka's acks. *)

LEMMA SmallestOffset ==
  ASSUME NEW S \in SUBSET Nat, S # {}
  PROVE  Kafka!Min(S) \in S /\ Kafka!Min(S) \in Nat /\ \A y \in S : Kafka!Min(S) <= y
  <1>1. PICK x \in S : \A y \in S : ~ (<<y, x>> \in OpToRel(<, Nat))
    BY NatLessThanWellFounded, WFMin, Zenon
  <1>2. \A y \in S : x <= y
    <2> TAKE y \in S
    <2>1. ~ (<<y, x>> \in OpToRel(<, Nat)) /\ x \in Nat /\ y \in Nat
      BY <1>1
    <2>2. ~(y < x)
      BY <2>1, Zenon DEF OpToRel
    <2>3. x \in Nat /\ y \in Nat
      BY <2>1
    <2> QED BY <2>2, <2>3
  <1>3. Kafka!Min(S) \in S /\ \A y \in S : Kafka!Min(S) <= y
    BY <1>2, Zenon DEF Kafka!Min
  <1> QED BY <1>3

\* The watermark is the first offset in flight from its base on, or the high water.
LEMMA WatermarkIs ==
  ASSUME NEW h \in KafkaHandles, NEW p \in KParts, h.watermarks[p] \in Nat, h.watermarks[p] <= h.highWater[p]
  PROVE  /\ Kafka!Watermark(h, p) \in Nat /\ h.watermarks[p] <= Kafka!Watermark(h, p)
         /\ Kafka!Watermark(h, p) <= h.highWater[p]
         /\ Kafka!Watermark(h, p) = h.highWater[p] \/ Kafka!Watermark(h, p) \in h.inFlight[p]
         /\ \A x \in h.inFlight[p] : x < Kafka!Watermark(h, p) => x < h.watermarks[p]
  <1> DEFINE base == h.watermarks[p]
             high == h.highWater[p]
             F == h.inFlight[p]
             ends == {w \in base..high : w = high \/ w \in F}
  <1>0. base \in Nat /\ high \in Nat /\ F \subseteq Nat /\ base <= high
    BY DEF KafkaHandles
  <1> HIDE DEF base, high, F
  <1>1. high \in ends /\ ends \in SUBSET Nat
    BY <1>0
  <1>2. Kafka!Watermark(h, p) = Kafka!Min(ends)
    BY <1>1 DEF Kafka!Watermark, base, high, F
  <1>3. Kafka!Min(ends) \in ends /\ \A y \in ends : Kafka!Min(ends) <= y
    BY <1>1, SmallestOffset
  <1>4. PICK w \in ends : w = Kafka!Watermark(h, p) /\ \A y \in ends : w <= y
    BY <1>2, <1>3
  <1>5. w \in Nat /\ base <= w /\ w <= high /\ (w = high \/ w \in F)
    BY <1>0, <1>4
  <1>6. ASSUME NEW x \in F, x < w
        PROVE  x < base
    <2> SUFFICES ASSUME ~(x < base)
                 PROVE  FALSE
      OBVIOUS
    <2>1. x \in ends
      BY <1>0, <1>5, <1>6
    <2> QED BY <1>0, <1>4, <1>5, <1>6, <2>1
  <1> QED BY <1>4, <1>5, <1>6 DEF base, high, F

\* A message is asked for: its offset is acked.
LEMMA KafkaAsked ==
  ASSUME KafkaInv, NEW p \in KParts, NEW o \in Offsets(p), NEW m, m = At(p, o),
         broker'.log = broker.log, hist'.left = hist.left, hist'.unsure = hist.unsure,
         hist'.asked = hist.asked \union {m}
  PROVE  /\ AskedAt(p)' = AskedAt(p) \union {o}
         /\ \A q \in KParts : q # p => AskedAt(q)' = AskedAt(q)
         /\ \A q : LeftAt(q)' = LeftAt(q) /\ UnsureAt(q)' = UnsureAt(q) /\ Offsets(q)' = Offsets(q)
         /\ \A q, x : At(q, x)' = At(q, x)
         /\ OnePlace' /\ Kafka!Accepted' = Kafka!Accepted
         /\ which = "kafka" /\ which' = which => ContractStep
  <1>1. \A q, x : At(q, x)' = At(q, x)
    BY DEF At
  <1>2. \A q : Offsets(q)' = Offsets(q)
    BY DEF Offsets
  <1>3. \A q : LeftAt(q)' = LeftAt(q) /\ UnsureAt(q)' = UnsureAt(q)
    BY <1>1, <1>2 DEF LeftAt, UnsureAt
  <1>4. \A q \in KParts : \A x \in Offsets(q) : At(q, x) = m => q = p /\ x = o
    BY DEF KafkaInv, OnePlace
  <1>5. \A q \in KParts : \A x : x \in AskedAt(q)' <=> x \in AskedAt(q) \/ (q = p /\ x = o)
    BY <1>1, <1>2, <1>4 DEF AskedAt
  <1>6. AskedAt(p)' = AskedAt(p) \union {o} /\ \A q \in KParts : q # p => AskedAt(q)' = AskedAt(q)
    BY <1>5
  <1>7. Kafka!Accepted' = Kafka!Accepted
    BY DEF Kafka!Accepted
  <1>8. m \in Kafka!Accepted /\ m \in Messages
    BY AcceptedAt DEF KafkaInv
  <1>9. OnePlace'
    BY <1>1, <1>2, <1>7, <1>8 DEF KafkaInv, OnePlace
  <1>10. which = "kafka" /\ which' = which => ContractStep
    BY <1>7, <1>8, KafkaMapped, KafkaMappedNext, PromisesAck
  <1> QED BY <1>1, <1>2, <1>3, <1>6, <1>7, <1>9, <1>10

\* An ack takes o out of flight.  The partition is forgotten when nothing is
\* in flight any more and the watermark is at its limit.
LEMMA CohortTaken ==
  ASSUME KafkaInv, Reading, NEW p \in KParts, NEW o \in LiveAt(p), op.kind = "idle",
         InFlight(p)' = InFlight(p) \ {o}, SlotAt(p)' = SlotAt(p),
         LiveAt(p)' \subseteq LiveAt(p),
         \/ Base(p)' = Base(p) /\ High(p)' = High(p)
         \/ /\ Base(p)' = -1 /\ High(p)' = 0 /\ Base(p) = High(p) /\ InFlight(p)' = {} /\ LiveAt(p)' = {},
         Offsets(p)' = Offsets(p), broker'.log = broker.log, broker'.assigned = broker.assigned,
         Position(p)' = Position(p), LeftAt(p)' = LeftAt(p), UnsureAt(p)' = UnsureAt(p),
         AskedAt(p)' = AskedAt(p) \union {o}
  PROVE  Cohort(p)'
  <1>0. /\ InFlight(p) \subseteq Nat /\ Base(p) \in Int /\ High(p) \in Nat /\ Position(p) \in Nat
        /\ LiveAt(p) \subseteq Nat /\ SlotAt(p) \subseteq Nat /\ Len(broker.log[p]) \in Nat
    BY CurTyped DEF Reading, LiveAt, SlotAt
  <1>1. Cohort(p) /\ p \in broker.assigned /\ Base(p) >= 0
    BY DEF KafkaInv, Cohort, Entries
  <1>2. \A x : ~Loose(p, x)
    BY DEF Loose
  <1>3. Entries(p)'
    BY <1>0, <1>1 DEF Cohort, Entries
  <1>4. Accounted(p)'
    BY <1>0, <1>1, <1>2 DEF Cohort, Accounted
  <1>5. Reread(p)'
    <2>1. ASSUME NEW x \in AskedAt(p)', x >= Position(p)', x < High(p)' \/ \E y \in SlotAt(p)' : x < y
          PROVE  x \in InFlight(p)' \/ x \in UnsureAt(p)'
      <3>1. x < High(p) \/ \E y \in SlotAt(p) : x < y
        BY <1>0, <2>1 DEF AskedAt, Offsets
      <3>2. CASE x = o
        BY <1>1, <2>1, <3>2 DEF Cohort, Reread
      <3>3. CASE x # o
        BY <1>1, <1>2, <2>1, <3>1, <3>3 DEF Cohort, Reread
      <3> QED BY <3>2, <3>3
    <2>2. ASSUME NEW x \in SlotAt(p), x \notin InFlight(p)'
          PROVE  x \in UnsureAt(p)'
      BY <1>1, <2>2 DEF Cohort, Reread
    <2> QED BY <1>1, <2>1, <2>2 DEF Reread, Cohort
  <1>6. BasePassed(p)'
    <2>1. CASE Base(p)' = Base(p) /\ High(p)' = High(p)
      BY <1>1, <2>1 DEF Cohort, BasePassed, WatermarkBase
    <2>2. CASE Base(p)' = -1 /\ Base(p) = High(p) /\ InFlight(p)' = {} /\ LiveAt(p)' = {}
      <3>1. WatermarkBase(p)' = Position(p) /\ WatermarkBase(p) = Base(p)
        BY <1>1, <2>2 DEF WatermarkBase
      <3>2. ASSUME NEW y \in SlotAt(p), NEW x \in Nat, y <= x, x < Position(p)
            PROVE  x \in LeftAt(p)
        <4>1. Position(p) <= Base(p)
          BY <1>1, <2>2, <3>2 DEF Cohort, BasePassed
        <4>2. x < WatermarkBase(p)
          BY <1>0, <3>1, <3>2, <4>1
        <4> QED BY <1>1, <3>2, <4>2 DEF Cohort, BasePassed
      <3>3. ASSUME NEW x \in Nat, Position(p) <= x, x < Position(p)
            PROVE  FALSE
        BY <1>0, <3>3
      <3> QED BY <2>2, <3>1, <3>2, <3>3 DEF BasePassed
    <2> QED BY <2>1, <2>2
  <1> QED BY <1>3, <1>4, <1>5, <1>6 DEF Cohort

\* A partition whose deliveries are untouched while a message is asked for.
LEMMA CohortAsked ==
  ASSUME KafkaInv, Reading, NEW p \in KParts, SameCohort(p),
         Offsets(p)' = Offsets(p), broker'.log = broker.log, broker'.assigned = broker.assigned,
         Position(p)' = Position(p), LeftAt(p)' = LeftAt(p), UnsureAt(p)' = UnsureAt(p),
         AskedAt(p) \subseteq AskedAt(p)', AskedAt(p)' \subseteq Offsets(p)
  PROVE  Cohort(p)'
  <1>1. Cohort(p) /\ Committed(p)
    BY DEF KafkaInv
  <1>2. Entries(p)'
    BY <1>1 DEF SameCohort, Cohort, Entries
  <1>3. p \in broker'.assigned => Accounted(p)'
    BY <1>1 DEF SameCohort, Cohort, Accounted, Loose
  <1>4. ASSUME p \in broker.assigned
        PROVE  Reread(p)'
    <2>1. ASSUME NEW x \in AskedAt(p)', x >= Position(p), x < High(p) \/ \E y \in SlotAt(p) : x < y
          PROVE  x \in InFlight(p) \/ x \in UnsureAt(p) \/ Loose(p, x)
      <3>1. x \in Nat
        BY DEF Offsets
      <3>2. x \in InFlight(p) \/ x \in AskedAt(p) \/ x \in LeftAt(p) \/ Loose(p, x)
        BY <1>1, <1>4, <2>1, <3>1 DEF Cohort, Accounted
      <3> QED BY <1>1, <1>4, <2>1, <3>2 DEF Cohort, Reread, Committed
    <2> QED BY <1>1, <1>4, <2>1 DEF SameCohort, Cohort, Reread, Loose
  <1>5. p \in broker'.assigned => BasePassed(p)'
    BY <1>1 DEF SameCohort, Cohort, BasePassed, WatermarkBase
  <1> QED BY <1>2, <1>3, <1>4, <1>5 DEF Cohort

\* An ack that has no effect, and the one of the legacy record before its commit.
LEMMA KafkaAckStale ==
  ASSUME KafkaInv, which = "kafka", which' = which, NEW t \in tokens, Kafka!AckStale(t)
  PROVE  KafkaInv' /\ ContractStep
  <1>1. /\ UNCHANGED <<conn, broker, table, tokens, op>> /\ op.kind = "idle" /\ Kafka!Asks(t)
    BY DEF Kafka!AckStale, Kafka!IoLockFree
  <1>2. t.part \in KParts /\ t.offset \in Offsets(t.part) /\ tokens \subseteq KafkaTokens /\ hist \in KafkaHists
    BY DEF KafkaInv, KafkaTypes, KafkaTokens, Holders
  <1>3. PICK p \in KParts : p = t.part
    BY <1>2
  <1>4. PICK o \in Offsets(p) : o = t.offset
    BY <1>2, <1>3
  <1>5. PICK m \in Messages : m = At(p, o)
    BY AcceptedAt DEF KafkaInv
  <1>6. Cur' = Cur /\ SameHandles /\ (Reading' <=> Reading)
    BY <1>1 DEF Cur, SameHandles, Reading
  <1>7. KafkaGeneration'
    BY <1>1, <1>6 DEF KafkaInv, KafkaGeneration
  <1>8. hist' = hist \/ hist' = [hist EXCEPT !.asked = hist.asked \union {m}]
    BY <1>1, <1>3, <1>4, <1>5 DEF Kafka!Asks, Kafka!MessageAt, At
  <1>9. CASE hist' = hist
    <2>1. KafkaTypes'
      BY <1>1, <1>9 DEF KafkaInv, KafkaTypes
    <2> QED BY <1>1, <1>6, <1>7, <1>9, <2>1, KafkaQuiet
  <1>10. CASE hist' = [hist EXCEPT !.asked = hist.asked \union {m}]
    <2>1. /\ hist' \in KafkaHists /\ hist'.asked = hist.asked \union {m} /\ hist'.left = hist.left
          /\ hist'.unsure = hist.unsure /\ hist'.holders = hist.holders
      <3>1. hist.asked \union {m} \in SUBSET Messages
        BY <1>2 DEF KafkaHists
      <3> QED BY <1>2, <1>10, <3>1 DEF KafkaHists
    <2>2. KafkaTypes'
      BY <1>1, <2>1 DEF KafkaInv, KafkaTypes
    <2>3. broker'.log = broker.log /\ m = At(p, o)
      BY <1>1, <1>5
    <2>4. /\ AskedAt(p)' = AskedAt(p) \union {o}
          /\ \A q \in KParts : q # p => AskedAt(q)' = AskedAt(q)
          /\ \A q : LeftAt(q)' = LeftAt(q) /\ UnsureAt(q)' = UnsureAt(q) /\ Offsets(q)' = Offsets(q)
          /\ \A q, x : At(q, x)' = At(q, x)
          /\ OnePlace' /\ ContractStep
      BY <2>1, <2>3, KafkaAsked
    <2>5. \A q : Position(q)' = Position(q)
      BY <1>1 DEF Position
    <2>6. \A q \in KParts : Committed(q)'
      BY <1>1, <2>4, <2>5 DEF KafkaInv, Committed
    <2>7. ASSUME Reading, NEW q \in KParts
          PROVE  Cohort(q)'
      <3>1. SameCohort(q)
        BY <1>6, SameHandlesCohort
      <3>2. AskedAt(q) \subseteq AskedAt(q)' /\ AskedAt(q)' \subseteq Offsets(q)
        BY <2>4 DEF AskedAt
      <3> QED BY <1>1, <2>4, <2>5, <2>7, <3>1, <3>2, CohortAsked
    <2>8. Reading' => Attempts'
      BY <1>1, <1>6 DEF KafkaInv, Attempts, InFlight
    <2>9. Holders'
      <3>1. \A q : SlotAt(q)' = SlotAt(q)
        BY <1>6 DEF SlotAt
      <3>2. \A q, x : Kafka!LegacyRead(q, x)' = Kafka!LegacyRead(q, x)
        BY <1>1 DEF Kafka!LegacyRead
      <3>3. Reading => SlotHeld'
        BY <2>1, <2>4, <3>1, <3>2 DEF KafkaInv, Holders, SlotHeld
      <3> QED BY <1>1, <1>6, <2>1, <2>4, <3>3 DEF KafkaInv, Holders, TokenLive
    <2>10. Acking'
      BY <1>1 DEF Acking
    <2> QED BY <1>6, <1>7, <2>2, <2>4, <2>6, <2>7, <2>8, <2>9, <2>10 DEF KafkaInv
  <1> QED BY <1>8, <1>9, <1>10

\* The legacy record of the generation in use.
LEMMA KafkaSlot ==
  ASSUME KafkaInv, Reading, Cur.legacy # <<>>
  PROVE  \E p \in KParts : \E o \in Offsets(p) :
           /\ Cur.legacy = <<p, o>> /\ Cur.legacy[1] = p /\ Cur.legacy[2] = o
           /\ SlotAt(p) = {o} /\ p \in broker.assigned
           /\ \A q \in KParts : q # p => SlotAt(q) = {}
           /\ Kafka!LegacyRead(p, o) \in hist.holders[At(p, o)]
  <1>1. Cur \in KafkaHandles
    BY CurTyped DEF Reading
  <1>2. Cur.legacy \in KParts \X Nat
    BY <1>1 DEF KafkaHandles
  <1>3. PICK p \in KParts, o \in Nat : Cur.legacy = <<p, o>>
    BY <1>2
  <1>4. SlotAt(p) = {o} /\ \A q \in KParts : q # p => SlotAt(q) = {}
    BY <1>3 DEF SlotAt
  <1>5. o \in Offsets(p) /\ p \in broker.assigned
    BY <1>4 DEF KafkaInv, Cohort, Entries
  <1>6. Kafka!LegacyRead(p, o) \in hist.holders[At(p, o)]
    BY <1>4 DEF KafkaInv, Holders, SlotHeld
  <1> QED BY <1>3, <1>4, <1>5, <1>6

LEMMA KafkaAckLegacy ==
  ASSUME KafkaInv, which = "kafka", which' = which, Kafka!AckLegacy
  PROVE  KafkaInv' /\ ContractStep
  <1>1. /\ UNCHANGED <<conn, broker, table, tokens>> /\ op.kind = "idle" /\ Cur.legacy # <<>>
        /\ conn.gen # 0 /\ Cur.consumer # 0
    BY DEF Kafka!AckLegacy, Kafka!IoLockFree, Kafka!Current, Kafka!NoGen, Kafka!NoConsumer, Kafka!NoRecord,
           Kafka!Handles, Cur
  <1>2. Reading
    BY <1>1 DEF Reading, KafkaInv, KafkaGeneration
  <1>3. PICK p \in KParts : \E o \in Offsets(p) :
           /\ Cur.legacy = <<p, o>> /\ Cur.legacy[1] = p /\ Cur.legacy[2] = o
           /\ SlotAt(p) = {o} /\ p \in broker.assigned
           /\ \A q \in KParts : q # p => SlotAt(q) = {}
           /\ Kafka!LegacyRead(p, o) \in hist.holders[At(p, o)]
    BY <1>1, <1>2, KafkaSlot
  <1>4. PICK o \in Offsets(p) :
           /\ Cur.legacy = <<p, o>> /\ Cur.legacy[1] = p /\ Cur.legacy[2] = o
           /\ SlotAt(p) = {o} /\ p \in broker.assigned
           /\ \A q \in KParts : q # p => SlotAt(q) = {}
           /\ Kafka!LegacyRead(p, o) \in hist.holders[At(p, o)]
    BY <1>3
  <1>5. PICK m \in Messages : m = At(p, o)
    BY AcceptedAt DEF KafkaInv
  <1>6. /\ \A x \in Cur.active : x[1] # p
        /\ InFlight(p) \subseteq {o}
        /\ op'.kind = "ack" /\ op'.gen = conn.gen /\ op'.watermark = o + 1 /\ op'.legacy = TRUE
        /\ op'.token.part = p /\ op'.token.offset = o
        /\ hist' = [hist EXCEPT !.asked = hist.asked \union {m}]
    BY <1>4, <1>5 DEF Kafka!AckLegacy, Kafka!Handles, Cur, InFlight, Kafka!MessageAt, At
  <1>7. Cur' = Cur /\ SameHandles /\ Reading'
    BY <1>1, <1>2 DEF Cur, SameHandles, Reading
  <1>8. KafkaGeneration'
    BY <1>1, <1>6, <1>7 DEF KafkaInv, KafkaGeneration
  <1>9. /\ hist' \in KafkaHists /\ hist'.asked = hist.asked \union {m} /\ hist'.left = hist.left
        /\ hist'.unsure = hist.unsure /\ hist'.holders = hist.holders
    <2>1. hist \in KafkaHists
      BY DEF KafkaInv, KafkaTypes
    <2>2. hist.asked \union {m} \in SUBSET Messages
      BY <2>1 DEF KafkaHists
    <2> QED BY <1>6, <2>1, <2>2 DEF KafkaHists
  <1>10. KafkaTypes'
    BY <1>1, <1>9 DEF KafkaInv, KafkaTypes
  <1>11. broker'.log = broker.log /\ m = At(p, o)
    BY <1>1, <1>5
  <1>12. /\ AskedAt(p)' = AskedAt(p) \union {o}
         /\ \A q \in KParts : q # p => AskedAt(q)' = AskedAt(q)
         /\ \A q : LeftAt(q)' = LeftAt(q) /\ UnsureAt(q)' = UnsureAt(q) /\ Offsets(q)' = Offsets(q)
         /\ \A q, x : At(q, x)' = At(q, x)
         /\ OnePlace' /\ ContractStep
    BY <1>9, <1>11, KafkaAsked
  <1>13. \A q : Position(q)' = Position(q)
    BY <1>1 DEF Position
  <1>14. \A q \in KParts : Committed(q)'
    BY <1>1, <1>12, <1>13 DEF KafkaInv, Committed
  <1>15. ASSUME NEW q \in KParts
         PROVE  Cohort(q)'
    <2>1. SameCohort(q)
      BY <1>7, SameHandlesCohort
    <2>2. AskedAt(q) \subseteq AskedAt(q)' /\ AskedAt(q)' \subseteq Offsets(q)
      BY <1>12 DEF AskedAt
    <2> QED BY <1>1, <1>2, <1>12, <1>13, <2>1, <2>2, CohortAsked
  <1>16. \A q : InFlight(q)' = InFlight(q) /\ SlotAt(q)' = SlotAt(q) /\ LiveAt(q)' = LiveAt(q) /\ High(q)' = High(q)
    BY <1>7, SameHandlesCohort DEF SameCohort
  <1>17. Attempts'
    BY <1>1, <1>2, <1>7, <1>16 DEF KafkaInv, Attempts
  <1>18. Holders'
    <2>1. \A q, x : Kafka!LegacyRead(q, x)' = Kafka!LegacyRead(q, x)
      BY <1>1 DEF Kafka!LegacyRead
    <2>2. SlotHeld'
      BY <1>2, <1>9, <1>12, <1>16, <2>1 DEF KafkaInv, Holders, SlotHeld
    <2> QED BY <1>1, <1>2, <1>7, <1>9, <1>12, <2>2 DEF KafkaInv, Holders, TokenLive
  <1>19. LiveAt(p) = {}
    BY <1>6 DEF LiveAt
  <1>20. o \in Nat /\ o < Len(broker.log[p]) /\ Len(broker.log[p]) \in Nat /\ High(p) \in Nat
    BY <1>1, CurTyped DEF Offsets
  <1>21. ASSUME NEW x \in Nat, x < o + 1
         PROVE  x \in LeftAt(p) \/ (x \in AskedAt(p)' /\ (x >= Position(p) => x \in UnsureAt(p)))
    <2>0. Cohort(p) /\ \A z : ~Loose(p, z)
      BY <1>2, <1>4 DEF KafkaInv, Loose
    <2>1. CASE x = o
      BY <1>4, <1>12, <2>0, <2>1 DEF Cohort, Reread
    <2>2. CASE x # o
      <3>1. x < o /\ \E y \in SlotAt(p) : x < y
        BY <1>4, <1>20, <1>21, <2>2
      <3>2. x \in AskedAt(p) \/ x \in LeftAt(p)
        BY <1>4, <1>6, <2>0, <2>2, <3>1 DEF Cohort, Accounted
      <3> QED BY <1>4, <1>6, <1>12, <2>0, <2>2, <3>1, <3>2 DEF Cohort, Reread
    <2> QED BY <2>1, <2>2
  <1>22. Acking'
    <2>1. Passes(op.token.part, op.watermark)'
      BY <1>6, <1>12, <1>13, <1>21 DEF Passes
    <2>2. Committing'
      BY <1>1, <1>4, <1>6, <1>7, <1>16, <1>19 DEF Committing
    <2>3. op'.gen \in 1..Len(table')
      BY <1>1, <1>6, CurTyped
    <2>4. op'.watermark \in Nat /\ op'.watermark <= Len(broker'.log[op'.token.part]) /\ op'.token.offset \in Nat
      BY <1>1, <1>6, <1>20
    <2>5. conn'.gen \in {0, op'.gen} /\ op'.legacy \in BOOLEAN /\ op'.token.part \in KParts
      BY <1>1, <1>6
    <2> QED BY <2>1, <2>2, <2>3, <2>4, <2>5 DEF Acking
  <1> QED BY <1>8, <1>10, <1>12, <1>14, <1>15, <1>17, <1>18, <1>22 DEF KafkaInv

\* What a live token says of its partition.
LEMMA KafkaLive ==
  ASSUME KafkaInv, op.kind = "idle", NEW t \in tokens, Kafka!Live(t)
  PROVE  /\ Reading /\ TokenLive(t) /\ t.part \in KParts /\ t.offset \in Offsets(t.part) /\ t.offset \in Nat
         /\ t.attempt \in Nat /\ <<t.part, t.offset, t.attempt>> \in Cur.active
         /\ t.offset \in LiveAt(t.part) /\ t.offset \in InFlight(t.part) /\ t.part \in broker.assigned
         /\ Base(t.part) \in Nat /\ Base(t.part) <= High(t.part) /\ t.offset < High(t.part)
         /\ t \in hist.holders[At(t.part, t.offset)]
         /\ Cur \in KafkaHandles /\ conn.gen \in 1..Len(table) /\ conn.gen # 0
         /\ At(t.part, t.offset) \in Messages
  <1>1. conn.gen # 0 /\ Cur.consumer # 0 /\ TokenLive(t)
    BY DEF Kafka!Live, Kafka!Current, Kafka!NoGen, Kafka!NoConsumer, Kafka!Handles, Kafka!TokenActive,
           TokenLive, Cur
  <1>2. Reading
    BY <1>1 DEF Reading, KafkaInv, KafkaGeneration
  <1>3. t.part \in KParts /\ t.offset \in Offsets(t.part) /\ t.offset \in Nat /\ t.attempt \in Nat
    BY DEF KafkaInv, KafkaTypes, KafkaTokens, Holders
  <1>4. <<t.part, t.offset, t.attempt>> \in Cur.active
    BY <1>1 DEF TokenLive
  <1>5. t.offset \in LiveAt(t.part)
    BY <1>3, <1>4 DEF LiveAt
  <1>6. t.offset \in InFlight(t.part)
    BY <1>2, <1>4 DEF KafkaInv, Attempts
  <1>7. Cohort(t.part)
    BY <1>2, <1>3 DEF KafkaInv
  <1>8. t.part \in broker.assigned
    BY <1>5, <1>7 DEF Cohort, Entries
  <1>9. Base(t.part) \in Nat /\ Base(t.part) <= High(t.part) /\ t.offset < High(t.part)
    <2>1. Base(t.part) \in Int
      BY <1>1, <1>3, CurTyped
    <2> QED BY <1>5, <1>7, <2>1 DEF Cohort, Entries
  <1>10. t \in hist.holders[At(t.part, t.offset)]
    BY <1>1, <1>2 DEF KafkaInv, Holders
  <1>11. Cur \in KafkaHandles /\ conn.gen \in 1..Len(table)
    BY <1>1, CurTyped
  <1>12. At(t.part, t.offset) \in Messages
    BY <1>3, AcceptedAt DEF KafkaInv
  <1> QED BY <1>1, <1>2, <1>3, <1>4, <1>5, <1>6, <1>8, <1>9, <1>10, <1>11, <1>12

----------------------------------------------------------------------------
(* Acks, action by action. *)

\* A partition without deliveries in flight is forgotten.
LEMMA ForgottenHandles ==
  ASSUME NEW h \in KafkaHandles, NEW p \in KParts
  PROVE  LET e == Kafka!Forgotten(h, p)
             none == h.inFlight[p] = {}
         IN  /\ e \in KafkaHandles /\ e.active = h.active /\ e.legacy = h.legacy
             /\ e.consumer = h.consumer /\ e.retired = h.retired
             /\ e.consumerGen = h.consumerGen /\ e.assignEpoch = h.assignEpoch
             /\ e.inFlight = h.inFlight
             /\ e.watermarks = IF none THEN [h.watermarks EXCEPT ![p] = -1] ELSE h.watermarks
             /\ e.highWater = IF none THEN [h.highWater EXCEPT ![p] = 0] ELSE h.highWater
  <1> DEFINE e == Kafka!Forgotten(h, p)
             W == [h.watermarks EXCEPT ![p] = -1]
             H == [h.highWater EXCEPT ![p] = 0]
  <1>1. W \in [KParts -> Int] /\ H \in [KParts -> Nat]
    <2>1. h.watermarks \in [KParts -> Int] /\ h.highWater \in [KParts -> Nat]
      BY DEF KafkaHandles
    <2> QED BY <2>1
  <1>2. CASE h.inFlight[p] # {}
    <2>1. e = h
      BY <1>2 DEF Kafka!Forgotten
    <2> QED BY <1>2, <2>1
  <1>3. CASE h.inFlight[p] = {}
    <2>1. e = [h EXCEPT !.watermarks = W, !.highWater = H]
      BY <1>3 DEF Kafka!Forgotten, Kafka!None, KafkaHandles
    <2> HIDE DEF e, W, H
    <2>2. /\ e \in KafkaHandles /\ e.active = h.active /\ e.legacy = h.legacy
          /\ e.consumer = h.consumer /\ e.retired = h.retired
          /\ e.consumerGen = h.consumerGen /\ e.assignEpoch = h.assignEpoch
          /\ e.inFlight = h.inFlight /\ e.watermarks = W /\ e.highWater = H
      BY <1>1, <2>1 DEF KafkaHandles
    <2> QED BY <1>3, <2>2 DEF e, W, H
  <1> QED BY <1>2, <1>3

\* The handles after the offset of a token was taken out of flight, with the
\* attempt (done) or before its commit.
LEMMA TakenHandles ==
  ASSUME NEW h \in KafkaHandles, NEW t \in KafkaTokens
  PROVE  LET g == [h EXCEPT !.inFlight[t.part] = @ \ {t.offset}]
             f == Kafka!Finished(g, t)
             e == Kafka!Forgotten(f, t.part)
             gone == h.inFlight[t.part] \ {t.offset} = {}
         IN  /\ g \in KafkaHandles /\ g.active = h.active /\ g.legacy = h.legacy
             /\ g.consumer = h.consumer /\ g.retired = h.retired
             /\ g.consumerGen = h.consumerGen /\ g.assignEpoch = h.assignEpoch
             /\ g.inFlight = [h.inFlight EXCEPT ![t.part] = @ \ {t.offset}]
             /\ g.watermarks = h.watermarks /\ g.highWater = h.highWater
             /\ e \in KafkaHandles /\ e.active = h.active \ {<<t.part, t.offset, t.attempt>>} /\ e.legacy = h.legacy
             /\ e.consumer = h.consumer /\ e.retired = h.retired
             /\ e.consumerGen = h.consumerGen /\ e.assignEpoch = h.assignEpoch
             /\ e.inFlight = g.inFlight
             /\ e.watermarks = IF gone THEN [h.watermarks EXCEPT ![t.part] = -1] ELSE h.watermarks
             /\ e.highWater = IF gone THEN [h.highWater EXCEPT ![t.part] = 0] ELSE h.highWater
  <1> DEFINE F == [h.inFlight EXCEPT ![t.part] = @ \ {t.offset}]
             A == h.active \ {<<t.part, t.offset, t.attempt>>}
             W == [h.watermarks EXCEPT ![t.part] = -1]
             H == [h.highWater EXCEPT ![t.part] = 0]
             g == [h EXCEPT !.inFlight[t.part] = @ \ {t.offset}]
             f == Kafka!Finished(g, t)
             e == Kafka!Forgotten(f, t.part)
  <1>0. t.part \in KParts
    BY DEF KafkaTokens
  <1>1. F \in [KParts -> SUBSET Nat] /\ A \in SUBSET (KParts \X Nat \X Nat) /\ W \in [KParts -> Int]
        /\ H \in [KParts -> Nat] /\ F[t.part] = h.inFlight[t.part] \ {t.offset}
    <2>1. h.inFlight \in [KParts -> SUBSET Nat] /\ h.watermarks \in [KParts -> Int] /\ h.highWater \in [KParts -> Nat]
      BY DEF KafkaHandles
    <2>2. h.active \in SUBSET (KParts \X Nat \X Nat)
      BY DEF KafkaHandles
    <2> QED BY <1>0, <2>1, <2>2
  <1>2. g = [h EXCEPT !.inFlight = F]
    BY DEF KafkaHandles
  <1> HIDE DEF g, F
  <1>3. /\ g \in KafkaHandles /\ g.active = h.active /\ g.legacy = h.legacy
        /\ g.consumer = h.consumer /\ g.retired = h.retired
        /\ g.consumerGen = h.consumerGen /\ g.assignEpoch = h.assignEpoch
        /\ g.inFlight = F /\ g.watermarks = h.watermarks /\ g.highWater = h.highWater
    BY <1>1, <1>2 DEF KafkaHandles
  <1>4. f = [g EXCEPT !.active = A]
    BY <1>3 DEF Kafka!Finished, KafkaHandles
  <1> HIDE DEF f, A
  <1>5. /\ f \in KafkaHandles /\ f.active = A /\ f.legacy = h.legacy
        /\ f.consumer = h.consumer /\ f.retired = h.retired
        /\ f.consumerGen = h.consumerGen /\ f.assignEpoch = h.assignEpoch
        /\ f.inFlight = F /\ f.watermarks = h.watermarks /\ f.highWater = h.highWater
    BY <1>1, <1>3, <1>4 DEF KafkaHandles
  <1>6. /\ e \in KafkaHandles /\ e.active = A /\ e.legacy = h.legacy
        /\ e.consumer = h.consumer /\ e.retired = h.retired
        /\ e.consumerGen = h.consumerGen /\ e.assignEpoch = h.assignEpoch
        /\ e.inFlight = F
        /\ e.watermarks = (IF F[t.part] = {} THEN W ELSE h.watermarks)
        /\ e.highWater = (IF F[t.part] = {} THEN H ELSE h.highWater)
    <2>1. f \in KafkaHandles
      BY <1>5
    <2>2. LET d == Kafka!Forgotten(f, t.part)
              none == f.inFlight[t.part] = {}
          IN  /\ d \in KafkaHandles /\ d.active = f.active /\ d.legacy = f.legacy
              /\ d.consumer = f.consumer /\ d.retired = f.retired
              /\ d.consumerGen = f.consumerGen /\ d.assignEpoch = f.assignEpoch
              /\ d.inFlight = f.inFlight
              /\ d.watermarks = IF none THEN [f.watermarks EXCEPT ![t.part] = -1] ELSE f.watermarks
              /\ d.highWater = IF none THEN [f.highWater EXCEPT ![t.part] = 0] ELSE f.highWater
      BY ONLY <1>0, <2>1, ForgottenHandles
    <2> QED BY <1>5, <2>2
  <1> HIDE DEF e
  <1> QED BY <1>1, <1>3, <1>6 DEF e, f, g, F, A, W, H

LEMMA KafkaAckBegin ==
  ASSUME KafkaInv, which = "kafka", which' = which, NEW t \in tokens, Kafka!AckBegin(t)
  PROVE  KafkaInv' /\ ContractStep
  <1>1. op.kind = "idle" /\ Kafka!Live(t) /\ Kafka!Asks(t) /\ UNCHANGED <<conn, broker, tokens>>
    BY DEF Kafka!AckBegin, Kafka!IoLockFree
  <1>2. /\ Reading /\ TokenLive(t) /\ t.part \in KParts /\ t.offset \in Offsets(t.part) /\ t.offset \in Nat
        /\ t.attempt \in Nat /\ <<t.part, t.offset, t.attempt>> \in Cur.active
        /\ t.offset \in LiveAt(t.part) /\ t.offset \in InFlight(t.part) /\ t.part \in broker.assigned
        /\ Base(t.part) \in Nat /\ Base(t.part) <= High(t.part) /\ t.offset < High(t.part)
        /\ t \in hist.holders[At(t.part, t.offset)]
        /\ Cur \in KafkaHandles /\ conn.gen \in 1..Len(table) /\ conn.gen # 0
        /\ At(t.part, t.offset) \in Messages
    BY <1>1, KafkaLive
  <1>3. t \in KafkaTokens /\ table \in Seq(KafkaHandles) /\ hist \in KafkaHists
    BY DEF KafkaInv, KafkaTypes
  <1>4. PICK p \in KParts : p = t.part
    BY <1>2
  <1>5. PICK o \in Offsets(p) : o = t.offset
    BY <1>2, <1>4
  <1>6. PICK a \in Nat : a = t.attempt
    BY <1>2
  <1>7. PICK m \in Messages : m = At(p, o)
    BY <1>2, <1>4, <1>5
  <1> DEFINE g == [Cur EXCEPT !.inFlight[t.part] = @ \ {t.offset}]
             e == Kafka!Forgotten(Kafka!Finished(g, t), t.part)
             w == Kafka!Watermark(g, t.part)
             moved == w > g.watermarks[t.part]
             gone == InFlight(p) \ {o} = {}
  <1>8. /\ table' = [table EXCEPT ![conn.gen] = IF moved THEN g ELSE e]
        /\ op' = IF moved THEN [kind |-> "ack", gen |-> conn.gen, token |-> t, watermark |-> w, legacy |-> FALSE]
                 ELSE Kafka!Idle
    BY DEF Kafka!AckBegin, Kafka!Handles, Cur
  <1>9. /\ g \in KafkaHandles /\ g.active = Cur.active /\ g.legacy = Cur.legacy
        /\ g.consumer = Cur.consumer /\ g.retired = Cur.retired
        /\ g.consumerGen = Cur.consumerGen /\ g.assignEpoch = Cur.assignEpoch
        /\ g.inFlight = [Cur.inFlight EXCEPT ![p] = @ \ {o}]
        /\ g.watermarks = Cur.watermarks /\ g.highWater = Cur.highWater
        /\ e \in KafkaHandles /\ e.active = Cur.active \ {<<p, o, a>>} /\ e.legacy = Cur.legacy
        /\ e.consumer = Cur.consumer /\ e.retired = Cur.retired
        /\ e.consumerGen = Cur.consumerGen /\ e.assignEpoch = Cur.assignEpoch
        /\ e.inFlight = g.inFlight
        /\ e.watermarks = (IF gone THEN [Cur.watermarks EXCEPT ![p] = -1] ELSE Cur.watermarks)
        /\ e.highWater = (IF gone THEN [Cur.highWater EXCEPT ![p] = 0] ELSE Cur.highWater)
    <2>1. Cur \in KafkaHandles /\ t \in KafkaTokens
      BY <1>2, <1>3
    <2>2. /\ g \in KafkaHandles /\ g.active = Cur.active /\ g.legacy = Cur.legacy
          /\ g.consumer = Cur.consumer /\ g.retired = Cur.retired
          /\ g.consumerGen = Cur.consumerGen /\ g.assignEpoch = Cur.assignEpoch
          /\ g.inFlight = [Cur.inFlight EXCEPT ![t.part] = @ \ {t.offset}]
          /\ g.watermarks = Cur.watermarks /\ g.highWater = Cur.highWater
      BY ONLY <2>1, TakenHandles
    <2>3. /\ e \in KafkaHandles /\ e.active = Cur.active \ {<<t.part, t.offset, t.attempt>>}
          /\ e.legacy = Cur.legacy /\ e.consumer = Cur.consumer /\ e.retired = Cur.retired
          /\ e.consumerGen = Cur.consumerGen /\ e.assignEpoch = Cur.assignEpoch
          /\ e.inFlight = g.inFlight
      BY ONLY <2>1, TakenHandles
    <2> DEFINE none == Cur.inFlight[t.part] \ {t.offset} = {}
    <2>4. /\ e.watermarks = (IF none THEN [Cur.watermarks EXCEPT ![t.part] = -1] ELSE Cur.watermarks)
          /\ e.highWater = (IF none THEN [Cur.highWater EXCEPT ![t.part] = 0] ELSE Cur.highWater)
      BY ONLY <2>1, TakenHandles
    <2> HIDE DEF g, e
    <2>5. none <=> gone
      BY <1>4, <1>5 DEF InFlight
    <2> QED BY <1>4, <1>5, <1>6, <2>2, <2>3, <2>4, <2>5
  <1> HIDE DEF g, e
  <1>10. Cur.inFlight \in [KParts -> SUBSET Nat] /\ Cur.watermarks \in [KParts -> Int]
         /\ Cur.highWater \in [KParts -> Nat] /\ Cur.active \subseteq KParts \X Nat \X Nat
    BY <1>2 DEF KafkaHandles
  <1>11. /\ g.inFlight[p] = InFlight(p) \ {o} /\ g.watermarks[p] = Base(p) /\ g.highWater[p] = High(p)
         /\ \A q \in KParts : q # p => g.inFlight[q] = InFlight(q)
    BY <1>9, <1>10 DEF InFlight, Base, High
  <1>12. /\ w \in Nat /\ Base(p) <= w /\ w <= High(p) /\ (w = High(p) \/ w \in InFlight(p) \ {o})
         /\ \A x \in InFlight(p) \ {o} : x < w => x < Base(p)
    <2>1. w = Kafka!Watermark(g, p)
      BY <1>4
    <2>2. g \in KafkaHandles /\ g.watermarks[p] \in Nat /\ g.watermarks[p] <= g.highWater[p]
      BY <1>2, <1>4, <1>9, <1>11
    <2>3. /\ Kafka!Watermark(g, p) \in Nat /\ g.watermarks[p] <= Kafka!Watermark(g, p)
          /\ Kafka!Watermark(g, p) <= g.highWater[p]
          /\ Kafka!Watermark(g, p) = g.highWater[p] \/ Kafka!Watermark(g, p) \in g.inFlight[p]
          /\ \A x \in g.inFlight[p] : x < Kafka!Watermark(g, p) => x < g.watermarks[p]
      BY ONLY <2>2, WatermarkIs
    <2> HIDE DEF w
    <2> QED BY <1>11, <2>1, <2>3
  <1> HIDE DEF w
  <1>13. moved <=> w > Base(p)
    BY <1>4, <1>11
  <1> HIDE DEF moved
  <1>14. PICK h \in KafkaHandles : h = (IF moved THEN g ELSE e)
    BY <1>9
  <1>15. table' \in Seq(KafkaHandles) /\ Len(table') = Len(table) /\ Cur' = h
    <2>1. table' = [table EXCEPT ![conn.gen] = h]
      BY <1>8, <1>14
    <2> QED BY <1>1, <1>2, <1>3, <2>1 DEF Cur
  <1>16. /\ Cur'.legacy = Cur.legacy /\ Cur'.consumer = Cur.consumer /\ Cur'.retired = Cur.retired
         /\ Cur'.consumerGen = Cur.consumerGen /\ Cur'.assignEpoch = Cur.assignEpoch
         /\ Cur'.inFlight = g.inFlight
         /\ Cur'.active = (IF moved THEN Cur.active ELSE Cur.active \ {<<p, o, a>>})
         /\ Cur'.watermarks = (IF ~moved /\ gone THEN [Cur.watermarks EXCEPT ![p] = -1] ELSE Cur.watermarks)
         /\ Cur'.highWater = (IF ~moved /\ gone THEN [Cur.highWater EXCEPT ![p] = 0] ELSE Cur.highWater)
    BY <1>9, <1>14, <1>15
  <1>17. /\ hist' \in KafkaHists /\ hist'.asked = hist.asked \union {m} /\ hist'.left = hist.left
         /\ hist'.unsure = hist.unsure /\ hist'.holders = hist.holders
    <2>1. hist' = [hist EXCEPT !.asked = hist.asked \union {m}]
      BY <1>1, <1>2, <1>4, <1>5, <1>7 DEF Kafka!Asks, Kafka!MessageAt, At
    <2>2. hist.asked \union {m} \in SUBSET Messages
      BY <1>3 DEF KafkaHists
    <2> QED BY <1>3, <2>1, <2>2 DEF KafkaHists
  <1>18. KafkaTypes'
    BY <1>1, <1>15, <1>17 DEF KafkaInv, KafkaTypes
  <1>19. op'.kind \in {"ack", "idle"} /\ (moved <=> op'.kind = "ack")
    BY <1>8 DEF Kafka!Idle
  <1>20. KafkaGeneration' /\ Reading'
    BY <1>1, <1>2, <1>16, <1>19 DEF KafkaInv, KafkaGeneration, Reading
  <1>21. /\ AskedAt(p)' = AskedAt(p) \union {o}
         /\ \A q \in KParts : q # p => AskedAt(q)' = AskedAt(q)
         /\ \A q : LeftAt(q)' = LeftAt(q) /\ UnsureAt(q)' = UnsureAt(q) /\ Offsets(q)' = Offsets(q)
         /\ \A q, x : At(q, x)' = At(q, x)
         /\ OnePlace' /\ ContractStep
    BY <1>1, <1>7, <1>17, KafkaAsked
  <1>22. \A q : Position(q)' = Position(q)
    BY <1>1 DEF Position
  <1>23. \A q \in KParts : Committed(q)'
    BY <1>1, <1>21, <1>22 DEF KafkaInv, Committed
  <1>24. \A q : SlotAt(q)' = SlotAt(q)
    BY <1>16 DEF SlotAt
  <1>25. InFlight(p)' = InFlight(p) \ {o} /\ \A q \in KParts : q # p => InFlight(q)' = InFlight(q)
    BY <1>11, <1>16 DEF InFlight
  <1>26. ASSUME NEW x \in Cur.active, x[1] = p, x[2] = o
         PROVE  x = <<p, o, a>>
    <2>1. <<p, o, a>> \in Cur.active
      BY <1>2, <1>4, <1>5, <1>6
    <2> QED BY <1>2, <1>26, <2>1 DEF KafkaInv, Attempts
  <1>27. /\ (\A q : LiveAt(q)' \subseteq LiveAt(q)) /\ \A q \in KParts : q # p => LiveAt(q)' = LiveAt(q)
         /\ moved => LiveAt(p)' = LiveAt(p)
         /\ ~moved => LiveAt(p)' \subseteq InFlight(p)'
    <2>1. \A q : LiveAt(q)' \subseteq LiveAt(q)
      BY <1>16 DEF LiveAt
    <2>2. \A q \in KParts : q # p => LiveAt(q) \subseteq LiveAt(q)'
      BY <1>16 DEF LiveAt
    <2>3. moved => LiveAt(p)' = LiveAt(p)
      BY <1>16 DEF LiveAt
    <2>4. ASSUME ~moved, NEW x \in LiveAt(p)'
          PROVE  x \in InFlight(p)'
      <3>1. PICK b \in Nat : <<p, x, b>> \in Cur.active \ {<<p, o, a>>}
        BY <1>16, <2>4 DEF LiveAt
      <3>2. x # o
        BY <1>26, <3>1
      <3>3. x \in InFlight(p)
        BY <1>1, <1>2, <3>1 DEF KafkaInv, Attempts
      <3> QED BY <1>25, <3>2, <3>3
    <2> QED BY <2>1, <2>2, <2>3, <2>4
  <1>28. /\ \/ Base(p)' = Base(p) /\ High(p)' = High(p)
            \/ /\ Base(p)' = -1 /\ High(p)' = 0 /\ Base(p) = High(p) /\ InFlight(p)' = {} /\ LiveAt(p)' = {}
         /\ \A q \in KParts : q # p => Base(q)' = Base(q) /\ High(q)' = High(q)
         /\ moved => Base(p)' = Base(p) /\ High(p)' = High(p)
    <2>1. CASE ~moved /\ gone
      <3>1. InFlight(p)' = {} /\ LiveAt(p)' = {}
        BY <1>25, <1>27, <2>1
      <3>2. Base(p) = High(p)
        <4>1. w = High(p)
          BY <1>12, <2>1
        <4> QED BY <1>2, <1>4, <1>12, <1>13, <2>1, <4>1
      <3>3. Base(p)' = -1 /\ High(p)' = 0 /\ \A q \in KParts : q # p => Base(q)' = Base(q) /\ High(q)' = High(q)
        BY <1>10, <1>16, <2>1 DEF Base, High
      <3> QED BY <2>1, <3>1, <3>2, <3>3
    <2>2. CASE ~(~moved /\ gone)
      BY <1>16, <2>2 DEF Base, High
    <2> QED BY <2>1, <2>2
  <1>29. \A q \in KParts : Cohort(q)'
    <2>1. Cohort(p)'
      BY <1>1, <1>2, <1>4, <1>5, <1>21, <1>22, <1>24, <1>25, <1>27, <1>28, CohortTaken
    <2>2. ASSUME NEW q \in KParts, q # p
          PROVE  Cohort(q)'
      <3>1. SameCohort(q)
        BY <1>24, <1>25, <1>27, <1>28, <2>2 DEF SameCohort
      <3>2. AskedAt(q) \subseteq AskedAt(q)' /\ AskedAt(q)' \subseteq Offsets(q)
        BY <1>21, <2>2 DEF AskedAt
      <3> QED BY <1>1, <1>2, <1>21, <1>22, <3>1, <3>2, CohortAsked
    <2> QED BY <2>1, <2>2
  <1>30. Attempts'
    <2>1. Cur'.active \subseteq Cur.active
      BY <1>16
    <2>2. ASSUME NEW x \in Cur'.active
          PROVE  \/ x[2] \in InFlight(x[1])'
                 \/ op'.kind = "ack" /\ x = <<op'.token.part, op'.token.offset, op'.token.attempt>>
      <3>1. x \in Cur.active /\ x[1] \in KParts /\ x[2] \in InFlight(x[1])
        BY <1>1, <1>2, <1>10, <2>1 DEF KafkaInv, Attempts
      <3>2. CASE x[1] = p /\ x[2] = o
        <4>1. x = <<p, o, a>> /\ moved
          BY <1>16, <1>26, <3>1, <3>2
        <4>2. op'.kind = "ack" /\ op'.token = t
          BY <1>8, <4>1
        <4> QED BY <1>4, <1>5, <1>6, <4>1, <4>2
      <3>3. CASE ~(x[1] = p /\ x[2] = o)
        BY <1>25, <3>1, <3>3
      <3> QED BY <3>2, <3>3
    <2> QED BY <1>2, <2>1, <2>2 DEF KafkaInv, Attempts
  <1>31. Holders'
    <2>1. \A q, x : Kafka!LegacyRead(q, x)' = Kafka!LegacyRead(q, x)
      BY <1>1 DEF Kafka!LegacyRead
    <2>2. SlotHeld'
      BY <1>2, <1>17, <1>21, <1>24, <2>1 DEF KafkaInv, Holders, SlotHeld
    <2>3. \A u : TokenLive(u)' => TokenLive(u)
      BY <1>16 DEF TokenLive
    <2> QED BY <1>1, <1>2, <1>17, <1>21, <2>2, <2>3 DEF KafkaInv, Holders
  <1>32. Acking'
    <2> SUFFICES ASSUME moved
                 PROVE  Acking'
      BY <1>19 DEF Acking
    <2>1. /\ op'.kind = "ack" /\ op'.gen = conn.gen /\ op'.token = t /\ op'.watermark = w /\ op'.legacy = FALSE
          /\ op'.token.part = p /\ op'.token.offset = o
      BY <1>4, <1>5, <1>8
    <2>2. ASSUME NEW x \in Nat, x < w
          PROVE  x \in LeftAt(p) \/ (x \in AskedAt(p)' /\ (x >= Position(p) => x \in UnsureAt(p)))
      <3>0. Cohort(p) /\ p \in broker.assigned /\ (\A z : ~Loose(p, z)) /\ o \in LiveAt(p)
        BY <1>2, <1>4, <1>5 DEF KafkaInv, Loose
      <3>1. CASE x = o
        BY <1>21, <3>0, <3>1 DEF Cohort, Reread
      <3>2. CASE x # o /\ x \in InFlight(p)
        <4>1. x < WatermarkBase(p)
          BY <1>2, <1>4, <1>12, <2>2, <3>2 DEF WatermarkBase
        <4> QED BY <3>0, <3>2, <4>1 DEF Cohort, BasePassed
      <3>3. CASE x # o /\ x \notin InFlight(p)
        <4>1. x < High(p)
          <5>1. High(p) \in Nat
            BY <1>2, CurTyped
          <5> QED BY <1>12, <2>2, <5>1
        <4>2. x \in AskedAt(p) \/ x \in LeftAt(p)
          BY <3>0, <3>3, <4>1 DEF Cohort, Accounted
        <4> QED BY <1>21, <3>0, <3>3, <4>1, <4>2 DEF Cohort, Reread
      <3> QED BY <3>1, <3>2, <3>3
    <2>3. Passes(op.token.part, op.watermark)'
      BY <1>21, <1>22, <2>1, <2>2 DEF Passes
    <2>4. ASSUME NEW x \in InFlight(p)', x < w
          PROVE  x \in LeftAt(p)'
      <3>1. x \in InFlight(p) /\ x \in Nat /\ Cohort(p) /\ p \in broker.assigned
        BY <1>2, <1>4, <1>25, CurTyped DEF KafkaInv
      <3>2. x < WatermarkBase(p)
        BY <1>2, <1>4, <1>12, <1>25, <2>4 DEF WatermarkBase
      <3> QED BY <1>21, <3>1, <3>2 DEF Cohort, BasePassed
    <2>5. Committing'
      <3>1. TokenLive(t)'
        BY <1>2, <1>16 DEF TokenLive
      <3>2. w = High(p)' \/ w \in InFlight(p)'
        BY <1>12, <1>25, <1>28
      <3> QED BY <1>1, <1>2, <1>4, <1>20, <1>25, <2>1, <2>4, <3>1, <3>2 DEF Committing
    <2>6. w <= Len(broker'.log[p]) /\ Len(broker'.log[p]) \in Nat
      <3>1. High(p) <= Len(broker.log[p]) /\ High(p) \in Nat /\ Len(broker.log[p]) \in Nat
        BY <1>2, CurTyped DEF KafkaInv, Cohort, Entries
      <3> QED BY <1>1, <1>12, <3>1
    <2>7. op'.gen \in 1..Len(table') /\ conn'.gen \in {0, op'.gen} /\ op'.legacy \in BOOLEAN
      BY <1>1, <1>2, <1>15, <2>1
    <2> QED BY <1>12, <2>1, <2>3, <2>5, <2>6, <2>7 DEF Acking, Offsets
  <1> QED BY <1>18, <1>20, <1>21, <1>23, <1>29, <1>30, <1>31, <1>32 DEF KafkaInv

\* The servers take the commit of an ack: what it passes has left.  It may also
\* move the committed offset back, and some of what it settles may be unsure.
LEMMA KafkaCommits ==
  ASSUME KafkaInv, which = "kafka", which' = which, op.kind = "ack",
         NEW p \in KParts, p = op.token.part, NEW w \in Nat, w = op.watermark,
         NEW settled \in SUBSET Messages, settled = {} \/ settled = {At(p, x) : x \in broker.committed[p]..(w - 1)},
         broker'.log = broker.log, broker'.position = broker.position, broker'.assigned = broker.assigned,
         broker'.committed = [broker.committed EXCEPT ![p] = w],
         hist'.asked = hist.asked, hist'.left = hist.left \union Kafka!Below(p, w),
         hist'.unsure = hist.unsure \union settled \union Kafka!TakenBack
  PROVE  /\ OnePlace' /\ (\A q \in KParts : Committed(q)') /\ ContractStep
         /\ \A q, x : At(q, x)' = At(q, x)
         /\ \A q : Offsets(q)' = Offsets(q) /\ AskedAt(q)' = AskedAt(q) /\ Position(q)' = Position(q)
         /\ \A q \in KParts : q # p => LeftAt(q)' = LeftAt(q) /\ UnsureAt(q)' = UnsureAt(q)
         /\ LeftAt(p) \subseteq LeftAt(p)' /\ UnsureAt(p) \subseteq UnsureAt(p)'
         /\ \A x \in Nat : x < w => x \in LeftAt(p)'
         /\ \A x \in LeftAt(p)' : x \in LeftAt(p) \/ x < w
         /\ settled # {} \/ broker.committed[p] >= w => \A x \in LeftAt(p)' : x \in LeftAt(p) \/ x \in UnsureAt(p)'
  <1> DEFINE c == broker.committed[p]
  <1>0. c \in Nat /\ c <= Len(broker.log[p]) /\ Len(broker.log[p]) \in Nat /\ w <= Len(broker.log[p])
    <2>1. broker.committed \in [KParts -> Nat] /\ broker.log[p] \in Seq(Messages)
      BY DEF KafkaInv, KafkaTypes, KafkaBrokers
    <2>2. c <= Len(broker.log[p])
      BY DEF KafkaInv, Committed
    <2>3. w <= Len(broker.log[p])
      BY DEF KafkaInv, Acking
    <2> QED BY <2>1, <2>2, <2>3
  <1>1. \A q, x : At(q, x)' = At(q, x)
    BY DEF At
  <1>2. \A q : Offsets(q)' = Offsets(q) /\ Position(q)' = Position(q)
    BY DEF Offsets, Position
  <1>3. \A q : AskedAt(q)' = AskedAt(q)
    BY <1>1, <1>2 DEF AskedAt
  <1>4. Kafka!Below(p, w) = {At(p, x) : x \in 0..(w - 1)}
        /\ Kafka!TakenBack = {At(p, x) : x \in w..(c - 1)}
    BY DEF Kafka!Below, Kafka!TakenBack, Kafka!MessageAt, At
  <1>5. \A q \in KParts : \A x \in Offsets(q), y \in Offsets(p) : At(q, x) = At(p, y) => q = p /\ x = y
    BY DEF KafkaInv, OnePlace
  <1>6. /\ \A x \in 0..(w - 1) : x \in Offsets(p) /\ x \in Nat
        /\ \A x \in w..(c - 1) : x \in Offsets(p) /\ x \in Nat
        /\ \A x \in c..(w - 1) : x \in Offsets(p) /\ x \in Nat
    <2> HIDE DEF c
    <2> DEFINE n == Len(broker.log[p])
    <2>1. n \in Nat /\ c \in Nat /\ w \in Nat /\ c <= n /\ w <= n
      BY <1>0
    <2>2. Offsets(p) = 0..(n - 1)
      BY DEF Offsets
    <2> HIDE DEF n
    <2>3. \A x \in 0..(w - 1) : x \in 0..(n - 1) /\ x \in Nat
      BY <2>1
    <2>4. \A x \in w..(c - 1) : x \in 0..(n - 1) /\ x \in Nat
      BY <2>1
    <2>5. \A x \in c..(w - 1) : x \in 0..(n - 1) /\ x \in Nat
      BY <2>1
    <2> QED BY <2>2, <2>3, <2>4, <2>5
  <1> HIDE DEF c
  <1>7. \A q \in KParts : \A x \in Offsets(q) :
          x \in LeftAt(q)' <=> x \in LeftAt(q) \/ (q = p /\ x < w)
    <2> SUFFICES ASSUME NEW q \in KParts, NEW x \in Offsets(q)
                 PROVE  x \in LeftAt(q)' <=> x \in LeftAt(q) \/ (q = p /\ x < w)
      OBVIOUS
    <2>1. At(q, x) \in Kafka!Below(p, w) <=> q = p /\ x < w
      <3>1. ASSUME At(q, x) \in Kafka!Below(p, w)
            PROVE  q = p /\ x < w
        <4>1. PICK y \in 0..(w - 1) : At(q, x) = At(p, y)
          BY <1>4, <3>1
        <4>2. q = p /\ x = y
          BY <1>5, <1>6, <4>1
        <4> QED BY <4>2
      <3>2. ASSUME q = p, x < w
            PROVE  At(q, x) \in Kafka!Below(p, w)
        <4>1. x \in 0..(w - 1)
          BY <3>2 DEF Offsets
        <4> QED BY <1>4, <3>2, <4>1
      <3> QED BY <3>1, <3>2
    <2> QED BY <1>1, <1>2, <2>1 DEF LeftAt
  <1>8. \A q \in KParts : \A x \in Offsets(q) :
          /\ x \in UnsureAt(q) => x \in UnsureAt(q)'
          /\ q # p => (x \in UnsureAt(q)' => x \in UnsureAt(q))
          /\ q = p /\ w <= x /\ x < c => x \in UnsureAt(q)'
          /\ q = p /\ settled # {} /\ c <= x /\ x < w => x \in UnsureAt(q)'
    <2> SUFFICES ASSUME NEW q \in KParts, NEW x \in Offsets(q)
                 PROVE  /\ x \in UnsureAt(q) => x \in UnsureAt(q)'
                        /\ q # p => (x \in UnsureAt(q)' => x \in UnsureAt(q))
                        /\ q = p /\ w <= x /\ x < c => x \in UnsureAt(q)'
                        /\ q = p /\ settled # {} /\ c <= x /\ x < w => x \in UnsureAt(q)'
      OBVIOUS
    <2>0. x \in UnsureAt(q)' <=> At(q, x) \in hist.unsure \union settled \union Kafka!TakenBack
      BY <1>1, <1>2 DEF UnsureAt
    <2>1. ASSUME At(q, x) \in settled \union Kafka!TakenBack
          PROVE  q = p
      <3>1. PICK y \in Offsets(p) : At(q, x) = At(p, y)
        BY <1>4, <1>6, <2>1 DEF c
      <3> QED BY <1>5, <3>1
    <2>2. ASSUME q = p, w <= x, x < c
          PROVE  At(q, x) \in Kafka!TakenBack
      <3>1. x \in w..(c - 1)
        BY <1>0, <2>2 DEF Offsets
      <3> QED BY <1>4, <2>2, <3>1
    <2>3. ASSUME q = p, settled # {}, c <= x, x < w
          PROVE  At(q, x) \in settled
      <3>1. x \in c..(w - 1)
        BY <1>0, <2>3 DEF Offsets
      <3> QED BY <2>3, <3>1 DEF c
    <2> QED BY <2>0, <2>1, <2>2, <2>3 DEF UnsureAt
  <1>9. \A q : LeftAt(q) \subseteq Offsets(q) /\ LeftAt(q)' \subseteq Offsets(q) /\ Offsets(q) \subseteq Nat
               /\ UnsureAt(q) \subseteq Offsets(q) /\ UnsureAt(q)' \subseteq Offsets(q)
    BY <1>2 DEF LeftAt, UnsureAt, Offsets
  <1>10. /\ \A q \in KParts : q # p => LeftAt(q)' = LeftAt(q) /\ UnsureAt(q)' = UnsureAt(q)
         /\ LeftAt(p) \subseteq LeftAt(p)' /\ UnsureAt(p) \subseteq UnsureAt(p)'
         /\ \A x \in Nat : x < w => x \in LeftAt(p)'
         /\ \A x \in LeftAt(p)' : x \in LeftAt(p) \/ x < w
    <2>1. ASSUME NEW q \in KParts, q # p
          PROVE  LeftAt(q)' = LeftAt(q) /\ UnsureAt(q)' = UnsureAt(q)
      BY <1>7, <1>8, <1>9, <2>1
    <2>2. \A x \in Nat : x < w => x \in Offsets(p)
      BY <1>0 DEF Offsets
    <2>3. \A x \in Nat : x < w => x \in LeftAt(p)'
      BY <1>7, <2>2
    <2>4. LeftAt(p) \subseteq LeftAt(p)' /\ UnsureAt(p) \subseteq UnsureAt(p)'
      BY <1>7, <1>8, <1>9
    <2>5. \A x \in LeftAt(p)' : x \in LeftAt(p) \/ x < w
      BY <1>7, <1>9
    <2> QED BY <2>1, <2>3, <2>4, <2>5
  <1>11. Committed(p) /\ (\A x \in Nat : x < c => x \in LeftAt(p)) /\ (\A x \in LeftAt(p) : x >= c => x \in UnsureAt(p))
    BY DEF KafkaInv, Committed, c
  <1>12. settled # {} \/ c >= w => \A x \in LeftAt(p)' : x \in LeftAt(p) \/ x \in UnsureAt(p)'
    <2> SUFFICES ASSUME settled # {} \/ c >= w, NEW x \in LeftAt(p)', x \notin LeftAt(p)
                 PROVE  x \in UnsureAt(p)'
      OBVIOUS
    <2>1. x \in Nat /\ x \in Offsets(p) /\ x < w /\ ~(x < c)
      BY <1>9, <1>10, <1>11
    <2> QED BY <1>0, <1>8, <2>1
  <1>13. Passes(p, w)
    BY DEF KafkaInv, Acking
  <1>14. \A q \in KParts : Committed(q)'
    <2>0. broker'.committed[p] = w /\ \A q \in KParts : q # p => broker'.committed[q] = broker.committed[q]
      BY DEF KafkaInv, KafkaTypes, KafkaBrokers
    <2>1. ASSUME NEW q \in KParts, q # p
          PROVE  Committed(q)'
      BY <1>2, <1>10, <2>0, <2>1 DEF KafkaInv, Committed
    <2>2. ASSUME NEW x \in LeftAt(p)', x >= w
          PROVE  x \in UnsureAt(p)'
      <3>1. x \in LeftAt(p) /\ x \in Nat /\ x \in Offsets(p)
        BY <1>9, <1>10, <2>2
      <3>2. CASE x < c
        BY <1>0, <1>8, <2>2, <3>1, <3>2
      <3>3. CASE ~(x < c)
        <4>1. x >= c
          BY <1>0, <3>1, <3>3
        <4> QED BY <1>10, <1>11, <3>1, <4>1
      <3> QED BY <3>2, <3>3
    <2>3. ASSUME p \in broker.assigned, NEW x \in LeftAt(p)', x >= Position(p)
          PROVE  x \in UnsureAt(p)'
      <3>1. CASE x \in LeftAt(p)
        BY <1>10, <1>11, <2>3, <3>1 DEF Committed
      <3>2. CASE x \notin LeftAt(p)
        BY <1>9, <1>10, <1>13, <2>3, <3>2 DEF Passes
      <3> QED BY <3>1, <3>2
    <2>4. Committed(p)'
      BY <1>0, <1>2, <1>10, <1>11, <2>0, <2>2, <2>3 DEF Committed
    <2> QED BY <2>1, <2>4
  <1>15. Kafka!Accepted' = Kafka!Accepted
    BY DEF Kafka!Accepted
  <1>16. /\ \A x \in Offsets(p) : At(p, x) \in Kafka!Accepted /\ At(p, x) \in Messages
    BY AcceptedAt DEF KafkaInv
  <1>17. /\ Kafka!Below(p, w) \subseteq Kafka!Accepted /\ Kafka!TakenBack \subseteq Kafka!Accepted
         /\ settled \subseteq Kafka!Accepted /\ Kafka!TakenBack \subseteq Messages /\ settled \subseteq Messages
    BY <1>4, <1>6, <1>16 DEF c
  <1>18. OnePlace'
    BY <1>1, <1>2, <1>15, <1>17 DEF KafkaInv, OnePlace
  <1>19. ContractStep
    <2>1. CASE c > w
      <3>1. settled = {}
        <4>1. c..(w - 1) = {}
          BY <1>0, <2>1
        <4> QED BY <4>1 DEF c
      <3>2. Kafka!Below(p, w) \subseteq hist.left
        <4>1. \A x \in 0..(w - 1) : x \in LeftAt(p)
          BY <1>0, <1>11, <2>1
        <4> QED BY <1>4, <4>1 DEF LeftAt
      <3>3. hist'.left = hist.left /\ hist'.unsure = hist.unsure \union Kafka!TakenBack
        BY <3>1, <3>2
      <3> QED BY <1>15, <1>17, <3>3, KafkaMapped, KafkaMappedNext, PromisesRewind
    <2>2. CASE ~(c > w)
      <3> DEFINE S == {At(p, x) : x \in {y \in c..(w - 1) : y \notin LeftAt(p)}}
      <3>1. Kafka!TakenBack = {}
        <4>1. w..(c - 1) = {}
          BY <1>0, <2>2
        <4> QED BY <1>4, <4>1
      <3>2. S \subseteq hist.asked /\ S \subseteq Messages
        <4>1. ASSUME NEW x \in c..(w - 1), x \notin LeftAt(p)
              PROVE  At(p, x) \in hist.asked /\ At(p, x) \in Messages
          <5>1. x \in AskedAt(p)
            BY <1>0, <1>13, <4>1 DEF Passes
          <5> QED BY <1>6, <1>16, <4>1, <5>1 DEF AskedAt
        <4> QED BY <4>1
      <3>3. hist'.left = hist.left \union S
        <4>1. ASSUME NEW x \in 0..(w - 1)
              PROVE  At(p, x) \in hist.left \union S
          <5>1. CASE x \in LeftAt(p)
            BY <5>1 DEF LeftAt
          <5>2. CASE x \notin LeftAt(p)
            <6>1. x \in c..(w - 1)
              BY <1>0, <1>11, <4>1, <5>2
            <6> QED BY <5>2, <6>1
          <5> QED BY <5>1, <5>2
        <4>2. S \subseteq Kafka!Below(p, w)
          <5>1. \A x \in c..(w - 1) : x \in 0..(w - 1)
            BY <1>0
          <5> QED BY <1>4, <5>1
        <4>3. Kafka!Below(p, w) \subseteq hist.left \union S
          BY <1>4, <4>1
        <4> QED BY <4>2, <4>3
      <3>4. hist'.unsure = hist.unsure \/ hist'.unsure = hist.unsure \union S
        <4>1. CASE settled = {}
          BY <3>1, <4>1
        <4>2. CASE settled = {At(p, x) : x \in c..(w - 1)}
          <5>1. ASSUME NEW x \in c..(w - 1), x \in LeftAt(p)
                PROVE  At(p, x) \in hist.unsure
            <6>1. x >= c
              BY <1>0, <5>1
            <6> QED BY <1>11, <5>1, <6>1 DEF UnsureAt
          <5>2. settled \subseteq hist.unsure \union S
            BY <4>2, <5>1
          <5>3. S \subseteq settled
            BY <4>2
          <5> QED BY <3>1, <5>2, <5>3
        <4> QED BY <4>1, <4>2 DEF c
      <3> HIDE DEF S
      <3>5. S \in SUBSET Messages /\ {} \in SUBSET Messages /\ S \subseteq Asked /\ {} \subseteq Unsure
        BY <3>2, KafkaMapped
      <3>6. /\ Gone' = (Gone \ {}) \union S /\ Unsure' \in {Unsure, Unsure \union S}
            /\ Accepted' = Accepted /\ Asked' = Asked /\ Cleared' = Cleared
        BY <1>15, <3>3, <3>4, KafkaMapped, KafkaMappedNext
      <3> QED BY ONLY <3>5, <3>6, PromisesSettle
    <2> QED BY <2>1, <2>2
  <1> QED BY <1>1, <1>2, <1>3, <1>10, <1>12, <1>14, <1>18, <1>19 DEF c

\* The handles when the commit of an ack ends.
LegacyDone(h, p, o) == Kafka!Forgotten([h EXCEPT !.legacy = Kafka!NoRecord, !.inFlight[p] = @ \ {o}], p)
PutBack(h, p, o) == [h EXCEPT !.inFlight[p] = @ \union {o}]
TokenDone(h, p, w, t) == Kafka!Forgotten(Kafka!Finished([h EXCEPT !.watermarks[p] = w], t), p)

LEMMA LegacyDoneHandles ==
  ASSUME NEW h \in KafkaHandles, NEW p \in KParts, NEW o \in Nat
  PROVE  LET e == LegacyDone(h, p, o)
             none == h.inFlight[p] \ {o} = {}
         IN  /\ e \in KafkaHandles /\ e.active = h.active /\ e.legacy = <<>>
             /\ e.consumer = h.consumer /\ e.retired = h.retired
             /\ e.consumerGen = h.consumerGen /\ e.assignEpoch = h.assignEpoch
             /\ e.inFlight = [h.inFlight EXCEPT ![p] = @ \ {o}]
             /\ e.watermarks = IF none THEN [h.watermarks EXCEPT ![p] = -1] ELSE h.watermarks
             /\ e.highWater = IF none THEN [h.highWater EXCEPT ![p] = 0] ELSE h.highWater
  <1>0. /\ h.inFlight \in [KParts -> SUBSET Nat] /\ h.watermarks \in [KParts -> Int] /\ h.highWater \in [KParts -> Nat]
        /\ h.active \in SUBSET (KParts \X Nat \X Nat)
    BY DEF KafkaHandles
  <1> DEFINE F == [h.inFlight EXCEPT ![p] = @ \ {o}]
             f == [h EXCEPT !.legacy = Kafka!NoRecord, !.inFlight[p] = @ \ {o}]
  <1>1. F \in [KParts -> SUBSET Nat] /\ F[p] = h.inFlight[p] \ {o}
    BY <1>0
  <1>2. f = [h EXCEPT !.legacy = <<>>, !.inFlight = F]
    BY DEF Kafka!NoRecord, KafkaHandles
  <1> HIDE DEF F, f
  <1>3. /\ f \in KafkaHandles /\ f.active = h.active /\ f.legacy = <<>>
        /\ f.consumer = h.consumer /\ f.retired = h.retired
        /\ f.consumerGen = h.consumerGen /\ f.assignEpoch = h.assignEpoch
        /\ f.inFlight = F /\ f.watermarks = h.watermarks /\ f.highWater = h.highWater
    BY <1>1, <1>2 DEF KafkaHandles
  <1>4. f \in KafkaHandles
    BY <1>3
  <1>5. LET e == Kafka!Forgotten(f, p)
            none == f.inFlight[p] = {}
        IN  /\ e \in KafkaHandles /\ e.active = f.active /\ e.legacy = f.legacy
            /\ e.consumer = f.consumer /\ e.retired = f.retired
            /\ e.consumerGen = f.consumerGen /\ e.assignEpoch = f.assignEpoch
            /\ e.inFlight = f.inFlight
            /\ e.watermarks = IF none THEN [f.watermarks EXCEPT ![p] = -1] ELSE f.watermarks
            /\ e.highWater = IF none THEN [f.highWater EXCEPT ![p] = 0] ELSE f.highWater
    BY ONLY <1>4, ForgottenHandles
  <1> QED BY <1>1, <1>3, <1>5 DEF f, F, LegacyDone

LEMMA TokenDoneHandles ==
  ASSUME NEW h \in KafkaHandles, NEW p \in KParts, NEW o \in Nat, NEW w \in Nat,
         NEW t, t.part = p, t.offset = o
  PROVE  LET e == TokenDone(h, p, w, t)
             none == h.inFlight[p] = {}
         IN  /\ e \in KafkaHandles /\ e.active = h.active \ {<<p, o, t.attempt>>} /\ e.legacy = h.legacy
             /\ e.consumer = h.consumer /\ e.retired = h.retired
             /\ e.consumerGen = h.consumerGen /\ e.assignEpoch = h.assignEpoch
             /\ e.inFlight = h.inFlight
             /\ e.watermarks = [h.watermarks EXCEPT ![p] = IF none THEN -1 ELSE w]
             /\ e.highWater = IF none THEN [h.highWater EXCEPT ![p] = 0] ELSE h.highWater
  <1>0. /\ h.inFlight \in [KParts -> SUBSET Nat] /\ h.watermarks \in [KParts -> Int] /\ h.highWater \in [KParts -> Nat]
        /\ h.active \in SUBSET (KParts \X Nat \X Nat)
    BY DEF KafkaHandles
  <1> DEFINE W == [h.watermarks EXCEPT ![p] = w]
             A == h.active \ {<<p, o, t.attempt>>}
             f == Kafka!Finished([h EXCEPT !.watermarks[p] = w], t)
  <1>1. /\ W \in [KParts -> Int] /\ A \in SUBSET (KParts \X Nat \X Nat)
        /\ [W EXCEPT ![p] = -1] = [h.watermarks EXCEPT ![p] = -1]
    BY <1>0
  <1>2. f = [h EXCEPT !.watermarks = W, !.active = A]
    BY DEF Kafka!Finished, KafkaHandles
  <1> HIDE DEF W, A, f
  <1>3. /\ f \in KafkaHandles /\ f.active = A /\ f.legacy = h.legacy
        /\ f.consumer = h.consumer /\ f.retired = h.retired
        /\ f.consumerGen = h.consumerGen /\ f.assignEpoch = h.assignEpoch
        /\ f.inFlight = h.inFlight /\ f.watermarks = W /\ f.highWater = h.highWater
    BY <1>1, <1>2 DEF KafkaHandles
  <1>4. f \in KafkaHandles
    BY <1>3
  <1>5. LET e == Kafka!Forgotten(f, p)
            none == f.inFlight[p] = {}
        IN  /\ e \in KafkaHandles /\ e.active = f.active /\ e.legacy = f.legacy
            /\ e.consumer = f.consumer /\ e.retired = f.retired
            /\ e.consumerGen = f.consumerGen /\ e.assignEpoch = f.assignEpoch
            /\ e.inFlight = f.inFlight
            /\ e.watermarks = IF none THEN [f.watermarks EXCEPT ![p] = -1] ELSE f.watermarks
            /\ e.highWater = IF none THEN [f.highWater EXCEPT ![p] = 0] ELSE f.highWater
    BY ONLY <1>4, ForgottenHandles
  <1> QED BY <1>1, <1>3, <1>5 DEF f, W, A, TokenDone

LEMMA PutBackHandles ==
  ASSUME NEW h \in KafkaHandles, NEW p \in KParts, NEW o \in Nat
  PROVE  LET e == PutBack(h, p, o)
         IN  /\ e \in KafkaHandles /\ e.active = h.active /\ e.legacy = h.legacy
             /\ e.consumer = h.consumer /\ e.retired = h.retired
             /\ e.consumerGen = h.consumerGen /\ e.assignEpoch = h.assignEpoch
             /\ e.inFlight = [h.inFlight EXCEPT ![p] = @ \union {o}]
             /\ e.watermarks = h.watermarks /\ e.highWater = h.highWater
  <1>0. /\ h.inFlight \in [KParts -> SUBSET Nat] /\ h.watermarks \in [KParts -> Int] /\ h.highWater \in [KParts -> Nat]
        /\ h.active \in SUBSET (KParts \X Nat \X Nat)
    BY DEF KafkaHandles
  <1> DEFINE F == [h.inFlight EXCEPT ![p] = @ \union {o}]
             e == [h EXCEPT !.inFlight[p] = @ \union {o}]
  <1>1. F \in [KParts -> SUBSET Nat]
    BY <1>0
  <1>2. e = [h EXCEPT !.inFlight = F]
    BY DEF KafkaHandles
  <1> HIDE DEF F, e
  <1>3. /\ e \in KafkaHandles /\ e.active = h.active /\ e.legacy = h.legacy
        /\ e.consumer = h.consumer /\ e.retired = h.retired
        /\ e.consumerGen = h.consumerGen /\ e.assignEpoch = h.assignEpoch
        /\ e.inFlight = F /\ e.watermarks = h.watermarks /\ e.highWater = h.highWater
    BY <1>1, <1>2 DEF KafkaHandles
  <1> QED BY <1>3 DEF e, F, PutBack

\* When an ack or a nack ends, the application's tokens and the slot stay with their
\* holders, and the generation in use is as its partitions say.
LEMMA KafkaSettled ==
  ASSUME KafkaInv, op'.kind = "idle", conn' = conn, tokens' = tokens, KafkaTypes',
         hist'.holders = hist.holders, OnePlace', \A q \in KParts : Committed(q)',
         \A q, x : At(q, x)' = At(q, x), \A q : Offsets(q)' = Offsets(q),
         conn.gen # 0 => /\ \A q \in KParts : Cohort(q)'
                         /\ Attempts'
                         /\ Cur'.consumer = Cur.consumer /\ Cur'.retired = Cur.retired
                         /\ Cur'.consumerGen = Cur.consumerGen /\ Cur'.assignEpoch = Cur.assignEpoch
                         /\ Cur'.active \subseteq Cur.active /\ Cur'.legacy \in {Cur.legacy, <<>>}
  PROVE  KafkaInv'
  <1>1. (Reading' <=> Reading) /\ (Reading => conn.gen # 0)
    BY DEF Reading
  <1>2. KafkaGeneration'
    BY DEF KafkaInv, KafkaGeneration
  <1>3. Holders'
    <2>1. ASSUME Reading
          PROVE  SlotHeld' /\ \A t \in tokens : TokenLive(t)' => t \in hist'.holders[At(t.part, t.offset)']
      <3>1. \A q, x : Kafka!LegacyRead(q, x)' = Kafka!LegacyRead(q, x)
        BY DEF Kafka!LegacyRead
      <3>2. \A q : SlotAt(q)' \subseteq SlotAt(q)
        <4>1. CASE Cur'.legacy = <<>>
          <5>1. \A q, x : <<>> # <<q, x>>
            OBVIOUS
          <5> QED BY <4>1, <5>1 DEF SlotAt
        <4>2. CASE Cur'.legacy = Cur.legacy
          BY <4>2 DEF SlotAt
        <4> QED BY <1>1, <2>1, <4>1, <4>2
      <3>3. SlotHeld'
        BY <2>1, <3>1, <3>2 DEF SlotHeld, KafkaInv, Holders
      <3>4. \A t : TokenLive(t)' => TokenLive(t)
        BY <1>1, <2>1 DEF TokenLive
      <3> QED BY <2>1, <3>3, <3>4 DEF KafkaInv, Holders
    <2> QED BY <1>1, <2>1 DEF Holders, KafkaInv
  <1>4. Acking'
    BY DEF Acking
  <1> QED BY <1>1, <1>2, <1>3, <1>4 DEF KafkaInv

\* What the servers keep when they take the commit of an ack.
LEMMA BrokerCommits ==
  ASSUME KafkaInv, op.kind = "ack", NEW p \in KParts, p = op.token.part, NEW w \in Nat, w = op.watermark,
         Kafka!Commits(broker)
  PROVE  /\ broker' \in KafkaBrokers /\ broker'.log = broker.log /\ broker'.position = broker.position
         /\ broker'.assigned = broker.assigned /\ broker'.committed = [broker.committed EXCEPT ![p] = w]
  <1> DEFINE c == table[op.gen].consumer
             O == [q \in KParts |-> IF broker.owner[q] = c THEN 0 ELSE broker.owner[q]]
             C == [broker.committed EXCEPT ![p] = w]
  <1>1. broker \in KafkaBrokers
    BY DEF KafkaInv, KafkaTypes
  <1>2. O \in [KParts -> Nat] /\ C \in [KParts -> Nat]
    BY <1>1 DEF KafkaBrokers
  <1>3. Kafka!Left(broker, c) = [broker EXCEPT !.owner = O]
    BY DEF Kafka!Left, Kafka!NoConsumer, KParts
  <1> HIDE DEF c, O
  <1>4. PICK b \in KafkaBrokers :
          /\ b \in {broker, [broker EXCEPT !.owner = O]}
          /\ broker' = [b EXCEPT !.committed[p] = w]
    <2>1. [broker EXCEPT !.owner = O] \in KafkaBrokers
      BY <1>1, <1>2 DEF KafkaBrokers
    <2> QED BY <1>1, <1>3, <2>1 DEF Kafka!Commits, c
  <1>5. /\ b.log = broker.log /\ b.position = broker.position /\ b.assigned = broker.assigned
        /\ b.committed = broker.committed
    BY <1>1, <1>4 DEF KafkaBrokers
  <1>6. broker' = [b EXCEPT !.committed = C]
    BY <1>4, <1>5 DEF KafkaBrokers
  <1> HIDE DEF C
  <1>7. /\ broker' \in KafkaBrokers /\ broker'.log = b.log /\ broker'.position = b.position
        /\ broker'.assigned = b.assigned /\ broker'.committed = C
    BY <1>2, <1>6 DEF KafkaBrokers
  <1> QED BY <1>5, <1>7 DEF C

LEMMA LeaseTypes ==
  ASSUME KafkaInv, op.kind = "ack", NEW h \in KafkaHandles, Kafka!LeaseEnds(h), conn' = conn
  PROVE  /\ table' \in Seq(KafkaHandles) /\ Len(table') = Len(table) /\ op'.kind = "idle"
         /\ conn.gen # 0 /\ ~h.retired => Cur' = h
  <1>1. table \in Seq(KafkaHandles) /\ op.gen \in 1..Len(table) /\ conn.gen \in {0, op.gen}
    BY DEF KafkaInv, KafkaTypes, Acking
  <1>2. Kafka!Drained \in KafkaHandles
    BY FreshHandles DEF Kafka!Drained, Kafka!NoConsumer
  <1>3. PICK e \in KafkaHandles : e = IF h.retired THEN Kafka!Drained ELSE h
    BY <1>2
  <1>4. table' = [table EXCEPT ![op.gen] = e] /\ op'.kind = "idle"
    BY <1>3 DEF Kafka!LeaseEnds, Kafka!Idle
  <1>5. table' \in Seq(KafkaHandles) /\ Len(table') = Len(table) /\ table'[op.gen] = e
    BY <1>1, <1>4
  <1> QED BY <1>1, <1>3, <1>4, <1>5 DEF Cur

\* The ack of a token is committed.
LEMMA CohortCommitted ==
  ASSUME KafkaInv, Reading, op.kind = "ack", ~op.legacy, Committing,
         NEW p \in KParts, p = op.token.part, NEW o \in LiveAt(p), o = op.token.offset,
         NEW w \in Nat, w = op.watermark, broker'.log = broker.log, broker'.assigned = broker.assigned,
         Position(p)' = Position(p), Offsets(p)' = Offsets(p), AskedAt(p)' = AskedAt(p),
         LeftAt(p) \subseteq LeftAt(p)', UnsureAt(p) \subseteq UnsureAt(p)',
         \A x \in Nat : x < w => x \in LeftAt(p)',
         \A x \in LeftAt(p)' : x \in LeftAt(p) \/ x < w,
         InFlight(p)' = InFlight(p), SlotAt(p)' = SlotAt(p), LiveAt(p)' = LiveAt(p) \ {o},
         IF InFlight(p) = {} THEN Base(p)' = -1 /\ High(p)' = 0 ELSE Base(p)' = w /\ High(p)' = High(p)
  PROVE  Cohort(p)'
  <1>1. Cohort(p) /\ p \in broker.assigned /\ Attempts /\ conn.gen # 0
    BY DEF KafkaInv, Committing, Reading
  <1>2. /\ w = High(p) \/ w \in InFlight(p)
        /\ \A x \in InFlight(p) : x < w => x \in LeftAt(p)
    BY DEF Committing
  <1>3. \A z : ~Loose(p, z)
    BY DEF Loose
  <1>4. LiveAt(p)' \subseteq InFlight(p)
    <2> SUFFICES ASSUME NEW x \in LiveAt(p), x # o
                 PROVE  x \in InFlight(p)
      OBVIOUS
    <2>1. PICK a \in Nat : <<p, x, a>> \in Cur.active
      BY DEF LiveAt
    <2>2. <<p, x, a>> # <<op.token.part, op.token.offset, op.token.attempt>>
      OBVIOUS
    <2> QED BY <1>1, <2>1, <2>2 DEF Attempts
  <1>5. /\ InFlight(p) \subseteq Nat /\ Base(p) \in Int /\ High(p) \in Nat /\ Position(p) \in Nat
        /\ Len(broker.log[p]) \in Nat /\ Base(p) >= 0 /\ Base(p) # -1 /\ SlotAt(p) \subseteq Nat
    <2>1. broker.log[p] \in Seq(Messages) /\ Position(p) \in Nat
      BY DEF KafkaInv, KafkaTypes, KafkaBrokers, Position
    <2>2. InFlight(p) \subseteq Nat /\ Base(p) \in Int /\ High(p) \in Nat
      BY <1>1, CurTyped
    <2>3. Base(p) >= 0
      BY <1>1 DEF Cohort, Entries
    <2> QED BY <2>1, <2>2, <2>3 DEF SlotAt
  <1>6. w <= High(p) /\ High(p)' \in Nat /\ High(p)' <= High(p)
    BY <1>1, <1>2, <1>5 DEF Cohort, Entries
  <1>7. Entries(p)'
    BY <1>1, <1>4, <1>5, <1>6 DEF Cohort, Entries
  <1>8. Accounted(p)'
    <2> SUFFICES ASSUME NEW x \in Nat, x < Position(p) \/ x < High(p)' \/ \E y \in SlotAt(p) : x < y
                 PROVE  x \in InFlight(p) \/ x \in AskedAt(p) \/ x \in LeftAt(p)'
      BY DEF Accounted
    <2>1. x < Position(p) \/ x < High(p) \/ \E y \in SlotAt(p) : x < y
      BY <1>5, <1>6
    <2> QED BY <1>1, <1>3, <2>1 DEF Cohort, Accounted
  <1>9. Reread(p)'
    <2>1. ASSUME NEW x \in AskedAt(p), x >= Position(p), x < High(p)' \/ \E y \in SlotAt(p) : x < y
          PROVE  x \in InFlight(p) \/ x \in UnsureAt(p)'
      <3>1. x < High(p) \/ \E y \in SlotAt(p) : x < y
        BY <1>5, <1>6, <2>1 DEF AskedAt, Offsets
      <3> QED BY <1>1, <1>3, <2>1, <3>1 DEF Cohort, Reread
    <2>2. ASSUME NEW x \in LiveAt(p)' \union SlotAt(p), x >= Position(p) \/ x \in LeftAt(p)'
          PROVE  x \in UnsureAt(p)'
      <3>1. CASE x >= Position(p) \/ x \in LeftAt(p)
        BY <1>1, <2>2, <3>1 DEF Cohort, Reread
      <3>2. CASE x < w /\ x \notin LeftAt(p)
        <4>1. x \notin InFlight(p)
          BY <1>2, <3>2
        <4>2. x \in SlotAt(p)
          BY <1>4, <2>2, <4>1
        <4> QED BY <1>1, <4>1, <4>2 DEF Cohort, Reread
      <3> QED BY <2>2, <3>1, <3>2
    <2>3. ASSUME NEW x \in SlotAt(p), x \in LiveAt(p)' \/ x \notin InFlight(p)
          PROVE  x \in UnsureAt(p)'
      BY <1>1, <2>3 DEF Cohort, Reread
    <2> QED BY <2>1, <2>2, <2>3 DEF Reread
  <1>10. BasePassed(p)'
    <2>1. CASE InFlight(p) # {}
      <3>1. Base(p)' = w /\ High(p)' = High(p) /\ w # -1
        BY <2>1
      <3>2. WatermarkBase(p)' = w
        BY <3>1 DEF WatermarkBase
      <3>3. SlotAt(p) # {} => Position(p) <= High(p)
        BY <1>1, <1>5 DEF Cohort, BasePassed
      <3> QED BY <3>1, <3>2, <3>3 DEF BasePassed
    <2>2. CASE InFlight(p) = {}
      <3>1. Base(p)' = -1 /\ w = High(p) /\ LiveAt(p)' = {}
        BY <1>2, <1>4, <2>2
      <3>2. WatermarkBase(p)' = Position(p)
        BY <3>1 DEF WatermarkBase
      <3>3. ASSUME NEW y \in SlotAt(p) \union {Position(p)}, NEW x \in Nat, y <= x, x < Position(p)
            PROVE  x \in LeftAt(p)'
        <4>1. y \in SlotAt(p)
          BY <1>5, <3>3
        <4>2. Position(p) <= w
          BY <1>1, <1>5, <3>1, <4>1 DEF Cohort, BasePassed
        <4> QED BY <1>5, <3>3, <4>2
      <3> QED BY <2>2, <3>1, <3>2, <3>3 DEF BasePassed
    <2> QED BY <2>1, <2>2
  <1> QED BY <1>7, <1>8, <1>9, <1>10 DEF Cohort

\* The ack of the legacy record is committed.
LEMMA CohortLegacyCommitted ==
  ASSUME KafkaInv, Reading, op.kind = "ack", op.legacy, Committing,
         NEW p \in KParts, p = op.token.part, NEW o \in Nat, o = op.token.offset,
         broker'.log = broker.log, broker'.assigned = broker.assigned,
         Position(p)' = Position(p), Offsets(p)' = Offsets(p), AskedAt(p)' = AskedAt(p),
         LeftAt(p) \subseteq LeftAt(p)', o \in LeftAt(p)',
         InFlight(p)' = {}, SlotAt(p)' = {}, LiveAt(p)' = {}, Base(p)' = -1, High(p)' = 0
  PROVE  Cohort(p)'
  <1>1. Cohort(p) /\ p \in broker.assigned /\ InFlight(p) \subseteq {o} /\ SlotAt(p) # {}
    BY DEF KafkaInv, Committing, SlotAt
  <1>2. Len(broker.log[p]) \in Nat /\ Position(p) \in Nat
    BY DEF KafkaInv, KafkaTypes, KafkaBrokers, Position
  <1>3. Entries(p)'
    BY <1>2 DEF Entries
  <1>4. Accounted(p)'
    BY <1>1 DEF Accounted, Cohort, Loose
  <1>5. Reread(p)'
    BY DEF Reread, AskedAt, Offsets
  <1>6. BasePassed(p)'
    BY <1>2 DEF BasePassed, WatermarkBase
  <1> QED BY <1>3, <1>4, <1>5, <1>6 DEF Cohort

\* The commit raised: the offset of a token is back in flight, and what the
\* servers took all the same may be handed out again.
LEMMA CohortFailed ==
  ASSUME KafkaInv, Reading, NEW p \in KParts, p \in broker.assigned,
         broker'.log = broker.log, broker'.assigned = broker.assigned,
         LiveAt(p) # {} \/ SlotAt(p) # {},
         Position(p)' = Position(p), Offsets(p)' = Offsets(p), AskedAt(p)' = AskedAt(p),
         LeftAt(p) \subseteq LeftAt(p)', UnsureAt(p) \subseteq UnsureAt(p)',
         \A x \in LeftAt(p)' : x \in LeftAt(p) \/ x \in UnsureAt(p)',
         InFlight(p) \subseteq InFlight(p)', InFlight(p)' \subseteq InFlight(p) \union LiveAt(p),
         SlotAt(p)' = SlotAt(p), LiveAt(p)' = LiveAt(p), Base(p)' = Base(p), High(p)' = High(p)
  PROVE  Cohort(p)'
  <1>1. Cohort(p) /\ \A z : ~Loose(p, z)
    BY DEF KafkaInv, Loose
  <1>2. Entries(p)'
    BY <1>1 DEF Cohort, Entries
  <1>3. Accounted(p)'
    BY <1>1 DEF Cohort, Accounted
  <1>4. Reread(p)'
    <2>1. \A x \in AskedAt(p) : x >= Position(p) /\ (x < High(p) \/ \E y \in SlotAt(p) : x < y) =>
            x \in InFlight(p)' \/ x \in UnsureAt(p)'
      BY <1>1 DEF Cohort, Reread
    <2>2. \A x \in LiveAt(p) \union SlotAt(p) : x >= Position(p) \/ x \in LeftAt(p)' => x \in UnsureAt(p)'
      BY <1>1 DEF Cohort, Reread
    <2>3. \A x \in SlotAt(p) : x \in LiveAt(p) \/ x \notin InFlight(p)' => x \in UnsureAt(p)'
      BY <1>1 DEF Cohort, Reread
    <2> QED BY <2>1, <2>2, <2>3 DEF Reread
  <1>5. BasePassed(p)'
    <2>1. WatermarkBase(p)' = WatermarkBase(p)
      BY DEF WatermarkBase
    <2> QED BY <1>1, <2>1 DEF Cohort, BasePassed
  <1> QED BY <1>2, <1>3, <1>4, <1>5 DEF Cohort

\* What a commit passes, and what it takes back, are stored messages.
LEMMA CommitMessages ==
  ASSUME KafkaInv, op.kind = "ack", NEW p \in KParts, p = op.token.part, NEW w \in Nat, w = op.watermark
  PROVE  /\ Kafka!TakenBack \subseteq Messages /\ Kafka!Below(p, w) \subseteq Messages
         /\ {Kafka!MessageAt(p, x) : x \in broker.committed[p]..(w - 1)} \subseteq Messages
  <1>1. /\ broker.committed[p] \in Nat /\ broker.committed[p] <= Len(broker.log[p])
        /\ w <= Len(broker.log[p]) /\ Len(broker.log[p]) \in Nat
    BY DEF KafkaInv, KafkaTypes, KafkaBrokers, Committed, Acking
  <1>2. /\ 0..(w - 1) \subseteq Offsets(p) /\ w..(broker.committed[p] - 1) \subseteq Offsets(p)
        /\ broker.committed[p]..(w - 1) \subseteq Offsets(p)
    BY <1>1 DEF Offsets
  <1>3. \A x \in Offsets(p) : Kafka!MessageAt(p, x) \in Messages
    BY AcceptedAt DEF KafkaInv, Kafka!MessageAt, At
  <1> QED BY <1>2, <1>3 DEF Kafka!TakenBack, Kafka!Below

\* What an ack between its two halves says of the token that it settles.
LEMMA AckOpen ==
  ASSUME KafkaInv, op.kind = "ack"
  PROVE  /\ op.token.part \in KParts /\ op.token.offset \in Nat /\ op.watermark \in Nat /\ op.legacy \in BOOLEAN
         /\ op.gen \in 1..Len(table) /\ table[op.gen] \in KafkaHandles
         /\ conn.gen # 0 => /\ Reading /\ Committing /\ table[op.gen] = Cur /\ Cur \in KafkaHandles /\ ~Cur.retired
                            /\ ~op.legacy => Kafka!TokenActive(Cur, op.token)
  <1>1. /\ op.token.part \in KParts /\ op.token.offset \in Nat /\ op.watermark \in Nat /\ op.legacy \in BOOLEAN
        /\ op.gen \in 1..Len(table) /\ conn.gen \in {0, op.gen} /\ (conn.gen # 0 => Committing)
    BY DEF KafkaInv, Acking
  <1>2. table[op.gen] \in KafkaHandles
    BY <1>1 DEF KafkaInv, KafkaTypes
  <1>3. ASSUME conn.gen # 0
        PROVE  /\ Reading /\ Committing /\ table[op.gen] = Cur /\ ~Cur.retired
               /\ ~op.legacy => Kafka!TokenActive(Cur, op.token)
    <2>1. Reading /\ Committing /\ table[op.gen] = Cur
      BY <1>1, <1>3 DEF Committing, Cur
    <2>2. ~Cur.retired
      BY <1>3 DEF KafkaInv, KafkaGeneration
    <2>3. ~op.legacy => Kafka!TokenActive(Cur, op.token)
      BY <2>1 DEF Committing, TokenLive, Kafka!TokenActive
    <2> QED BY <2>1, <2>2, <2>3
  <1> QED BY <1>1, <1>2, <1>3

LEMMA KafkaAckCommitted ==
  ASSUME KafkaInv, which = "kafka", which' = which, Kafka!AckCommitted
  PROVE  KafkaInv' /\ ContractStep
  <1>1. op.kind = "ack" /\ Kafka!Commits(broker) /\ conn' = conn /\ tokens' = tokens
    BY DEF Kafka!AckCommitted
  <1>2. /\ op.token.part \in KParts /\ op.token.offset \in Nat /\ op.watermark \in Nat /\ op.legacy \in BOOLEAN
        /\ op.gen \in 1..Len(table) /\ table[op.gen] \in KafkaHandles
        /\ conn.gen # 0 => /\ Reading /\ Committing /\ table[op.gen] = Cur /\ Cur \in KafkaHandles /\ ~Cur.retired
                           /\ ~op.legacy => Kafka!TokenActive(Cur, op.token)
    BY <1>1, AckOpen
  <1>3. PICK t : t = op.token
    OBVIOUS
  <1>4. PICK p \in KParts : p = op.token.part
    BY <1>2
  <1>5. PICK o \in Nat : o = op.token.offset
    BY <1>2
  <1>6. PICK w \in Nat : w = op.watermark
    BY <1>2
  <1>7. PICK h \in KafkaHandles : h = table[op.gen]
    BY <1>2
  <1>8. PICK a : a = t.attempt
    OBVIOUS
  <1>9. /\ broker' \in KafkaBrokers /\ broker'.log = broker.log /\ broker'.position = broker.position
        /\ broker'.assigned = broker.assigned /\ broker'.committed = [broker.committed EXCEPT ![p] = w]
    BY <1>1, <1>4, <1>6, BrokerCommits
  <1>10. /\ hist' \in KafkaHists /\ hist'.asked = hist.asked /\ hist'.left = hist.left \union Kafka!Below(p, w)
         /\ hist'.unsure = hist.unsure \union {} \union Kafka!TakenBack /\ hist'.holders = hist.holders
    <2>1. hist' = [hist EXCEPT !.unsure = hist.unsure \union Kafka!TakenBack,
                               !.left = hist.left \union Kafka!Below(p, w)]
      BY <1>4, <1>6 DEF Kafka!AckCommitted
    <2>2. hist \in KafkaHists
      BY DEF KafkaInv, KafkaTypes
    <2>3. Kafka!TakenBack \subseteq Messages /\ Kafka!Below(p, w) \subseteq Messages
      BY <1>1, <1>4, <1>6, CommitMessages
    <2>4. hist.unsure \union Kafka!TakenBack \in SUBSET Messages
          /\ hist.left \union Kafka!Below(p, w) \in SUBSET Messages
      BY <2>2, <2>3 DEF KafkaHists
    <2> QED BY <2>1, <2>2, <2>4 DEF KafkaHists
  <1>11. /\ OnePlace' /\ (\A q \in KParts : Committed(q)') /\ ContractStep
         /\ \A q, x : At(q, x)' = At(q, x)
         /\ \A q : Offsets(q)' = Offsets(q) /\ AskedAt(q)' = AskedAt(q) /\ Position(q)' = Position(q)
         /\ \A q \in KParts : q # p => LeftAt(q)' = LeftAt(q) /\ UnsureAt(q)' = UnsureAt(q)
         /\ LeftAt(p) \subseteq LeftAt(p)' /\ UnsureAt(p) \subseteq UnsureAt(p)'
         /\ \A x \in Nat : x < w => x \in LeftAt(p)'
         /\ \A x \in LeftAt(p)' : x \in LeftAt(p) \/ x < w
    <2>1. op.kind = "ack" /\ p = op.token.part /\ w = op.watermark
      BY <1>1, <1>4, <1>6
    <2>2. PICK none \in SUBSET Messages : none = {}
      OBVIOUS
    <2>3. none = {} \/ none = {At(p, x) : x \in broker.committed[p]..(w - 1)}
      BY <2>2
    <2>4. hist'.unsure = hist.unsure \union none \union Kafka!TakenBack
      BY <1>10, <2>2
    <2> QED BY <1>9, <1>10, <2>1, <2>3, <2>4, KafkaCommits
  <1> DEFINE d == LegacyDone(h, p, o)
             f == TokenDone(h, p, w, t)
             e == IF Kafka!TokenActive(h, t) \/ op.legacy THEN (IF op.legacy THEN d ELSE f) ELSE h
  <1>12. /\ d \in KafkaHandles /\ d.active = h.active /\ d.legacy = <<>>
         /\ d.consumer = h.consumer /\ d.retired = h.retired
         /\ d.consumerGen = h.consumerGen /\ d.assignEpoch = h.assignEpoch
         /\ d.inFlight = [h.inFlight EXCEPT ![p] = @ \ {o}]
         /\ d.watermarks = (IF h.inFlight[p] \ {o} = {} THEN [h.watermarks EXCEPT ![p] = -1] ELSE h.watermarks)
         /\ d.highWater = (IF h.inFlight[p] \ {o} = {} THEN [h.highWater EXCEPT ![p] = 0] ELSE h.highWater)
         /\ f \in KafkaHandles /\ f.active = h.active \ {<<p, o, t.attempt>>} /\ f.legacy = h.legacy
         /\ f.consumer = h.consumer /\ f.retired = h.retired
         /\ f.consumerGen = h.consumerGen /\ f.assignEpoch = h.assignEpoch
         /\ f.inFlight = h.inFlight
         /\ f.watermarks = [h.watermarks EXCEPT ![p] = IF h.inFlight[p] = {} THEN -1 ELSE w]
         /\ f.highWater = (IF h.inFlight[p] = {} THEN [h.highWater EXCEPT ![p] = 0] ELSE h.highWater)
    <2>1. t.part = p /\ t.offset = o
      BY <1>3, <1>4, <1>5
    <2>2. h \in KafkaHandles /\ p \in KParts /\ o \in Nat /\ w \in Nat
      OBVIOUS
    <2>3. LET g == LegacyDone(h, p, o)
              none == h.inFlight[p] \ {o} = {}
          IN  /\ g \in KafkaHandles /\ g.active = h.active /\ g.legacy = <<>>
              /\ g.consumer = h.consumer /\ g.retired = h.retired
              /\ g.consumerGen = h.consumerGen /\ g.assignEpoch = h.assignEpoch
              /\ g.inFlight = [h.inFlight EXCEPT ![p] = @ \ {o}]
              /\ g.watermarks = IF none THEN [h.watermarks EXCEPT ![p] = -1] ELSE h.watermarks
              /\ g.highWater = IF none THEN [h.highWater EXCEPT ![p] = 0] ELSE h.highWater
      BY ONLY <2>2, LegacyDoneHandles, Zenon
    <2>4. /\ f \in KafkaHandles /\ f.active = h.active \ {<<p, o, t.attempt>>} /\ f.legacy = h.legacy
          /\ f.consumer = h.consumer /\ f.retired = h.retired
          /\ f.consumerGen = h.consumerGen /\ f.assignEpoch = h.assignEpoch
          /\ f.inFlight = h.inFlight
          /\ f.watermarks = [h.watermarks EXCEPT ![p] = IF h.inFlight[p] = {} THEN -1 ELSE w]
          /\ f.highWater = (IF h.inFlight[p] = {} THEN [h.highWater EXCEPT ![p] = 0] ELSE h.highWater)
      BY ONLY <2>1, <2>2, TokenDoneHandles
    <2> QED BY ONLY <2>3, <2>4
  <1>13. Kafka!LeaseEnds(e)
    <2>1. t.part = p /\ t.offset = o
      BY <1>3, <1>4, <1>5
    <2> QED BY <1>3, <1>6, <1>7, <2>1 DEF Kafka!AckCommitted, LegacyDone, TokenDone
  <1> HIDE DEF d, f
  <1>14. PICK g \in KafkaHandles : g = e
    BY <1>12
  <1> HIDE DEF e
  <1>15. /\ table' \in Seq(KafkaHandles) /\ Len(table') = Len(table) /\ op'.kind = "idle"
         /\ conn.gen # 0 /\ ~g.retired => Cur' = g
    BY <1>1, <1>13, <1>14, LeaseTypes
  <1>16. KafkaTypes'
    BY <1>1, <1>9, <1>10, <1>15 DEF KafkaInv, KafkaTypes
  <1>17. ASSUME conn.gen # 0
         PROVE  /\ \A q \in KParts : Cohort(q)'
                /\ Attempts'
                /\ Cur'.consumer = Cur.consumer /\ Cur'.retired = Cur.retired
                /\ Cur'.consumerGen = Cur.consumerGen /\ Cur'.assignEpoch = Cur.assignEpoch
                /\ Cur'.active \subseteq Cur.active /\ Cur'.legacy \in {Cur.legacy, <<>>}
    <2>1. Reading /\ Committing /\ h = Cur /\ ~Cur.retired
      BY <1>2, <1>7, <1>17
    <2>2. g = (IF op.legacy THEN d ELSE f)
      BY <1>2, <1>3, <1>14, <1>17, <2>1 DEF e
    <2>3. Cur' = g
      BY <1>12, <1>15, <1>17, <2>1, <2>2
    <2>4. /\ Cur.inFlight \in [KParts -> SUBSET Nat] /\ Cur.watermarks \in [KParts -> Int]
          /\ Cur.highWater \in [KParts -> Nat] /\ Cur.active \subseteq KParts \X Nat \X Nat
      BY <1>2, <1>17 DEF KafkaHandles
    <2>5. CASE op.legacy
      <3>1. /\ Cur'.active = Cur.active /\ Cur'.legacy = <<>> /\ Cur'.consumer = Cur.consumer
            /\ Cur'.retired = Cur.retired /\ Cur'.consumerGen = Cur.consumerGen /\ Cur'.assignEpoch = Cur.assignEpoch
            /\ Cur'.inFlight = [Cur.inFlight EXCEPT ![p] = @ \ {o}]
        BY <1>12, <2>1, <2>2, <2>3, <2>5
      <3>2. InFlight(p) \subseteq {o} /\ Cur.legacy = <<p, o>> /\ LiveAt(p) = {} /\ w = o + 1
        BY <1>4, <1>5, <1>6, <2>1, <2>5 DEF Committing
      <3>3. /\ Cur'.watermarks = [Cur.watermarks EXCEPT ![p] = -1]
            /\ Cur'.highWater = [Cur.highWater EXCEPT ![p] = 0]
        BY <1>12, <2>1, <2>2, <2>3, <2>5, <3>2 DEF InFlight
      <3>4. InFlight(p)' = {} /\ Base(p)' = -1 /\ High(p)' = 0
        BY <2>4, <3>1, <3>2, <3>3 DEF InFlight, Base, High
      <3>5. \A q \in KParts : q # p => InFlight(q)' = InFlight(q) /\ Base(q)' = Base(q) /\ High(q)' = High(q)
        BY <2>4, <3>1, <3>3 DEF InFlight, Base, High
      <3>6. \A q : LiveAt(q)' = LiveAt(q)
        BY <3>1 DEF LiveAt
      <3>7. /\ \A q : SlotAt(q)' = {}
            /\ \A q \in KParts : q # p => SlotAt(q) = {}
        <4>1. \A q, x : <<>> # <<q, x>>
          OBVIOUS
        <4> QED BY <3>1, <3>2, <4>1 DEF SlotAt
      <3>8. ASSUME NEW q \in KParts
            PROVE  Cohort(q)'
        <4>1. CASE q = p
          <5>1. o \in LeftAt(p)'
            BY <1>11, <3>2
          <5>2. Cohort(p)'
            BY <1>1, <1>4, <1>5, <1>9, <1>11, <2>1, <2>5, <3>2, <3>4, <3>6, <3>7, <5>1, CohortLegacyCommitted
          <5> QED BY <4>1, <5>2
        <4>2. CASE q # p
          <5>1. SamePartition(q) /\ SameCohort(q)
            BY <1>9, <1>11, <3>5, <3>6, <3>7, <4>2 DEF SamePartition, SameCohort
          <5> QED BY <2>1, <5>1, CohortKept DEF KafkaInv
        <4> QED BY <4>1, <4>2
      <3>9. Attempts'
        <4>1. ASSUME NEW x \in Cur.active
              PROVE  x[2] \in InFlight(x[1])'
          <5>1. x[1] \in KParts /\ x[2] \in Nat /\ x[3] \in Nat /\ x = <<x[1], x[2], x[3]>>
            BY <2>4
          <5>2. x[2] \in LiveAt(x[1])
            BY <5>1 DEF LiveAt
          <5>3. x[1] # p
            BY <3>2, <5>2
          <5>4. x # <<op.token.part, op.token.offset, op.token.attempt>>
            BY <1>4, <5>3
          <5> QED BY <2>1, <3>5, <5>1, <5>3, <5>4 DEF KafkaInv, Attempts
        <4> QED BY <2>1, <3>1, <4>1 DEF KafkaInv, Attempts
      <3> QED BY <3>1, <3>8, <3>9
    <2>6. CASE ~op.legacy
      <3>1. /\ Cur'.active = Cur.active \ {<<p, o, a>>} /\ Cur'.legacy = Cur.legacy /\ Cur'.consumer = Cur.consumer
            /\ Cur'.retired = Cur.retired /\ Cur'.consumerGen = Cur.consumerGen /\ Cur'.assignEpoch = Cur.assignEpoch
            /\ Cur'.inFlight = Cur.inFlight
            /\ Cur'.watermarks = [Cur.watermarks EXCEPT ![p] = IF InFlight(p) = {} THEN -1 ELSE w]
            /\ Cur'.highWater = (IF InFlight(p) = {} THEN [Cur.highWater EXCEPT ![p] = 0] ELSE Cur.highWater)
        BY <1>8, <1>12, <2>1, <2>2, <2>3, <2>6 DEF InFlight
      <3>2. <<p, o, a>> \in Cur.active /\ a \in Nat /\ o \in LiveAt(p)
        <4>1. <<p, o, a>> \in Cur.active
          BY <1>3, <1>4, <1>5, <1>8, <2>1, <2>6 DEF Committing, TokenLive
        <4>2. a \in Nat
          BY <2>4, <4>1
        <4> QED BY <4>1, <4>2 DEF LiveAt
      <3>3. \A x \in Cur.active : x[1] = p /\ x[2] = o => x = <<p, o, a>>
        BY <2>1, <3>2 DEF KafkaInv, Attempts
      <3>4. /\ LiveAt(p)' = LiveAt(p) \ {o}
            /\ \A q \in KParts : q # p => LiveAt(q)' = LiveAt(q)
        <4>1. \A q, x, b : <<q, x, b>> \in Cur'.active <=> <<q, x, b>> \in Cur.active /\ <<q, x, b>> # <<p, o, a>>
          BY <3>1
        <4>2. ASSUME NEW x \in LiveAt(p)'
              PROVE  x \in LiveAt(p) /\ x # o
          <5>1. PICK b \in Nat : <<p, x, b>> \in Cur'.active
            BY <4>2 DEF LiveAt
          <5>2. <<p, x, b>> \in Cur.active /\ <<p, x, b>> # <<p, o, a>>
            BY <4>1, <5>1
          <5>3. x # o
            BY <3>3, <5>2
          <5> QED BY <4>2, <5>1, <5>2, <5>3 DEF LiveAt
        <4>3. ASSUME NEW x \in LiveAt(p), x # o
              PROVE  x \in LiveAt(p)'
          BY <4>1, <4>3 DEF LiveAt
        <4>4. ASSUME NEW q \in KParts, q # p
              PROVE  LiveAt(q)' = LiveAt(q)
          <5>1. \A x, b : <<q, x, b>> \in Cur'.active <=> <<q, x, b>> \in Cur.active
            BY <4>1, <4>4
          <5> QED BY <5>1 DEF LiveAt
        <4> QED BY <4>2, <4>3, <4>4
      <3>5. \A q : InFlight(q)' = InFlight(q) /\ SlotAt(q)' = SlotAt(q)
        BY <3>1 DEF InFlight, SlotAt
      <3>6. IF InFlight(p) = {} THEN Base(p)' = -1 /\ High(p)' = 0 ELSE Base(p)' = w /\ High(p)' = High(p)
        BY <2>4, <3>1 DEF Base, High
      <3>7. \A q \in KParts : q # p => Base(q)' = Base(q) /\ High(q)' = High(q)
        BY <2>4, <3>1 DEF Base, High
      <3>8. ASSUME NEW q \in KParts
            PROVE  Cohort(q)'
        <4>1. CASE q = p
          <5>1. Cohort(p)'
            BY <1>1, <1>4, <1>5, <1>6, <1>9, <1>11, <2>1, <2>6, <3>2, <3>4, <3>5, <3>6, CohortCommitted
          <5> QED BY <4>1, <5>1
        <4>2. CASE q # p
          <5>1. SamePartition(q) /\ SameCohort(q)
            BY <1>9, <1>11, <3>4, <3>5, <3>7, <4>2 DEF SamePartition, SameCohort
          <5> QED BY <2>1, <5>1, CohortKept DEF KafkaInv
        <4> QED BY <4>1, <4>2
      <3>9. Attempts'
        <4>1. <<p, o, a>> = <<op.token.part, op.token.offset, op.token.attempt>>
          BY <1>3, <1>4, <1>5, <1>8
        <4>2. ASSUME NEW x \in Cur'.active
              PROVE  x \in Cur.active /\ x[2] \in InFlight(x[1])'
          <5>1. x \in Cur.active /\ x # <<op.token.part, op.token.offset, op.token.attempt>>
            BY <3>1, <4>1, <4>2
          <5> QED BY <2>1, <3>5, <5>1 DEF KafkaInv, Attempts
        <4> QED BY <2>1, <4>2 DEF KafkaInv, Attempts
      <3> QED BY <3>1, <3>8, <3>9
    <2> QED BY <1>2, <2>5, <2>6
  <1>18. KafkaInv'
    BY <1>1, <1>10, <1>11, <1>15, <1>16, <1>17, KafkaSettled
  <1> QED BY <1>11, <1>18

\* The commit of an ack raises: the servers may have taken it.
LEMMA KafkaAckFailed ==
  ASSUME KafkaInv, which = "kafka", which' = which, NEW taken \in BOOLEAN, Kafka!AckFailed(taken)
  PROVE  KafkaInv' /\ ContractStep
  <1>1. op.kind = "ack" /\ conn' = conn /\ tokens' = tokens
    BY DEF Kafka!AckFailed
  <1>2. /\ op.token.part \in KParts /\ op.token.offset \in Nat /\ op.watermark \in Nat /\ op.legacy \in BOOLEAN
        /\ op.gen \in 1..Len(table) /\ table[op.gen] \in KafkaHandles
        /\ conn.gen # 0 => /\ Reading /\ Committing /\ table[op.gen] = Cur /\ Cur \in KafkaHandles /\ ~Cur.retired
                           /\ ~op.legacy => Kafka!TokenActive(Cur, op.token)
    BY <1>1, AckOpen
  <1>3. PICK p \in KParts : p = op.token.part
    BY <1>2
  <1>4. PICK o \in Nat : o = op.token.offset
    BY <1>2
  <1>5. PICK w \in Nat : w = op.watermark
    BY <1>2
  <1>6. PICK h \in KafkaHandles : h = table[op.gen]
    BY <1>2
  <1>7. PICK g \in KafkaHandles : g = IF ~op.legacy /\ Kafka!TokenActive(h, op.token) THEN PutBack(h, p, o) ELSE h
    BY PutBackHandles
  <1>8. Kafka!LeaseEnds(g)
    BY <1>3, <1>4, <1>6, <1>7 DEF Kafka!AckFailed, PutBack
  <1>9. /\ table' \in Seq(KafkaHandles) /\ Len(table') = Len(table) /\ op'.kind = "idle"
        /\ conn.gen # 0 /\ ~g.retired => Cur' = g
    BY <1>1, <1>8, LeaseTypes
  <1>10. /\ broker' \in KafkaBrokers /\ hist' \in KafkaHists /\ hist'.holders = hist.holders
         /\ broker'.log = broker.log /\ broker'.assigned = broker.assigned
         /\ OnePlace' /\ (\A q \in KParts : Committed(q)') /\ ContractStep
         /\ \A q, x : At(q, x)' = At(q, x)
         /\ \A q : Offsets(q)' = Offsets(q) /\ AskedAt(q)' = AskedAt(q) /\ Position(q)' = Position(q)
         /\ \A q \in KParts : q # p => LeftAt(q)' = LeftAt(q) /\ UnsureAt(q)' = UnsureAt(q)
         /\ LeftAt(p) \subseteq LeftAt(p)' /\ UnsureAt(p) \subseteq UnsureAt(p)'
         /\ \A x \in LeftAt(p)' : x \in LeftAt(p) \/ x \in UnsureAt(p)'
    <2>1. CASE taken
      <3> DEFINE S == {Kafka!MessageAt(p, x) : x \in broker.committed[p]..(w - 1)}
      <3>1. Kafka!Commits(broker)
            /\ hist' = [hist EXCEPT !.unsure = hist.unsure \union S \union Kafka!TakenBack,
                                    !.left = hist.left \union Kafka!Below(p, w)]
        BY <1>3, <1>5, <2>1 DEF Kafka!AckFailed
      <3>2. /\ broker' \in KafkaBrokers /\ broker'.log = broker.log /\ broker'.position = broker.position
            /\ broker'.assigned = broker.assigned /\ broker'.committed = [broker.committed EXCEPT ![p] = w]
        BY <1>1, <1>3, <1>5, <3>1, BrokerCommits
      <3>3. S = {At(p, x) : x \in broker.committed[p]..(w - 1)}
        BY DEF Kafka!MessageAt, At
      <3>4. Kafka!TakenBack \subseteq Messages /\ Kafka!Below(p, w) \subseteq Messages /\ S \subseteq Messages
        BY <1>1, <1>3, <1>5, CommitMessages
      <3>5. S # {} \/ broker.committed[p] >= w
        <4>1. broker.committed[p] \in Nat
          BY DEF KafkaInv, KafkaTypes, KafkaBrokers
        <4>2. broker.committed[p] < w => broker.committed[p] \in broker.committed[p]..(w - 1)
          BY <4>1
        <4>3. broker.committed[p] < w => Kafka!MessageAt(p, broker.committed[p]) \in S
          BY <4>2
        <4> QED BY <4>1, <4>3
      <3>6. PICK settled \in SUBSET Messages : settled = S
        BY <3>4
      <3>7. /\ settled = {} \/ settled = {At(p, x) : x \in broker.committed[p]..(w - 1)}
            /\ hist' = [hist EXCEPT !.unsure = hist.unsure \union settled \union Kafka!TakenBack,
                                    !.left = hist.left \union Kafka!Below(p, w)]
            /\ settled # {} \/ broker.committed[p] >= w
        BY <3>1, <3>3, <3>5, <3>6
      <3> HIDE DEF S
      <3>8. /\ hist' \in KafkaHists /\ hist'.asked = hist.asked /\ hist'.left = hist.left \union Kafka!Below(p, w)
            /\ hist'.unsure = hist.unsure \union settled \union Kafka!TakenBack /\ hist'.holders = hist.holders
        <4>1. hist \in KafkaHists
          BY DEF KafkaInv, KafkaTypes
        <4>2. hist.unsure \union settled \union Kafka!TakenBack \in SUBSET Messages
              /\ hist.left \union Kafka!Below(p, w) \in SUBSET Messages
          BY <3>4, <3>6, <4>1 DEF KafkaHists
        <4> QED BY <3>7, <4>1, <4>2 DEF KafkaHists
      <3>9. op.kind = "ack" /\ p = op.token.part /\ w = op.watermark
        BY <1>1, <1>3, <1>5
      <3>10. /\ OnePlace' /\ (\A q \in KParts : Committed(q)') /\ ContractStep
             /\ \A q, x : At(q, x)' = At(q, x)
             /\ \A q : Offsets(q)' = Offsets(q) /\ AskedAt(q)' = AskedAt(q) /\ Position(q)' = Position(q)
             /\ \A q \in KParts : q # p => LeftAt(q)' = LeftAt(q) /\ UnsureAt(q)' = UnsureAt(q)
             /\ LeftAt(p) \subseteq LeftAt(p)' /\ UnsureAt(p) \subseteq UnsureAt(p)'
             /\ settled # {} \/ broker.committed[p] >= w => \A x \in LeftAt(p)' : x \in LeftAt(p) \/ x \in UnsureAt(p)'
        BY <3>2, <3>7, <3>8, <3>9, KafkaCommits
      <3> QED BY <3>2, <3>7, <3>8, <3>10
    <2>2. CASE ~taken
      <3>1. hist' = hist /\ broker' \in {broker, Kafka!Left(broker, h.consumer)}
        BY <1>6, <2>2 DEF Kafka!AckFailed
      <3>2. broker \in KafkaBrokers /\ hist \in KafkaHists
        BY DEF KafkaInv, KafkaTypes
      <3>3. /\ broker' \in KafkaBrokers /\ broker'.log = broker.log /\ broker'.assigned = broker.assigned
            /\ broker'.position = broker.position /\ broker'.committed = broker.committed
        <4>1. Kafka!Left(broker, h.consumer) \in KafkaBrokers
          BY <3>2 DEF Kafka!Left, KafkaBrokers, KParts, Kafka!NoConsumer
        <4> QED BY <3>1, <3>2, <4>1 DEF Kafka!Left, KafkaBrokers
      <3>4. /\ \A q \in KParts :
                 /\ Offsets(q)' = Offsets(q) /\ Len(broker'.log[q]) = Len(broker.log[q])
                 /\ AskedAt(q)' = AskedAt(q) /\ LeftAt(q)' = LeftAt(q) /\ UnsureAt(q)' = UnsureAt(q)
            /\ \A q, x : At(q, x)' = At(q, x)
            /\ OnePlace'
        BY <3>1, <3>3, SameLogs DEF KafkaInv
      <3>5. \A q : Offsets(q)' = Offsets(q) /\ AskedAt(q)' = AskedAt(q) /\ Position(q)' = Position(q)
        <4>1. \A q : Offsets(q)' = Offsets(q) /\ Position(q)' = Position(q)
          BY <3>3 DEF Offsets, Position
        <4> QED BY <3>1, <3>4, <4>1 DEF AskedAt
      <3>6. \A q \in KParts : Committed(q)'
        BY <3>3, <3>4, <3>5 DEF KafkaInv, Committed
      <3>7. ContractStep
        BY <3>1, <3>3, KafkaSame
      <3> QED BY <3>1, <3>2, <3>3, <3>4, <3>5, <3>6, <3>7
    <2> QED BY <2>1, <2>2
  <1>11. KafkaTypes'
    BY <1>1, <1>9, <1>10 DEF KafkaInv, KafkaTypes
  <1>12. ASSUME conn.gen # 0
         PROVE  /\ \A q \in KParts : Cohort(q)'
                /\ Attempts'
                /\ Cur'.consumer = Cur.consumer /\ Cur'.retired = Cur.retired
                /\ Cur'.consumerGen = Cur.consumerGen /\ Cur'.assignEpoch = Cur.assignEpoch
                /\ Cur'.active \subseteq Cur.active /\ Cur'.legacy \in {Cur.legacy, <<>>}
    <2>1. Reading /\ Committing /\ h = Cur /\ ~Cur.retired
      BY <1>2, <1>6, <1>12
    <2>2. /\ Cur.inFlight \in [KParts -> SUBSET Nat] /\ Cur.watermarks \in [KParts -> Int]
          /\ Cur.highWater \in [KParts -> Nat] /\ Cur.active \subseteq KParts \X Nat \X Nat
      BY <1>2, <1>12 DEF KafkaHandles
    <2>3. PICK F \in [KParts -> SUBSET Nat] :
            F = IF op.legacy THEN Cur.inFlight ELSE [Cur.inFlight EXCEPT ![p] = @ \union {o}]
      BY <2>2
    <2>4. /\ g.active = Cur.active /\ g.legacy = Cur.legacy /\ g.consumer = Cur.consumer
          /\ g.retired = Cur.retired /\ g.consumerGen = Cur.consumerGen /\ g.assignEpoch = Cur.assignEpoch
          /\ g.inFlight = F /\ g.watermarks = Cur.watermarks /\ g.highWater = Cur.highWater
      <3>1. CASE op.legacy
        BY <1>7, <2>1, <2>3, <3>1
      <3>2. CASE ~op.legacy
        <4>1. g = PutBack(h, p, o)
          BY <1>2, <1>7, <1>12, <2>1, <3>2
        <4>2. h \in KafkaHandles /\ p \in KParts /\ o \in Nat
          OBVIOUS
        <4>3. /\ PutBack(h, p, o).active = h.active /\ PutBack(h, p, o).legacy = h.legacy
              /\ PutBack(h, p, o).consumer = h.consumer /\ PutBack(h, p, o).retired = h.retired
              /\ PutBack(h, p, o).consumerGen = h.consumerGen /\ PutBack(h, p, o).assignEpoch = h.assignEpoch
              /\ PutBack(h, p, o).inFlight = [h.inFlight EXCEPT ![p] = @ \union {o}]
              /\ PutBack(h, p, o).watermarks = h.watermarks /\ PutBack(h, p, o).highWater = h.highWater
          BY ONLY <4>2, PutBackHandles
        <4> QED BY <2>1, <2>3, <3>2, <4>1, <4>3
      <3> QED BY <1>2, <3>1, <3>2
    <2>5. Cur' = g
      BY <1>9, <1>12, <2>1, <2>4
    <2>6. /\ \A q : LiveAt(q)' = LiveAt(q) /\ SlotAt(q)' = SlotAt(q) /\ Base(q)' = Base(q) /\ High(q)' = High(q)
          /\ \A q \in KParts : InFlight(q)' = F[q]
      <3>1. \A q : LiveAt(q)' = LiveAt(q)
        BY <2>4, <2>5 DEF LiveAt
      <3>2. \A q : SlotAt(q)' = SlotAt(q) /\ Base(q)' = Base(q) /\ High(q)' = High(q)
        BY <2>4, <2>5 DEF SlotAt, Base, High
      <3>3. \A q \in KParts : InFlight(q)' = F[q]
        BY <2>4, <2>5 DEF InFlight
      <3> QED BY <3>1, <3>2, <3>3
    <2>7. /\ InFlight(p) \subseteq F[p] /\ F[p] \subseteq InFlight(p) \union {o}
          /\ ~op.legacy => o \in F[p]
          /\ op.legacy => F[p] = InFlight(p)
          /\ \A q \in KParts : q # p => F[q] = InFlight(q)
      BY <2>2, <2>3 DEF InFlight
    <2>8. /\ ~op.legacy => o \in LiveAt(p)
          /\ op.legacy => LiveAt(p) = {} /\ o \in SlotAt(p)
          /\ p \in broker.assigned
      <3>1. ASSUME ~op.legacy
            PROVE  o \in LiveAt(p)
        <4>1. PICK a : a = op.token.attempt
          OBVIOUS
        <4>2. <<p, o, a>> \in Cur.active
          BY <1>3, <1>4, <2>1, <3>1, <4>1 DEF Committing, TokenLive
        <4> QED BY <2>2, <4>2 DEF LiveAt
      <3>2. op.legacy => LiveAt(p) = {} /\ o \in SlotAt(p)
        BY <1>3, <1>4, <2>1 DEF Committing, SlotAt
      <3> QED BY <1>3, <2>1, <3>1, <3>2 DEF Committing
    <2>9. ASSUME NEW q \in KParts
          PROVE  Cohort(q)'
      <3>1. CASE q = p
        <4>1. InFlight(p)' \subseteq InFlight(p) \union LiveAt(p) /\ InFlight(p) \subseteq InFlight(p)'
          BY <1>2, <2>6, <2>7, <2>8
        <4>2. LiveAt(p) # {} \/ SlotAt(p) # {}
          BY <1>2, <2>8
        <4>3. Cohort(p)'
          BY <1>10, <2>1, <2>6, <2>8, <4>1, <4>2, CohortFailed
        <4> QED BY <3>1, <4>3
      <3>2. CASE q # p
        <4>1. SamePartition(q) /\ SameCohort(q)
          BY <1>10, <2>6, <2>7, <3>2 DEF SamePartition, SameCohort
        <4> QED BY <2>1, <4>1, CohortKept DEF KafkaInv
      <3> QED BY <3>1, <3>2
    <2>10. Attempts'
      <3>1. ASSUME NEW x \in Cur.active
            PROVE  x[2] \in InFlight(x[1])'
        <4>1. x[1] \in KParts /\ x[2] \in Nat /\ x[3] \in Nat /\ x = <<x[1], x[2], x[3]>>
          BY <2>2
        <4>2. CASE x[2] \in InFlight(x[1])
          <5>1. x[2] \in F[x[1]]
            BY <2>7, <4>1, <4>2
          <5> QED BY <2>6, <4>1, <5>1
        <4>3. CASE x[2] \notin InFlight(x[1])
          <5>1. x[1] = p /\ x[2] = o
            BY <1>3, <1>4, <2>1, <4>3 DEF KafkaInv, Attempts
          <5>2. x[2] \in LiveAt(x[1])
            BY <4>1 DEF LiveAt
          <5>3. ~op.legacy
            BY <2>8, <5>1, <5>2
          <5> QED BY <2>6, <2>7, <5>1, <5>3
        <4> QED BY <4>2, <4>3
      <3> QED BY <2>1, <2>4, <2>5, <3>1 DEF KafkaInv, Attempts
    <2> QED BY <2>4, <2>5, <2>9, <2>10
  <1>13. KafkaInv'
    BY <1>1, <1>9, <1>10, <1>11, <1>12, KafkaSettled
  <1> QED BY <1>10, <1>13

----------------------------------------------------------------------------
(* Nacks. *)

\* A nack moves the consumer back to its offset.
LEMMA KafkaSeeks ==
  ASSUME KafkaInv, which = "kafka", which' = which, NEW p \in KParts, NEW o \in Offsets(p),
         p \in broker.assigned, o \in LeftAt(p) => o \in UnsureAt(p), Kafka!SeekBack(p, o)
  PROVE  /\ broker' \in KafkaBrokers /\ hist' \in KafkaHists /\ hist'.holders = hist.holders
         /\ broker'.log = broker.log /\ broker'.assigned = broker.assigned
         /\ OnePlace' /\ (\A q \in KParts : Committed(q)') /\ ContractStep
         /\ \A q, x : At(q, x)' = At(q, x)
         /\ \A q : Offsets(q)' = Offsets(q) /\ AskedAt(q)' = AskedAt(q) /\ LeftAt(q)' = LeftAt(q)
         /\ Position(p)' = o /\ UnsureAt(p) \subseteq UnsureAt(p)'
         /\ \A x \in Nat : o < x /\ x < Position(p) => x \in UnsureAt(p)'
         /\ \A q \in KParts : q # p => Position(q)' = Position(q) /\ UnsureAt(q)' = UnsureAt(q)
  <1> DEFINE S == {Kafka!MessageAt(p, x) : x \in (o + 1)..(broker.position[p] - 1)}
             P == [broker.position EXCEPT ![p] = o]
  <1>1. broker \in KafkaBrokers /\ hist \in KafkaHists /\ o \in Nat
    BY DEF KafkaInv, KafkaTypes, Offsets
  <1>2. P \in [KParts -> Nat] /\ P[p] = o /\ \A q \in KParts : q # p => P[q] = broker.position[q]
    BY <1>1 DEF KafkaBrokers
  <1>3. broker' = [broker EXCEPT !.position = P] /\ hist' = [hist EXCEPT !.unsure = hist.unsure \union S]
    BY <1>1 DEF Kafka!SeekBack, KafkaBrokers
  <1>4. Position(p) \in Nat /\ Len(broker.log[p]) \in Nat /\ Position(p) <= Len(broker.log[p])
    BY <1>1 DEF KafkaBrokers, Position, KafkaInv, Committed
  <1>5. \A x \in (o + 1)..(broker.position[p] - 1) : x \in Offsets(p) /\ x \in Nat /\ o < x /\ x < Position(p)
    BY <1>1, <1>4 DEF Offsets, Position
  <1>6. S = {At(p, x) : x \in (o + 1)..(broker.position[p] - 1)}
    BY DEF Kafka!MessageAt, At
  <1>7. S \in SUBSET Messages /\ S \subseteq Kafka!Accepted
    <2>1. \A x \in Offsets(p) : At(p, x) \in Kafka!Accepted /\ At(p, x) \in Messages
      BY AcceptedAt DEF KafkaInv
    <2> QED BY <1>5, <1>6, <2>1
  <1> HIDE DEF S, P
  <1>8. /\ broker' \in KafkaBrokers /\ broker'.log = broker.log /\ broker'.assigned = broker.assigned
        /\ broker'.committed = broker.committed /\ broker'.position = P
    BY <1>1, <1>2, <1>3 DEF KafkaBrokers
  <1>9. /\ hist' \in KafkaHists /\ hist'.asked = hist.asked /\ hist'.left = hist.left
        /\ hist'.unsure = hist.unsure \union S /\ hist'.holders = hist.holders
    <2>1. hist.unsure \union S \in SUBSET Messages
      BY <1>1, <1>7 DEF KafkaHists
    <2> QED BY <1>1, <1>3, <2>1 DEF KafkaHists
  <1>10. \A q, x : At(q, x)' = At(q, x)
    BY <1>8 DEF At
  <1>11. \A q : Offsets(q)' = Offsets(q)
    BY <1>8 DEF Offsets
  <1>12. \A q : AskedAt(q)' = AskedAt(q) /\ LeftAt(q)' = LeftAt(q)
    BY <1>9, <1>10, <1>11 DEF AskedAt, LeftAt
  <1>13. Position(p)' = o /\ \A q \in KParts : q # p => Position(q)' = Position(q)
    BY <1>2, <1>8 DEF Position
  <1>14. \A q : \A x \in Offsets(q) : x \in UnsureAt(q)' <=> x \in UnsureAt(q) \/ At(q, x) \in S
    BY <1>9, <1>10, <1>11 DEF UnsureAt
  <1>15. \A q : UnsureAt(q) \subseteq Offsets(q) /\ UnsureAt(q)' \subseteq Offsets(q) /\ LeftAt(q) \subseteq Offsets(q)
    BY <1>11 DEF UnsureAt, LeftAt
  <1>16. \A q : UnsureAt(q) \subseteq UnsureAt(q)'
    BY <1>14, <1>15
  <1>17. ASSUME NEW x \in Nat, o < x, x < Position(p)
         PROVE  x \in UnsureAt(p)'
    <2>1. x \in (o + 1)..(broker.position[p] - 1)
      BY <1>1, <1>4, <1>17 DEF Position
    <2> QED BY <1>5, <1>6, <1>14, <2>1
  <1>18. ASSUME NEW q \in KParts, q # p
         PROVE  UnsureAt(q)' = UnsureAt(q)
    <2>1. ASSUME NEW x \in Offsets(q), At(q, x) \in S
          PROVE  FALSE
      <3>1. PICK y \in Offsets(p) : At(q, x) = At(p, y)
        BY <1>5, <1>6, <2>1
      <3> QED BY <1>18, <3>1 DEF KafkaInv, OnePlace
    <2> QED BY <1>14, <1>15, <2>1
  <1>19. Kafka!Accepted' = Kafka!Accepted
    BY <1>8 DEF Kafka!Accepted
  <1>20. OnePlace'
    BY <1>7, <1>9, <1>10, <1>11, <1>19 DEF KafkaInv, OnePlace
  <1>21. ContractStep
    BY <1>7, <1>9, <1>19, KafkaMapped, KafkaMappedNext, PromisesRewind
  <1>22. ASSUME NEW q \in KParts
         PROVE  Committed(q)'
    <2>1. CASE q # p
      BY <1>8, <1>11, <1>12, <1>13, <1>18, <2>1 DEF KafkaInv, Committed
    <2>2. CASE q = p
      <3>1. ASSUME NEW x \in LeftAt(p), x >= o
            PROVE  x \in UnsureAt(p)'
        <4>1. x \in Nat
          BY <1>15 DEF Offsets
        <4>2. CASE x = o
          BY <1>16, <3>1, <4>2
        <4>3. CASE o < x /\ x < Position(p)
          BY <1>17, <4>1, <4>3
        <4>4. CASE x >= Position(p)
          BY <1>16, <4>4 DEF KafkaInv, Committed
        <4> QED BY <1>1, <1>4, <3>1, <4>1, <4>2, <4>3, <4>4
      <3>2. Committed(p)
        BY DEF KafkaInv
      <3>3. o <= Len(broker.log[p])
        BY <1>4 DEF Offsets
      <3>4. Committed(p)'
        BY <1>8, <1>12, <1>13, <1>16, <3>1, <3>2, <3>3 DEF Committed
      <3> QED BY <2>2, <3>4
    <2> QED BY <2>1, <2>2
  <1> QED BY <1>8, <1>9, <1>10, <1>11, <1>12, <1>13, <1>16, <1>17, <1>18, <1>20, <1>21, <1>22

\* The consumer is back at a nacked offset o.
SoughtBack(p, o) ==
  /\ broker'.log = broker.log /\ broker'.assigned = broker.assigned
  /\ Offsets(p)' = Offsets(p) /\ AskedAt(p)' = AskedAt(p) /\ LeftAt(p)' = LeftAt(p)
  /\ Position(p)' = o /\ UnsureAt(p) \subseteq UnsureAt(p)'
  /\ \A x \in Nat : o < x /\ x < Position(p) => x \in UnsureAt(p)'

LEMMA CohortNacked ==
  ASSUME KafkaInv, Reading, NEW p \in KParts, NEW o \in LiveAt(p), o \in InFlight(p), p \in broker.assigned,
         SoughtBack(p, o), InFlight(p)' = InFlight(p), SlotAt(p)' = SlotAt(p), LiveAt(p)' = LiveAt(p) \ {o},
         Base(p)' = Base(p), High(p)' = High(p)
  PROVE  Cohort(p)'
  <1>1. Cohort(p) /\ (\A z : ~Loose(p, z)) /\ conn.gen # 0
    BY DEF KafkaInv, Loose, Reading
  <1>2. o \in Nat /\ Position(p) \in Nat /\ High(p) \in Nat /\ Base(p) \in Int /\ Base(p) # -1 /\ o < High(p)
    <2>1. Position(p) \in Nat /\ High(p) \in Nat /\ Base(p) \in Int
      BY <1>1, CurTyped
    <2> QED BY <1>1, <2>1 DEF Cohort, Entries, LiveAt
  <1>3. Entries(p)'
    BY <1>1 DEF Cohort, Entries, SoughtBack
  <1>4. Accounted(p)'
    <2> SUFFICES ASSUME NEW x \in Nat, x < o \/ x < High(p) \/ \E y \in SlotAt(p) : x < y
                 PROVE  x \in InFlight(p) \/ x \in AskedAt(p) \/ x \in LeftAt(p)
      BY DEF Accounted, SoughtBack
    <2>1. x < High(p) \/ \E y \in SlotAt(p) : x < y
      BY <1>2
    <2> QED BY <1>1, <2>1 DEF Cohort, Accounted
  <1>5. Reread(p)'
    <2>1. ASSUME NEW x \in AskedAt(p), x >= o, x < High(p) \/ \E y \in SlotAt(p) : x < y
          PROVE  x \in InFlight(p) \/ x \in UnsureAt(p)'
      <3>1. x \in Nat
        BY DEF AskedAt, Offsets
      <3>2. CASE x >= Position(p)
        BY <1>1, <2>1, <3>2 DEF Cohort, Reread, SoughtBack
      <3> QED BY <1>2, <2>1, <3>1, <3>2 DEF SoughtBack
    <2>2. ASSUME NEW x \in (LiveAt(p) \ {o}) \union SlotAt(p), x >= o \/ x \in LeftAt(p)
          PROVE  x \in UnsureAt(p)'
      <3>1. x \in Nat
        BY DEF LiveAt, SlotAt
      <3>2. CASE x >= Position(p) \/ x \in LeftAt(p)
        BY <1>1, <2>2, <3>2 DEF Cohort, Reread, SoughtBack
      <3>3. CASE x = o
        BY <1>1, <2>2, <3>3 DEF Cohort, Reread, SoughtBack
      <3> QED BY <1>2, <2>2, <3>1, <3>2, <3>3 DEF SoughtBack
    <2>3. \A x \in SlotAt(p) : x \in LiveAt(p) \ {o} \/ x \notin InFlight(p) => x \in UnsureAt(p)'
      BY <1>1 DEF Cohort, Reread, SoughtBack
    <2> QED BY <2>1, <2>2, <2>3 DEF Reread, SoughtBack
  <1>6. BasePassed(p)'
    <2>1. WatermarkBase(p)' = Base(p) /\ WatermarkBase(p) = Base(p)
      BY <1>2 DEF WatermarkBase
    <2> QED BY <1>1, <1>2, <2>1 DEF Cohort, BasePassed, SoughtBack
  <1> QED BY <1>3, <1>4, <1>5, <1>6 DEF Cohort

LEMMA CohortNackedLegacy ==
  ASSUME KafkaInv, Reading, NEW p \in KParts, NEW o \in Offsets(p), p \in broker.assigned, SlotAt(p) = {o},
         SoughtBack(p, o), SlotAt(p)' = {}, LiveAt(p)' = LiveAt(p),
         IF LiveAt(p) # {} THEN InFlight(p)' = InFlight(p) /\ Base(p)' = Base(p) /\ High(p)' = High(p)
         ELSE /\ InFlight(p)' = InFlight(p) \ {o}
              /\ IF InFlight(p) \ {o} = {} THEN Base(p)' = -1 /\ High(p)' = 0
                 ELSE Base(p)' = Base(p) /\ High(p)' = High(p)
  PROVE  Cohort(p)'
  <1>1. Cohort(p) /\ (\A z : ~Loose(p, z)) /\ conn.gen # 0
    BY DEF KafkaInv, Loose, Reading
  <1>2. o \in Nat /\ Position(p) \in Nat /\ High(p) \in Nat /\ Base(p) \in Int /\ Len(broker.log[p]) \in Nat
        /\ LiveAt(p) \subseteq Nat /\ InFlight(p) \subseteq Nat
    <2>1. Position(p) \in Nat /\ High(p) \in Nat /\ Base(p) \in Int /\ Len(broker.log[p]) \in Nat
          /\ InFlight(p) \subseteq Nat
      BY <1>1, CurTyped
    <2> QED BY <2>1 DEF Offsets, LiveAt
  <1>3. Entries(p)'
    <2>1. High(p)' <= Len(broker.log[p]) /\ Base(p)' <= High(p)' /\ Base(p)' >= -1
      BY <1>1, <1>2 DEF Cohort, Entries
    <2>2. \A x \in InFlight(p)' \union LiveAt(p) : x < High(p)' /\ Base(p)' >= 0
      BY <1>1 DEF Cohort, Entries
    <2>3. InFlight(p)' \subseteq InFlight(p)
      OBVIOUS
    <2> QED BY <1>1, <2>1, <2>2, <2>3 DEF Cohort, Entries, SoughtBack
  <1>4. /\ High(p)' \in Nat /\ High(p)' <= High(p)
        /\ \A x \in InFlight(p) : x \in InFlight(p)' \/ (x = o /\ LiveAt(p) = {})
    BY <1>2
  <1>5. LiveAt(p) = {} => Loose(p, o)'
    BY DEF Loose, SoughtBack
  <1>6. Accounted(p)'
    <2> SUFFICES ASSUME NEW x \in Nat, x < o \/ x < High(p)'
                 PROVE  x \in InFlight(p)' \/ x \in AskedAt(p) \/ x \in LeftAt(p) \/ Loose(p, x)'
      BY DEF Accounted, SoughtBack
    <2>1. x < High(p) \/ \E y \in SlotAt(p) : x < y
      BY <1>2, <1>4
    <2>2. x \in InFlight(p) \/ x \in AskedAt(p) \/ x \in LeftAt(p)
      BY <1>1, <2>1 DEF Cohort, Accounted
    <2> QED BY <1>4, <1>5, <2>2
  <1>7. Reread(p)'
    <2>1. ASSUME NEW x \in AskedAt(p), x >= o, x < High(p)'
          PROVE  x \in InFlight(p)' \/ x \in UnsureAt(p)' \/ Loose(p, x)'
      <3>1. x \in Nat /\ x < High(p)
        BY <1>2, <1>4, <2>1 DEF AskedAt, Offsets
      <3>2. CASE x >= Position(p)
        <4>1. x \in InFlight(p) \/ x \in UnsureAt(p)
          BY <1>1, <3>1, <3>2 DEF Cohort, Reread
        <4> QED BY <1>4, <1>5, <4>1 DEF SoughtBack
      <3>3. CASE x = o
        <4>1. x \in InFlight(p) \/ x \in UnsureAt(p)
          BY <1>1, <3>3 DEF Cohort, Reread
        <4> QED BY <1>4, <1>5, <4>1 DEF SoughtBack
      <3> QED BY <1>2, <2>1, <3>1, <3>2, <3>3 DEF SoughtBack
    <2>2. ASSUME NEW x \in LiveAt(p), x >= o \/ x \in LeftAt(p)
          PROVE  x \in UnsureAt(p)'
      <3>1. CASE x >= Position(p) \/ x \in LeftAt(p)
        BY <1>1, <3>1 DEF Cohort, Reread, SoughtBack
      <3>2. CASE x = o
        BY <1>1, <3>2 DEF Cohort, Reread, SoughtBack
      <3> QED BY <1>2, <2>2, <3>1, <3>2 DEF SoughtBack
    <2> QED BY <2>1, <2>2 DEF Reread, SoughtBack
  <1>8. BasePassed(p)'
    <2>1. CASE Base(p)' = -1
      <3>1. InFlight(p)' = {} /\ LiveAt(p) = {}
        BY <1>1, <2>1 DEF Cohort, Entries
      <3>2. WatermarkBase(p)' = o
        BY <2>1 DEF WatermarkBase, SoughtBack
      <3> QED BY <1>2, <3>1, <3>2 DEF BasePassed, SoughtBack
    <2>2. CASE Base(p)' # -1
      <3>1. WatermarkBase(p)' = WatermarkBase(p)
        BY <2>2 DEF WatermarkBase
      <3>2. InFlight(p)' \subseteq InFlight(p)
        OBVIOUS
      <3> QED BY <1>1, <3>1, <3>2 DEF Cohort, BasePassed, SoughtBack
    <2> QED BY <2>1, <2>2
  <1> QED BY <1>3, <1>6, <1>7, <1>8 DEF Cohort

LEMMA KafkaNack ==
  ASSUME KafkaInv, which = "kafka", which' = which, NEW t \in tokens, Kafka!Nack(t)
  PROVE  KafkaInv' /\ ContractStep
  <1>1. op.kind = "idle" /\ op' = op /\ Kafka!Live(t) /\ conn' = conn /\ tokens' = tokens
    BY DEF Kafka!Nack, Kafka!IoLockFree
  <1>2. /\ Reading /\ TokenLive(t) /\ t.part \in KParts /\ t.offset \in Offsets(t.part) /\ t.offset \in Nat
        /\ t.attempt \in Nat /\ <<t.part, t.offset, t.attempt>> \in Cur.active
        /\ t.offset \in LiveAt(t.part) /\ t.offset \in InFlight(t.part) /\ t.part \in broker.assigned
        /\ Cur \in KafkaHandles /\ conn.gen \in 1..Len(table) /\ conn.gen # 0
    BY <1>1, KafkaLive
  <1>3. PICK p \in KParts : p = t.part
    BY <1>2
  <1>4. PICK o \in Offsets(p) : o = t.offset
    BY <1>2, <1>3
  <1>5. PICK a \in Nat : a = t.attempt
    BY <1>2
  <1>6. /\ <<p, o, a>> \in Cur.active /\ o \in LiveAt(p) /\ o \in InFlight(p) /\ p \in broker.assigned
        /\ Kafka!SeekBack(p, o)
    BY <1>2, <1>3, <1>4, <1>5 DEF Kafka!Nack
  <1>7. o \in LeftAt(p) => o \in UnsureAt(p)
    BY <1>2, <1>6 DEF KafkaInv, Cohort, Reread
  <1>8. /\ broker' \in KafkaBrokers /\ hist' \in KafkaHists /\ hist'.holders = hist.holders
        /\ broker'.log = broker.log /\ broker'.assigned = broker.assigned
        /\ OnePlace' /\ (\A q \in KParts : Committed(q)') /\ ContractStep
        /\ \A q, x : At(q, x)' = At(q, x)
        /\ \A q : Offsets(q)' = Offsets(q) /\ AskedAt(q)' = AskedAt(q) /\ LeftAt(q)' = LeftAt(q)
        /\ Position(p)' = o /\ UnsureAt(p) \subseteq UnsureAt(p)'
        /\ \A x \in Nat : o < x /\ x < Position(p) => x \in UnsureAt(p)'
        /\ \A q \in KParts : q # p => Position(q)' = Position(q) /\ UnsureAt(q)' = UnsureAt(q)
    BY <1>6, <1>7, KafkaSeeks
  <1> DEFINE A == Cur.active \ {<<p, o, a>>}
  <1>9. A \in SUBSET (KParts \X Nat \X Nat)
    BY <1>2 DEF KafkaHandles
  <1>10. PICK h : h = [Cur EXCEPT !.active = A]
    OBVIOUS
  <1>11. table' = [table EXCEPT ![conn.gen] = h]
    BY <1>3, <1>4, <1>5, <1>10 DEF Kafka!Nack, Kafka!Handles, Kafka!Finished, Cur
  <1> HIDE DEF A
  <1>12. /\ h \in KafkaHandles /\ h.active = A /\ h.inFlight = Cur.inFlight /\ h.legacy = Cur.legacy
         /\ h.watermarks = Cur.watermarks /\ h.highWater = Cur.highWater
         /\ h.consumer = Cur.consumer /\ h.retired = Cur.retired
         /\ h.consumerGen = Cur.consumerGen /\ h.assignEpoch = Cur.assignEpoch
    BY <1>2, <1>9, <1>10 DEF KafkaHandles
  <1>13. table' \in Seq(KafkaHandles) /\ Len(table') = Len(table) /\ Cur' = h
    <2>1. table \in Seq(KafkaHandles)
      BY DEF KafkaInv, KafkaTypes
    <2> QED BY <1>1, <1>2, <1>11, <1>12, <2>1 DEF Cur
  <1>14. KafkaTypes'
    BY <1>1, <1>8, <1>13 DEF KafkaInv, KafkaTypes
  <1>15. \A q : /\ InFlight(q)' = InFlight(q) /\ SlotAt(q)' = SlotAt(q)
                /\ Base(q)' = Base(q) /\ High(q)' = High(q)
    BY <1>12, <1>13 DEF InFlight, SlotAt, Base, High
  <1>16. \A x \in Cur.active : x[1] = p /\ x[2] = o => x = <<p, o, a>>
    BY <1>2, <1>6 DEF KafkaInv, Attempts
  <1>17. \A q, x, b : <<q, x, b>> \in Cur'.active <=> <<q, x, b>> \in Cur.active /\ <<q, x, b>> # <<p, o, a>>
    BY <1>12, <1>13 DEF A
  <1>18. LiveAt(p)' = LiveAt(p) \ {o}
    <2>1. ASSUME NEW x \in LiveAt(p)'
          PROVE  x \in LiveAt(p) /\ x # o
      <3>1. PICK b \in Nat : <<p, x, b>> \in Cur'.active
        BY <2>1 DEF LiveAt
      <3>2. <<p, x, b>> \in Cur.active /\ <<p, x, b>> # <<p, o, a>>
        BY <1>17, <3>1
      <3>3. x # o
        BY <1>16, <3>2
      <3> QED BY <2>1, <3>1, <3>2, <3>3 DEF LiveAt
    <2>2. ASSUME NEW x \in LiveAt(p), x # o
          PROVE  x \in LiveAt(p)'
      BY <1>17, <2>2 DEF LiveAt
    <2> QED BY <2>1, <2>2
  <1>19. ASSUME NEW q \in KParts, q # p
         PROVE  LiveAt(q)' = LiveAt(q)
    <2>1. \A x, b : <<q, x, b>> \in Cur'.active <=> <<q, x, b>> \in Cur.active
      BY <1>17, <1>19
    <2> QED BY <2>1 DEF LiveAt
  <1>20. ASSUME NEW q \in KParts
         PROVE  Cohort(q)'
    <2>1. CASE q = p
      <3>1. SoughtBack(p, o)
        BY <1>8 DEF SoughtBack
      <3>2. Cohort(p)'
        BY <1>2, <1>6, <1>15, <1>18, <3>1, CohortNacked
      <3> QED BY <2>1, <3>2
    <2>2. CASE q # p
      <3>1. SamePartition(q) /\ SameCohort(q)
        BY <1>8, <1>15, <1>19, <2>2 DEF SamePartition, SameCohort
      <3> QED BY <1>2, <3>1, CohortKept DEF KafkaInv
    <2> QED BY <2>1, <2>2
  <1>21. Cur'.active \subseteq Cur.active
    BY <1>12, <1>13 DEF A
  <1>22. Attempts'
    <2>1. \A x \in Cur'.active : x[2] \in InFlight(x[1])'
      BY <1>1, <1>2, <1>15, <1>21 DEF KafkaInv, Attempts
    <2> QED BY <1>2, <1>21, <2>1 DEF KafkaInv, Attempts
  <1>23. /\ Cur'.consumer = Cur.consumer /\ Cur'.retired = Cur.retired /\ Cur'.legacy = Cur.legacy
         /\ Cur'.consumerGen = Cur.consumerGen /\ Cur'.assignEpoch = Cur.assignEpoch
    BY <1>12, <1>13
  <1>24. KafkaInv'
    BY <1>1, <1>8, <1>14, <1>20, <1>21, <1>22, <1>23, KafkaSettled
  <1> QED BY <1>8, <1>24

\* The handles after the nack of the legacy record, which left the slot.
LegacyNacked(h, p, o) ==
  IF \E x \in h.active : x[1] = p THEN h
  ELSE Kafka!Forgotten([h EXCEPT !.inFlight[p] = @ \ {o}], p)

LEMMA KafkaNackLegacy ==
  ASSUME KafkaInv, which = "kafka", which' = which, Kafka!NackLegacy
  PROVE  KafkaInv' /\ ContractStep
  <1>1. /\ conn' = conn /\ tokens' = tokens /\ op' = op /\ op.kind = "idle" /\ Cur.legacy # <<>>
        /\ conn.gen # 0 /\ Cur.consumer # 0
    BY DEF Kafka!NackLegacy, Kafka!IoLockFree, Kafka!Current, Kafka!NoGen, Kafka!NoConsumer, Kafka!NoRecord,
           Kafka!Handles, Cur
  <1>2. Reading /\ Cur \in KafkaHandles /\ conn.gen \in 1..Len(table)
    BY <1>1, CurTyped DEF Reading, KafkaInv, KafkaGeneration
  <1>3. PICK p \in KParts : \E o \in Offsets(p) :
           /\ Cur.legacy = <<p, o>> /\ Cur.legacy[1] = p /\ Cur.legacy[2] = o
           /\ SlotAt(p) = {o} /\ p \in broker.assigned
           /\ \A q \in KParts : q # p => SlotAt(q) = {}
           /\ Kafka!LegacyRead(p, o) \in hist.holders[At(p, o)]
    BY <1>1, <1>2, KafkaSlot
  <1>4. PICK o \in Offsets(p) :
           /\ Cur.legacy = <<p, o>> /\ Cur.legacy[1] = p /\ Cur.legacy[2] = o
           /\ SlotAt(p) = {o} /\ p \in broker.assigned
           /\ \A q \in KParts : q # p => SlotAt(q) = {}
           /\ Kafka!LegacyRead(p, o) \in hist.holders[At(p, o)]
    BY <1>3
  <1>5. o \in LeftAt(p) => o \in UnsureAt(p)
    BY <1>2, <1>4 DEF KafkaInv, Cohort, Reread
  <1>6. Kafka!SeekBack(p, o)
    BY <1>4 DEF Kafka!NackLegacy, Kafka!Handles, Cur
  <1>7. /\ broker' \in KafkaBrokers /\ hist' \in KafkaHists /\ hist'.holders = hist.holders
        /\ broker'.log = broker.log /\ broker'.assigned = broker.assigned
        /\ OnePlace' /\ (\A q \in KParts : Committed(q)') /\ ContractStep
        /\ \A q, x : At(q, x)' = At(q, x)
        /\ \A q : Offsets(q)' = Offsets(q) /\ AskedAt(q)' = AskedAt(q) /\ LeftAt(q)' = LeftAt(q)
        /\ Position(p)' = o /\ UnsureAt(p) \subseteq UnsureAt(p)'
        /\ \A x \in Nat : o < x /\ x < Position(p) => x \in UnsureAt(p)'
        /\ \A q \in KParts : q # p => Position(q)' = Position(q) /\ UnsureAt(q)' = UnsureAt(q)
    BY <1>4, <1>5, <1>6, KafkaSeeks
  <1>8. o \in Nat
    BY DEF Offsets
  <1>9. PICK c \in KafkaHandles : c = Cur
    BY <1>2
  <1> DEFINE d == LegacyDone(c, p, o)
             s == [c EXCEPT !.legacy = <<>>]
             held == \E x \in c.active : x[1] = p
  <1>10. LET g == LegacyDone(c, p, o)
             none == c.inFlight[p] \ {o} = {}
         IN  /\ g \in KafkaHandles /\ g.active = c.active /\ g.legacy = <<>>
             /\ g.consumer = c.consumer /\ g.retired = c.retired
             /\ g.consumerGen = c.consumerGen /\ g.assignEpoch = c.assignEpoch
             /\ g.inFlight = [c.inFlight EXCEPT ![p] = @ \ {o}]
             /\ g.watermarks = IF none THEN [c.watermarks EXCEPT ![p] = -1] ELSE c.watermarks
             /\ g.highWater = IF none THEN [c.highWater EXCEPT ![p] = 0] ELSE c.highWater
    BY ONLY <1>8, <1>9, LegacyDoneHandles, Zenon
  <1>11. table' = [table EXCEPT ![conn.gen] = IF held THEN s ELSE d]
    <2>1. [s EXCEPT !.inFlight[p] = @ \ {o}] = [c EXCEPT !.legacy = <<>>, !.inFlight[p] = @ \ {o}]
      BY DEF KafkaHandles
    <2>2. s.active = c.active
      BY DEF KafkaHandles
    <2>3. [Kafka!Handles EXCEPT !.legacy = Kafka!NoRecord] = s
      BY <1>9 DEF Kafka!Handles, Cur, Kafka!NoRecord
    <2>4. Kafka!Handles.legacy[1] = p /\ Kafka!Handles.legacy[2] = o
      BY <1>4 DEF Kafka!Handles, Cur
    <2>5. table' = [table EXCEPT ![conn.gen] = LegacyNacked(s, p, o)]
      <3>1. table' = [table EXCEPT ![conn.gen] =
                        LegacyNacked([Kafka!Handles EXCEPT !.legacy = Kafka!NoRecord],
                                     Kafka!Handles.legacy[1], Kafka!Handles.legacy[2])]
        BY DEF Kafka!NackLegacy, LegacyNacked
      <3> HIDE DEF s
      <3> QED BY <2>3, <2>4, <3>1
    <2>6. d = Kafka!Forgotten([s EXCEPT !.inFlight[p] = @ \ {o}], p)
      BY <2>1 DEF LegacyDone, Kafka!NoRecord
    <2>7. LegacyNacked(s, p, o) = IF \E x \in s.active : x[1] = p THEN s ELSE d
      BY <2>6, Zenon DEF LegacyNacked
    <2> HIDE DEF s, d
    <2> QED BY <2>2, <2>5, <2>7
  <1>12. /\ s \in KafkaHandles /\ s.active = c.active /\ s.legacy = <<>>
         /\ s.consumer = c.consumer /\ s.retired = c.retired
         /\ s.consumerGen = c.consumerGen /\ s.assignEpoch = c.assignEpoch
         /\ s.inFlight = c.inFlight /\ s.watermarks = c.watermarks /\ s.highWater = c.highWater
    BY DEF KafkaHandles
  <1> HIDE DEF d, s
  <1>13. PICK h \in KafkaHandles : h = IF held THEN s ELSE d
    BY <1>10, <1>12 DEF d
  <1>14. table' \in Seq(KafkaHandles) /\ Len(table') = Len(table) /\ Cur' = h
    <2>1. table \in Seq(KafkaHandles)
      BY DEF KafkaInv, KafkaTypes
    <2>2. table' = [table EXCEPT ![conn.gen] = h]
      BY <1>11, <1>13
    <2> QED BY <1>1, <1>2, <2>1, <2>2 DEF Cur
  <1>15. KafkaTypes'
    BY <1>1, <1>7, <1>14 DEF KafkaInv, KafkaTypes
  <1>16. /\ Cur'.active = Cur.active /\ Cur'.legacy = <<>>
         /\ Cur'.consumer = Cur.consumer /\ Cur'.retired = Cur.retired
         /\ Cur'.consumerGen = Cur.consumerGen /\ Cur'.assignEpoch = Cur.assignEpoch
         /\ held => /\ Cur'.inFlight = Cur.inFlight /\ Cur'.watermarks = Cur.watermarks
                    /\ Cur'.highWater = Cur.highWater
         /\ ~held => /\ Cur'.inFlight = [Cur.inFlight EXCEPT ![p] = @ \ {o}]
                     /\ Cur'.watermarks = (IF Cur.inFlight[p] \ {o} = {} THEN [Cur.watermarks EXCEPT ![p] = -1]
                                           ELSE Cur.watermarks)
                     /\ Cur'.highWater = (IF Cur.inFlight[p] \ {o} = {} THEN [Cur.highWater EXCEPT ![p] = 0]
                                          ELSE Cur.highWater)
    <2> HIDE DEF held
    <2>1. CASE held
      BY <1>9, <1>12, <1>13, <1>14, <2>1
    <2>2. CASE ~held
      BY <1>9, <1>10, <1>13, <1>14, <2>2 DEF d
    <2> QED BY <2>1, <2>2
  <1>17. /\ Cur.inFlight \in [KParts -> SUBSET Nat] /\ Cur.watermarks \in [KParts -> Int]
         /\ Cur.highWater \in [KParts -> Nat] /\ Cur.active \subseteq KParts \X Nat \X Nat
    BY <1>2 DEF KafkaHandles
  <1>18. held <=> LiveAt(p) # {}
    <2>1. ASSUME NEW x \in Cur.active, x[1] = p
          PROVE  x[2] \in LiveAt(p)
      <3>1. x = <<x[1], x[2], x[3]>> /\ x[2] \in Nat /\ x[3] \in Nat
        BY <1>17
      <3> QED BY <2>1, <3>1 DEF LiveAt
    <2>2. ASSUME NEW x \in LiveAt(p)
          PROVE  held
      BY <1>9 DEF LiveAt
    <2> QED BY <1>9, <2>1, <2>2
  <1> HIDE DEF held
  <1>19. (\A q : LiveAt(q)' = LiveAt(q)) /\ (\A q : SlotAt(q)' = {})
    <2>1. \A q : LiveAt(q)' = LiveAt(q)
      BY <1>16 DEF LiveAt
    <2>2. \A q, x : <<>> # <<q, x>>
      OBVIOUS
    <2>3. \A q : SlotAt(q)' = {}
      BY <1>16, <2>2 DEF SlotAt
    <2> QED BY <2>1, <2>3
  <1>20. /\ held => InFlight(p)' = InFlight(p) /\ Base(p)' = Base(p) /\ High(p)' = High(p)
         /\ ~held => /\ InFlight(p)' = InFlight(p) \ {o}
                     /\ IF InFlight(p) \ {o} = {} THEN Base(p)' = -1 /\ High(p)' = 0
                        ELSE Base(p)' = Base(p) /\ High(p)' = High(p)
         /\ \A q \in KParts : q # p => InFlight(q)' = InFlight(q) /\ Base(q)' = Base(q) /\ High(q)' = High(q)
    <2>1. CASE held
      BY <1>16, <2>1 DEF InFlight, Base, High
    <2>2. CASE ~held
      <3>1. CASE InFlight(p) \ {o} = {}
        <4>1. /\ Cur'.inFlight = [Cur.inFlight EXCEPT ![p] = @ \ {o}]
              /\ Cur'.watermarks = [Cur.watermarks EXCEPT ![p] = -1]
              /\ Cur'.highWater = [Cur.highWater EXCEPT ![p] = 0]
          BY <1>16, <2>2, <3>1 DEF InFlight
        <4> QED BY <1>17, <2>2, <3>1, <4>1 DEF InFlight, Base, High
      <3>2. CASE InFlight(p) \ {o} # {}
        <4>1. /\ Cur'.inFlight = [Cur.inFlight EXCEPT ![p] = @ \ {o}]
              /\ Cur'.watermarks = Cur.watermarks /\ Cur'.highWater = Cur.highWater
          BY <1>16, <2>2, <3>2 DEF InFlight
        <4> QED BY <1>17, <2>2, <3>2, <4>1 DEF InFlight, Base, High
      <3> QED BY <3>1, <3>2
    <2> QED BY <2>1, <2>2
  <1>21. ASSUME NEW q \in KParts
         PROVE  Cohort(q)'
    <2>1. CASE q = p
      <3>1. SoughtBack(p, o)
        BY <1>7 DEF SoughtBack
      <3>2. Cohort(p)'
        BY <1>2, <1>4, <1>18, <1>19, <1>20, <3>1, CohortNackedLegacy
      <3> QED BY <2>1, <3>2
    <2>2. CASE q # p
      <3>1. SamePartition(q) /\ SameCohort(q)
        BY <1>4, <1>7, <1>19, <1>20, <2>2 DEF SamePartition, SameCohort
      <3> QED BY <1>2, <3>1, CohortKept DEF KafkaInv
    <2> QED BY <2>1, <2>2
  <1>22. Attempts'
    <2>1. ASSUME NEW x \in Cur.active
          PROVE  x[2] \in InFlight(x[1])'
      <3>1. x[1] \in KParts /\ x[2] \in Nat /\ x[3] \in Nat /\ x = <<x[1], x[2], x[3]>> /\ x[2] \in InFlight(x[1])
        BY <1>1, <1>2, <1>17 DEF KafkaInv, Attempts
      <3>2. x[1] = p => held
        BY <1>18, <3>1 DEF LiveAt
      <3> QED BY <1>20, <3>1, <3>2
    <2> QED BY <1>2, <1>16, <2>1 DEF KafkaInv, Attempts
  <1>23. KafkaInv'
    BY <1>1, <1>7, <1>15, <1>16, <1>21, <1>22, KafkaSettled
  <1> QED BY <1>7, <1>23

----------------------------------------------------------------------------
(* All of it. *)

\* Nothing happens.
LEMMA KafkaIdle ==
  ASSUME KafkaInv, which = "kafka", which' = which, UNCHANGED <<conn, broker, table, tokens, op, hist>>
  PROVE  KafkaInv' /\ ContractStep
  <1>1. KafkaTypes' /\ KafkaGeneration'
    BY DEF KafkaInv, KafkaTypes, KafkaGeneration, Cur
  <1>2. (Reading' <=> Reading) /\ SameHandles
    BY DEF Reading, SameHandles, Cur
  <1>3. op.kind = "ack" /\ conn.gen # 0 => Reading
    BY DEF KafkaInv, Acking, Committing
  <1>4. /\ Reading' => Reading /\ conn'.assignEpoch = conn.assignEpoch /\ SameHandles
        /\ op' = op \/ (op.kind # "ack" /\ op'.kind # "ack")
        /\ op.kind = "ack" => /\ Len(table') = Len(table) /\ conn'.gen \in {0, conn.gen}
                              /\ conn'.gen # 0 => Reading'
    BY <1>2, <1>3
  <1>5. /\ conn'.attempts = conn.attempts /\ broker'.log = broker.log /\ broker'.committed = broker.committed
        /\ broker'.position = broker.position /\ broker'.assigned = broker.assigned
    OBVIOUS
  <1> QED BY <1>1, <1>4, <1>5, KafkaQuiet

LEMMA KafkaStart ==
  ASSUME Kafka!Init, which = "kafka"
  PROVE  KafkaInv /\ Contract!Init
  <1>1. /\ conn \in [config : {"valid", "invalid"}, producer : {FALSE},
               consumer : {0}, gen : {0}, consumerGen : {0},
               assignEpoch : {0}, epoch : {0}, attempts : {0},
               consumers : {0}, subscribed : {FALSE}, leaving : {FALSE}]
        /\ broker \in [topic : {"absent", "match", "other"},
                 log : {[p \in KParts |-> <<>>]},
                 committed : {[p \in KParts |-> 0]},
                 position : {[p \in KParts |-> 0]},
                 owner : {[p \in KParts |-> 0]},
                 assigned : {{}}]
        /\ table = <<>> /\ tokens = {} /\ op.kind = "idle"
        /\ hist = [asked |-> {}, unsure |-> {}, left |-> {}, holders |-> [m \in Messages |-> {}]]
    BY DEF Kafka!Init, Kafka!NoConsumer, Kafka!NoGen, Kafka!Idle, KParts
  <1>2. conn \in KafkaConns /\ conn.gen = 0 /\ conn.consumer = 0
    <2>1. PICK c \in {"valid", "invalid"} :
            conn = [config |-> c, producer |-> FALSE, consumer |-> 0, gen |-> 0, consumerGen |-> 0,
                    assignEpoch |-> 0, epoch |-> 0, attempts |-> 0, consumers |-> 0, subscribed |-> FALSE,
                    leaving |-> FALSE]
      BY <1>1
    <2>2. conn \in KafkaConns
      BY <2>1 DEF KafkaConns
    <2> QED BY <2>1, <2>2
  <1>3. /\ broker.log = [p \in KParts |-> <<>>] /\ broker.committed = [p \in KParts |-> 0]
        /\ broker.position = [p \in KParts |-> 0] /\ broker.owner = [p \in KParts |-> 0] /\ broker.assigned = {}
    BY <1>1
  <1>4. broker \in KafkaBrokers
    <2>1. /\ [p \in KParts |-> <<>>] \in [KParts -> Seq(Messages)]
          /\ [p \in KParts |-> 0] \in [KParts -> Nat] /\ {} \in SUBSET KParts
      OBVIOUS
    <2> QED BY <1>1, <2>1 DEF KafkaBrokers
  <1>5. hist \in KafkaHists /\ hist.asked = {} /\ hist.left = {} /\ hist.unsure = {}
    <2>1. [m \in Messages |-> {}] \in [Messages -> SUBSET KafkaTokens]
      OBVIOUS
    <2> QED BY <1>1, <2>1 DEF KafkaHists
  <1>6. KafkaTypes
    <2>1. table \in Seq(KafkaHandles) /\ Len(table) = 0
      BY <1>1
    <2> QED BY <1>1, <1>2, <1>4, <1>5, <2>1 DEF KafkaTypes
  <1>7. \A p \in KParts : Offsets(p) = {} /\ Len(broker.log[p]) = 0 /\ broker.committed[p] = 0
    BY <1>3 DEF Offsets
  <1>8. OnePlace
    BY <1>5, <1>7 DEF OnePlace
  <1>9. \A p \in KParts : Committed(p)
    BY <1>3, <1>7 DEF Committed, LeftAt
  <1>10. ~Reading /\ KafkaGeneration /\ Acking
    BY <1>1, <1>2 DEF Reading, KafkaGeneration, Acking
  <1>11. Holders
    BY <1>1, <1>10 DEF Holders
  <1>12. Contract!Init
    <2>1. Kafka!Accepted = {}
      BY <1>3 DEF Kafka!Accepted, KParts
    <2> QED BY <1>5, <2>1, KafkaMapped DEF Contract!Init
  <1> QED BY <1>6, <1>8, <1>9, <1>10, <1>11, <1>12 DEF KafkaInv

LEMMA KafkaStep ==
  ASSUME KafkaInv, which = "kafka", which' = which, Kafka!Next
  PROVE  KafkaInv' /\ ContractStep
  <1>1. CASE Kafka!ConnectBegin \/ Kafka!ConnectDone \/ Kafka!ConnectAborted \/ Kafka!DisconnectBegin
             \/ Kafka!Disconnect \/ Kafka!PopBuildsConsumer \/ Kafka!ConsumerLost \/ Kafka!ConsumerCleanup
    BY <1>1, KafkaConnects
  <1>2. CASE Kafka!ConsumerReady
    BY <1>2, KafkaJoins
  <1>3. ASSUME NEW mine \in SUBSET KParts, Kafka!PopRebalances(mine)
        PROVE  KafkaInv' /\ ContractStep
    BY <1>3, KafkaJoins DEF KParts
  <1>4. ASSUME NEW p \in KParts, Kafka!Expelled(p)
        PROVE  KafkaInv' /\ ContractStep
    BY <1>4, KafkaConnects DEF KParts
  <1>5. ASSUME NEW m \in Messages, NEW priority \in Priorities, NEW stored \in BOOLEAN,
               Kafka!Push(m, priority, stored)
        PROVE  KafkaInv' /\ ContractStep
    BY <1>5, KafkaPush
  <1>6. ASSUME NEW p \in KParts, Kafka!PopWithAck(p) \/ Kafka!Pop(p)
        PROVE  KafkaInv' /\ ContractStep
    BY <1>6, KafkaPopWithAck, KafkaPop
  <1>7. ASSUME NEW t \in tokens, Kafka!AckBegin(t) \/ Kafka!AckStale(t) \/ Kafka!Nack(t)
        PROVE  KafkaInv' /\ ContractStep
    BY <1>7, KafkaAckBegin, KafkaAckStale, KafkaNack
  <1>8. CASE Kafka!AckCommitted \/ Kafka!AckLegacy \/ Kafka!NackLegacy
    BY <1>8, KafkaAckCommitted, KafkaAckLegacy, KafkaNackLegacy
  <1>9. ASSUME NEW taken \in BOOLEAN, Kafka!AckFailed(taken)
        PROVE  KafkaInv' /\ ContractStep
    BY <1>9, KafkaAckFailed
  <1> QED BY <1>1, <1>2, <1>3, <1>4, <1>5, <1>6, <1>7, <1>8, <1>9, Zenon
          DEF Kafka!Next, Kafka!Lifecycle, Kafka!Traffic, KParts

=============================================================================
