-------------------------- MODULE SettlementProofs --------------------------
(***************************************************************************)
(* Proofs about the settlement of a delivery, from both sides.             *)
(*                                                                         *)
(* ReplacementAck, the side of the holder: the type invariant, that a      *)
(* group's ack loses no replacement, that a token has one broker outcome,  *)
(* that signals exclude each other, and that an abort is final.            *)
(*                                                                         *)
(* MCBackends, the side of the acknowledging backends: that the pumps of   *)
(* Pulsar have one consumer, and that RabbitMQ, Pulsar, SQS, RocketMQ and  *)
(* Kafka (KafkaProofs) implement DeliveryContract.                         *)
(***************************************************************************)
EXTENDS ReplacementAck, KafkaProofs, Sequences, FiniteSetTheorems, TLAPS

\* Workers are submitted in the order of their numbers.
Numbered == \A o \in Ops : opStage[o] = "unused" <=> o > issued

\* The reservation of the token belongs to the worker inside the broker call,
\* and a token that has left "pending" is reserved by nobody.
Reserved ==
  /\ \A o \in Ops : opStage[o] = "calling" <=> busy = o
  /\ bound # "pending" => busy = NoOp

\* One call has returned at most, and then the token is not pending.
LandedOnce ==
  /\ landed # {} => bound # "pending"
  /\ \A o, p \in landed : o = p

\* A live group knows every replacement that is not committed yet.
Tracked ==
  /\ \A c \in Children : child[c] = "attached" => c \in pending \/ "terminal" \in flags
  /\ "sealed" \in flags => stream = "exhausted"

SettleInv ==
  /\ TypeOK
  /\ Numbered
  /\ Reserved
  /\ LandedOnce
  /\ Tracked
  /\ SourceAckJustified
  /\ ClaimExclusive

-----------------------------------------------------------------------------
\* What submitting a worker does, in terms of each worker.
LEMMA SubmitFacts ==
  ASSUME TypeOK, Numbered, NEW by \in {"signal", "group"}, NEW kind \in {"ack", "nack"},
         Submit(by, kind)
  PROVE  /\ issued + 1 \in Ops
         /\ issued' = issued + 1
         /\ issued' \in 0..MaxOps
         /\ opStage[issued + 1] = "unused"
         /\ opStage' \in [Ops -> Stages]
         /\ opBy' \in [Ops -> {"signal", "group"}]
         /\ opKind' \in [Ops -> {"ack", "nack"}]
         /\ opStage'[issued + 1] = "queued"
         /\ opBy'[issued + 1] = by
         /\ opKind'[issued + 1] = kind
         /\ \A o \in Ops : o # issued + 1 =>
              opStage'[o] = opStage[o] /\ opBy'[o] = opBy[o] /\ opKind'[o] = opKind[o]
         /\ Numbered'
PROOF
<1>1. issued + 1 \in Ops /\ issued' = issued + 1 /\ issued' \in 0..MaxOps
  BY OpsAssumption DEF Submit, TypeOK, Ops
<1>2. opStage[issued + 1] = "unused"
  BY <1>1 DEF Numbered, TypeOK
<1>3. /\ opStage' \in [Ops -> Stages]
      /\ opBy' \in [Ops -> {"signal", "group"}]
      /\ opKind' \in [Ops -> {"ack", "nack"}]
  BY <1>1 DEF Submit, TypeOK, Stages
<1>4. /\ opStage'[issued + 1] = "queued"
      /\ opBy'[issued + 1] = by
      /\ opKind'[issued + 1] = kind
      /\ \A o \in Ops : o # issued + 1 =>
           opStage'[o] = opStage[o] /\ opBy'[o] = opBy[o] /\ opKind'[o] = opKind[o]
  BY <1>1 DEF Submit, TypeOK
<1>5. Numbered'
  BY <1>1, <1>2, <1>4 DEF Numbered, TypeOK, Ops
<1> QED BY <1>1, <1>2, <1>3, <1>4, <1>5

\* A submission or none, as the optional steps of the group and the signals take.
Submits(by, kind) == Submit(by, kind) \/ UNCHANGED opVars

\* Submitting a worker leaves the token and the outcome of the others alone.
LEMMA SubmitKeepsToken ==
  ASSUME TypeOK, Numbered, Reserved, LandedOnce, UNCHANGED tokenVars,
         NEW by \in {"signal", "group"}, NEW kind \in {"ack", "nack"},
         Submits(by, kind)
  PROVE  Numbered' /\ Reserved' /\ LandedOnce'
PROOF
<1>1. CASE Submit(by, kind)
  <2>1. Numbered'
    BY <1>1, SubmitFacts
  <2>2. \A o \in Ops : opStage'[o] = "calling" <=> opStage[o] = "calling"
    BY <1>1, SubmitFacts
  <2>3. Reserved'
    BY <2>2 DEF Reserved, tokenVars
  <2>4. LandedOnce'
    BY DEF LandedOnce, tokenVars
  <2> QED BY <2>1, <2>3, <2>4
<1>2. CASE UNCHANGED opVars
  BY <1>2 DEF Numbered, Reserved, LandedOnce, opVars, tokenVars
<1> QED BY <1>1, <1>2 DEF Submits

\* A worker of the group leaves the claim to the signals.
LEMMA GroupKeepsClaims ==
  ASSUME TypeOK, Numbered, ClaimExclusive, UNCHANGED <<claims, untold>>,
         NEW kind \in {"ack", "nack"}, Submits("group", kind)
  PROVE  ClaimExclusive'
PROOF
<1>1. \A o \in Ops : HoldsClaim(o)' <=> HoldsClaim(o)
  <2>1. CASE Submit("group", kind)
    BY <2>1, SubmitFacts DEF HoldsClaim, Outstanding, Unheard
  <2>2. CASE UNCHANGED opVars
    BY <2>2 DEF opVars, HoldsClaim, Outstanding, Unheard
  <2> QED BY <2>1, <2>2 DEF Submits
<1> QED BY <1>1 DEF ClaimExclusive

\* A signal takes the claim for its worker.
LEMMA SignalTakesClaim ==
  ASSUME TypeOK, Numbered, ClaimExclusive, NEW kind \in {"ack", "nack"},
         SettleRequest(kind)
  PROVE  ClaimExclusive'
PROOF
<1>1. /\ Submit("signal", kind) /\ claims = {} /\ claims' = {"token"}
      /\ \A o : o # issued + 1 => (o \in untold' <=> o \in untold)
  BY DEF SettleRequest, Claimable
<1>2. \A o \in Ops : ~ HoldsClaim(o)
  BY <1>1 DEF ClaimExclusive
<1>3. /\ issued + 1 \in Ops
      /\ opStage'[issued + 1] = "queued" /\ opBy'[issued + 1] = "signal"
      /\ \A o \in Ops : o # issued + 1 => opStage'[o] = opStage[o] /\ opBy'[o] = opBy[o]
  BY <1>1, SubmitFacts
<1>4. \A o \in Ops : HoldsClaim(o)' <=> o = issued + 1
  BY <1>1, <1>2, <1>3 DEF HoldsClaim, Outstanding, Unheard
<1> QED BY <1>1, <1>3, <1>4 DEF ClaimExclusive

\* An ack of the group stays justified while no replacement is added, and a new
\* one is justified when nothing is attached and the stream is exhausted.
LEMMA JustifiedStep ==
  ASSUME TypeOK, Numbered, SourceAckJustified,
         NEW by \in {"signal", "group"}, NEW kind \in {"ack", "nack"},
         Submits(by, kind),
         stream = "exhausted" => /\ stream' = "exhausted"
                                 /\ \A c \in Children :
                                      child'[c] = "attached" => child[c] = "attached",
         Submit(by, kind) /\ by = "group" /\ kind = "ack"
           => stream' = "exhausted" /\ \A c \in Children : child'[c] # "attached"
  PROVE  SourceAckJustified'
PROOF
<1> SUFFICES ASSUME NEW o \in Ops, opStage'[o] # "unused", opBy'[o] = "group", opKind'[o] = "ack"
             PROVE  stream' = "exhausted" /\ \A c \in Children : child'[c] # "attached"
  BY DEF SourceAckJustified
<1>1. CASE Submit(by, kind) /\ o = issued + 1
  BY <1>1, SubmitFacts
<1>2. CASE Submit(by, kind) /\ o # issued + 1
  <2>1. opStage[o] # "unused" /\ opBy[o] = "group" /\ opKind[o] = "ack"
    BY <1>2, SubmitFacts
  <2> QED BY <2>1 DEF SourceAckJustified
<1>3. CASE UNCHANGED opVars
  BY <1>3 DEF opVars, SourceAckJustified
<1> QED BY <1>1, <1>2, <1>3 DEF Submits

\* A worker that moves on keeps its number and its kind.
LEMMA WorkerStep ==
  ASSUME TypeOK, Numbered, SourceAckJustified, NEW o \in Ops, NEW s \in Stages \ {"unused"},
         opStage[o] # "unused", opStage' = [opStage EXCEPT ![o] = s],
         UNCHANGED <<issued, opBy, opKind, stream, child>>
  PROVE  /\ opStage' \in [Ops -> Stages]
         /\ opStage'[o] = s
         /\ \A p \in Ops : p # o => opStage'[p] = opStage[p]
         /\ Numbered'
         /\ SourceAckJustified'
PROOF
<1>1. opStage' \in [Ops -> Stages] /\ opStage'[o] = s
  BY DEF TypeOK, Stages
<1>2. \A p \in Ops : p # o => opStage'[p] = opStage[p]
  BY DEF TypeOK
<1>3. \A p \in Ops : opStage'[p] = "unused" <=> opStage[p] = "unused"
  BY <1>1, <1>2
<1>4. Numbered'
  BY <1>3 DEF Numbered
<1>5. SourceAckJustified'
  BY <1>3 DEF SourceAckJustified
<1> QED BY <1>1, <1>2, <1>4, <1>5

\* The claim follows the workers that hold it.
LEMMA ClaimsKept ==
  ASSUME ClaimExclusive, claims' = claims,
         \A o \in Ops : HoldsClaim(o)' <=> HoldsClaim(o)
  PROVE  ClaimExclusive'
BY DEF ClaimExclusive

-----------------------------------------------------------------------------
\* The invariant holds of a fresh delivery.
LEMMA SettleInvInit == Init => SettleInv
PROOF
<1> SUFFICES ASSUME Init PROVE SettleInv
  OBVIOUS
<1>1. TypeOK
  BY OpsAssumption, FaultsAssumption DEF Init, TypeOK, Stages, Flags, NoOp
<1>2. Numbered
  BY OpsAssumption DEF Init, Numbered, Ops
<1>3. Reserved
  BY DEF Init, Reserved, Ops, NoOp
<1>4. LandedOnce /\ Tracked /\ SourceAckJustified
  BY DEF Init, LandedOnce, Tracked, SourceAckJustified
<1>5. ClaimExclusive
  BY DEF Init, ClaimExclusive, HoldsClaim, Outstanding, Unheard
<1> QED BY <1>1, <1>2, <1>3, <1>4, <1>5 DEF SettleInv

\* The actions on the request and the group.
LEMMA GroupStep ==
  ASSUME SettleInv, UNCHANGED <<tokenVars, claims, untold>>,
         NEW kind \in {"ack", "nack"}, Submits("group", kind),
         meta' \in SUBSET {"token"}, stream' \in {"download", "open", "exhausted", "broken"},
         flags' \in SUBSET Flags, pending' \in SUBSET Children,
         child' \in [Children -> {"absent", "loose", "attached", "safe"}],
         Tracked',
         stream = "exhausted" => /\ stream' = "exhausted"
                                 /\ \A c \in Children :
                                      child'[c] = "attached" => child[c] = "attached",
         Submit("group", kind) /\ kind = "ack"
           => stream' = "exhausted" /\ \A c \in Children : child'[c] # "attached"
  PROVE  SettleInv'
PROOF
<1>0. TypeOK /\ Numbered /\ Reserved /\ LandedOnce /\ SourceAckJustified /\ ClaimExclusive
  BY DEF SettleInv
<1>1. Numbered' /\ Reserved' /\ LandedOnce'
  BY <1>0, SubmitKeepsToken DEF tokenVars
<1>2. ClaimExclusive'
  BY <1>0, GroupKeepsClaims
<1>3. SourceAckJustified'
  BY <1>0, JustifiedStep
<1>4. /\ issued' \in 0..MaxOps /\ opBy' \in [Ops -> {"signal", "group"}]
      /\ opKind' \in [Ops -> {"ack", "nack"}] /\ opStage' \in [Ops -> Stages]
  <2>1. CASE Submit("group", kind)
    BY <2>1, <1>0, SubmitFacts
  <2>2. CASE UNCHANGED opVars
    BY <2>2, <1>0 DEF opVars, TypeOK
  <2> QED BY <2>1, <2>2 DEF Submits
<1>5. TypeOK'
  <2>1. busy' # NoOp => opStage'[busy'] = "calling"
    BY <1>0, <1>1 DEF Reserved, TypeOK, tokenVars
  <2> QED BY <1>0, <1>4, <2>1 DEF TypeOK, tokenVars
<1> QED BY <1>1, <1>2, <1>3, <1>5 DEF SettleInv

\* The signals.
LEMMA SignalStep ==
  ASSUME SettleInv, UNCHANGED <<tokenVars, flags, pending, child>>,
         NEW kind \in {"ack", "nack"}, SettleRequest(kind),
         stream' \in {"download", "open", "exhausted", "broken"},
         stream = "exhausted" => stream' = "exhausted"
  PROVE  SettleInv'
PROOF
<1>0. TypeOK /\ Numbered /\ Reserved /\ LandedOnce /\ SourceAckJustified /\ ClaimExclusive
      /\ Tracked
  BY DEF SettleInv
<1>1. /\ Submit("signal", kind) /\ meta' = meta /\ claims' = {"token"}
      /\ untold' \in {untold, untold \cup {issued + 1}}
  BY DEF SettleRequest
<1>2. Submits("signal", kind)
  BY <1>1 DEF Submits
<1>3. Numbered' /\ Reserved' /\ LandedOnce'
  BY <1>0, <1>2, SubmitKeepsToken DEF tokenVars
<1>4. ClaimExclusive'
  BY <1>0, SignalTakesClaim
<1>5. SourceAckJustified'
  BY <1>0, <1>2, JustifiedStep
<1>6. Tracked'
  BY <1>0 DEF Tracked
<1>7. /\ issued' \in 0..MaxOps /\ opBy' \in [Ops -> {"signal", "group"}]
      /\ opKind' \in [Ops -> {"ack", "nack"}] /\ opStage' \in [Ops -> Stages]
      /\ untold' \in SUBSET Ops
  BY <1>0, <1>1, SubmitFacts DEF TypeOK
<1>8. TypeOK'
  <2>1. busy' # NoOp => opStage'[busy'] = "calling"
    BY <1>0, <1>3 DEF Reserved, TypeOK, tokenVars
  <2> QED BY <1>0, <1>1, <1>7, <2>1 DEF TypeOK, tokenVars
<1> QED BY <1>3, <1>4, <1>5, <1>6, <1>8 DEF SettleInv

\* What abort() does to a group that is not terminal yet.
LEMMA AbortFacts ==
  ASSUME NEW fl \in SUBSET Flags, "terminal" \notin fl, Abort(fl)
  PROVE  /\ Submits("group", "nack")
         /\ pending' = {}
         /\ flags' \in SUBSET Flags
         /\ "terminal" \in flags'
         /\ "sealed" \in flags' => "sealed" \in fl
PROOF
<1>1. CASE "settling" \in fl
  <2>1. pending' = {} /\ flags' = fl \cup {"terminal"} /\ UNCHANGED opVars
    BY <1>1 DEF Abort
  <2> QED BY <2>1 DEF Flags, Submits
<1>2. CASE "settling" \notin fl
  <2>1. pending' = {} /\ flags' = fl \cup {"terminal", "settling"} /\ Submit("group", "nack")
    BY <1>2 DEF Abort
  <2> QED BY <2>1 DEF Flags, Submits
<1> QED BY <1>1, <1>2

\* Every step of the errback and its replacements keeps the invariant.
LEMMA OutputStep ==
  ASSUME SettleInv, \/ Errback \/ EmitConflict \/ Exhaust \/ BreakStream
                    \/ \E c \in Children : \/ EmitReplacement(c) \/ Commit(c)
                                           \/ Accept(c) \/ ChildNack(c)
  PROVE  SettleInv'
PROOF
<1>0. TypeOK /\ Tracked
  BY DEF SettleInv
<1>n. UNCHANGED opVars => Submits("group", "ack") /\ ~ Submit("group", "ack")
  BY <1>0 DEF Submits, opVars, Submit, TypeOK
<1>1. CASE Errback
  <2>1. Tracked'
    BY <1>0, <1>1 DEF Errback, Tracked
  <2> QED BY <1>0, <1>1, <1>n, <2>1, GroupStep DEF Errback, requestVars, TypeOK
<1>2. CASE EmitConflict
  <2>1. /\ Submits("group", "nack") /\ UNCHANGED <<claims, untold, stream, child, tokenVars>>
        /\ meta' = {} /\ pending' = {}
        /\ "terminal" \in flags'
        /\ flags' \in SUBSET Flags /\ ("sealed" \in flags' => "sealed" \in flags)
    <3>1. NewGroup \in SUBSET Flags /\ "terminal" \notin NewGroup
          /\ ("sealed" \in NewGroup => "sealed" \in flags)
      BY <1>0, <1>2 DEF EmitConflict, NewGroup, TypeOK, Flags
    <3> QED BY <1>2, <3>1, AbortFacts DEF EmitConflict
  <2>2. Tracked'
    BY <1>0, <2>1 DEF Tracked
  <2> QED BY <1>0, <2>1, <2>2, GroupStep DEF TypeOK
<1>3. CASE Exhaust
  <2>0. /\ stream = "open" /\ stream' = "exhausted" /\ child' = child /\ UNCHANGED tokenVars
    BY <1>3 DEF Exhaust
  <2>1. CASE "made" \in flags /\ Seal /\ UNCHANGED requestVars
    <3>1. /\ flags' \in SUBSET Flags /\ pending' = pending /\ Submits("group", "ack")
          /\ ("terminal" \in flags => "terminal" \in flags')
      BY <1>0, <2>1 DEF Seal, Submits, TypeOK, Flags
    <3>2. Tracked'
      BY <1>0, <2>0, <3>1 DEF Tracked
    <3>3. Submit("group", "ack") => pending = {} /\ "terminal" \notin flags
      <4> SUFFICES ASSUME Submit("group", "ack") PROVE pending = {} /\ "terminal" \notin flags
        OBVIOUS
      <4>1. ~ UNCHANGED opVars
        BY <1>0 DEF Submit, TypeOK, opVars
      <4> QED BY <2>1, <4>1 DEF Seal, Live, Drained
    <3>4. Submit("group", "ack") => \A c \in Children : child'[c] # "attached"
      BY <1>0, <2>0, <3>3 DEF Tracked
    <3> QED BY <1>0, <2>0, <2>1, <3>1, <3>2, <3>4, GroupStep DEF requestVars, TypeOK
  <2>2. CASE SettleRequest("ack") /\ UNCHANGED <<flags, pending>>
    BY <2>0, <2>2, SignalStep
  <2>3. CASE UNCHANGED <<requestVars, opVars, flags, pending>>
    <3>1. Tracked'
      BY <1>0, <2>0, <2>3 DEF Tracked
    <3> QED BY <1>0, <1>n, <2>0, <2>3, <3>1, GroupStep DEF requestVars, TypeOK
  <2> QED BY <1>3, <2>1, <2>2, <2>3 DEF Exhaust, SettleRequestIfAny
<1>4. CASE BreakStream
  <2>0. /\ stream = "open" /\ stream' = "broken" /\ child' = child /\ UNCHANGED tokenVars
    BY <1>4 DEF BreakStream
  <2>s. "sealed" \notin flags
    BY <1>0, <2>0 DEF Tracked
  <2>1. CASE "made" \in flags /\ Abort(flags) /\ UNCHANGED requestVars
    <3>1. /\ flags' \in SUBSET Flags /\ pending' \in SUBSET Children
          /\ Submits("group", "nack") /\ "terminal" \in flags' /\ "sealed" \notin flags'
      <4>1. CASE "terminal" \in flags
        BY <1>0, <2>1, <2>s, <4>1 DEF Abort, Submits, TypeOK
      <4>2. CASE "terminal" \notin flags
        BY <1>0, <2>1, <2>s, <4>2, AbortFacts DEF TypeOK
      <4> QED BY <4>1, <4>2
    <3>2. Tracked'
      BY <1>0, <2>0, <3>1 DEF Tracked
    <3> QED BY <1>0, <2>0, <2>1, <3>1, <3>2, GroupStep DEF requestVars, TypeOK
  <2>2. CASE SettleRequest("nack") /\ UNCHANGED <<flags, pending>>
    BY <2>0, <2>2, SignalStep
  <2>3. CASE UNCHANGED <<requestVars, opVars, flags, pending>>
    <3>1. Tracked'
      BY <1>0, <2>0, <2>s, <2>3 DEF Tracked
    <3> QED BY <1>0, <1>n, <2>0, <2>3, <3>1, GroupStep DEF requestVars, TypeOK
  <2> QED BY <1>4, <2>1, <2>2, <2>3 DEF BreakStream, SettleRequestIfAny
<1>5. ASSUME NEW c \in Children, EmitReplacement(c) PROVE SettleInv'
  <2>1. /\ stream = "open" /\ UNCHANGED <<claims, untold, stream, opVars, tokenVars>> /\ meta' = {}
        /\ flags' \in SUBSET Flags
        /\ ("sealed" \in flags' => "sealed" \in flags)
        /\ ("terminal" \in flags => "terminal" \in flags')
    BY <1>0, <1>5 DEF EmitReplacement, NewGroup, TypeOK, Flags
  <2>2. /\ pending' \in SUBSET Children /\ pending \subseteq pending'
        /\ child' \in [Children -> {"absent", "loose", "attached", "safe"}]
        /\ child'[c] = "attached" => c \in pending'
        /\ \A d \in Children : d # c => child'[d] = child[d]
    BY <1>0, <1>5 DEF EmitReplacement, TypeOK
  <2>3. Tracked'
    BY <1>0, <2>1, <2>2 DEF Tracked
  <2> QED BY <1>0, <1>n, <2>1, <2>2, <2>3, GroupStep
<1>6. ASSUME NEW c \in Children, Commit(c) PROVE SettleInv'
  <2>1. /\ UNCHANGED <<requestVars, stream, flags, pending, opVars, tokenVars>>
        /\ child' \in [Children -> {"absent", "loose", "attached", "safe"}]
        /\ \A d \in Children : child'[d] = "attached" => child[d] = "attached"
    BY <1>0, <1>6 DEF Commit, TypeOK
  <2>2. Tracked'
    BY <1>0, <2>1 DEF Tracked
  <2> QED BY <1>0, <1>n, <2>1, <2>2, GroupStep DEF requestVars, TypeOK
<1>7. ASSUME NEW c \in Children, Accept(c) PROVE SettleInv'
  <2>1. /\ child[c] = "safe" /\ UNCHANGED <<requestVars, stream, child, tokenVars>>
        /\ "terminal" \notin flags
        /\ flags' \in SUBSET Flags /\ ("sealed" \in flags' => "sealed" \in flags)
        /\ pending' \in SUBSET Children /\ pending \ {c} \subseteq pending'
        /\ Submits("group", "ack")
    <3>1. CASE LastOfSealed(c)
      <4>1. flags' = flags \cup {"settling"} /\ Submit("group", "ack") /\ pending' = pending
        BY <1>7, <3>1 DEF Accept
      <4> QED BY <1>0, <1>7, <4>1 DEF Accept, Live, Submits, TypeOK, Flags
    <3>2. CASE ~ LastOfSealed(c)
      <4>1. pending' = pending \ {c} /\ flags' = flags /\ UNCHANGED opVars
        BY <1>7, <3>2 DEF Accept
      <4> QED BY <1>0, <1>7, <4>1 DEF Accept, Live, Submits, TypeOK, Flags
    <3> QED BY <3>1, <3>2
  <2>2. Tracked'
    BY <1>0, <2>1 DEF Tracked
  <2>3. Submit("group", "ack") => pending = {c} /\ "sealed" \in flags
    <3> SUFFICES ASSUME Submit("group", "ack") PROVE pending = {c} /\ "sealed" \in flags
      OBVIOUS
    <3>1. ~ UNCHANGED opVars
      BY <1>0 DEF Submit, TypeOK, opVars
    <3> QED BY <1>7, <3>1 DEF Accept, LastOfSealed
  <2>4. Submit("group", "ack") => stream' = "exhausted" /\ \A d \in Children : child'[d] # "attached"
    BY <1>0, <2>1, <2>3 DEF Tracked
  <2> QED BY <1>0, <2>1, <2>2, <2>4, GroupStep DEF requestVars, TypeOK
<1>8. ASSUME NEW c \in Children, ChildNack(c) PROVE SettleInv'
  <2>1. /\ UNCHANGED <<requestVars, stream, child, tokenVars>>
        /\ flags' \in SUBSET Flags /\ ("sealed" \in flags' => "sealed" \in flags)
        /\ "terminal" \in flags'
        /\ pending' \in SUBSET Children /\ Submits("group", "nack")
    BY <1>0, <1>8, AbortFacts DEF ChildNack, Live, TypeOK
  <2>2. Tracked'
    BY <1>0, <2>1 DEF Tracked
  <2> QED BY <1>0, <2>1, <2>2, GroupStep DEF requestVars, TypeOK
<1> QED BY <1>1, <1>2, <1>3, <1>4, <1>5, <1>6, <1>7, <1>8

\* Every step of a worker keeps the invariant.
LEMMA WorkersStep ==
  ASSUME SettleInv, NEW o \in Ops,
         \/ Start(o) \/ Refuse(o) \/ BrokerReturns(o) \/ BrokerRaises(o)
         \/ CompleteSignal(o) \/ CompleteGroup(o)
  PROVE  SettleInv'
PROOF
<1>0. TypeOK /\ Numbered /\ Reserved /\ LandedOnce /\ Tracked /\ SourceAckJustified
      /\ ClaimExclusive
  BY DEF SettleInv
<1>z. NoOp \notin Ops
  BY DEF NoOp, Ops
<1>1. CASE Start(o) /\ Settleable
  <2>1. /\ opStage[o] = "queued" /\ opStage' = [opStage EXCEPT ![o] = "calling"]
        /\ busy' = o /\ busy = NoOp /\ bound = "pending"
        /\ UNCHANGED <<requestVars, groupVars, issued, opBy, opKind, bound, landed, faults>>
    BY <1>1 DEF Start, Settleable
  <2>2. /\ opStage' \in [Ops -> Stages] /\ opStage'[o] = "calling"
        /\ \A p \in Ops : p # o => opStage'[p] = opStage[p]
        /\ Numbered' /\ SourceAckJustified'
    BY <1>0, <2>1, WorkerStep DEF groupVars, Stages
  <2>3. Reserved' /\ LandedOnce' /\ Tracked'
    BY <1>0, <1>z, <2>1, <2>2 DEF Reserved, LandedOnce, Tracked, groupVars
  <2>4. ClaimExclusive'
    BY <1>0, <2>1, <2>2, ClaimsKept DEF HoldsClaim, Outstanding, Unheard, requestVars
  <2>5. TypeOK'
    BY <1>0, <2>1, <2>2 DEF TypeOK, requestVars, groupVars
  <2> QED BY <2>2, <2>3, <2>4, <2>5 DEF SettleInv
<1>2. CASE Start(o) /\ ~ Settleable
  <2>1. /\ opStage[o] = "queued" /\ opStage' = [opStage EXCEPT ![o] = "ok"]
        /\ UNCHANGED <<requestVars, groupVars, issued, opBy, opKind, bound, landed, faults, busy>>
    BY <1>2 DEF Start
  <2>2. /\ opStage' \in [Ops -> Stages] /\ opStage'[o] = "ok"
        /\ \A p \in Ops : p # o => opStage'[p] = opStage[p]
        /\ Numbered' /\ SourceAckJustified'
    BY <1>0, <2>1, WorkerStep DEF groupVars, Stages
  <2>3. Reserved' /\ LandedOnce' /\ Tracked'
    BY <1>0, <1>z, <2>1, <2>2 DEF Reserved, LandedOnce, Tracked, groupVars
  <2>4. ClaimExclusive'
    BY <1>0, <2>1, <2>2, ClaimsKept DEF HoldsClaim, Outstanding, Unheard, requestVars
  <2>5. TypeOK'
    BY <1>0, <2>1, <2>2, <2>3 DEF TypeOK, Reserved, requestVars, groupVars
  <2> QED BY <2>2, <2>3, <2>4, <2>5 DEF SettleInv
<1>3. CASE Refuse(o)
  <2>1. /\ opStage[o] = "queued" /\ opStage' = [opStage EXCEPT ![o] = "failed"]
        /\ faults < MaxFaults /\ faults' = faults + 1
        /\ UNCHANGED <<requestVars, groupVars, issued, opBy, opKind, bound, landed, busy>>
    BY <1>3 DEF Refuse
  <2>2. /\ opStage' \in [Ops -> Stages] /\ opStage'[o] = "failed"
        /\ \A p \in Ops : p # o => opStage'[p] = opStage[p]
        /\ Numbered' /\ SourceAckJustified'
    BY <1>0, <2>1, WorkerStep DEF groupVars, Stages
  <2>3. Reserved' /\ LandedOnce' /\ Tracked'
    BY <1>0, <1>z, <2>1, <2>2 DEF Reserved, LandedOnce, Tracked, groupVars
  <2>4. ClaimExclusive'
    BY <1>0, <2>1, <2>2, ClaimsKept DEF HoldsClaim, Outstanding, Unheard, requestVars
  <2>f. faults' \in 0..MaxFaults
    BY <1>0, <2>1, FaultsAssumption DEF TypeOK
  <2>5. TypeOK'
    BY <1>0, <2>1, <2>2, <2>3, <2>f DEF TypeOK, Reserved, requestVars, groupVars
  <2> QED BY <2>2, <2>3, <2>4, <2>5 DEF SettleInv
<1>4. CASE BrokerReturns(o)
  <2>1. /\ opStage[o] = "calling" /\ opStage' = [opStage EXCEPT ![o] = "ok"]
        /\ bound' \in {"acked", "nacked"} /\ busy' = NoOp /\ landed' = landed \cup {o}
        /\ UNCHANGED <<requestVars, groupVars, issued, opBy, opKind, faults>>
    BY <1>4 DEF BrokerReturns
  <2>2. /\ opStage' \in [Ops -> Stages] /\ opStage'[o] = "ok"
        /\ \A p \in Ops : p # o => opStage'[p] = opStage[p]
        /\ Numbered' /\ SourceAckJustified'
    BY <1>0, <2>1, WorkerStep DEF groupVars, Stages
  <2>3. busy = o /\ landed = {}
    BY <1>0, <1>z, <2>1 DEF Reserved, LandedOnce
  <2>4. Reserved' /\ LandedOnce' /\ Tracked'
    BY <1>0, <1>z, <2>1, <2>2, <2>3 DEF Reserved, LandedOnce, Tracked, groupVars
  <2>5. ClaimExclusive'
    BY <1>0, <2>1, <2>2, ClaimsKept DEF HoldsClaim, Outstanding, Unheard, requestVars
  <2>6. TypeOK'
    BY <1>0, <2>1, <2>2 DEF TypeOK, requestVars, groupVars
  <2> QED BY <2>2, <2>4, <2>5, <2>6 DEF SettleInv
<1>5. CASE BrokerRaises(o)
  <2>1. /\ opStage[o] = "calling" /\ opStage' = [opStage EXCEPT ![o] = "failed"]
        /\ faults < MaxFaults /\ faults' = faults + 1 /\ busy' = NoOp
        /\ UNCHANGED <<requestVars, groupVars, issued, opBy, opKind, bound, landed>>
    BY <1>5 DEF BrokerRaises, Unreserve
  <2>2. /\ opStage' \in [Ops -> Stages] /\ opStage'[o] = "failed"
        /\ \A p \in Ops : p # o => opStage'[p] = opStage[p]
        /\ Numbered' /\ SourceAckJustified'
    BY <1>0, <2>1, WorkerStep DEF groupVars, Stages
  <2>3. Reserved' /\ LandedOnce' /\ Tracked'
    BY <1>0, <1>z, <2>1, <2>2 DEF Reserved, LandedOnce, Tracked, groupVars
  <2>4. ClaimExclusive'
    BY <1>0, <2>1, <2>2, ClaimsKept DEF HoldsClaim, Outstanding, Unheard, requestVars
  <2>f. faults' \in 0..MaxFaults
    BY <1>0, <2>1, FaultsAssumption DEF TypeOK
  <2>5. TypeOK'
    BY <1>0, <2>1, <2>2, <2>f DEF TypeOK, requestVars, groupVars
  <2> QED BY <2>2, <2>3, <2>4, <2>5 DEF SettleInv
<1>6. CASE CompleteSignal(o)
  <2>1. /\ opStage[o] \in {"ok", "failed"} /\ opStage' = [opStage EXCEPT ![o] = "done"]
        /\ opBy[o] = "signal" /\ meta' \in {meta, {}}
        /\ claims' \in {claims, {}} /\ untold' \subseteq untold
        /\ UNCHANGED <<groupVars, issued, opBy, opKind, tokenVars>>
    BY <1>6 DEF CompleteSignal, Ended, requestVars
  <2>2. /\ opStage' \in [Ops -> Stages] /\ opStage'[o] = "done"
        /\ \A p \in Ops : p # o => opStage'[p] = opStage[p]
        /\ Numbered' /\ SourceAckJustified'
    BY <1>0, <2>1, WorkerStep DEF groupVars, Stages
  <2>3. Reserved' /\ LandedOnce' /\ Tracked'
    BY <1>0, <1>z, <2>1, <2>2 DEF Reserved, LandedOnce, Tracked, groupVars, tokenVars
  <2>4. HoldsClaim(o) /\ \A p \in Ops : HoldsClaim(p) => p = o
    <3>1. HoldsClaim(o)
      BY <2>1 DEF HoldsClaim, Outstanding
    <3> QED BY <1>0, <3>1 DEF ClaimExclusive
  <2>5. \A p \in Ops : HoldsClaim(p)' => p = o
    BY <2>1, <2>2, <2>4 DEF HoldsClaim, Outstanding, Unheard
  <2>6. HoldsClaim(o)' <=> o \in untold'
    BY <2>1, <2>2 DEF HoldsClaim, Outstanding, Unheard
  <2>7. claims' # {} <=> o \in untold'
    <3>1. claims # {}
      BY <1>0, <2>4 DEF ClaimExclusive
    <3> QED BY <1>6, <3>1 DEF CompleteSignal, requestVars
  <2>8. ClaimExclusive'
    BY <2>5, <2>6, <2>7 DEF ClaimExclusive
  <2>9. TypeOK'
    BY <1>0, <2>1, <2>2, <2>3 DEF TypeOK, Reserved, groupVars, tokenVars
  <2> QED BY <2>2, <2>3, <2>8, <2>9 DEF SettleInv
<1>7. CASE CompleteGroup(o)
  <2>1. /\ opStage[o] \in {"ok", "failed"} /\ opStage' = [opStage EXCEPT ![o] = "done"]
        /\ opBy[o] = "group"
        /\ UNCHANGED <<stream, child, requestVars, issued, opBy, opKind, tokenVars>>
        /\ flags' \in SUBSET Flags /\ ("sealed" \in flags' => "sealed" \in flags)
        /\ ("terminal" \in flags => "terminal" \in flags')
        /\ pending' \in SUBSET Children
        /\ pending' = pending \/ "terminal" \in flags'
    BY <1>0, <1>7 DEF CompleteGroup, AfterSettlement, Ended, TypeOK, Flags
  <2>2. /\ opStage' \in [Ops -> Stages] /\ opStage'[o] = "done"
        /\ \A p \in Ops : p # o => opStage'[p] = opStage[p]
        /\ Numbered' /\ SourceAckJustified'
    BY <1>0, <2>1, WorkerStep DEF Stages
  <2>3. Reserved' /\ LandedOnce' /\ Tracked'
    BY <1>0, <1>z, <2>1, <2>2 DEF Reserved, LandedOnce, Tracked, tokenVars
  <2>4. \A p \in Ops : HoldsClaim(p)' <=> HoldsClaim(p)
    BY <2>1, <2>2 DEF HoldsClaim, Outstanding, Unheard, requestVars
  <2>5. ClaimExclusive'
    BY <1>0, <2>1, <2>4, ClaimsKept DEF requestVars
  <2>6. TypeOK'
    BY <1>0, <2>1, <2>2, <2>3 DEF TypeOK, Reserved, requestVars, tokenVars
  <2> QED BY <2>2, <2>3, <2>5, <2>6 DEF SettleInv
<1> QED BY <1>1, <1>2, <1>3, <1>4, <1>5, <1>6, <1>7

\* Every step keeps the invariant.
LEMMA SettleInvStep == SettleInv /\ [Next]_vars => SettleInv'
PROOF
<1> SUFFICES ASSUME SettleInv, [Next]_vars PROVE SettleInv'
  OBVIOUS
<1>1. CASE ResponseReceived
  BY <1>1, SignalStep DEF ResponseReceived, groupVars, SettleInv, TypeOK
<1>2. CASE SpiderError
  BY <1>2, SignalStep DEF SpiderError, groupVars, SettleInv, TypeOK
<1>3. CASE UNCHANGED vars
  <2>1. UNCHANGED <<requestVars, groupVars, opVars, tokenVars>>
    BY <1>3 DEF vars
  <2>2. TypeOK' /\ Numbered' /\ Reserved' /\ LandedOnce' /\ Tracked' /\ SourceAckJustified'
    BY <2>1 DEF SettleInv, TypeOK, Numbered, Reserved, LandedOnce, Tracked, SourceAckJustified,
                requestVars, groupVars, opVars, tokenVars
  <2>3. ClaimExclusive'
    BY <2>1, ClaimsKept DEF SettleInv, HoldsClaim, Outstanding, Unheard, requestVars, opVars
  <2> QED BY <2>2, <2>3 DEF SettleInv
<1> QED BY <1>1, <1>2, <1>3, OutputStep, WorkersStep DEF Next

\* The invariant holds of every delivery.
LEMMA SettleInvHolds == Spec => []SettleInv
BY SettleInvInit, SettleInvStep, PTL DEF Spec

-----------------------------------------------------------------------------
\* No replacement is lost: for any number of replacements, workers and failures, a
\* group acks its source only when its stream is exhausted and every replacement
\* with a child token is past its commit boundary (scheduler.py 300-355).
THEOREM SourceAckIsJustified == Spec => [](TypeOK /\ SourceAckJustified)
PROOF
<1>1. SettleInv => TypeOK /\ SourceAckJustified
  BY DEF SettleInv
<1> QED BY <1>1, SettleInvHolds, PTL

\* The token of a delivery has at most one broker call in flight and one outcome,
\* however signals and group interleave (base.py 118-146).
THEOREM TokenHasOneOutcome == Spec => []OneOutcome
PROOF
<1>1. SettleInv => OneOutcome
  BY DEF SettleInv, TypeOK, Reserved, LandedOnce, OneOutcome, NoOp, Ops
<1> QED BY <1>1, SettleInvHolds, PTL

\* Two signals never settle the same delivery at once (scheduler.py 2343-2374).
THEOREM SignalsExclude == Spec => []ClaimExclusive
PROOF
<1>1. SettleInv => ClaimExclusive
  BY DEF SettleInv
<1> QED BY <1>1, SettleInvHolds, PTL

\* A terminal group submits no settlement (scheduler.py 338-355).
THEOREM AbortedStaysAborted == Spec => AbortIsFinal
PROOF
<1> DEFINE Quiet == "terminal" \in flags =>
             \A o \in Ops : opStage[o] = "unused" /\ opStage'[o] # "unused"
                              => opBy'[o] = "signal"
<1>1. SettleInv /\ [Next]_vars => [Quiet]_vars
  <2> SUFFICES ASSUME SettleInv, Next, "terminal" \in flags,
                      NEW o \in Ops, opStage[o] = "unused", opStage'[o] # "unused"
               PROVE  opBy'[o] = "signal"
    OBVIOUS
  <2>0. TypeOK /\ Numbered
    BY DEF SettleInv
  <2>1. ASSUME NEW kind \in {"ack", "nack"}, SettleRequest(kind) PROVE opBy'[o] = "signal"
    BY <2>0, <2>1, SubmitFacts DEF SettleRequest
  <2>2. ASSUME UNCHANGED opVars PROVE FALSE
    BY <2>2 DEF opVars
  <2>3. ASSUME NEW p \in Ops, opStage[p] # "unused", NEW s, opStage' = [opStage EXCEPT ![p] = s]
        PROVE FALSE
    BY <2>0, <2>3 DEF TypeOK
  <2>4. CASE ResponseReceived \/ SpiderError
    BY <2>1, <2>4 DEF ResponseReceived, SpiderError
  <2>5. CASE Errback \/ EmitConflict
    BY <2>2, <2>5 DEF Errback, EmitConflict
  <2>6. CASE Exhaust \/ BreakStream
    BY <2>1, <2>2, <2>6 DEF Exhaust, BreakStream, Seal, Abort, Live, SettleRequestIfAny
  <2>7. ASSUME NEW c \in Children, \/ EmitReplacement(c) \/ Commit(c)
                                     \/ Accept(c) \/ ChildNack(c)
        PROVE FALSE
    BY <2>2, <2>7 DEF EmitReplacement, Commit, Accept, ChildNack, Live
  <2>8. ASSUME NEW p \in Ops, \/ Start(p) \/ Refuse(p) \/ BrokerReturns(p) \/ BrokerRaises(p)
                               \/ CompleteSignal(p) \/ CompleteGroup(p)
        PROVE FALSE
    BY <2>3, <2>8 DEF Start, Refuse, BrokerReturns, BrokerRaises, CompleteSignal,
                      CompleteGroup, Ended
  <2> QED BY <2>4, <2>5, <2>6, <2>7, <2>8 DEF Next
<1> QED BY <1>1, SettleInvHolds, PTL DEF Spec, AbortIsFinal

\* The three parts together, for any replacements, workers and faults.
THEOREM SettlementIsSound == Spec => []SettlementSound
  BY SourceAckIsJustified, TokenHasOneOutcome, SignalsExclude, PTL DEF SettlementSound


----------------------------------------------------------------------------
(* The receive pumps of the Pulsar backend. *)

PulsarTokens == [consumer : Nat, generation : Nat, msg : Messages, delivery : Nat]
PulsarUnacked == [consumer : Nat, msg : Messages]
PulsarPumps ==
  [generation : Nat, phase : {"subscribe", "publish", "receive", "buffer", "stopped"},
   accepting : BOOLEAN, failed : BOOLEAN, records : Seq(Messages), got : SUBSET Messages,
   retired : BOOLEAN, stopped : BOOLEAN]
PulsarConns ==
  [generation : Nat, client : BOOLEAN, pump : Nat, consumer : Nat, retirement : Nat,
   disconnects : Nat, deliveries : Nat, last : SUBSET PulsarTokens, settled : SUBSET PulsarTokens]
PulsarBrokers ==
  [backlog : SUBSET Messages, live : SUBSET Nat, stray : SUBSET Nat, unacked : SUBSET PulsarUnacked]
PulsarHists ==
  [accepted : SUBSET Messages, asked : SUBSET Messages, unsure : SUBSET Messages,
   holder : [Messages -> SUBSET PulsarTokens]]

PulsarTypes ==
  /\ conn \in PulsarConns /\ broker \in PulsarBrokers /\ table \in Seq(PulsarPumps)
  /\ tokens \in SUBSET PulsarTokens /\ hist \in PulsarHists

\* A pump that may hold the subscription, now or when its call returns.
Subscriber(i) == i \in DOMAIN table /\ (table[i].phase = "subscribe" \/ i \in broker.live)

\* Such a pump is the one in use or the one that is being retired, and a pump
\* is built only when there is neither.
OneSubscriber ==
  /\ \A i \in broker.live : i \in DOMAIN table /\ table[i].phase # "subscribe"
  /\ \A i \in DOMAIN table : Subscriber(i) => i \in {conn.pump, conn.retirement}
  /\ conn.pump # 0 => conn.retirement = 0
  /\ conn.pump \in 0..Len(table) /\ conn.retirement \in 0..Len(table)

\* A pump stops with its consumer published, or with none.
PumpPhases ==
  /\ \A i \in DOMAIN table :
       /\ table[i].stopped <=> table[i].phase = "stopped"
       /\ table[i].failed => table[i].phase = "stopped"
       /\ table[i].phase \in {"subscribe", "publish"} => table[i].records = << >>
       /\ table[i].phase = "buffer" => \E m \in Messages : table[i].got = {m}
       /\ table[i].phase # "buffer" => table[i].got = {}
       /\ table[i].retired => i # conn.pump
  /\ conn.pump \in broker.live /\ table[conn.pump].phase # "publish" => conn.consumer = conn.pump
  /\ conn.consumer \in {0, conn.pump}

PumpInv == PulsarTypes /\ OneSubscriber /\ PumpPhases

\* A consumer whose close() raised is not used again: it is the consumer of a
\* pump that is past its subscription and has been replaced.
StrayInv ==
  /\ broker.stray \subseteq DOMAIN table /\ broker.stray \intersect broker.live = {}
  /\ \A i \in broker.stray : table[i].phase \notin {"subscribe", "publish"} /\ i # conn.pump
  /\ conn.pump # 0 => /\ conn.client /\ table[conn.pump].accepting
                      /\ table[conn.pump].generation = conn.generation

\* The consumers the broker may know.
Attached == broker.live \union broker.stray

\* The messages a pump has received and not handed out.
Buffered(i) == {table[i].records[k] : k \in DOMAIN table[i].records} \union table[i].got
\* The deliveries that can still be settled.
Unsettled == (tokens \ conn.settled) \union conn.last

\* What the subscription holds back is held back once.
HeldBack ==
  /\ broker.backlog \subseteq hist.accepted
  /\ \A u \in broker.unacked : /\ u.msg \in hist.accepted /\ u.msg \notin broker.backlog
                               /\ u.consumer \in Attached
  /\ \A u, v \in broker.unacked : u.msg = v.msg => u = v

\* What a pump has buffered is held back for it.
BufferedOnce ==
  /\ \A i \in broker.live :
       /\ \A m \in Buffered(i) : [consumer |-> i, msg |-> m] \in broker.unacked
       /\ \A j, k \in DOMAIN table[i].records : table[i].records[j] = table[i].records[k] => j = k
       /\ \A k \in DOMAIN table[i].records : table[i].records[k] \notin table[i].got
  /\ conn.pump # 0 /\ Buffered(conn.pump) # {} => conn.pump \in broker.live

\* A delivery of a consumer that is not closed is the newest of its message,
\* which is not on its way to another delivery.
NewestHeld ==
  /\ \A t \in Unsettled : t.consumer \in Attached =>
       /\ hist.holder[t.msg] = {t} /\ t.msg \notin broker.backlog
       /\ t.msg \notin Buffered(t.consumer)
       /\ \A u \in broker.unacked : u.msg = t.msg => u.consumer = t.consumer
  /\ \A t \in tokens \union conn.last :
       /\ t.msg \in hist.accepted /\ t.delivery <= conn.deliveries
       /\ t.consumer \in DOMAIN table /\ table[t.consumer].phase \notin {"subscribe", "publish"}
  /\ tokens \intersect conn.last = {}
  /\ conn.last = {} \/ \E t \in PulsarTokens : conn.last = {t}

PulsarInv == PumpInv /\ StrayInv /\ HeldBack /\ BufferedOnce /\ NewestHeld

\* The table of the receive pumps after one of them has gone on.
LEMMA PumpReplaced ==
  ASSUME NEW s \in Seq(PulsarPumps), NEW i \in DOMAIN s, NEW r \in PulsarPumps
  PROVE  LET n == [s EXCEPT ![i] = r]
         IN  /\ n \in Seq(PulsarPumps) /\ DOMAIN n = DOMAIN s /\ Len(n) = Len(s)
             /\ n[i] = r /\ \A j \in DOMAIN s : j # i => n[j] = s[j]
  <1> HIDE DEF PulsarPumps
  <1> QED OBVIOUS

\* A closed consumer gives its messages back.
LEMMA SubscriptionClosed ==
  ASSUME broker \in PulsarBrokers, NEW i
  PROVE  LET b == Pulsar!Closed(broker, i)
         IN  /\ b \in PulsarBrokers /\ b.live = broker.live \ {i} /\ b.stray = broker.stray \ {i}
             /\ b.unacked = {u \in broker.unacked : u.consumer # i}
             /\ b.backlog = broker.backlog
                  \union {u.msg : u \in {x \in broker.unacked : x.consumer = i}}
  <1> DEFINE B == {u.msg : u \in {x \in broker.unacked : x.consumer = i}}
  <1>1. B \in SUBSET Messages
    BY DEF PulsarBrokers, PulsarUnacked
  <1>2. {u \in broker.unacked : u.consumer # i} \in SUBSET PulsarUnacked /\ broker.live \ {i} \in SUBSET Nat
        /\ broker.stray \ {i} \in SUBSET Nat
    BY DEF PulsarBrokers
  <1>3. Pulsar!Closed(broker, i) = [broker EXCEPT !.live = @ \ {i}, !.stray = @ \ {i},
            !.unacked = {u \in @ : u.consumer # i}, !.backlog = @ \union B]
    BY DEF Pulsar!Closed
  <1> HIDE DEF B
  <1>4. QED BY <1>1, <1>2, <1>3 DEF PulsarBrokers, B

\* A close() that returns or raises: the consumer is not live any more.
LEMMA SubscriptionLeft ==
  ASSUME broker \in PulsarBrokers, NEW i \in Nat, Pulsar!CloseConsumer(i)
  PROVE  /\ broker' \in PulsarBrokers /\ broker'.live = broker.live \ {i}
         /\ \/ broker' = Pulsar!Closed(broker, i)
            \/ /\ broker'.stray = broker.stray \union {i} /\ broker'.unacked = broker.unacked
               /\ broker'.backlog = broker.backlog
  <1>1. CASE broker' = Pulsar!Closed(broker, i)
    BY <1>1, SubscriptionClosed
  <1>2. CASE broker' = [broker EXCEPT !.live = @ \ {i}, !.stray = @ \union {i}]
    BY <1>2 DEF PulsarBrokers
  <1> QED BY <1>1, <1>2 DEF Pulsar!CloseConsumer

\* A step that leaves the pumps and the subscription's consumers alone.
LEMMA PumpsRest ==
  ASSUME PumpInv, PulsarTypes', table' = table, broker'.live = broker.live,
         conn'.pump = conn.pump, conn'.consumer = conn.consumer, conn'.retirement = conn.retirement
  PROVE  PumpInv'
  <1>1. OneSubscriber'
    BY DEF PumpInv, OneSubscriber, Subscriber
  <1>2. PumpPhases'
    BY DEF PumpInv, PumpPhases
  <1> QED BY <1>1, <1>2 DEF PumpInv

LEMMA PumpConnects ==
  ASSUME PumpInv, Pulsar!Connect
  PROVE  PumpInv'
  <1>1. /\ conn \in PulsarConns /\ conn' = [conn EXCEPT !.client = TRUE, !.generation = @ + 1]
        /\ UNCHANGED <<broker, table, tokens, hist>>
    BY DEF Pulsar!Connect, PumpInv, PulsarTypes
  <1>2. conn.generation + 1 \in Nat
    BY <1>1 DEF PulsarConns
  <1>3. /\ conn' \in PulsarConns /\ conn'.pump = conn.pump /\ conn'.consumer = conn.consumer
        /\ conn'.retirement = conn.retirement
    BY <1>1, <1>2 DEF PulsarConns
  <1>4. PulsarTypes'
    BY <1>1, <1>3 DEF PumpInv, PulsarTypes
  <1> QED BY <1>1, <1>3, <1>4, PumpsRest

LEMMA PumpDisconnects ==
  ASSUME PumpInv, Pulsar!Disconnect
  PROVE  PumpInv'
  <1> DEFINE i == conn.pump
             retired == i # 0 /\ (conn.consumer = i \/ ~table[i].stopped)
             turn(j) == [table[j] EXCEPT !.accepting = FALSE, !.retired = @ \/ retired]
  <1>1. conn \in PulsarConns /\ broker \in PulsarBrokers /\ table \in Seq(PulsarPumps)
    BY DEF PumpInv, PulsarTypes
  <1>2. /\ conn' = [conn EXCEPT !.client = FALSE, !.generation = @ + 1, !.pump = 0, !.consumer = 0,
                       !.retirement = IF retired THEN i ELSE @, !.disconnects = @ + 1, !.last = {}]
        /\ table' = [j \in DOMAIN table |-> IF j = i THEN turn(j) ELSE table[j]]
        /\ UNCHANGED <<broker, tokens, hist>>
    BY Zenon DEF Pulsar!Disconnect, Pulsar!NoPump, Pulsar!NoMessage
  <1>3. conn.generation + 1 \in Nat /\ conn.disconnects + 1 \in Nat /\ i \in Nat /\ conn.retirement \in Nat
    BY <1>1 DEF PulsarConns
  <1>4. retired \in BOOLEAN
    OBVIOUS
  <1> HIDE DEF retired
  <1>5. /\ conn' \in PulsarConns /\ conn'.pump = 0 /\ conn'.consumer = 0
        /\ conn'.retirement = IF retired THEN i ELSE conn.retirement
    BY <1>1, <1>2, <1>3 DEF PulsarConns
  <1>6. \A j \in DOMAIN table : /\ turn(j) \in PulsarPumps /\ turn(j).phase = table[j].phase
           /\ turn(j).records = table[j].records /\ turn(j).got = table[j].got
           /\ (turn(j).stopped <=> table[j].stopped) /\ (turn(j).failed <=> table[j].failed)
    <2> SUFFICES ASSUME NEW j \in DOMAIN table
                 PROVE  /\ turn(j) \in PulsarPumps /\ turn(j).phase = table[j].phase
                        /\ turn(j).records = table[j].records /\ turn(j).got = table[j].got
                        /\ (turn(j).stopped <=> table[j].stopped) /\ (turn(j).failed <=> table[j].failed)
      BY Zenon
    <2> DEFINE rt == table[j].retired \/ retired
    <2>1. table[j] \in PulsarPumps
      BY <1>1
    <2>2. rt \in BOOLEAN
      OBVIOUS
    <2>3. turn(j) = [table[j] EXCEPT !.accepting = FALSE, !.retired = rt]
      OBVIOUS
    <2> HIDE DEF turn, rt
    <2> QED BY <2>1, <2>2, <2>3 DEF PulsarPumps
  <1>7. DOMAIN table' = DOMAIN table /\ Len(table') = Len(table) /\ table' \in Seq(PulsarPumps)
    <2>1. \A j \in DOMAIN table : table[j] \in PulsarPumps
      BY <1>1
    <2> HIDE DEF turn
    <2>2. table' \in [1..Len(table) -> PulsarPumps]
      BY <1>1, <1>2, <1>6, <2>1
    <2> QED BY <1>1, <2>2
  <1>8. \A j \in DOMAIN table :
           /\ table'[j].phase = table[j].phase /\ table'[j].got = table[j].got
           /\ table'[j].records = table[j].records
           /\ (table'[j].stopped <=> table[j].stopped) /\ (table'[j].failed <=> table[j].failed)
    <2> HIDE DEF turn
    <2> QED BY <1>2, <1>6, Zenon
  <1>9. PulsarTypes'
    BY <1>2, <1>5, <1>7 DEF PumpInv, PulsarTypes
  <1>10. 0 \notin DOMAIN table /\ DOMAIN table = 1..Len(table) /\ Len(table) \in Nat
    BY <1>1
  <1>11. \A j \in DOMAIN table : Subscriber(j) => j = conn'.retirement
    <2> SUFFICES ASSUME NEW j \in DOMAIN table, Subscriber(j)
                 PROVE  j = conn'.retirement
      OBVIOUS
    <2>1. CASE j = i
      <3>1. retired
        BY <1>10, <2>1 DEF retired, PumpInv, OneSubscriber, PumpPhases, Subscriber
      <3> QED BY <1>5, <2>1, <3>1
    <2>2. CASE j # i
      <3>1. j = conn.retirement /\ i = 0
        BY <1>10, <2>2 DEF PumpInv, OneSubscriber
      <3> QED BY <1>5, <3>1 DEF retired
    <2> QED BY <2>1, <2>2
  <1>12. OneSubscriber'
    <2>1. \A j \in DOMAIN table' : Subscriber(j)' => Subscriber(j)
      BY <1>2, <1>7, <1>8 DEF Subscriber
    <2>2. conn'.retirement \in 0..Len(table') /\ conn'.pump \in 0..Len(table')
      BY <1>5, <1>7, <1>10 DEF PumpInv, OneSubscriber
    <2>3. \A j \in broker'.live : j \in DOMAIN table' /\ table'[j].phase # "subscribe"
      BY <1>2, <1>7, <1>8 DEF PumpInv, OneSubscriber
    <2>4. \A j \in DOMAIN table' : Subscriber(j)' => j \in {conn'.pump, conn'.retirement}
      BY <1>7, <1>11, <2>1
    <2> QED BY <1>5, <2>2, <2>3, <2>4, Zenon DEF OneSubscriber
  <1>13. PumpPhases'
    <2>1. 0 \notin broker'.live
      BY <1>2, <1>10 DEF PumpInv, OneSubscriber
    <2>2. \A j \in DOMAIN table' : /\ table'[j].stopped <=> table'[j].phase = "stopped"
                                   /\ table'[j].failed => table'[j].phase = "stopped"
      BY <1>7, <1>8 DEF PumpInv, PumpPhases
    <2>3. \A j \in DOMAIN table' :
       /\ table'[j].phase \in {"subscribe", "publish"} => table'[j].records = << >>
       /\ table'[j].phase = "buffer" => \E m \in Messages : table'[j].got = {m}
       /\ table'[j].phase # "buffer" => table'[j].got = {}
       /\ table'[j].retired => j # conn'.pump
      BY <1>5, <1>7, <1>8, <1>10 DEF PumpInv, PumpPhases
    <2> QED BY <1>5, <2>1, <2>2, <2>3 DEF PumpPhases
  <1> QED BY <1>9, <1>12, <1>13 DEF PumpInv


\* One pump goes on: it has its consumer, loses it, or keeps what it had.
LEMMA PumpGoesOn ==
  ASSUME PumpInv, NEW i \in DOMAIN table, NEW r \in PulsarPumps, table' = [table EXCEPT ![i] = r],
         conn' \in PulsarConns, broker' \in PulsarBrokers, tokens' \in SUBSET PulsarTokens,
         hist' \in PulsarHists,
         r.phase # "subscribe",
         broker'.live \subseteq broker.live \union {i},
         i \in broker'.live => Subscriber(i),
         conn'.pump = conn.pump,
         conn'.retirement = conn.retirement \/ (conn'.retirement = 0 /\ conn.retirement = i /\ i \notin broker'.live),
         conn'.consumer = conn.consumer \/ conn'.consumer = conn.pump,
         i = conn.pump /\ i \in broker'.live /\ r.phase # "publish" => conn'.consumer = i,
         r.stopped <=> r.phase = "stopped",
         r.failed => r.phase = "stopped",
         r.phase = "publish" => r.records = << >>,
         r.phase = "buffer" => \E m \in Messages : r.got = {m},
         r.phase # "buffer" => r.got = {},
         r.retired => i # conn.pump
  PROVE  PumpInv'
  <1>1. conn \in PulsarConns /\ table \in Seq(PulsarPumps) /\ DOMAIN table = 1..Len(table) /\ Len(table) \in Nat
    BY DEF PumpInv, PulsarTypes
  <1>2. /\ table' \in Seq(PulsarPumps) /\ DOMAIN table' = DOMAIN table /\ Len(table') = Len(table)
        /\ table'[i] = r /\ \A j \in DOMAIN table : j # i => table'[j] = table[j]
    BY <1>1, PumpReplaced
  <1>3. PulsarTypes'
    BY <1>2 DEF PulsarTypes
  <1>4. OneSubscriber'
    <2>1. \A j \in broker'.live : j \in DOMAIN table' /\ table'[j].phase # "subscribe"
      BY <1>2 DEF PumpInv, OneSubscriber
    <2>2. \A j \in DOMAIN table' : Subscriber(j)' => Subscriber(j)
      BY <1>2 DEF Subscriber
    <2>3. \A j \in DOMAIN table' : Subscriber(j)' => j \in {conn'.pump, conn'.retirement}
      <3> SUFFICES ASSUME NEW j \in DOMAIN table', Subscriber(j)'
                   PROVE  j \in {conn'.pump, conn'.retirement}
        OBVIOUS
      <3>1. j \in {conn.pump, conn.retirement}
        BY <1>2, <2>2 DEF PumpInv, OneSubscriber
      <3>2. j = i => j \in broker'.live
        BY <1>2 DEF Subscriber
      <3> QED BY <3>1, <3>2
    <2>4. conn'.pump # 0 => conn'.retirement = 0
      BY DEF PumpInv, OneSubscriber
    <2>5. conn'.pump \in 0..Len(table') /\ conn'.retirement \in 0..Len(table')
      BY <1>1, <1>2 DEF PumpInv, OneSubscriber
    <2> QED BY <2>1, <2>3, <2>4, <2>5 DEF OneSubscriber
  <1>5. PumpPhases'
    <2>1. \A j \in DOMAIN table' : /\ table'[j].stopped <=> table'[j].phase = "stopped"
                                   /\ table'[j].failed => table'[j].phase = "stopped"
      BY <1>2 DEF PumpInv, PumpPhases
    <2>2. \A j \in DOMAIN table' :
       /\ table'[j].phase \in {"subscribe", "publish"} => table'[j].records = << >>
       /\ table'[j].phase = "buffer" => \E m \in Messages : table'[j].got = {m}
       /\ table'[j].phase # "buffer" => table'[j].got = {}
      BY <1>2 DEF PumpInv, PumpPhases
    <2>3. \A j \in DOMAIN table' : table'[j].retired => j # conn'.pump
      BY <1>2 DEF PumpInv, PumpPhases
    <2>4. conn'.pump \in broker'.live /\ table'[conn'.pump].phase # "publish" => conn'.consumer = conn'.pump
      BY <1>2 DEF PumpInv, OneSubscriber, PumpPhases
    <2>5. conn'.consumer \in {0, conn'.pump}
      BY DEF PumpInv, PumpPhases
    <2> QED BY <2>1, <2>2, <2>3, <2>4, <2>5 DEF PumpPhases
  <1> QED BY <1>3, <1>4, <1>5 DEF PumpInv

LEMMA PumpBuilt ==
  ASSUME PumpInv, Pulsar!EnsurePump
  PROVE  PumpInv'
  <1> DEFINE r == [generation |-> conn.generation, phase |-> "subscribe", accepting |-> TRUE,
                   failed |-> FALSE, records |-> << >>, got |-> {}, retired |-> FALSE, stopped |-> FALSE]
  <1>1. /\ conn \in PulsarConns /\ table \in Seq(PulsarPumps) /\ DOMAIN table = 1..Len(table) /\ Len(table) \in Nat
        /\ broker \in PulsarBrokers
    BY DEF PumpInv, PulsarTypes
  <1>2. r \in PulsarPumps
    BY <1>1 DEF PulsarConns, PulsarPumps
  <1>3. /\ conn.pump = 0 /\ conn.retirement = 0 /\ table' = Append(table, r)
        /\ conn' = [conn EXCEPT !.pump = Len(table) + 1] /\ UNCHANGED <<broker, tokens, hist>>
    BY DEF Pulsar!EnsurePump, Pulsar!NoPump, Pulsar!NoMessage
  <1>4. /\ r.phase = "subscribe" /\ r.records = << >> /\ r.got = {}
    OBVIOUS
  <1>5. ~r.failed /\ ~r.retired /\ ~r.stopped
    OBVIOUS
  <1> HIDE DEF r
  <1>6. /\ conn' \in PulsarConns /\ conn'.pump = Len(table) + 1 /\ conn'.consumer = conn.consumer
        /\ conn'.retirement = 0
    BY <1>1, <1>3 DEF PulsarConns
  <1>7. /\ table' \in Seq(PulsarPumps) /\ Len(table') = Len(table) + 1 /\ DOMAIN table' = 1..Len(table')
        /\ table'[Len(table) + 1] = r
        /\ \A j \in DOMAIN table : j \in DOMAIN table' /\ j # Len(table) + 1 /\ table'[j] = table[j]
        /\ \A j \in DOMAIN table' : j \in DOMAIN table \/ j = Len(table) + 1
    BY <1>1, <1>2, <1>3
  <1>8. PulsarTypes'
    BY <1>3, <1>6, <1>7 DEF PumpInv, PulsarTypes
  <1>9. \A j \in DOMAIN table : ~Subscriber(j)
    BY <1>1, <1>3 DEF PumpInv, OneSubscriber
  <1>10. broker'.live = {}
    BY <1>3, <1>9 DEF PumpInv, OneSubscriber, Subscriber
  <1>11. OneSubscriber'
    <2>1. \A j \in DOMAIN table' : Subscriber(j)' => j = Len(table) + 1
      BY <1>7, <1>9, <1>10 DEF Subscriber
    <2>2. conn'.pump \in 0..Len(table') /\ conn'.retirement \in 0..Len(table')
      BY <1>1, <1>6, <1>7
    <2> QED BY <1>6, <1>10, <2>1, <2>2 DEF OneSubscriber
  <1>12. PumpPhases'
    <2>1. \A j \in DOMAIN table' : /\ table'[j].stopped <=> table'[j].phase = "stopped"
                                   /\ table'[j].failed => table'[j].phase = "stopped"
      BY <1>4, <1>5, <1>7 DEF PumpInv, PumpPhases
    <2>2. \A j \in DOMAIN table' :
       /\ table'[j].phase \in {"subscribe", "publish"} => table'[j].records = << >>
       /\ table'[j].phase = "buffer" => \E m \in Messages : table'[j].got = {m}
       /\ table'[j].phase # "buffer" => table'[j].got = {}
      BY <1>4, <1>7 DEF PumpInv, PumpPhases
    <2>3. \A j \in DOMAIN table' : table'[j].retired => j # conn'.pump
      BY <1>5, <1>6, <1>7
    <2>4. conn'.consumer = 0
      BY <1>3, <1>6 DEF PumpInv, PumpPhases
    <2> QED BY <1>10, <2>1, <2>2, <2>3, <2>4 DEF PumpPhases
  <1> QED BY <1>8, <1>11, <1>12 DEF PumpInv

\* Subscribing and publishing, and the two ways in which they fail.
LEMMA PumpSubscribed ==
  ASSUME PumpInv, NEW i \in DOMAIN table, Pulsar!PumpSubscribes(i)
  PROVE  PumpInv'
  <1> DEFINE r == [table[i] EXCEPT !.phase = "publish"]
  <1>1. /\ conn \in PulsarConns /\ table \in Seq(PulsarPumps) /\ broker \in PulsarBrokers
        /\ tokens \in SUBSET PulsarTokens /\ hist \in PulsarHists /\ table[i] \in PulsarPumps /\ i \in Nat
    BY DEF PumpInv, PulsarTypes
  <1>2. /\ table[i].phase = "subscribe" /\ broker' = [broker EXCEPT !.live = @ \union {i}]
        /\ table' = [table EXCEPT ![i] = r] /\ UNCHANGED <<conn, tokens, hist>>
    BY <1>1 DEF Pulsar!PumpSubscribes
  <1>3. /\ table[i].records = << >> /\ table[i].got = {} /\ ~table[i].stopped /\ ~table[i].failed
        /\ (table[i].retired => i # conn.pump)
    BY <1>2 DEF PumpInv, PumpPhases
  <1>4. /\ r \in PulsarPumps /\ r.phase = "publish" /\ r.records = << >> /\ r.got = {}
        /\ ~r.stopped /\ ~r.failed /\ (r.retired => i # conn.pump)
    BY <1>1, <1>3 DEF PulsarPumps
  <1> HIDE DEF r
  <1>5. broker' \in PulsarBrokers /\ broker'.live = broker.live \union {i}
    BY <1>1, <1>2 DEF PulsarBrokers
  <1>6. Subscriber(i)
    BY <1>2 DEF Subscriber
  <1> QED BY <1>1, <1>2, <1>4, <1>5, <1>6, PumpGoesOn

LEMMA PumpNotSubscribed ==
  ASSUME PumpInv, NEW i \in DOMAIN table, Pulsar!PumpCannotSubscribe(i)
  PROVE  PumpInv'
  <1> DEFINE f == Pulsar!PumpLive(i)
             r == [table[i] EXCEPT !.phase = "stopped", !.stopped = TRUE, !.failed = f]
  <1>1. /\ conn \in PulsarConns /\ table \in Seq(PulsarPumps) /\ broker \in PulsarBrokers
        /\ tokens \in SUBSET PulsarTokens /\ hist \in PulsarHists /\ table[i] \in PulsarPumps /\ i \in Nat
    BY DEF PumpInv, PulsarTypes
  <1>2. f \in BOOLEAN
    BY <1>1 DEF Pulsar!PumpLive, PulsarConns, PulsarPumps
  <1>3. /\ table[i].phase = "subscribe" /\ table' = [table EXCEPT ![i] = r]
        /\ conn' = [conn EXCEPT !.retirement = IF @ = i THEN 0 ELSE @] /\ UNCHANGED <<broker, tokens, hist>>
    <2> HIDE DEF f
    <2>1. table' = [table EXCEPT ![i].phase = "stopped", ![i].stopped = TRUE, ![i].failed = f]
      BY DEF Pulsar!PumpCannotSubscribe, f
    <2> QED BY <1>1, <2>1 DEF Pulsar!PumpCannotSubscribe, Pulsar!NoPump
  <1>4. /\ table[i].got = {} /\ (table[i].retired => i # conn.pump) /\ i \notin broker.live
    BY <1>3 DEF PumpInv, PumpPhases, OneSubscriber
  <1> HIDE DEF f
  <1>5. /\ r \in PulsarPumps /\ r.phase = "stopped" /\ r.got = {} /\ r.stopped /\ (r.retired => i # conn.pump)
    BY <1>1, <1>2, <1>4 DEF PulsarPumps
  <1> HIDE DEF r
  <1>6. /\ conn' \in PulsarConns /\ conn'.pump = conn.pump /\ conn'.consumer = conn.consumer
        /\ conn'.retirement = IF conn.retirement = i THEN 0 ELSE conn.retirement
    BY <1>1, <1>3 DEF PulsarConns
  <1> QED BY <1>1, <1>3, <1>4, <1>5, <1>6, PumpGoesOn

LEMMA PumpPublished ==
  ASSUME PumpInv, NEW i \in DOMAIN table, Pulsar!PumpPublishes(i)
  PROVE  PumpInv'
  <1> DEFINE r == [table[i] EXCEPT !.phase = "receive"]
  <1>1. /\ conn \in PulsarConns /\ table \in Seq(PulsarPumps) /\ broker \in PulsarBrokers
        /\ tokens \in SUBSET PulsarTokens /\ hist \in PulsarHists /\ table[i] \in PulsarPumps /\ i \in Nat
    BY DEF PumpInv, PulsarTypes
  <1>2. /\ table[i].phase = "publish" /\ conn.pump = i /\ conn' = [conn EXCEPT !.consumer = i]
        /\ table' = [table EXCEPT ![i] = r] /\ UNCHANGED <<broker, tokens, hist>>
    BY <1>1 DEF Pulsar!PumpPublishes, Pulsar!PumpLive
  <1>3. /\ table[i].got = {} /\ ~table[i].stopped /\ ~table[i].failed /\ (table[i].retired => i # conn.pump)
    BY <1>2 DEF PumpInv, PumpPhases
  <1>4. /\ r \in PulsarPumps /\ r.phase = "receive" /\ r.got = {}
        /\ ~r.stopped /\ ~r.failed /\ (r.retired => i # conn.pump)
    BY <1>1, <1>3 DEF PulsarPumps
  <1> HIDE DEF r
  <1>5. conn' \in PulsarConns /\ conn'.pump = i /\ conn'.consumer = i /\ conn'.retirement = conn.retirement
    BY <1>1, <1>2 DEF PulsarConns
  <1> QED BY <1>1, <1>2, <1>4, <1>5, PumpGoesOn DEF Subscriber

LEMMA PumpClosed ==
  ASSUME PumpInv, NEW i \in DOMAIN table, Pulsar!PumpClosesStale(i)
  PROVE  PumpInv'
  <1> DEFINE r == [table[i] EXCEPT !.phase = "stopped", !.stopped = TRUE]
  <1>1. /\ conn \in PulsarConns /\ table \in Seq(PulsarPumps) /\ broker \in PulsarBrokers
        /\ tokens \in SUBSET PulsarTokens /\ hist \in PulsarHists /\ table[i] \in PulsarPumps /\ i \in Nat
    BY DEF PumpInv, PulsarTypes
  <1>2. /\ table[i].phase = "publish" /\ table' = [table EXCEPT ![i] = r] /\ Pulsar!CloseConsumer(i)
        /\ conn' = [conn EXCEPT !.retirement = IF @ = i THEN 0 ELSE @] /\ UNCHANGED <<tokens, hist>>
    BY <1>1 DEF Pulsar!PumpClosesStale, Pulsar!NoPump
  <1>3. /\ table[i].got = {} /\ ~table[i].failed /\ (table[i].retired => i # conn.pump)
    BY <1>2 DEF PumpInv, PumpPhases
  <1>4. /\ r \in PulsarPumps /\ r.phase = "stopped" /\ r.got = {} /\ r.stopped /\ (r.retired => i # conn.pump)
    BY <1>1, <1>3 DEF PulsarPumps
  <1> HIDE DEF r
  <1>5. broker' \in PulsarBrokers /\ broker'.live = broker.live \ {i}
    BY <1>1, <1>2, SubscriptionLeft
  <1>6. /\ conn' \in PulsarConns /\ conn'.pump = conn.pump /\ conn'.consumer = conn.consumer
        /\ conn'.retirement = IF conn.retirement = i THEN 0 ELSE conn.retirement
    BY <1>1, <1>2 DEF PulsarConns
  <1> QED BY <1>1, <1>2, <1>4, <1>5, <1>6, PumpGoesOn

LEMMA PumpRetired ==
  ASSUME PumpInv, NEW i \in DOMAIN table, Pulsar!Retire(i)
  PROVE  PumpInv'
  <1> DEFINE r == table[i]
  <1>1. /\ conn \in PulsarConns /\ table \in Seq(PulsarPumps) /\ broker \in PulsarBrokers
        /\ tokens \in SUBSET PulsarTokens /\ hist \in PulsarHists /\ r \in PulsarPumps /\ i \in Nat
    BY DEF PumpInv, PulsarTypes
  <1>2. /\ i \in broker.live /\ table' = table /\ Pulsar!CloseConsumer(i)
        /\ conn' = [conn EXCEPT !.retirement = IF @ = i THEN 0 ELSE @] /\ UNCHANGED <<tokens, hist>>
    BY DEF Pulsar!Retire, Pulsar!NoPump
  <1>3. table' = [table EXCEPT ![i] = r]
    BY <1>1, <1>2
  <1>4. /\ r.phase # "subscribe" /\ (r.stopped <=> r.phase = "stopped") /\ (r.failed => r.phase = "stopped")
        /\ (r.phase = "publish" => r.records = << >>)
        /\ (r.phase = "buffer" => \E m \in Messages : r.got = {m})
        /\ (r.phase # "buffer" => r.got = {}) /\ (r.retired => i # conn.pump)
    BY <1>2 DEF PumpInv, PumpPhases, OneSubscriber
  <1> HIDE DEF r
  <1>5. broker' \in PulsarBrokers /\ broker'.live = broker.live \ {i}
    BY <1>1, <1>2, SubscriptionLeft
  <1>6. /\ conn' \in PulsarConns /\ conn'.pump = conn.pump /\ conn'.consumer = conn.consumer
        /\ conn'.retirement = IF conn.retirement = i THEN 0 ELSE conn.retirement
    BY <1>1, <1>2 DEF PulsarConns
  <1> QED BY <1>1, <1>2, <1>3, <1>4, <1>5, <1>6, PumpGoesOn


\* Receiving, buffering and stopping.
LEMMA PumpReceived ==
  ASSUME PumpInv, NEW i \in DOMAIN table, NEW m \in Messages, Pulsar!PumpReceives(i, m)
  PROVE  PumpInv'
  <1> DEFINE r == [table[i] EXCEPT !.phase = "buffer", !.got = {m}]
             u == [consumer |-> i, msg |-> m]
  <1>1. /\ conn \in PulsarConns /\ table \in Seq(PulsarPumps) /\ broker \in PulsarBrokers
        /\ tokens \in SUBSET PulsarTokens /\ hist \in PulsarHists /\ table[i] \in PulsarPumps /\ i \in Nat
    BY DEF PumpInv, PulsarTypes
  <1>2. /\ table[i].phase = "receive" /\ table' = [table EXCEPT ![i] = r]
        /\ broker' = [broker EXCEPT !.backlog = @ \ {m}, !.unacked = @ \union {u}]
        /\ UNCHANGED <<conn, tokens, hist>>
    BY <1>1 DEF Pulsar!PumpReceives
  <1>3. ~table[i].stopped /\ ~table[i].failed /\ (table[i].retired => i # conn.pump)
    BY <1>2 DEF PumpInv, PumpPhases
  <1>4. /\ r \in PulsarPumps /\ r.phase = "buffer" /\ r.got = {m}
        /\ ~r.stopped /\ ~r.failed /\ (r.retired => i # conn.pump)
    BY <1>1, <1>3 DEF PulsarPumps
  <1> HIDE DEF r
  <1>5. u \in PulsarUnacked
    BY <1>1 DEF PulsarUnacked
  <1> HIDE DEF u
  <1>6. broker' \in PulsarBrokers /\ broker'.live = broker.live
    BY <1>1, <1>2, <1>5 DEF PulsarBrokers
  <1>7. i = conn.pump /\ i \in broker.live => conn.consumer = i
    BY <1>2 DEF PumpInv, PumpPhases
  <1> QED BY <1>1, <1>2, <1>4, <1>6, <1>7, PumpGoesOn DEF Subscriber

LEMMA PumpBuffered ==
  ASSUME PumpInv, NEW i \in DOMAIN table, Pulsar!PumpBuffers(i)
  PROVE  PumpInv'
  <1>1. /\ conn \in PulsarConns /\ table \in Seq(PulsarPumps) /\ broker \in PulsarBrokers
        /\ tokens \in SUBSET PulsarTokens /\ hist \in PulsarHists /\ table[i] \in PulsarPumps /\ i \in Nat
    BY DEF PumpInv, PulsarTypes
  <1>2. table[i].phase = "buffer" /\ UNCHANGED <<conn, broker, tokens, hist>>
    BY DEF Pulsar!PumpBuffers
  <1>3. PICK m \in Messages : table[i].got = {m}
    BY <1>2 DEF PumpInv, PumpPhases
  <1>4. ~table[i].stopped /\ ~table[i].failed /\ (table[i].retired => i # conn.pump)
    BY <1>2 DEF PumpInv, PumpPhases
  <1>5. i = conn.pump /\ i \in broker.live => conn.consumer = i
    BY <1>2 DEF PumpInv, PumpPhases
  <1>6. (CHOOSE x \in table[i].got : TRUE) = m
    BY <1>3
  <1>7. CASE Pulsar!PumpLive(i) /\ conn.consumer = i
    <2> DEFINE s == Append(table[i].records, m)
               r == [table[i] EXCEPT !.phase = "receive", !.got = {}, !.records = s]
    <2>1. s \in Seq(Messages)
      BY <1>1 DEF PulsarPumps
    <2>2. table' = [table EXCEPT ![i] = r]
      <3>1. table' = [table EXCEPT ![i].phase = "receive", ![i].got = {}, ![i].records = Append(@, m)]
        BY <1>6, <1>7 DEF Pulsar!PumpBuffers
      <3> QED BY <1>1, <3>1
    <2> HIDE DEF s
    <2>3. /\ r \in PulsarPumps /\ r.phase = "receive" /\ r.got = {}
          /\ ~r.stopped /\ ~r.failed /\ (r.retired => i # conn.pump)
      BY <1>1, <1>4, <2>1 DEF PulsarPumps
    <2> HIDE DEF r
    <2> QED BY <1>1, <1>2, <1>5, <2>2, <2>3, PumpGoesOn DEF Subscriber
  <1>8. CASE ~(Pulsar!PumpLive(i) /\ conn.consumer = i)
    <2> DEFINE r == [table[i] EXCEPT !.phase = "stopped", !.got = {}, !.stopped = TRUE]
    <2>1. table' = [table EXCEPT ![i] = r]
      <3>1. table' = [table EXCEPT ![i].phase = "stopped", ![i].got = {}, ![i].stopped = TRUE]
        BY <1>8 DEF Pulsar!PumpBuffers
      <3> QED BY <1>1, <3>1
    <2>2. /\ r \in PulsarPumps /\ r.phase = "stopped" /\ r.got = {} /\ r.stopped /\ (r.retired => i # conn.pump)
      BY <1>1, <1>4 DEF PulsarPumps
    <2> HIDE DEF r
    <2> QED BY <1>1, <1>2, <1>5, <2>1, <2>2, PumpGoesOn DEF Subscriber
  <1> QED BY <1>7, <1>8

LEMMA PumpEnded ==
  ASSUME PumpInv, NEW i \in DOMAIN table, Pulsar!PumpEnds(i)
  PROVE  PumpInv'
  <1> DEFINE f == Pulsar!PumpLive(i)
             r == [table[i] EXCEPT !.phase = "stopped", !.stopped = TRUE, !.failed = f]
  <1>1. /\ conn \in PulsarConns /\ table \in Seq(PulsarPumps) /\ broker \in PulsarBrokers
        /\ tokens \in SUBSET PulsarTokens /\ hist \in PulsarHists /\ table[i] \in PulsarPumps /\ i \in Nat
    BY DEF PumpInv, PulsarTypes
  <1>2. f \in BOOLEAN
    BY <1>1 DEF Pulsar!PumpLive, PulsarConns, PulsarPumps
  <1>3. /\ table[i].phase = "receive" /\ table' = [table EXCEPT ![i] = r] /\ UNCHANGED <<conn, broker, tokens, hist>>
    <2> HIDE DEF f
    <2>1. table' = [table EXCEPT ![i].phase = "stopped", ![i].stopped = TRUE, ![i].failed = f]
      BY DEF Pulsar!PumpEnds, f
    <2> QED BY <1>1, <2>1 DEF Pulsar!PumpEnds
  <1>4. /\ table[i].got = {} /\ (table[i].retired => i # conn.pump)
        /\ (i = conn.pump /\ i \in broker.live => conn.consumer = i)
    BY <1>3 DEF PumpInv, PumpPhases
  <1> HIDE DEF f
  <1>5. /\ r \in PulsarPumps /\ r.phase = "stopped" /\ r.got = {} /\ r.stopped /\ (r.retired => i # conn.pump)
    BY <1>1, <1>2, <1>4 DEF PulsarPumps
  <1> HIDE DEF r
  <1> QED BY <1>1, <1>3, <1>4, <1>5, PumpGoesOn DEF Subscriber

\* The deliveries, and a pop that finds its pump failed.
LEMMA PumpHandsOut ==
  ASSUME PumpInv, NEW withToken \in BOOLEAN, Pulsar!Receive(withToken)
  PROVE  PumpInv'
  <1> DEFINE i == conn.pump
             m == Head(table[i].records)
             t == [consumer |-> i, generation |-> conn.generation, msg |-> m, delivery |-> conn.deliveries + 1]
             s == Tail(table[i].records)
             r == [table[i] EXCEPT !.records = s]
  <1>1. i \in DOMAIN table
    BY DEF Pulsar!Receive, Pulsar!NoPump, PumpInv, OneSubscriber, PulsarTypes
  <1>2. /\ conn \in PulsarConns /\ table \in Seq(PulsarPumps) /\ broker \in PulsarBrokers
        /\ tokens \in SUBSET PulsarTokens /\ hist \in PulsarHists /\ table[i] \in PulsarPumps /\ i \in Nat
    BY <1>1 DEF PumpInv, PulsarTypes
  <1>3. /\ table[i].records # << >> /\ table' = [table EXCEPT ![i] = r]
        /\ conn' = [conn EXCEPT !.deliveries = @ + 1, !.last = IF withToken THEN @ ELSE {t}]
        /\ tokens' = (IF withToken THEN tokens \union {t} ELSE tokens)
        /\ hist' = [hist EXCEPT !.asked = @ \ {m}, !.holder[m] = {t}]
        /\ UNCHANGED broker
    BY <1>1, <1>2 DEF Pulsar!Receive, Pulsar!NoPump
  <1>4. m \in Messages /\ s \in Seq(Messages)
    BY <1>2, <1>3 DEF PulsarPumps
  <1>5. conn.deliveries + 1 \in Nat /\ conn.generation \in Nat
    BY <1>2 DEF PulsarConns
  <1>6. t \in PulsarTokens
    BY <1>2, <1>4, <1>5 DEF PulsarTokens
  <1> HIDE DEF t
  <1>7. /\ conn' \in PulsarConns /\ conn'.pump = i /\ conn'.consumer = conn.consumer
        /\ conn'.retirement = conn.retirement
    <2>1. {t} \in SUBSET PulsarTokens
      BY <1>6
    <2>2. conn' \in PulsarConns
      <3>1. CASE withToken
        BY <1>2, <1>3, <1>5, <3>1 DEF PulsarConns
      <3>2. CASE ~withToken
        BY <1>2, <1>3, <1>5, <2>1, <3>2 DEF PulsarConns
      <3> QED BY <3>1, <3>2
    <2> QED BY <1>2, <1>3, <2>2 DEF PulsarConns
  <1>8. tokens' \in SUBSET PulsarTokens
    BY <1>2, <1>3, <1>6
  <1>9. hist' \in PulsarHists
    <2> HIDE DEF m
    <2> QED BY <1>2, <1>3, <1>4, <1>6 DEF PulsarHists
  <1>10. /\ table[i].phase \notin {"subscribe", "publish"} /\ (table[i].stopped <=> table[i].phase = "stopped")
         /\ (table[i].failed => table[i].phase = "stopped")
         /\ (table[i].phase = "buffer" => \E n \in Messages : table[i].got = {n})
         /\ (table[i].phase # "buffer" => table[i].got = {}) /\ ~table[i].retired
         /\ (i \in broker.live => conn.consumer = i)
    BY <1>1, <1>3 DEF PumpInv, PumpPhases
  <1> HIDE DEF s
  <1>11. /\ r \in PulsarPumps /\ r.phase = table[i].phase /\ r.got = table[i].got
         /\ (r.stopped <=> table[i].stopped) /\ (r.failed <=> table[i].failed) /\ (r.retired <=> table[i].retired)
    BY <1>2, <1>4 DEF PulsarPumps
  <1> HIDE DEF r, i
  <1>12. conn.pump = i
    BY DEF i
  <1> QED BY <1>1, <1>2, <1>3, <1>7, <1>8, <1>9, <1>10, <1>11, <1>12, PumpGoesOn DEF Subscriber

LEMMA PumpFoundFailed ==
  ASSUME PumpInv, Pulsar!PopFindsFailure
  PROVE  PumpInv'
  <1> DEFINE i == conn.pump
             published == conn.consumer = i
             r == [table[i] EXCEPT !.accepting = FALSE, !.retired = published]
  <1>1. i \in DOMAIN table /\ i # 0
    BY DEF Pulsar!PopFindsFailure, Pulsar!NoPump, PumpInv, OneSubscriber, PulsarTypes
  <1>2. /\ conn \in PulsarConns /\ table \in Seq(PulsarPumps) /\ broker \in PulsarBrokers
        /\ table[i] \in PulsarPumps /\ i \in Nat /\ DOMAIN table = 1..Len(table) /\ Len(table) \in Nat
    BY <1>1 DEF PumpInv, PulsarTypes
  <1>3. published \in BOOLEAN
    OBVIOUS
  <1>4. /\ table[i].failed /\ table' = [table EXCEPT ![i] = r]
        /\ conn' = [conn EXCEPT !.pump = 0, !.consumer = 0, !.retirement = IF published THEN i ELSE @]
        /\ UNCHANGED <<broker, tokens, hist>>
    <2> HIDE DEF published
    <2>1. table' = [table EXCEPT ![i].accepting = FALSE, ![i].retired = published]
      BY DEF Pulsar!PopFindsFailure, published
    <2>2. conn' = [conn EXCEPT !.pump = 0, !.consumer = 0, !.retirement = IF published THEN i ELSE @]
      BY DEF Pulsar!PopFindsFailure, Pulsar!NoPump, published
    <2>3. table' = [table EXCEPT ![i] = r]
      BY <1>1, <1>2, <2>1
    <2> QED BY <2>2, <2>3 DEF Pulsar!PopFindsFailure
  <1>5. table[i].phase = "stopped" /\ conn.retirement = 0 /\ (i \in broker.live => published)
    BY <1>1, <1>4 DEF PumpInv, PumpPhases, OneSubscriber
  <1> HIDE DEF published
  <1>6. /\ r \in PulsarPumps /\ r.phase = table[i].phase /\ r.got = table[i].got /\ r.records = table[i].records
        /\ (r.stopped <=> table[i].stopped) /\ (r.failed <=> table[i].failed)
    BY <1>2, <1>3 DEF PulsarPumps
  <1> HIDE DEF r
  <1>7. /\ conn' \in PulsarConns /\ conn'.pump = 0 /\ conn'.consumer = 0
        /\ conn'.retirement = IF published THEN i ELSE conn.retirement
    BY <1>2, <1>4 DEF PulsarConns
  <1>8. /\ table' \in Seq(PulsarPumps) /\ DOMAIN table' = DOMAIN table /\ Len(table') = Len(table)
        /\ table'[i] = r /\ \A j \in DOMAIN table : j # i => table'[j] = table[j]
    BY <1>1, <1>2, <1>4, <1>6, PumpReplaced
  <1>9. PulsarTypes'
    BY <1>4, <1>7, <1>8 DEF PumpInv, PulsarTypes
  <1>10. OneSubscriber'
    <2>1. \A j \in broker'.live : j \in DOMAIN table' /\ table'[j].phase # "subscribe"
      BY <1>4, <1>6, <1>8 DEF PumpInv, OneSubscriber
    <2>2. \A j \in DOMAIN table' : Subscriber(j)' => Subscriber(j)
      BY <1>4, <1>6, <1>8 DEF Subscriber
    <2>3. \A j \in DOMAIN table' : Subscriber(j)' => j = conn'.retirement
      <3> SUFFICES ASSUME NEW j \in DOMAIN table', Subscriber(j)'
                   PROVE  j = conn'.retirement
        OBVIOUS
      <3>1. j = i
        BY <1>2, <1>5, <1>8, <2>2 DEF PumpInv, OneSubscriber
      <3>2. j \in broker.live
        BY <1>4, <1>5, <1>6, <1>8, <3>1 DEF Subscriber
      <3> QED BY <1>5, <1>7, <3>1, <3>2
    <2>4. conn'.pump \in 0..Len(table') /\ conn'.retirement \in 0..Len(table')
      BY <1>1, <1>2, <1>5, <1>7, <1>8
    <2> QED BY <1>7, <2>1, <2>3, <2>4 DEF OneSubscriber
  <1>11. PumpPhases'
    <2>1. \A j \in DOMAIN table' : /\ table'[j].stopped <=> table'[j].phase = "stopped"
                                   /\ table'[j].failed => table'[j].phase = "stopped"
      BY <1>6, <1>8 DEF PumpInv, PumpPhases
    <2>2. \A j \in DOMAIN table' :
       /\ table'[j].phase \in {"subscribe", "publish"} => table'[j].records = << >>
       /\ table'[j].phase = "buffer" => \E m \in Messages : table'[j].got = {m}
       /\ table'[j].phase # "buffer" => table'[j].got = {}
      BY <1>6, <1>8 DEF PumpInv, PumpPhases
    <2>3. \A j \in DOMAIN table' : table'[j].retired => j # conn'.pump
      BY <1>2, <1>7, <1>8
    <2>4. 0 \notin broker'.live
      BY <1>2, <1>4 DEF PumpInv, OneSubscriber
    <2> QED BY <1>7, <2>1, <2>2, <2>3, <2>4 DEF PumpPhases
  <1> QED BY <1>9, <1>10, <1>11 DEF PumpInv


\* What an ack and a nack do to the subscription.
LEMMA SubscriptionSettled ==
  ASSUME broker \in PulsarBrokers, NEW t
  PROVE  LET U == Pulsar!Unacked(t)
             a == Pulsar!Acknowledged(t)
             n == Pulsar!Redelivered(t)
         IN  /\ U \subseteq broker.unacked /\ {u.msg : u \in U} \in SUBSET Messages
             /\ a \in PulsarBrokers /\ a.live = broker.live /\ a.stray = broker.stray /\ a.backlog = broker.backlog
             /\ a.unacked = broker.unacked \ U
             /\ n \in PulsarBrokers /\ n.live = broker.live /\ n.stray = broker.stray
             /\ n.backlog = broker.backlog \union {u.msg : u \in U} /\ n.unacked = broker.unacked \ U
  <1> DEFINE U == Pulsar!Unacked(t)
             B == {u.msg : u \in U}
  <1>1. U \subseteq broker.unacked
    BY DEF Pulsar!Unacked
  <1>2. Pulsar!Acknowledged(t) = [broker EXCEPT !.unacked = @ \ U]
    BY DEF Pulsar!Acknowledged
  <1>3. Pulsar!Redelivered(t) = [broker EXCEPT !.unacked = @ \ U, !.backlog = @ \union B]
    BY DEF Pulsar!Redelivered
  <1> HIDE DEF U
  <1>4. B \in SUBSET Messages
    BY <1>1 DEF PulsarBrokers, PulsarUnacked
  <1> HIDE DEF B
  <1>5. /\ [broker EXCEPT !.unacked = @ \ U] \in PulsarBrokers
        /\ [broker EXCEPT !.unacked = @ \ U].live = broker.live
        /\ [broker EXCEPT !.unacked = @ \ U].stray = broker.stray
        /\ [broker EXCEPT !.unacked = @ \ U].backlog = broker.backlog
        /\ [broker EXCEPT !.unacked = @ \ U].unacked = broker.unacked \ U
    BY DEF PulsarBrokers
  <1>6. /\ [broker EXCEPT !.unacked = @ \ U, !.backlog = @ \union B] \in PulsarBrokers
        /\ [broker EXCEPT !.unacked = @ \ U, !.backlog = @ \union B].live = broker.live
        /\ [broker EXCEPT !.unacked = @ \ U, !.backlog = @ \union B].stray = broker.stray
        /\ [broker EXCEPT !.unacked = @ \ U, !.backlog = @ \union B].backlog = broker.backlog \union B
        /\ [broker EXCEPT !.unacked = @ \ U, !.backlog = @ \union B].unacked = broker.unacked \ U
    BY <1>4 DEF PulsarBrokers
  <1>7. QED BY <1>1, <1>2, <1>3, <1>4, <1>5, <1>6, Zenon DEF U, B

LEMMA PumpsPush ==
  ASSUME PumpInv, NEW m \in Messages, NEW stored \in BOOLEAN, Pulsar!Push(m, stored)
  PROVE  PumpInv'
  <1>1. /\ broker \in PulsarBrokers /\ hist \in PulsarHists
        /\ broker' = [broker EXCEPT !.backlog = IF stored THEN @ \union {m} ELSE @]
        /\ hist' = [hist EXCEPT !.accepted = IF stored THEN @ \union {m} ELSE @]
        /\ UNCHANGED <<conn, table, tokens>>
    BY DEF Pulsar!Push, PumpInv, PulsarTypes
  <1>2. broker' \in PulsarBrokers /\ broker'.live = broker.live
    BY <1>1 DEF PulsarBrokers
  <1>3. hist' \in PulsarHists
    BY <1>1 DEF PulsarHists
  <1> QED BY <1>1, <1>2, <1>3, PumpsRest DEF PumpInv, PulsarTypes

LEMMA PumpsSettle ==
  ASSUME PumpInv, NEW t \in tokens,
         Pulsar!Ack(t) \/ Pulsar!AckFails(t) \/ Pulsar!SettleStale(t) \/ Pulsar!Nack(t)
  PROVE  PumpInv'
  <1> DEFINE A == Pulsar!Asks(t)
             B == {u.msg : u \in Pulsar!Unacked(t)}
  <1>1. /\ broker \in PulsarBrokers /\ hist \in PulsarHists /\ conn \in PulsarConns /\ t \in PulsarTokens
        /\ tokens \in SUBSET PulsarTokens
    BY DEF PumpInv, PulsarTypes
  <1>2. A \in SUBSET Messages
    BY <1>1 DEF Pulsar!Asks, PulsarHists, PulsarTokens
  <1>3. B \in SUBSET Messages
    BY <1>1, SubscriptionSettled
  <1>4. conn' = conn \/ conn' = [conn EXCEPT !.settled = @ \union {t}]
    BY DEF Pulsar!Ack, Pulsar!AckFails, Pulsar!SettleStale, Pulsar!Nack
  <1>5. hist' = hist \/ hist' = [hist EXCEPT !.asked = A] \/ hist' = [hist EXCEPT !.asked = A, !.unsure = @ \union B]
    BY DEF Pulsar!Ack, Pulsar!AckFails, Pulsar!SettleStale, Pulsar!Nack
  <1>6. broker' = broker \/ broker' = Pulsar!Acknowledged(t) \/ broker' = Pulsar!Redelivered(t)
    BY DEF Pulsar!Ack, Pulsar!AckFails, Pulsar!SettleStale, Pulsar!Nack
  <1>7. UNCHANGED <<table, tokens>>
    BY DEF Pulsar!Ack, Pulsar!AckFails, Pulsar!SettleStale, Pulsar!Nack
  <1>8. /\ conn' \in PulsarConns /\ conn'.pump = conn.pump /\ conn'.consumer = conn.consumer
        /\ conn'.retirement = conn.retirement
    BY <1>1, <1>4 DEF PulsarConns
  <1> HIDE DEF A, B
  <1>9. hist' \in PulsarHists
    BY <1>1, <1>2, <1>3, <1>5 DEF PulsarHists
  <1>10. broker' \in PulsarBrokers /\ broker'.live = broker.live
    BY <1>1, <1>6, SubscriptionSettled
  <1> QED BY <1>7, <1>8, <1>9, <1>10, PumpsRest DEF PumpInv, PulsarTypes

LEMMA PumpsLegacySettle ==
  ASSUME PumpInv, NEW ack \in BOOLEAN, Pulsar!LegacySettle(ack)
  PROVE  PumpInv'
  <1> DEFINE t == CHOOSE x \in conn.last : TRUE
             A == Pulsar!Asks(t)
  <1>1. /\ broker \in PulsarBrokers /\ hist \in PulsarHists /\ conn \in PulsarConns
    BY DEF PumpInv, PulsarTypes
  <1>2. conn.last # {} /\ conn' = [conn EXCEPT !.last = {}] /\ UNCHANGED <<table, tokens>>
    BY DEF Pulsar!LegacySettle, Pulsar!NoMessage
  <1>3. t \in PulsarTokens
    BY <1>1, <1>2 DEF PulsarConns
  <1>4. hist' = hist \/ hist' = [hist EXCEPT !.asked = A]
    BY DEF Pulsar!LegacySettle
  <1>5. broker' = Pulsar!Acknowledged(t) \/ broker' = Pulsar!Redelivered(t)
    BY DEF Pulsar!LegacySettle
  <1>6. /\ conn' \in PulsarConns /\ conn'.pump = conn.pump /\ conn'.consumer = conn.consumer
        /\ conn'.retirement = conn.retirement
    BY <1>1, <1>2 DEF PulsarConns
  <1> HIDE DEF t
  <1>7. A \in SUBSET Messages
    BY <1>1, <1>3 DEF Pulsar!Asks, PulsarHists, PulsarTokens
  <1> HIDE DEF A
  <1>8. hist' \in PulsarHists
    BY <1>1, <1>4, <1>7 DEF PulsarHists
  <1>9. broker' \in PulsarBrokers /\ broker'.live = broker.live
    BY <1>1, <1>5, SubscriptionSettled
  <1> QED BY <1>2, <1>6, <1>8, <1>9, PumpsRest DEF PumpInv, PulsarTypes

LEMMA PumpDropped ==
  ASSUME PumpInv, StrayInv, NEW i \in DOMAIN table, Pulsar!StrayDropped(i)
  PROVE  PumpInv'
  <1>1. broker \in PulsarBrokers /\ i \in broker.stray /\ broker' = Pulsar!Closed(broker, i)
        /\ UNCHANGED <<conn, table, tokens, hist>>
    BY DEF Pulsar!StrayDropped, PumpInv, PulsarTypes
  <1>2. broker' \in PulsarBrokers /\ broker'.live = broker.live \ {i}
    BY <1>1, SubscriptionClosed
  <1>3. broker'.live = broker.live
    BY <1>1, <1>2 DEF StrayInv
  <1> QED BY <1>1, <1>2, <1>3, PumpsRest DEF PumpInv, PulsarTypes

\* A step in which no close() raises and no pump is built.
LEMMA StraysKept ==
  ASSUME PumpInv, StrayInv, broker'.stray \subseteq broker.stray,
         \A j \in broker'.live : j \in broker.live \/ (j \in DOMAIN table /\ table[j].phase = "subscribe"),
         DOMAIN table \subseteq DOMAIN table',
         \A j \in DOMAIN table :
           table[j].phase \notin {"subscribe", "publish"} => table'[j].phase \notin {"subscribe", "publish"},
         conn'.pump \in {0, conn.pump},
         conn'.pump # 0 =>
           /\ conn'.client = conn.client /\ conn'.generation = conn.generation
           /\ table'[conn.pump].accepting = table[conn.pump].accepting
           /\ table'[conn.pump].generation = table[conn.pump].generation
  PROVE  StrayInv'
  <1>1. 0 \notin DOMAIN table
    BY DEF PumpInv, PulsarTypes
  <1>2. broker'.stray \subseteq DOMAIN table' /\ broker'.stray \intersect broker'.live = {}
    BY DEF StrayInv
  <1>3. \A j \in broker'.stray : table'[j].phase \notin {"subscribe", "publish"} /\ j # conn'.pump
    BY <1>1 DEF StrayInv
  <1>4. conn'.pump # 0 => /\ conn'.client /\ table'[conn'.pump].accepting
                          /\ table'[conn'.pump].generation = conn'.generation
    BY DEF StrayInv
  <1> QED BY <1>2, <1>3, <1>4, Zenon DEF StrayInv

\* A close() that raises leaves a consumer that is not the one in use.
LEMMA StraysLeft ==
  ASSUME PumpInv, StrayInv, NEW i \in DOMAIN table, Pulsar!PumpClosesStale(i) \/ Pulsar!Retire(i)
  PROVE  StrayInv' /\ i # conn.pump
  <1>1. /\ conn \in PulsarConns /\ table \in Seq(PulsarPumps) /\ broker \in PulsarBrokers
        /\ (\A j \in DOMAIN table : table[j] \in PulsarPumps) /\ i \in Nat /\ i # 0
    BY DEF PumpInv, PulsarTypes
  <1>2. Pulsar!CloseConsumer(i) /\ conn' = [conn EXCEPT !.retirement = IF @ = i THEN 0 ELSE @]
    BY DEF Pulsar!PumpClosesStale, Pulsar!Retire, Pulsar!NoPump
  <1>3. conn'.pump = conn.pump /\ conn'.client = conn.client /\ conn'.generation = conn.generation
    BY <1>1, <1>2 DEF PulsarConns
  <1>4. i # conn.pump
    <2>1. CASE Pulsar!PumpClosesStale(i)
      BY <1>1, <2>1 DEF Pulsar!PumpClosesStale, Pulsar!PumpLive, StrayInv
    <2>2. CASE Pulsar!Retire(i)
      BY <2>2 DEF Pulsar!Retire, PumpInv, PumpPhases
    <2> QED BY <2>1, <2>2
  <1>5. /\ DOMAIN table' = DOMAIN table
        /\ \A j \in DOMAIN table :
             /\ table'[j].phase \in {table[j].phase, "stopped"}
             /\ j # i => table'[j] = table[j]
        /\ table'[i].phase \notin {"subscribe", "publish"}
    <2>1. CASE Pulsar!PumpClosesStale(i)
      <3>1. table' = [table EXCEPT ![i].phase = "stopped", ![i].stopped = TRUE]
        BY <2>1 DEF Pulsar!PumpClosesStale
      <3> QED BY <1>1, <3>1 DEF PulsarPumps
    <2>2. CASE Pulsar!Retire(i)
      BY <2>2 DEF Pulsar!Retire, PumpInv, OneSubscriber
    <2> QED BY <2>1, <2>2
  <1>6. /\ broker'.live = broker.live \ {i} /\ broker'.stray \subseteq broker.stray \union {i}
    BY <1>1, <1>2, SubscriptionLeft, SubscriptionClosed
  <1>7. broker'.stray \subseteq DOMAIN table' /\ broker'.stray \intersect broker'.live = {}
    BY <1>5, <1>6 DEF StrayInv
  <1>8. \A j \in broker'.stray : table'[j].phase \notin {"subscribe", "publish"} /\ j # conn'.pump
    BY <1>3, <1>4, <1>5, <1>6 DEF StrayInv
  <1>9. conn'.pump # 0 => /\ conn'.client /\ table'[conn'.pump].accepting
                          /\ table'[conn'.pump].generation = conn'.generation
    <2>1. conn.pump # 0 => conn.pump \in DOMAIN table
      BY <1>1 DEF PumpInv, OneSubscriber
    <2> QED BY <1>3, <1>4, <1>5, <2>1 DEF StrayInv
  <1> QED BY <1>4, <1>7, <1>8, <1>9, Zenon DEF StrayInv

\* The connections and the pump that is built.
LEMMA StraysConnect ==
  ASSUME PumpInv, StrayInv, Pulsar!Connect \/ Pulsar!Disconnect \/ Pulsar!EnsurePump
  PROVE  StrayInv'
  <1>1. /\ conn \in PulsarConns /\ table \in Seq(PulsarPumps) /\ (\A j \in DOMAIN table : table[j] \in PulsarPumps)
        /\ DOMAIN table = 1..Len(table) /\ Len(table) \in Nat
    BY DEF PumpInv, PulsarTypes
  <1>2. CASE Pulsar!Connect
    <2>1. conn.pump = 0 /\ UNCHANGED <<broker, table>>
      BY <1>2 DEF Pulsar!Connect, StrayInv
    <2>2. conn'.pump = conn.pump
      BY <1>1, <1>2 DEF Pulsar!Connect, PulsarConns
    <2> QED BY <2>1, <2>2, StraysKept
  <1>3. CASE Pulsar!Disconnect
    <2> DEFINE i == conn.pump
               retired == i # 0 /\ (conn.consumer = i \/ ~table[i].stopped)
               turn(j) == [table[j] EXCEPT !.accepting = FALSE, !.retired = @ \/ retired]
    <2>1. table' = [j \in DOMAIN table |-> IF j = i THEN turn(j) ELSE table[j]] /\ UNCHANGED broker
      BY <1>3, Zenon DEF Pulsar!Disconnect, Pulsar!NoPump
    <2>2. conn'.pump = 0
      BY <1>1, <1>3 DEF Pulsar!Disconnect, Pulsar!NoPump, PulsarConns
    <2> HIDE DEF retired, i
    <2>3. \A j \in DOMAIN table : turn(j).phase = table[j].phase
      BY <1>1 DEF PulsarPumps
    <2> HIDE DEF turn
    <2>4. DOMAIN table' = DOMAIN table /\ \A j \in DOMAIN table : table'[j].phase = table[j].phase
      BY <2>1, <2>3
    <2> QED BY <2>1, <2>2, <2>4, StraysKept
  <1>4. CASE Pulsar!EnsurePump
    <2>1. PICK r : /\ table' = Append(table, r) /\ r.phase = "subscribe" /\ r.accepting
                   /\ r.generation = conn.generation
      BY <1>4 DEF Pulsar!EnsurePump
    <2>2. conn.client /\ conn' = [conn EXCEPT !.pump = Len(table) + 1] /\ UNCHANGED broker
      BY <1>4 DEF Pulsar!EnsurePump
    <2>3. conn'.pump = Len(table) + 1 /\ conn'.client = conn.client /\ conn'.generation = conn.generation
      BY <1>1, <2>2 DEF PulsarConns
    <2>4. /\ \A j \in DOMAIN table : j \in DOMAIN table' /\ j # Len(table) + 1 /\ table'[j] = table[j]
          /\ table'[Len(table) + 1] = r
      BY <1>1, <2>1
    <2>5. /\ broker'.stray \subseteq DOMAIN table' /\ broker'.stray \intersect broker'.live = {}
          /\ \A j \in broker'.stray : table'[j].phase \notin {"subscribe", "publish"} /\ j # conn'.pump
      BY <2>2, <2>3, <2>4 DEF StrayInv
    <2>6. conn'.client /\ table'[conn'.pump].accepting /\ table'[conn'.pump].generation = conn'.generation
      BY <2>1, <2>2, <2>3, <2>4
    <2> QED BY <2>5, <2>6, Zenon DEF StrayInv
  <1> QED BY <1>2, <1>3, <1>4

\* A pump goes on.
LEMMA StraysTurn ==
  ASSUME PumpInv, StrayInv, NEW i \in DOMAIN table,
         \/ Pulsar!PumpSubscribes(i) \/ Pulsar!PumpCannotSubscribe(i) \/ Pulsar!PumpPublishes(i)
         \/ (\E m \in Messages : Pulsar!PumpReceives(i, m)) \/ Pulsar!PumpBuffers(i)
         \/ Pulsar!PumpEnds(i)
  PROVE  StrayInv'
  <1>1. /\ conn \in PulsarConns /\ table \in Seq(PulsarPumps) /\ broker \in PulsarBrokers
        /\ (\A j \in DOMAIN table : table[j] \in PulsarPumps)
    BY DEF PumpInv, PulsarTypes
  <1>2. conn'.pump = conn.pump /\ conn'.client = conn.client /\ conn'.generation = conn.generation
    BY <1>1 DEF Pulsar!PumpSubscribes, Pulsar!PumpCannotSubscribe, Pulsar!PumpPublishes,
         Pulsar!PumpReceives, Pulsar!PumpBuffers, Pulsar!PumpEnds, PulsarConns
  <1>3. /\ broker'.stray = broker.stray
        /\ \A j \in broker'.live : j \in broker.live \/ (j \in DOMAIN table /\ table[j].phase = "subscribe")
    <2>1. CASE Pulsar!PumpSubscribes(i)
      <3>1. broker'.stray = broker.stray /\ broker'.live = broker.live \union {i}
        BY <1>1, <2>1 DEF Pulsar!PumpSubscribes, PulsarBrokers
      <3> QED BY <2>1, <3>1 DEF Pulsar!PumpSubscribes
    <2>2. CASE \E m \in Messages : Pulsar!PumpReceives(i, m)
      BY <1>1, <2>2 DEF Pulsar!PumpReceives, PulsarBrokers
    <2>3. CASE Pulsar!PumpCannotSubscribe(i) \/ Pulsar!PumpPublishes(i) \/ Pulsar!PumpBuffers(i) \/ Pulsar!PumpEnds(i)
      BY <2>3 DEF Pulsar!PumpCannotSubscribe, Pulsar!PumpPublishes, Pulsar!PumpBuffers, Pulsar!PumpEnds
    <2> QED BY <2>1, <2>2, <2>3
  <1>4. /\ DOMAIN table' = DOMAIN table
        /\ \A j \in DOMAIN table : j # i => table'[j] = table[j]
        /\ table'[i].accepting = table[i].accepting /\ table'[i].generation = table[i].generation
        /\ table[i].phase \notin {"subscribe", "publish"} => table'[i].phase \notin {"subscribe", "publish"}
    <2>1. CASE Pulsar!PumpSubscribes(i) \/ Pulsar!PumpPublishes(i) \/ \E m \in Messages : Pulsar!PumpReceives(i, m)
      <3>1. CASE Pulsar!PumpSubscribes(i) \/ Pulsar!PumpPublishes(i)
        BY <1>1, <3>1 DEF Pulsar!PumpSubscribes, Pulsar!PumpPublishes, PulsarPumps
      <3>2. CASE \E m \in Messages : Pulsar!PumpReceives(i, m)
        <4>1. PICK m : table' = [table EXCEPT ![i].phase = "buffer", ![i].got = {m}]
          BY <3>2 DEF Pulsar!PumpReceives
        <4> QED BY <1>1, <4>1 DEF PulsarPumps
      <3> QED BY <2>1, <3>1, <3>2
    <2>2. CASE Pulsar!PumpCannotSubscribe(i) \/ Pulsar!PumpEnds(i)
      <3> DEFINE f == Pulsar!PumpLive(i)
      <3>1. table' = [table EXCEPT ![i].phase = "stopped", ![i].stopped = TRUE, ![i].failed = f]
        BY <2>2 DEF Pulsar!PumpCannotSubscribe, Pulsar!PumpEnds
      <3> HIDE DEF f
      <3> QED BY <1>1, <3>1 DEF PulsarPumps
    <2>3. CASE Pulsar!PumpBuffers(i)
      <3> DEFINE n == Append(table[i].records, CHOOSE x \in table[i].got : TRUE)
      <3>1. \/ table' = [table EXCEPT ![i].phase = "receive", ![i].got = {}, ![i].records = n]
            \/ table' = [table EXCEPT ![i].phase = "stopped", ![i].got = {}, ![i].stopped = TRUE]
        BY <2>3 DEF Pulsar!PumpBuffers
      <3> HIDE DEF n
      <3>2. CASE table' = [table EXCEPT ![i].phase = "receive", ![i].got = {}, ![i].records = n]
        BY <1>1, <3>2 DEF PulsarPumps
      <3>3. CASE table' = [table EXCEPT ![i].phase = "stopped", ![i].got = {}, ![i].stopped = TRUE]
        BY <1>1, <3>3 DEF PulsarPumps
      <3> QED BY <3>1, <3>2, <3>3
    <2> QED BY <2>1, <2>2, <2>3
  <1>5. conn.pump # 0 => conn.pump \in DOMAIN table
    BY <1>1 DEF PumpInv, OneSubscriber
  <1> QED BY <1>2, <1>3, <1>4, <1>5, StraysKept

\* The pops, pushes and settlements.
LEMMA StraysRest ==
  ASSUME PumpInv, StrayInv,
         \/ \E m \in Messages, stored \in BOOLEAN : Pulsar!Push(m, stored)
         \/ (\E w \in BOOLEAN : Pulsar!Receive(w)) \/ Pulsar!PopFindsFailure
         \/ \E t \in tokens : Pulsar!Ack(t) \/ Pulsar!AckFails(t) \/ Pulsar!SettleStale(t) \/ Pulsar!Nack(t)
         \/ \E ack \in BOOLEAN : Pulsar!LegacySettle(ack)
  PROVE  StrayInv'
  <1>1. /\ conn \in PulsarConns /\ table \in Seq(PulsarPumps) /\ broker \in PulsarBrokers
        /\ (\A j \in DOMAIN table : table[j] \in PulsarPumps)
    BY DEF PumpInv, PulsarTypes
  <1>2. conn.pump # 0 => conn.pump \in DOMAIN table
    BY <1>1 DEF PumpInv, OneSubscriber
  <1>3. CASE \E m \in Messages, stored \in BOOLEAN : Pulsar!Push(m, stored)
    <2>1. UNCHANGED <<conn, table>> /\ broker'.live = broker.live /\ broker'.stray = broker.stray
      BY <1>1, <1>3 DEF Pulsar!Push, PulsarBrokers
    <2> QED BY <2>1, StraysKept
  <1>4. CASE \E w \in BOOLEAN : Pulsar!Receive(w)
    <2> DEFINE n == Tail(table[conn.pump].records)
    <2>1. table' = [table EXCEPT ![conn.pump].records = n] /\ UNCHANGED broker /\ conn.pump # 0
      BY <1>4 DEF Pulsar!Receive, Pulsar!NoPump
    <2>2. conn'.pump = conn.pump /\ conn'.client = conn.client /\ conn'.generation = conn.generation
      BY <1>1, <1>4 DEF Pulsar!Receive, PulsarConns
    <2> HIDE DEF n
    <2>3. /\ DOMAIN table' = DOMAIN table
          /\ \A j \in DOMAIN table : /\ table'[j].phase = table[j].phase
                                     /\ table'[j].accepting = table[j].accepting
                                     /\ table'[j].generation = table[j].generation
      BY <1>1, <1>2, <2>1 DEF PulsarPumps
    <2> QED BY <1>2, <2>1, <2>2, <2>3, StraysKept
  <1>5. CASE Pulsar!PopFindsFailure
    <2> DEFINE p == conn.consumer = conn.pump
    <2>1. /\ table' = [table EXCEPT ![conn.pump].accepting = FALSE, ![conn.pump].retired = p]
          /\ UNCHANGED broker /\ conn.pump # 0
      BY <1>5 DEF Pulsar!PopFindsFailure, Pulsar!NoPump
    <2>2. conn'.pump = 0
      BY <1>1, <1>5 DEF Pulsar!PopFindsFailure, Pulsar!NoPump, PulsarConns
    <2> HIDE DEF p
    <2>3. DOMAIN table' = DOMAIN table /\ \A j \in DOMAIN table : table'[j].phase = table[j].phase
      BY <1>1, <1>2, <2>1 DEF PulsarPumps
    <2> QED BY <2>1, <2>2, <2>3, StraysKept
  <1>6. CASE \E t \in tokens : Pulsar!Ack(t) \/ Pulsar!AckFails(t) \/ Pulsar!SettleStale(t) \/ Pulsar!Nack(t)
    <2>1. PICK t \in tokens : Pulsar!Ack(t) \/ Pulsar!AckFails(t) \/ Pulsar!SettleStale(t) \/ Pulsar!Nack(t)
      BY <1>6
    <2>2. broker' = broker \/ broker' = Pulsar!Acknowledged(t) \/ broker' = Pulsar!Redelivered(t)
      BY <2>1 DEF Pulsar!Ack, Pulsar!AckFails, Pulsar!SettleStale, Pulsar!Nack
    <2>3. broker'.live = broker.live /\ broker'.stray = broker.stray
      BY <1>1, <2>2, SubscriptionSettled
    <2>4. UNCHANGED table /\ (conn' = conn \/ conn' = [conn EXCEPT !.settled = @ \union {t}])
      BY <2>1 DEF Pulsar!Ack, Pulsar!AckFails, Pulsar!SettleStale, Pulsar!Nack
    <2>5. conn'.pump = conn.pump /\ conn'.client = conn.client /\ conn'.generation = conn.generation
      BY <1>1, <2>4 DEF PulsarConns
    <2> QED BY <2>3, <2>4, <2>5, StraysKept
  <1>7. CASE \E ack \in BOOLEAN : Pulsar!LegacySettle(ack)
    <2>1. PICK t : broker' = Pulsar!Acknowledged(t) \/ broker' = Pulsar!Redelivered(t)
      BY <1>7 DEF Pulsar!LegacySettle
    <2>2. broker'.live = broker.live /\ broker'.stray = broker.stray
      BY <1>1, <2>1, SubscriptionSettled
    <2>3. UNCHANGED table /\ conn' = [conn EXCEPT !.last = {}]
      BY <1>7 DEF Pulsar!LegacySettle, Pulsar!NoMessage
    <2>4. conn'.pump = conn.pump /\ conn'.client = conn.client /\ conn'.generation = conn.generation
      BY <1>1, <2>3 DEF PulsarConns
    <2> QED BY <2>2, <2>3, <2>4, StraysKept
  <1> QED BY <1>3, <1>4, <1>5, <1>6, <1>7

LEMMA StraysStep ==
  ASSUME PumpInv, StrayInv, Pulsar!Next
  PROVE  StrayInv'
  <1>1. CASE \E i \in DOMAIN table : Pulsar!PumpStep(i)
    <2>1. PICK i \in DOMAIN table : Pulsar!PumpStep(i)
      BY <1>1
    <2>2. CASE Pulsar!StrayDropped(i)
      <3>1. broker \in PulsarBrokers /\ broker' = Pulsar!Closed(broker, i) /\ UNCHANGED <<conn, table>>
        BY <2>2 DEF Pulsar!StrayDropped, PumpInv, PulsarTypes
      <3>2. broker'.live \subseteq broker.live /\ broker'.stray \subseteq broker.stray
        BY <3>1, SubscriptionClosed
      <3> QED BY <3>1, <3>2, StraysKept
    <2> QED BY <2>1, <2>2, StraysTurn, StraysLeft DEF Pulsar!PumpStep
  <1> QED BY <1>1, StraysConnect, StraysRest DEF Pulsar!Next, Pulsar!PopWithAck, Pulsar!Pop

LEMMA PumpsStart ==
  ASSUME Pulsar!Init
  PROVE  PumpInv /\ StrayInv
  <1>1. PulsarTypes
    BY DEF Pulsar!Init, Pulsar!NoPump, Pulsar!NoMessage, PulsarTypes, PulsarConns, PulsarBrokers, PulsarHists
  <1>2. /\ broker.live = {} /\ broker.stray = {} /\ table = << >> /\ Len(table) = 0 /\ DOMAIN table = {}
        /\ conn.pump = 0 /\ conn.consumer = 0 /\ conn.retirement = 0
    BY DEF Pulsar!Init, Pulsar!NoPump, Pulsar!NoMessage
  <1>3. OneSubscriber /\ PumpPhases /\ StrayInv
    BY <1>2 DEF OneSubscriber, PumpPhases, StrayInv
  <1> QED BY <1>1, <1>3 DEF PumpInv

LEMMA PumpsStep ==
  ASSUME PumpInv, StrayInv, Pulsar!Next
  PROVE  PumpInv'
  <1>1. CASE Pulsar!Connect \/ Pulsar!Disconnect \/ Pulsar!EnsurePump
    BY <1>1, PumpConnects, PumpDisconnects, PumpBuilt
  <1>2. CASE \E i \in DOMAIN table : Pulsar!PumpStep(i)
    BY <1>2, PumpSubscribed, PumpNotSubscribed, PumpPublished, PumpClosed, PumpReceived, PumpBuffered,
       PumpEnded, PumpRetired, PumpDropped DEF Pulsar!PumpStep
  <1>3. CASE \E m \in Messages, stored \in BOOLEAN : Pulsar!Push(m, stored)
    BY <1>3, PumpsPush
  <1>4. CASE Pulsar!PopWithAck \/ Pulsar!Pop \/ Pulsar!PopFindsFailure
    BY <1>4, PumpHandsOut, PumpFoundFailed DEF Pulsar!PopWithAck, Pulsar!Pop
  <1>5. CASE \E t \in tokens : Pulsar!Ack(t) \/ Pulsar!AckFails(t) \/ Pulsar!SettleStale(t) \/ Pulsar!Nack(t)
    BY <1>5, PumpsSettle
  <1>6. CASE \E ack \in BOOLEAN : Pulsar!LegacySettle(ack)
    BY <1>6, PumpsLegacySettle
  <1> QED BY <1>1, <1>2, <1>3, <1>4, <1>5, <1>6 DEF Pulsar!Next


LEMMA PumpsAlways == MCSpec => [](which = "pulsar" => PumpInv /\ StrayInv)
  <1>1. MCInit => (which = "pulsar" => PumpInv /\ StrayInv)
    BY PumpsStart DEF MCInit
  <1>2. (which = "pulsar" => PumpInv /\ StrayInv) /\ [MCNext]_MCvars
          => (which = "pulsar" => PumpInv /\ StrayInv)'
    <2> SUFFICES ASSUME which = "pulsar" => PumpInv /\ StrayInv, [MCNext]_MCvars, which' = "pulsar"
                 PROVE  PumpInv' /\ StrayInv'
      OBVIOUS
    <2>1. CASE UNCHANGED MCvars
      <3>1. UNCHANGED <<which, conn, broker, table, tokens, hist>>
        BY <2>1 DEF MCvars
      <3>2. PumpInv'
        BY <3>1, PumpsRest DEF PumpInv, PulsarTypes
      <3> QED BY <3>1, <3>2 DEF StrayInv
    <2>2. CASE MCNext
      <3>1. which = "pulsar" /\ PumpInv /\ StrayInv /\ Pulsar!Next
        BY <2>2 DEF MCNext
      <3> QED BY <3>1, PumpsStep, StraysStep
    <2> QED BY <2>1, <2>2
  <1> QED BY <1>1, <1>2, PTL DEF MCSpec

\* However disconnects, retirements and receive pumps that outlive their
\* connection overlap, one consumer of the Pulsar backend at most holds the
\* subscription besides those whose close() raised (_ensure_receive_pump waits
\* for the retirement of the last), and the backend uses none of the latter.
THEOREM OneConsumerHolds == MCSpec => []OneConsumer
  <1>1. (which = "pulsar" => PumpInv /\ StrayInv) => OneConsumer
    <2> SUFFICES ASSUME which = "pulsar", PumpInv, StrayInv
                 PROVE  Pulsar!OneConsumer
      BY DEF OneConsumer
    <2> DEFINE i == IF conn.pump = 0 THEN conn.retirement ELSE conn.pump
    <2>1. \A j \in broker.live : j \in DOMAIN table /\ Subscriber(j)
      BY DEF PumpInv, OneSubscriber, Subscriber
    <2>2. 0 \notin DOMAIN table
      BY DEF PumpInv, PulsarTypes
    <2>3. broker.live \subseteq {i}
      BY <2>1, <2>2 DEF PumpInv, OneSubscriber
    <2> HIDE DEF i
    <2>4. Cardinality(broker.live) <= 1
      <3>1. IsFiniteSet({i}) /\ Cardinality({i}) = 1
        BY FS_Singleton
      <3>2. Cardinality(broker.live) <= Cardinality({i})
        BY <2>3, <3>1, FS_Subset
      <3> QED BY <3>1, <3>2
    <2>5. Pulsar!Cardinality(broker.live) = Cardinality(broker.live)
      BY Zenon DEF Pulsar!Cardinality, Cardinality
    <2>6. broker.stray \intersect (broker.live \union {conn.pump, conn.consumer}) = {}
      BY <2>2 DEF StrayInv, PumpInv, PumpPhases
    <2> QED BY <2>4, <2>5, <2>6 DEF Pulsar!OneConsumer
  <1> QED BY <1>1, PumpsAlways, PTL


----------------------------------------------------------------------------
(* The deliveries of the Pulsar backend, action by action. *)

\* What the contract sees of the subscription.
PulsarStored(m) == m \in broker.backlog \/ \E u \in broker.unacked : u.msg = m

LEMMA PulsarMapped ==
  ASSUME which = "pulsar"
  PROVE  /\ Accepted = hist.accepted /\ Asked = hist.asked /\ Unsure = hist.unsure
         /\ Cleared = {} /\ Gone = {m \in hist.accepted : ~PulsarStored(m)}
  <1>1. /\ Accepted = hist.accepted /\ Asked = hist.asked /\ Unsure = hist.unsure
        /\ Cleared = {} /\ Gone = Pulsar!Gone
    BY DEF Accepted, Asked, Unsure, Cleared, Gone, Stores
  <1> QED BY <1>1 DEF Pulsar!Gone, PulsarStored

LEMMA PulsarMappedNext ==
  ASSUME which' = "pulsar"
  PROVE  /\ Accepted' = hist'.accepted /\ Asked' = hist'.asked /\ Unsure' = hist'.unsure
         /\ Cleared' = {} /\ Gone' = {m \in hist'.accepted : ~PulsarStored(m)'}
  <1>1. /\ Accepted' = hist'.accepted /\ Asked' = hist'.asked /\ Unsure' = hist'.unsure
        /\ Cleared' = {} /\ Gone' = Pulsar!Gone'
    BY DEF Accepted, Asked, Unsure, Cleared, Gone, Stores
  <1> QED BY <1>1 DEF Pulsar!Gone, PulsarStored

\* What is stored stays, and nothing is asked for.
LEMMA PulsarSame ==
  ASSUME which = "pulsar", which' = which, hist' = hist, \A m : PulsarStored(m)' <=> PulsarStored(m)
  PROVE  ContractStep
  <1>1. Gone' = Gone /\ Accepted' = Accepted /\ Asked' = Asked /\ Unsure' = Unsure /\ Cleared' = Cleared
    BY PulsarMapped, PulsarMappedNext
  <1> QED BY <1>1, NoPromise

\* No second consumer holds the subscription.
LEMMA OneLive ==
  ASSUME PumpInv
  PROVE  \A i, j \in broker.live : i = j
  <1>1. \A j \in broker.live : j \in DOMAIN table /\ Subscriber(j)
    BY DEF PumpInv, OneSubscriber, Subscriber
  <1>2. 0 \notin DOMAIN table
    BY DEF PumpInv, PulsarTypes
  <1> QED BY <1>1, <1>2 DEF PumpInv, OneSubscriber

\* A step that takes nothing from the subscription: the pumps' buffers shrink
\* at most.
LEMMA PulsarRests ==
  ASSUME PulsarInv, PumpInv', StrayInv', which = "pulsar", which' = which,
         UNCHANGED <<broker, tokens, hist>>, conn'.last \subseteq conn.last, conn'.settled = conn.settled,
         conn'.deliveries = conn.deliveries,
         conn'.pump # 0 => conn'.pump = conn.pump \/ Buffered(conn.pump)' = {},
         DOMAIN table \subseteq DOMAIN table',
         \A j \in DOMAIN table :
           /\ Buffered(j)' \subseteq Buffered(j)
           /\ table[j].phase \notin {"subscribe", "publish"} => table'[j].phase \notin {"subscribe", "publish"},
         \A j \in broker.live :
           /\ \A k, l \in DOMAIN table'[j].records : table'[j].records[k] = table'[j].records[l] => k = l
           /\ \A k \in DOMAIN table'[j].records : table'[j].records[k] \notin table'[j].got
  PROVE  PulsarInv' /\ ContractStep
  <1>1. ContractStep
    BY PulsarSame DEF PulsarStored
  <1>2. HeldBack' /\ Attached' = Attached
    BY DEF PulsarInv, HeldBack, Attached
  <1>3. \A j \in Attached : j \in DOMAIN table
    BY DEF PulsarInv, PumpInv, OneSubscriber, StrayInv, Attached
  <1>4. conn.pump \in DOMAIN table \/ conn.pump = 0
    BY DEF PulsarInv, PumpInv, PulsarTypes, OneSubscriber
  <1>5. BufferedOnce'
    <2>1. \A j \in broker'.live : \A m \in Buffered(j)' : [consumer |-> j, msg |-> m] \in broker'.unacked
      BY <1>3 DEF PulsarInv, BufferedOnce, Attached
    <2>2. conn'.pump # 0 /\ Buffered(conn.pump)' # {} => conn'.pump \in broker'.live
      <3> SUFFICES ASSUME conn'.pump # 0, Buffered(conn.pump)' # {}
                   PROVE  conn.pump \in broker.live /\ conn'.pump = conn.pump
        OBVIOUS
      <3>1. conn'.pump = conn.pump
        OBVIOUS
      <3>2. Buffered(conn.pump)' \subseteq Buffered(conn.pump)
        BY <1>4, <3>1
      <3> QED BY <3>1, <3>2 DEF PulsarInv, BufferedOnce
    <2> QED BY <2>1, <2>2 DEF BufferedOnce
  <1>6. conn'.last = {} \/ conn'.last = conn.last
    <2>1. CASE conn.last = {}
      BY <2>1
    <2>2. CASE \E t \in PulsarTokens : conn.last = {t}
      <3>1. PICK t : conn.last = {t}
        BY <2>2
      <3>2. conn'.last = {} \/ conn'.last = {t}
        BY <3>1
      <3> QED BY <3>1, <3>2
    <2> QED BY <2>1, <2>2 DEF PulsarInv, NewestHeld
  <1>7. NewestHeld'
    <2>1. Unsettled' \subseteq Unsettled
      BY DEF Unsettled
    <2>2. \A t \in Unsettled : t.consumer \in Attached =>
             /\ hist.holder[t.msg] = {t} /\ t.msg \notin broker.backlog /\ t.msg \notin Buffered(t.consumer)'
             /\ \A u \in broker.unacked : u.msg = t.msg => u.consumer = t.consumer
      BY <1>3 DEF PulsarInv, NewestHeld
    <2>3. \A t \in tokens' \union conn'.last :
       /\ t.msg \in hist'.accepted /\ t.delivery <= conn'.deliveries
       /\ t.consumer \in DOMAIN table' /\ table'[t.consumer].phase \notin {"subscribe", "publish"}
      BY DEF PulsarInv, NewestHeld
    <2> QED BY <1>2, <1>6, <2>1, <2>2, <2>3 DEF PulsarInv, NewestHeld
  <1> QED BY <1>1, <1>2, <1>5, <1>7 DEF PulsarInv

\* The consumer of a pump is closed: what it held is in the backlog again,
\* unless close() raised.
LEMMA PulsarCloses ==
  ASSUME PulsarInv, PumpInv', StrayInv', which = "pulsar", which' = which, NEW i \in DOMAIN table,
         Pulsar!CloseConsumer(i), i # conn.pump,
         i \in Attached \/ table[i].phase = "publish",
         UNCHANGED <<tokens, hist>>, conn'.last = conn.last,
         conn'.settled = conn.settled, conn'.deliveries = conn.deliveries, conn'.pump = conn.pump,
         DOMAIN table' = DOMAIN table,
         \A j \in DOMAIN table :
           /\ table[j].phase \notin {"subscribe", "publish"} => table'[j].phase \notin {"subscribe", "publish"}
           /\ table'[j].records = table[j].records /\ table'[j].got = table[j].got
  PROVE  PulsarInv' /\ ContractStep
  <1>1. broker \in PulsarBrokers /\ i \in Nat
    BY DEF PulsarInv, PumpInv, PulsarTypes
  <1>2. /\ broker'.live = broker.live \ {i}
        /\ \/ /\ broker'.stray = broker.stray \ {i}
              /\ broker'.unacked = {u \in broker.unacked : u.consumer # i}
              /\ broker'.backlog = broker.backlog \union {u.msg : u \in {x \in broker.unacked : x.consumer = i}}
           \/ /\ broker'.stray = broker.stray \union {i} /\ broker'.unacked = broker.unacked
              /\ broker'.backlog = broker.backlog
    BY <1>1, SubscriptionLeft, SubscriptionClosed
  <1>3. \A m : PulsarStored(m)' <=> PulsarStored(m)
    BY <1>2 DEF PulsarStored
  <1>4. ContractStep
    BY <1>3, PulsarSame
  <1>5. \A j \in DOMAIN table : Buffered(j)' = Buffered(j)
    BY DEF Buffered
  <1>6. \A j \in Attached : j \in DOMAIN table
    BY DEF PulsarInv, PumpInv, OneSubscriber, StrayInv, Attached
  <1>7. HeldBack'
    <2>1. broker'.backlog \subseteq hist'.accepted
      BY <1>2 DEF PulsarInv, HeldBack
    <2>2. \A u \in broker'.unacked : u.msg \in hist'.accepted /\ u.msg \notin broker'.backlog
      BY <1>2 DEF PulsarInv, HeldBack
    <2>3. \A u \in broker'.unacked : u.consumer \in Attached'
      BY <1>2 DEF PulsarInv, HeldBack, Attached
    <2>4. \A u, v \in broker'.unacked : u.msg = v.msg => u = v
      BY <1>2 DEF PulsarInv, HeldBack
    <2> QED BY <2>1, <2>2, <2>3, <2>4 DEF HeldBack
  <1>8. BufferedOnce'
    <2>1. \A j \in broker'.live : \A m \in Buffered(j)' : [consumer |-> j, msg |-> m] \in broker'.unacked
      <3> SUFFICES ASSUME NEW j \in broker'.live, NEW m \in Buffered(j)'
                   PROVE  [consumer |-> j, msg |-> m] \in broker'.unacked
        OBVIOUS
      <3>1. j \in broker.live /\ j # i /\ m \in Buffered(j)
        BY <1>2, <1>5, <1>6 DEF Attached
      <3>2. [consumer |-> j, msg |-> m] \in broker.unacked
        BY <3>1 DEF PulsarInv, BufferedOnce
      <3> QED BY <1>2, <3>1, <3>2
    <2>2. \A j \in broker'.live :
           /\ \A k, l \in DOMAIN table'[j].records : table'[j].records[k] = table'[j].records[l] => k = l
           /\ \A k \in DOMAIN table'[j].records : table'[j].records[k] \notin table'[j].got
      BY <1>2, <1>6 DEF PulsarInv, BufferedOnce, Attached
    <2>3. conn.pump # 0 => conn.pump \in DOMAIN table
      BY DEF PulsarInv, PumpInv, PulsarTypes, OneSubscriber
    <2>4. conn'.pump # 0 /\ Buffered(conn.pump)' # {} => conn'.pump \in broker'.live
      <3>1. conn.pump # 0 => Buffered(conn.pump)' = Buffered(conn.pump)
        BY <1>5, <2>3
      <3> QED BY <1>2, <3>1 DEF PulsarInv, BufferedOnce
    <2> QED BY <2>1, <2>2, <2>4 DEF BufferedOnce
  <1>9. NewestHeld'
    <2>1. Unsettled' = Unsettled /\ Unsettled \subseteq tokens \union conn.last
      BY DEF Unsettled
    <2>2. \A t \in Unsettled : t.consumer \in Attached' => t.consumer \in Attached
      BY <1>2, <2>1 DEF PulsarInv, NewestHeld, Attached
    <2>3. \A t \in Unsettled : t.consumer \in Attached' =>
             /\ hist.holder[t.msg] = {t} /\ t.msg \notin Buffered(t.consumer)'
             /\ \A u \in broker'.unacked : u.msg = t.msg => u.consumer = t.consumer
      BY <1>2, <1>5, <1>6, <2>2 DEF PulsarInv, NewestHeld
    <2>4. \A t \in Unsettled : t.consumer \in Attached' => t.msg \notin broker'.backlog
      <3> SUFFICES ASSUME NEW t \in Unsettled, t.consumer \in Attached', t.msg \in broker'.backlog
                   PROVE  FALSE
        OBVIOUS
      <3>1. t.msg \notin broker.backlog /\ \A u \in broker.unacked : u.msg = t.msg => u.consumer = t.consumer
        BY <2>2 DEF PulsarInv, NewestHeld
      <3>2. t.consumer = i /\ i \notin Attached'
        BY <1>2, <3>1 DEF Attached
      <3> QED BY <3>2
    <2>5. \A t \in tokens' \union conn'.last :
       /\ t.msg \in hist'.accepted /\ t.delivery <= conn'.deliveries
       /\ t.consumer \in DOMAIN table' /\ table'[t.consumer].phase \notin {"subscribe", "publish"}
      BY DEF PulsarInv, NewestHeld
    <2> QED BY <2>1, <2>3, <2>4, <2>5 DEF PulsarInv, NewestHeld
  <1> QED BY <1>4, <1>7, <1>8, <1>9 DEF PulsarInv


\* The steps that leave the subscription alone.
LEMMA PulsarConnects ==
  ASSUME PulsarInv, PumpInv', StrayInv', which = "pulsar", which' = which, Pulsar!Connect \/ Pulsar!Disconnect
  PROVE  PulsarInv' /\ ContractStep
  <1>1. conn \in PulsarConns /\ table \in Seq(PulsarPumps) /\ (\A j \in DOMAIN table : table[j] \in PulsarPumps)
    BY DEF PulsarInv, PumpInv, PulsarTypes
  <1>2. /\ \A j \in broker.live : j \in DOMAIN table
        /\ \A j \in broker.live :
              /\ \A k, l \in DOMAIN table[j].records : table[j].records[k] = table[j].records[l] => k = l
              /\ \A k \in DOMAIN table[j].records : table[j].records[k] \notin table[j].got
    BY DEF PulsarInv, PumpInv, OneSubscriber, BufferedOnce

  <1>3. UNCHANGED <<broker, tokens, hist>>
    BY DEF Pulsar!Connect, Pulsar!Disconnect
  <1>4. /\ conn'.last \subseteq conn.last /\ conn'.settled = conn.settled /\ conn'.deliveries = conn.deliveries
        /\ conn'.pump # 0 => conn'.pump = conn.pump
    BY <1>1 DEF Pulsar!Connect, Pulsar!Disconnect, Pulsar!NoPump, Pulsar!NoMessage, PulsarConns
  <1>5. /\ DOMAIN table' = DOMAIN table
        /\ \A j \in DOMAIN table : /\ table'[j].phase = table[j].phase /\ table'[j].records = table[j].records
                                   /\ table'[j].got = table[j].got
    <2>1. CASE Pulsar!Connect
      BY <2>1 DEF Pulsar!Connect
    <2>2. CASE Pulsar!Disconnect
      <3> DEFINE i == conn.pump
                 retired == i # 0 /\ (conn.consumer = i \/ ~table[i].stopped)
                 turn(j) == [table[j] EXCEPT !.accepting = FALSE, !.retired = @ \/ retired]
      <3>1. table' = [j \in DOMAIN table |-> IF j = i THEN turn(j) ELSE table[j]]
        BY <2>2, Zenon DEF Pulsar!Disconnect, Pulsar!NoPump
      <3> HIDE DEF retired, i
      <3>2. \A j \in DOMAIN table : /\ turn(j).phase = table[j].phase /\ turn(j).records = table[j].records
                                    /\ turn(j).got = table[j].got
        BY <1>1 DEF PulsarPumps
      <3> HIDE DEF turn
      <3> QED BY <3>1, <3>2
    <2> QED BY <2>1, <2>2
  <1>6. \A j \in DOMAIN table : Buffered(j)' \subseteq Buffered(j)
    BY <1>5 DEF Buffered
  <1>7. \A j \in broker.live :
           /\ \A k, l \in DOMAIN table'[j].records : table'[j].records[k] = table'[j].records[l] => k = l
           /\ \A k \in DOMAIN table'[j].records : table'[j].records[k] \notin table'[j].got
    BY <1>2, <1>5
  <1> QED BY <1>3, <1>4, <1>5, <1>6, <1>7, PulsarRests

LEMMA PulsarBuilds ==
  ASSUME PulsarInv, PumpInv', StrayInv', which = "pulsar", which' = which, Pulsar!EnsurePump
  PROVE  PulsarInv' /\ ContractStep
  <1>1. conn \in PulsarConns /\ table \in Seq(PulsarPumps) /\ (\A j \in DOMAIN table : table[j] \in PulsarPumps)
    BY DEF PulsarInv, PumpInv, PulsarTypes
  <1>2. /\ \A j \in broker.live : j \in DOMAIN table
        /\ \A j \in broker.live :
              /\ \A k, l \in DOMAIN table[j].records : table[j].records[k] = table[j].records[l] => k = l
              /\ \A k \in DOMAIN table[j].records : table[j].records[k] \notin table[j].got
    BY DEF PulsarInv, PumpInv, OneSubscriber, BufferedOnce

  <1>3. UNCHANGED <<broker, tokens, hist>>
    BY DEF Pulsar!EnsurePump
  <1>4. /\ conn'.last = conn.last /\ conn'.settled = conn.settled /\ conn'.deliveries = conn.deliveries
        /\ conn'.pump = Len(table) + 1
    BY <1>1 DEF Pulsar!EnsurePump, PulsarConns
  <1>5. PICK r : table' = Append(table, r) /\ r.records = << >> /\ r.got = {}
    BY DEF Pulsar!EnsurePump, Pulsar!NoMessage
  <1>6. /\ \A j \in DOMAIN table : j \in DOMAIN table' /\ table'[j] = table[j]
        /\ table'[Len(table) + 1] = r
    BY <1>1, <1>5
  <1>7. Buffered(conn.pump)' = {}
    BY <1>4, <1>5, <1>6 DEF Buffered
  <1>8. \A j \in DOMAIN table : Buffered(j)' \subseteq Buffered(j)
    BY <1>6 DEF Buffered
  <1>9. \A j \in broker.live :
           /\ \A k, l \in DOMAIN table'[j].records : table'[j].records[k] = table'[j].records[l] => k = l
           /\ \A k \in DOMAIN table'[j].records : table'[j].records[k] \notin table'[j].got
    BY <1>2, <1>6
  <1> QED BY <1>3, <1>4, <1>6, <1>7, <1>8, <1>9, PulsarRests

LEMMA PulsarPumpTurns ==
  ASSUME PulsarInv, PumpInv', StrayInv', which = "pulsar", which' = which, NEW i \in DOMAIN table,
         Pulsar!PumpCannotSubscribe(i) \/ Pulsar!PumpPublishes(i) \/ Pulsar!PumpEnds(i)
  PROVE  PulsarInv' /\ ContractStep
  <1>1. conn \in PulsarConns /\ table \in Seq(PulsarPumps) /\ (\A j \in DOMAIN table : table[j] \in PulsarPumps)
    BY DEF PulsarInv, PumpInv, PulsarTypes
  <1>2. /\ \A j \in broker.live : j \in DOMAIN table
        /\ \A j \in broker.live :
              /\ \A k, l \in DOMAIN table[j].records : table[j].records[k] = table[j].records[l] => k = l
              /\ \A k \in DOMAIN table[j].records : table[j].records[k] \notin table[j].got
    BY DEF PulsarInv, PumpInv, OneSubscriber, BufferedOnce

  <1>3. UNCHANGED <<broker, tokens, hist>>
    BY DEF Pulsar!PumpCannotSubscribe, Pulsar!PumpPublishes, Pulsar!PumpEnds
  <1>4. /\ conn'.last = conn.last /\ conn'.settled = conn.settled /\ conn'.deliveries = conn.deliveries
        /\ conn'.pump = conn.pump
    BY <1>1 DEF Pulsar!PumpCannotSubscribe, Pulsar!PumpPublishes, Pulsar!PumpEnds, PulsarConns
  <1>5. /\ DOMAIN table' = DOMAIN table
        /\ \A j \in DOMAIN table : /\ table'[j].phase \in {table[j].phase, "receive", "stopped"}
                                   /\ table'[j].records = table[j].records /\ table'[j].got = table[j].got
    <2>1. CASE Pulsar!PumpPublishes(i)
      BY <1>1, <2>1 DEF Pulsar!PumpPublishes, PulsarPumps
    <2>2. CASE Pulsar!PumpCannotSubscribe(i) \/ Pulsar!PumpEnds(i)
      <3> DEFINE f == Pulsar!PumpLive(i)
      <3>1. table' = [table EXCEPT ![i].phase = "stopped", ![i].stopped = TRUE, ![i].failed = f]
        BY <2>2 DEF Pulsar!PumpCannotSubscribe, Pulsar!PumpEnds
      <3> HIDE DEF f
      <3> QED BY <1>1, <3>1 DEF PulsarPumps
    <2> QED BY <2>1, <2>2
  <1>6. \A j \in DOMAIN table : Buffered(j)' \subseteq Buffered(j)
    BY <1>5 DEF Buffered
  <1>7. \A j \in broker.live :
           /\ \A k, l \in DOMAIN table'[j].records : table'[j].records[k] = table'[j].records[l] => k = l
           /\ \A k \in DOMAIN table'[j].records : table'[j].records[k] \notin table'[j].got
    BY <1>2, <1>5
  <1>8. \A j \in DOMAIN table :
           table[j].phase \notin {"subscribe", "publish"} => table'[j].phase \notin {"subscribe", "publish"}
    BY <1>5
  <1> QED BY <1>3, <1>4, <1>5, <1>6, <1>7, <1>8, PulsarRests

LEMMA PulsarBuffers ==
  ASSUME PulsarInv, PumpInv', StrayInv', which = "pulsar", which' = which, NEW i \in DOMAIN table, Pulsar!PumpBuffers(i)
  PROVE  PulsarInv' /\ ContractStep
  <1>1. conn \in PulsarConns /\ table \in Seq(PulsarPumps) /\ (\A j \in DOMAIN table : table[j] \in PulsarPumps)
    BY DEF PulsarInv, PumpInv, PulsarTypes
  <1>2. /\ \A j \in broker.live : j \in DOMAIN table
        /\ \A j \in broker.live :
              /\ \A k, l \in DOMAIN table[j].records : table[j].records[k] = table[j].records[l] => k = l
              /\ \A k \in DOMAIN table[j].records : table[j].records[k] \notin table[j].got
    BY DEF PulsarInv, PumpInv, OneSubscriber, BufferedOnce

  <1>3. UNCHANGED <<conn, broker, tokens, hist>> /\ table[i].phase = "buffer"
    BY DEF Pulsar!PumpBuffers
  <1>4. PICK m \in Messages : table[i].got = {m}
    BY <1>3 DEF PulsarInv, PumpInv, PumpPhases
  <1>5. (CHOOSE x \in table[i].got : TRUE) = m
    BY <1>4
  <1>6. \/ table' = [table EXCEPT ![i].phase = "receive", ![i].got = {}, ![i].records = Append(@, m)]
        \/ table' = [table EXCEPT ![i].phase = "stopped", ![i].got = {}, ![i].stopped = TRUE]
    BY <1>5 DEF Pulsar!PumpBuffers
  <1>7. /\ DOMAIN table' = DOMAIN table
        /\ \A j \in DOMAIN table : j # i => table'[j] = table[j]
        /\ table'[i].phase \in {"receive", "stopped"} /\ table'[i].got = {}
        /\ table'[i].records = table[i].records \/ table'[i].records = Append(table[i].records, m)
    <2> DEFINE s == Append(table[i].records, m)
    <2>1. CASE table' = [table EXCEPT ![i].phase = "receive", ![i].got = {}, ![i].records = s]
      <3> HIDE DEF s
      <3>1. /\ DOMAIN table' = DOMAIN table /\ \A j \in DOMAIN table : j # i => table'[j] = table[j]
            /\ table'[i].phase = "receive" /\ table'[i].got = {} /\ table'[i].records = s
        BY <1>1, <2>1 DEF PulsarPumps
      <3> QED BY <3>1 DEF s
    <2>2. CASE table' = [table EXCEPT ![i].phase = "stopped", ![i].got = {}, ![i].stopped = TRUE]
      BY <1>1, <2>2 DEF PulsarPumps
    <2>3. \/ table' = [table EXCEPT ![i].phase = "receive", ![i].got = {}, ![i].records = s]
          \/ table' = [table EXCEPT ![i].phase = "stopped", ![i].got = {}, ![i].stopped = TRUE]
      BY <1>6
    <2> QED BY <2>1, <2>2, <2>3
  <1>8. table[i].records \in Seq(Messages)
    BY <1>1 DEF PulsarPumps
  <1>9. CASE table'[i].records = table[i].records
    <2>1. \A j \in DOMAIN table : Buffered(j)' \subseteq Buffered(j)
      BY <1>7, <1>9 DEF Buffered
    <2>2. \A j \in broker.live :
           /\ \A k, l \in DOMAIN table'[j].records : table'[j].records[k] = table'[j].records[l] => k = l
           /\ \A k \in DOMAIN table'[j].records : table'[j].records[k] \notin table'[j].got
      BY <1>2, <1>7, <1>9
    <2> QED BY <1>3, <1>7, <2>1, <2>2, PulsarRests
  <1>10. CASE table'[i].records = Append(table[i].records, m)
    <2> DEFINE s == table[i].records
               n == table'[i].records
    <2>1. /\ DOMAIN n = 1..(Len(s) + 1) /\ DOMAIN s = 1..Len(s) /\ Len(s) \in Nat
          /\ n[Len(s) + 1] = m /\ \A k \in DOMAIN s : n[k] = s[k]
      BY <1>8, <1>10
    <2>2. \A k \in DOMAIN n : k \in DOMAIN s \/ k = Len(s) + 1
      BY <2>1
    <2>3. Buffered(i)' \subseteq Buffered(i)
      <3>1. Buffered(i)' = {n[k] : k \in DOMAIN n}
        BY <1>7 DEF Buffered
      <3>2. Buffered(i) = {s[k] : k \in DOMAIN s} \union {m}
        BY <1>4 DEF Buffered
      <3> HIDE DEF s, n
      <3> QED BY <2>1, <2>2, <3>1, <3>2
    <2>4. \A j \in DOMAIN table : Buffered(j)' \subseteq Buffered(j)
      BY <1>7, <2>3 DEF Buffered
    <2>5. i \in broker.live => \A k, l \in DOMAIN n : n[k] = n[l] => k = l
      <3>1. i \in broker.live => /\ \A k, l \in DOMAIN s : s[k] = s[l] => k = l
                                 /\ \A k \in DOMAIN s : s[k] # m
        BY <1>2, <1>4
      <3> HIDE DEF s, n
      <3> QED BY <2>1, <2>2, <3>1
    <2>6. \A j \in broker.live :
           /\ \A k, l \in DOMAIN table'[j].records : table'[j].records[k] = table'[j].records[l] => k = l
           /\ \A k \in DOMAIN table'[j].records : table'[j].records[k] \notin table'[j].got
      BY <1>2, <1>7, <2>5
    <2> QED BY <1>3, <1>7, <2>4, <2>6, PulsarRests
  <1> QED BY <1>7, <1>9, <1>10

LEMMA PulsarFindsFailure ==
  ASSUME PulsarInv, PumpInv', StrayInv', which = "pulsar", which' = which, Pulsar!PopFindsFailure
  PROVE  PulsarInv' /\ ContractStep
  <1>1. conn \in PulsarConns /\ table \in Seq(PulsarPumps) /\ (\A j \in DOMAIN table : table[j] \in PulsarPumps)
    BY DEF PulsarInv, PumpInv, PulsarTypes
  <1>2. /\ \A j \in broker.live : j \in DOMAIN table
        /\ \A j \in broker.live :
              /\ \A k, l \in DOMAIN table[j].records : table[j].records[k] = table[j].records[l] => k = l
              /\ \A k \in DOMAIN table[j].records : table[j].records[k] \notin table[j].got
    BY DEF PulsarInv, PumpInv, OneSubscriber, BufferedOnce

  <1>3. UNCHANGED <<broker, tokens, hist>>
    BY DEF Pulsar!PopFindsFailure
  <1>4. /\ conn'.last = conn.last /\ conn'.settled = conn.settled /\ conn'.deliveries = conn.deliveries
        /\ conn'.pump = 0
    BY <1>1 DEF Pulsar!PopFindsFailure, Pulsar!NoPump, PulsarConns
  <1>5. /\ DOMAIN table' = DOMAIN table
        /\ \A j \in DOMAIN table : /\ table'[j].phase = table[j].phase /\ table'[j].records = table[j].records
                                   /\ table'[j].got = table[j].got
    <2> DEFINE p == conn.consumer = conn.pump
    <2>1. table' = [table EXCEPT ![conn.pump].accepting = FALSE, ![conn.pump].retired = p]
      BY DEF Pulsar!PopFindsFailure
    <2>2. conn.pump \in DOMAIN table
      BY <1>1 DEF Pulsar!PopFindsFailure, Pulsar!NoPump, PulsarInv, PumpInv, OneSubscriber
    <2> HIDE DEF p
    <2> QED BY <1>1, <2>1, <2>2 DEF PulsarPumps
  <1>6. \A j \in DOMAIN table : Buffered(j)' \subseteq Buffered(j)
    BY <1>5 DEF Buffered
  <1>7. \A j \in broker.live :
           /\ \A k, l \in DOMAIN table'[j].records : table'[j].records[k] = table'[j].records[l] => k = l
           /\ \A k \in DOMAIN table'[j].records : table'[j].records[k] \notin table'[j].got
    BY <1>2, <1>5
  <1> QED BY <1>3, <1>4, <1>5, <1>6, <1>7, PulsarRests


\* The steps of a consumer.
LEMMA PulsarSubscribes ==
  ASSUME PulsarInv, PumpInv', StrayInv', which = "pulsar", which' = which, NEW i \in DOMAIN table, Pulsar!PumpSubscribes(i)
  PROVE  PulsarInv' /\ ContractStep
  <1>1. conn \in PulsarConns /\ table \in Seq(PulsarPumps) /\ (\A j \in DOMAIN table : table[j] \in PulsarPumps)
    BY DEF PulsarInv, PumpInv, PulsarTypes
  <1>2. /\ \A j \in broker.live : j \in DOMAIN table
        /\ \A j \in broker.live :
              /\ \A k, l \in DOMAIN table[j].records : table[j].records[k] = table[j].records[l] => k = l
              /\ \A k \in DOMAIN table[j].records : table[j].records[k] \notin table[j].got
    BY DEF PulsarInv, PumpInv, OneSubscriber, BufferedOnce

  <1>3. /\ table[i].phase = "subscribe" /\ broker' = [broker EXCEPT !.live = @ \union {i}]
        /\ table' = [table EXCEPT ![i].phase = "publish"] /\ UNCHANGED <<conn, tokens, hist>>
    BY DEF Pulsar!PumpSubscribes
  <1>4. /\ broker'.live = broker.live \union {i} /\ broker'.backlog = broker.backlog
        /\ broker'.unacked = broker.unacked /\ broker'.stray = broker.stray
    BY <1>3 DEF PulsarInv, PumpInv, PulsarTypes, PulsarBrokers
  <1>5. /\ DOMAIN table' = DOMAIN table
        /\ \A j \in DOMAIN table : /\ table'[j].records = table[j].records /\ table'[j].got = table[j].got
                                   /\ j # i => table'[j] = table[j]
    BY <1>1, <1>3 DEF PulsarPumps
  <1>6. table[i].records = << >> /\ table[i].got = {}
    BY <1>3 DEF PulsarInv, PumpInv, PumpPhases
  <1>7. /\ \A j \in DOMAIN table : Buffered(j)' = Buffered(j)
        /\ Buffered(i) = {}
    BY <1>5, <1>6 DEF Buffered
  <1>8. ContractStep
    BY <1>3, <1>4, PulsarSame DEF PulsarStored
  <1>9. HeldBack'
    BY <1>3, <1>4 DEF PulsarInv, HeldBack, Attached
  <1>10. BufferedOnce'
    <2>1. conn.pump \in DOMAIN table \/ conn.pump = 0
      BY <1>1 DEF PulsarInv, PumpInv, OneSubscriber
    <2>2. \A j \in broker'.live : \A m \in Buffered(j)' : [consumer |-> j, msg |-> m] \in broker'.unacked
      BY <1>2, <1>4, <1>7 DEF PulsarInv, BufferedOnce
    <2>3. \A j \in broker'.live :
           /\ \A k, l \in DOMAIN table'[j].records : table'[j].records[k] = table'[j].records[l] => k = l
           /\ \A k \in DOMAIN table'[j].records : table'[j].records[k] \notin table'[j].got
      BY <1>2, <1>4, <1>5, <1>6
    <2>4. conn.pump # 0 => Buffered(conn.pump)' = Buffered(conn.pump)
      BY <1>3, <1>7, <2>1
    <2> QED BY <1>3, <1>4, <2>2, <2>3, <2>4 DEF PulsarInv, BufferedOnce
  <1>11. \A t \in tokens \union conn.last : t.consumer # i /\ t.consumer \in DOMAIN table
    BY <1>3 DEF PulsarInv, NewestHeld
  <1>12. NewestHeld'
    <2>1. Unsettled' = Unsettled /\ Unsettled \subseteq tokens \union conn.last
      BY <1>3 DEF Unsettled
    <2>2. \A t \in Unsettled : t.consumer \in Attached' =>
             t.consumer \in Attached /\ t.msg \notin Buffered(t.consumer)'
      BY <1>4, <1>7, <1>11, <2>1 DEF PulsarInv, NewestHeld, Attached
    <2>3. \A t \in tokens' \union conn'.last :
       /\ t.consumer \in DOMAIN table' /\ table'[t.consumer].phase \notin {"subscribe", "publish"}
      BY <1>3, <1>5, <1>11 DEF PulsarInv, NewestHeld
    <2> QED BY <1>3, <1>4, <2>1, <2>2, <2>3 DEF PulsarInv, NewestHeld
  <1> QED BY <1>8, <1>9, <1>10, <1>12 DEF PulsarInv

LEMMA PulsarRetires ==
  ASSUME PulsarInv, PumpInv', StrayInv', which = "pulsar", which' = which, NEW i \in DOMAIN table,
         Pulsar!PumpClosesStale(i) \/ Pulsar!Retire(i)
  PROVE  PulsarInv' /\ ContractStep
  <1>1. conn \in PulsarConns /\ table \in Seq(PulsarPumps) /\ (\A j \in DOMAIN table : table[j] \in PulsarPumps)
    BY DEF PulsarInv, PumpInv, PulsarTypes
  <1>2. /\ UNCHANGED <<tokens, hist>> /\ Pulsar!CloseConsumer(i)
        /\ conn' = [conn EXCEPT !.retirement = IF @ = i THEN 0 ELSE @]
    BY DEF Pulsar!PumpClosesStale, Pulsar!Retire, Pulsar!NoPump
  <1>3. /\ conn'.last = conn.last /\ conn'.settled = conn.settled /\ conn'.deliveries = conn.deliveries
        /\ conn'.pump = conn.pump
    BY <1>1, <1>2 DEF PulsarConns
  <1>4. /\ DOMAIN table' = DOMAIN table
        /\ \A j \in DOMAIN table : /\ table'[j].phase \in {table[j].phase, "stopped"}
                                   /\ table'[j].records = table[j].records /\ table'[j].got = table[j].got
    <2>1. CASE Pulsar!PumpClosesStale(i)
      <3>1. table' = [table EXCEPT ![i].phase = "stopped", ![i].stopped = TRUE]
        BY <2>1 DEF Pulsar!PumpClosesStale
      <3> QED BY <1>1, <3>1 DEF PulsarPumps
    <2>2. CASE Pulsar!Retire(i)
      BY <2>2 DEF Pulsar!Retire
    <2> QED BY <2>1, <2>2
  <1>5. i # conn.pump
    BY StraysLeft DEF PulsarInv
  <1>6. i \in Attached \/ table[i].phase = "publish"
    BY DEF Pulsar!PumpClosesStale, Pulsar!Retire, Attached
  <1> QED BY <1>2, <1>3, <1>4, <1>5, <1>6, PulsarCloses

LEMMA PulsarDrops ==
  ASSUME PulsarInv, PumpInv', StrayInv', which = "pulsar", which' = which, NEW i \in DOMAIN table,
         Pulsar!StrayDropped(i)
  PROVE  PulsarInv' /\ ContractStep
  <1>1. i \in broker.stray /\ Pulsar!CloseConsumer(i) /\ UNCHANGED <<conn, table, tokens, hist>>
    BY DEF Pulsar!StrayDropped, Pulsar!CloseConsumer
  <1>2. i # conn.pump /\ i \in Attached
    BY <1>1 DEF PulsarInv, StrayInv, Attached
  <1> QED BY <1>1, <1>2, PulsarCloses

LEMMA PulsarReceives ==
  ASSUME PulsarInv, PumpInv', StrayInv', which = "pulsar", which' = which, NEW i \in DOMAIN table, NEW m \in Messages,
         Pulsar!PumpReceives(i, m)
  PROVE  PulsarInv' /\ ContractStep
  <1>1. conn \in PulsarConns /\ table \in Seq(PulsarPumps) /\ (\A j \in DOMAIN table : table[j] \in PulsarPumps)
    BY DEF PulsarInv, PumpInv, PulsarTypes
  <1>2. /\ \A j \in broker.live : j \in DOMAIN table
        /\ \A j \in broker.live :
              /\ \A k, l \in DOMAIN table[j].records : table[j].records[k] = table[j].records[l] => k = l
              /\ \A k \in DOMAIN table[j].records : table[j].records[k] \notin table[j].got
    BY DEF PulsarInv, PumpInv, OneSubscriber, BufferedOnce

  <1> DEFINE u == [consumer |-> i, msg |-> m]
  <1>3. /\ table[i].phase = "receive" /\ i \in Attached /\ m \in broker.backlog
        /\ broker' = [broker EXCEPT !.backlog = @ \ {m}, !.unacked = @ \union {u}]
        /\ table' = [table EXCEPT ![i].phase = "buffer", ![i].got = {m}] /\ UNCHANGED <<conn, tokens, hist>>
    BY DEF Pulsar!PumpReceives, Attached
  <1>4. u.consumer = i /\ u.msg = m
    OBVIOUS
  <1> HIDE DEF u
  <1>5. /\ broker'.live = broker.live /\ broker'.stray = broker.stray /\ broker'.backlog = broker.backlog \ {m}
        /\ broker'.unacked = broker.unacked \union {u}
    BY <1>3 DEF PulsarInv, PumpInv, PulsarTypes, PulsarBrokers
  <1>6. /\ DOMAIN table' = DOMAIN table /\ table'[i].phase = "buffer" /\ table'[i].got = {m}
        /\ table'[i].records = table[i].records
        /\ \A j \in DOMAIN table : j # i => table'[j] = table[j]
    BY <1>1, <1>3 DEF PulsarPumps
  <1>7. table[i].got = {}
    BY <1>3 DEF PulsarInv, PumpInv, PumpPhases
  <1>8. /\ \A j \in DOMAIN table : j # i => Buffered(j)' = Buffered(j)
        /\ Buffered(i)' = Buffered(i) \union {m}
    BY <1>6, <1>7 DEF Buffered
  <1>9. \A v \in broker.unacked : v.msg # m
    BY <1>3 DEF PulsarInv, HeldBack
  <1>10. i \in broker.live => m \notin Buffered(i)
    <2>1. i \in broker.live /\ m \in Buffered(i) => [consumer |-> i, msg |-> m] \in broker.unacked
      BY <1>3 DEF PulsarInv, BufferedOnce
    <2> QED BY <1>4, <1>9, <2>1 DEF u
  <1>11. ContractStep
    <2>1. \A n : PulsarStored(n)' <=> PulsarStored(n)
      BY <1>3, <1>4, <1>5 DEF PulsarStored
    <2> QED BY <1>3, <2>1, PulsarSame
  <1>12. HeldBack'
    <2>1. broker'.backlog \subseteq hist'.accepted
      BY <1>3, <1>5 DEF PulsarInv, HeldBack
    <2>2. \A v \in broker'.unacked : /\ v.msg \in hist'.accepted /\ v.msg \notin broker'.backlog
                                     /\ v.consumer \in Attached'
      BY <1>3, <1>4, <1>5 DEF PulsarInv, HeldBack, Attached
    <2>3. \A v, w \in broker'.unacked : v.msg = w.msg => v = w
      BY <1>4, <1>5, <1>9 DEF PulsarInv, HeldBack
    <2> QED BY <2>1, <2>2, <2>3 DEF HeldBack
  <1>13. BufferedOnce'
    <2>1. \A j \in broker'.live : \A n \in Buffered(j)' : [consumer |-> j, msg |-> n] \in broker'.unacked
      BY <1>2, <1>5, <1>8 DEF PulsarInv, BufferedOnce, u
    <2>2. i \in broker.live => \A k \in DOMAIN table[i].records : table[i].records[k] # m
      BY <1>10 DEF Buffered
    <2>3. \A j \in broker'.live :
           /\ \A k, l \in DOMAIN table'[j].records : table'[j].records[k] = table'[j].records[l] => k = l
           /\ \A k \in DOMAIN table'[j].records : table'[j].records[k] \notin table'[j].got
      BY <1>2, <1>5, <1>6, <2>2
    <2>4. conn'.pump # 0 /\ Buffered(conn.pump)' # {} => conn'.pump \in broker'.live
      <3>1. conn.pump # 0 => conn.pump \in DOMAIN table
        BY <1>1 DEF PulsarInv, PumpInv, OneSubscriber
      <3>2. conn.pump = i \/ conn.pump = 0 \/ Buffered(conn.pump)' = Buffered(conn.pump)
        BY <1>3, <1>8, <3>1
      <3>3. conn.pump = i => i \in broker.live
        BY <1>3 DEF Attached, PulsarInv, StrayInv
      <3> QED BY <1>3, <1>5, <3>2, <3>3 DEF PulsarInv, BufferedOnce
    <2> QED BY <2>1, <2>3, <2>4 DEF BufferedOnce
  <1>14. NewestHeld'
    <2>1. Unsettled' = Unsettled
      BY <1>3 DEF Unsettled
    <2>2. \A t \in Unsettled : t.consumer \in Attached =>
             /\ t.msg # m /\ t.msg \notin Buffered(t.consumer)'
             /\ \A v \in broker'.unacked : v.msg = t.msg => v.consumer = t.consumer
      <3>1. Unsettled \subseteq tokens \union conn.last
        BY DEF Unsettled
      <3>2. \A t \in Unsettled : t.consumer \in DOMAIN table
        BY <3>1 DEF PulsarInv, NewestHeld
      <3> QED BY <1>3, <1>4, <1>5, <1>8, <3>2 DEF PulsarInv, NewestHeld
    <2>3. \A t \in tokens' \union conn'.last :
       /\ t.consumer \in DOMAIN table' /\ table'[t.consumer].phase \notin {"subscribe", "publish"}
      BY <1>3, <1>6 DEF PulsarInv, NewestHeld
    <2>4. Attached' = Attached
      BY <1>5 DEF Attached
    <2> QED BY <1>3, <1>5, <2>1, <2>2, <2>3, <2>4 DEF PulsarInv, NewestHeld
  <1> QED BY <1>11, <1>12, <1>13, <1>14 DEF PulsarInv

LEMMA PulsarPush ==
  ASSUME PulsarInv, PumpInv', StrayInv', which = "pulsar", which' = which, NEW m \in Messages, NEW stored \in BOOLEAN,
         Pulsar!Push(m, stored)
  PROVE  PulsarInv' /\ ContractStep

  <1>1. hist \in PulsarHists /\ broker \in PulsarBrokers
    BY DEF PulsarInv, PumpInv, PulsarTypes
  <1>2. m \notin hist.accepted /\ UNCHANGED <<conn, table, tokens>>
    BY DEF Pulsar!Push
  <1>3. /\ broker'.live = broker.live /\ Attached' = Attached /\ broker'.unacked = broker.unacked
        /\ broker'.backlog = (IF stored THEN broker.backlog \union {m} ELSE broker.backlog)
    BY <1>1 DEF Pulsar!Push, PulsarBrokers, Attached
  <1>4. /\ hist'.asked = hist.asked /\ hist'.unsure = hist.unsure /\ hist'.holder = hist.holder
        /\ hist'.accepted = (IF stored THEN hist.accepted \union {m} ELSE hist.accepted)
    BY <1>1 DEF Pulsar!Push, PulsarHists
  <1>5. ContractStep
    <2>1. \A n : PulsarStored(n)' <=> PulsarStored(n) \/ (stored /\ n = m)
      BY <1>3 DEF PulsarStored
    <2>2. Gone' = Gone /\ Asked' = Asked /\ Unsure' = Unsure /\ Cleared' = Cleared /\ Accepted = hist.accepted
      BY <1>2, <1>4, <2>1, PulsarMapped, PulsarMappedNext
    <2>3. Accepted' = (IF stored THEN hist.accepted \union {m} ELSE hist.accepted)
      BY <1>4, PulsarMappedNext
    <2> QED BY <1>2, <2>2, <2>3, PromisesPush, NoPromise
  <1>6. HeldBack'
    BY <1>2, <1>3, <1>4 DEF PulsarInv, HeldBack
  <1>7. \A i : Buffered(i)' = Buffered(i)
    BY <1>2 DEF Buffered
  <1>8. BufferedOnce'
    BY <1>2, <1>3, <1>7 DEF PulsarInv, BufferedOnce
  <1>9. NewestHeld'
    <2>1. Unsettled' = Unsettled /\ Unsettled \subseteq tokens \union conn.last
      BY <1>2 DEF Unsettled
    <2>2. \A t \in tokens \union conn.last : t.msg # m /\ t.msg \in hist'.accepted
      BY <1>2, <1>4 DEF PulsarInv, NewestHeld
    <2> QED BY <1>2, <1>3, <1>4, <1>7, <2>1, <2>2 DEF PulsarInv, NewestHeld
  <1> QED BY <1>5, <1>6, <1>8, <1>9 DEF PulsarInv


\* The holder of an outstanding delivery settles it.
LEMMA PulsarSettles ==
  ASSUME PulsarInv, PumpInv', StrayInv', which = "pulsar", which' = which, NEW t \in Unsettled,
         UNCHANGED <<table, tokens>>, conn'.pump = conn.pump, conn'.deliveries = conn.deliveries,
         conn'.last \in {{}, conn.last}, Unsettled' \subseteq Unsettled,
         hist'.accepted = hist.accepted, hist'.holder = hist.holder,
         hist'.asked \in {hist.asked, Pulsar!Asks(t)},
         \/ broker' = broker /\ hist'.unsure = hist.unsure
         \/ /\ broker' = Pulsar!Acknowledged(t) /\ hist'.asked = Pulsar!Asks(t)
            /\ hist'.unsure \in {hist.unsure, hist.unsure \union {u.msg : u \in Pulsar!Unacked(t)}}
         \/ broker' = Pulsar!Redelivered(t) /\ hist' = hist /\ t \notin Unsettled'
  PROVE  PulsarInv' /\ ContractStep
  <1> DEFINE m == t.msg
             U == Pulsar!Unacked(t)
             B == {u.msg : u \in U}
             a == Pulsar!Acknowledged(t)
             n == Pulsar!Redelivered(t)
  <1>1. /\ broker \in PulsarBrokers /\ hist \in PulsarHists /\ t \in tokens \union conn.last /\ t \in PulsarTokens
    BY DEF PulsarInv, PumpInv, PulsarTypes, Unsettled, PulsarConns
  <1>2. m \in hist.accepted /\ m \in Messages
    BY <1>1 DEF PulsarInv, NewestHeld, PulsarTokens
  <1>3. /\ U \subseteq broker.unacked
        /\ a.live = broker.live /\ a.stray = broker.stray /\ n.live = broker.live /\ n.stray = broker.stray
        /\ a.backlog = broker.backlog /\ a.unacked = broker.unacked \ U
        /\ n.backlog = broker.backlog \union B /\ n.unacked = broker.unacked \ U
    BY <1>1, SubscriptionSettled
  <1>4. \A u \in U : u.msg = m /\ u.consumer = t.consumer /\ u \in broker.unacked
    BY DEF Pulsar!Unacked
  <1>5. \A u \in broker.unacked : u.msg = m /\ u.consumer = t.consumer => u \in U
    BY DEF Pulsar!Unacked
  <1>6. Pulsar!Asks(t) = IF t \in hist.holder[m] THEN hist.asked \union {m} ELSE hist.asked
    BY DEF Pulsar!Asks
  <1> HIDE DEF U, a, n
  <1>7. U # {} => /\ t.consumer \in Attached /\ hist.holder[m] = {t} /\ B = {m}
                  /\ m \notin broker.backlog
    BY <1>4 DEF PulsarInv, HeldBack, NewestHeld
  <1>8. U = {} => B = {}
    OBVIOUS
  <1>9. \A u \in broker.unacked : U # {} /\ u.msg = m => u \in U
    BY <1>4 DEF PulsarInv, HeldBack
  <1> HIDE DEF B
  <1>10. broker'.live = broker.live /\ Attached' = Attached /\ broker'.unacked \subseteq broker.unacked
    BY <1>3 DEF a, n, Attached
  <1>11. \/ broker'.backlog = broker.backlog
         \/ broker'.backlog = broker.backlog \union B /\ broker'.unacked = broker.unacked \ U /\ t \notin Unsettled'
    BY <1>3 DEF a, n
  <1>12. HeldBack'
    <2>1. broker'.backlog \subseteq hist'.accepted
      BY <1>2, <1>7, <1>8, <1>11 DEF PulsarInv, HeldBack
    <2>2. \A u \in broker'.unacked : u.msg \notin broker'.backlog
      BY <1>7, <1>8, <1>9, <1>10, <1>11 DEF PulsarInv, HeldBack
    <2>3. /\ \A u \in broker'.unacked : u.msg \in hist'.accepted /\ u.consumer \in Attached'
          /\ \A u, v \in broker'.unacked : u.msg = v.msg => u = v
      BY <1>10 DEF PulsarInv, HeldBack
    <2> QED BY <2>1, <2>2, <2>3 DEF HeldBack
  <1>13. \A i : Buffered(i)' = Buffered(i)
    BY DEF Buffered
  <1>14. BufferedOnce'
    <2>1. \A j \in broker.live : \A x \in Buffered(j) : [consumer |-> j, msg |-> x] \in broker'.unacked
      <3> SUFFICES ASSUME NEW j \in broker.live, NEW x \in Buffered(j)
                   PROVE  [consumer |-> j, msg |-> x] \in broker'.unacked
        OBVIOUS
      <3>1. PICK v \in broker.unacked : v = [consumer |-> j, msg |-> x]
        BY DEF PulsarInv, BufferedOnce
      <3>2. v.consumer = j /\ v.msg = x
        BY <3>1
      <3>3. v \notin U
        BY <1>4, <3>2 DEF PulsarInv, NewestHeld, Attached
      <3>4. v \in broker'.unacked
        BY <1>3, <3>3 DEF a, n
      <3> QED BY <3>1, <3>4
    <2> QED BY <1>10, <1>13, <2>1 DEF PulsarInv, BufferedOnce
  <1>15. NewestHeld'
    <2>1. \A s \in Unsettled' : s.consumer \in Attached => s.msg \notin broker'.backlog
      <3> SUFFICES ASSUME NEW s \in Unsettled', s.consumer \in Attached, s.msg \in broker'.backlog
                   PROVE  FALSE
        OBVIOUS
      <3>1. s \in Unsettled /\ hist.holder[s.msg] = {s} /\ s.msg \notin broker.backlog
        BY DEF PulsarInv, NewestHeld
      <3>2. s.msg \in B /\ t \notin Unsettled'
        BY <1>11, <3>1
      <3>3. s.msg = m /\ hist.holder[m] = {t}
        BY <1>7, <1>8, <3>2
      <3> QED BY <3>1, <3>2, <3>3
    <2> QED BY <1>10, <1>13, <2>1 DEF PulsarInv, NewestHeld
  <1>16. ContractStep
    <2>1. /\ Accepted' = Accepted /\ Cleared' = Cleared /\ Asked' = hist'.asked /\ Asked = hist.asked
          /\ Unsure' = hist'.unsure /\ Unsure = hist.unsure /\ m \in Accepted
      BY <1>2, PulsarMapped, PulsarMappedNext
    <2>2. CASE broker' = broker /\ hist'.unsure = hist.unsure
      <3>1. \A x : PulsarStored(x)' <=> PulsarStored(x)
        BY <2>2 DEF PulsarStored
      <3>2. Gone' = Gone
        BY <3>1, PulsarMapped, PulsarMappedNext
      <3>3. Asked' = Asked \/ Asked' = Asked \union {m}
        BY <1>6, <2>1
      <3> HIDE DEF m
      <3> QED BY <1>2, <2>1, <2>2, <3>2, <3>3, NoPromise, PromisesAck
    <2>3. CASE /\ broker' = a /\ hist'.asked = Pulsar!Asks(t)
               /\ hist'.unsure \in {hist.unsure, hist.unsure \union B}
      <3>1. \A x : PulsarStored(x)' <=> PulsarStored(x) /\ x \notin B
        BY <1>3, <1>4, <1>7, <1>8, <1>9, <2>3 DEF PulsarStored
      <3>2. Gone' = Gone \union B
        BY <1>2, <1>7, <1>8, <3>1, PulsarMapped, PulsarMappedNext
      <3>3. CASE U = {}
        <4>1. Gone' = Gone /\ Unsure' = Unsure
          BY <1>8, <2>1, <2>3, <3>2, <3>3
        <4>2. Asked' = Asked \/ Asked' = Asked \union {m}
          BY <1>6, <2>1
        <4> HIDE DEF m
        <4> QED BY <1>2, <2>1, <4>1, <4>2, NoPromise, PromisesAck
      <3>4. CASE U # {}
        <4>1. Gone' = Gone \union {m} /\ Unsure' \in {Unsure, Unsure \union {m}} /\ Asked' = Asked \union {m}
          BY <1>6, <1>7, <2>1, <2>3, <3>2, <3>4
        <4> HIDE DEF m
        <4> QED BY <1>2, <2>1, <4>1, PromisesAck
      <3> QED BY <3>3, <3>4
    <2>4. CASE broker' = n /\ hist' = hist
      <3>1. \A x : PulsarStored(x)' <=> PulsarStored(x)
        <4>1. \A x \in B : \E u \in broker.unacked : u.msg = x
          BY <1>4 DEF B
        <4>2. \A u \in U : u.msg \in B
          BY DEF B
        <4> QED BY <1>3, <2>4, <4>1, <4>2 DEF PulsarStored
      <3> QED BY <2>4, <3>1, PulsarSame
    <2> QED BY <2>2, <2>3, <2>4 DEF a, n, B, U
  <1> QED BY <1>12, <1>14, <1>15, <1>16 DEF PulsarInv

LEMMA PulsarTokenSettles ==
  ASSUME PulsarInv, PumpInv', StrayInv', which = "pulsar", which' = which, NEW t \in tokens,
         Pulsar!Ack(t) \/ Pulsar!AckFails(t) \/ Pulsar!SettleStale(t) \/ Pulsar!Nack(t)
  PROVE  PulsarInv' /\ ContractStep
  <1> DEFINE A == Pulsar!Asks(t)
             B == {u.msg : u \in Pulsar!Unacked(t)}
  <1>1. conn \in PulsarConns /\ hist \in PulsarHists
    BY DEF PulsarInv, PumpInv, PulsarTypes
  <1>2. t \notin conn.settled
    BY DEF Pulsar!Ack, Pulsar!AckFails, Pulsar!SettleStale, Pulsar!Nack, Pulsar!Usable
  <1>3. t \in Unsettled /\ t \notin conn.last
    BY <1>2 DEF Unsettled, PulsarInv, NewestHeld
  <1>4. UNCHANGED <<table, tokens>>
    BY DEF Pulsar!Ack, Pulsar!AckFails, Pulsar!SettleStale, Pulsar!Nack
  <1>5. conn' = conn \/ conn' = [conn EXCEPT !.settled = @ \union {t}]
    BY DEF Pulsar!Ack, Pulsar!AckFails, Pulsar!SettleStale, Pulsar!Nack
  <1>6. /\ conn'.pump = conn.pump /\ conn'.deliveries = conn.deliveries /\ conn'.last = conn.last
        /\ conn.settled \subseteq conn'.settled
    BY <1>1, <1>5 DEF PulsarConns
  <1>7. Unsettled' \subseteq Unsettled
    BY <1>4, <1>6 DEF Unsettled
  <1>8. Pulsar!Nack(t) => t \notin Unsettled'
    <2>1. Pulsar!Nack(t) => t \in conn'.settled
      BY <1>1 DEF Pulsar!Nack, PulsarConns
    <2> QED BY <1>3, <1>4, <1>6, <2>1 DEF Unsettled
  <1>9. CASE Pulsar!Ack(t)
    <2>1. hist' = [hist EXCEPT !.asked = A] /\ broker' = Pulsar!Acknowledged(t)
      BY <1>9 DEF Pulsar!Ack
    <2>2. hist'.accepted = hist.accepted /\ hist'.holder = hist.holder /\ hist'.asked = A /\ hist'.unsure = hist.unsure
      BY <1>1, <2>1 DEF PulsarHists
    <2> QED BY <1>3, <1>4, <1>6, <1>7, <2>1, <2>2, PulsarSettles
  <1>10. CASE Pulsar!AckFails(t)
    <2>1. hist' = [hist EXCEPT !.asked = A, !.unsure = @ \union B] /\ broker' = Pulsar!Acknowledged(t)
      BY <1>10 DEF Pulsar!AckFails
    <2>2. /\ hist'.accepted = hist.accepted /\ hist'.holder = hist.holder /\ hist'.asked = A
          /\ hist'.unsure = hist.unsure \union B
      BY <1>1, <2>1 DEF PulsarHists
    <2> QED BY <1>3, <1>4, <1>6, <1>7, <2>1, <2>2, PulsarSettles
  <1>11. CASE Pulsar!SettleStale(t)
    <2>1. hist' = [hist EXCEPT !.asked = A] /\ broker' = broker
      BY <1>11 DEF Pulsar!SettleStale
    <2>2. hist'.accepted = hist.accepted /\ hist'.holder = hist.holder /\ hist'.asked = A /\ hist'.unsure = hist.unsure
      BY <1>1, <2>1 DEF PulsarHists
    <2> QED BY <1>3, <1>4, <1>6, <1>7, <2>1, <2>2, PulsarSettles
  <1>12. CASE Pulsar!Nack(t)
    <2>1. hist' = hist /\ broker' = Pulsar!Redelivered(t)
      BY <1>12 DEF Pulsar!Nack
    <2> QED BY <1>3, <1>4, <1>6, <1>7, <1>8, <1>12, <2>1, PulsarSettles
  <1> QED BY <1>9, <1>10, <1>11, <1>12

LEMMA PulsarLegacySettles ==
  ASSUME PulsarInv, PumpInv', StrayInv', which = "pulsar", which' = which, NEW ack \in BOOLEAN, Pulsar!LegacySettle(ack)
  PROVE  PulsarInv' /\ ContractStep
  <1>1. conn \in PulsarConns /\ hist \in PulsarHists
    BY DEF PulsarInv, PumpInv, PulsarTypes
  <1>2. conn.last # {} /\ conn' = [conn EXCEPT !.last = {}] /\ UNCHANGED <<table, tokens>>
    BY DEF Pulsar!LegacySettle, Pulsar!NoMessage
  <1>3. PICK t \in conn.last : t = CHOOSE x \in conn.last : TRUE
    BY <1>2
  <1>4. /\ conn'.pump = conn.pump /\ conn'.deliveries = conn.deliveries /\ conn'.last = {}
        /\ conn'.settled = conn.settled
    BY <1>1, <1>2 DEF PulsarConns
  <1>5. t \in Unsettled /\ Unsettled' \subseteq Unsettled /\ t \notin Unsettled'
    BY <1>2, <1>4 DEF Unsettled, PulsarInv, NewestHeld
  <1>6. CASE ack
    <2>1. hist' = [hist EXCEPT !.asked = Pulsar!Asks(t)] /\ broker' = Pulsar!Acknowledged(t)
      BY <1>3, <1>6 DEF Pulsar!LegacySettle
    <2>2. /\ hist'.accepted = hist.accepted /\ hist'.holder = hist.holder /\ hist'.asked = Pulsar!Asks(t)
          /\ hist'.unsure = hist.unsure
      BY <1>1, <2>1 DEF PulsarHists
    <2> QED BY <1>2, <1>4, <1>5, <2>1, <2>2, PulsarSettles
  <1>7. CASE ~ack
    <2>1. hist' = hist /\ broker' = Pulsar!Redelivered(t)
      BY <1>3, <1>7 DEF Pulsar!LegacySettle
    <2> QED BY <1>2, <1>4, <1>5, <2>1, PulsarSettles
  <1> QED BY <1>6, <1>7

LEMMA PulsarHandsOut ==
  ASSUME PulsarInv, PumpInv', StrayInv', which = "pulsar", which' = which, NEW withToken \in BOOLEAN,
         Pulsar!Receive(withToken)
  PROVE  PulsarInv' /\ ContractStep
  <1>1. /\ conn \in PulsarConns /\ table \in Seq(PulsarPumps) /\ (\A j \in DOMAIN table : table[j] \in PulsarPumps)
        /\ hist \in PulsarHists
    BY DEF PulsarInv, PumpInv, PulsarTypes
  <1>2. PICK i \in DOMAIN table : i = conn.pump /\ i # 0
    BY <1>1 DEF Pulsar!Receive, Pulsar!NoPump, PulsarInv, PumpInv, OneSubscriber
  <1>3. table[i].records \in Seq(Messages) /\ table[i].records # << >>
    BY <1>1, <1>2 DEF Pulsar!Receive, PulsarPumps
  <1>4. PICK s \in Seq(Messages) : s = table[i].records
    BY <1>3
  <1>5. PICK m \in Messages : m = Head(s)
    BY <1>3, <1>4
  <1>6. conn.deliveries + 1 \in Nat /\ conn.deliveries \in Nat /\ conn.generation \in Nat /\ i \in Nat
    BY <1>1 DEF PulsarConns
  <1>7. [consumer |-> i, generation |-> conn.generation, msg |-> m, delivery |-> conn.deliveries + 1] \in PulsarTokens
    BY <1>5, <1>6 DEF PulsarTokens
  <1>8. PICK t \in PulsarTokens :
          t = [consumer |-> i, generation |-> conn.generation, msg |-> m, delivery |-> conn.deliveries + 1]
    BY <1>7
  <1>9. /\ table' = [table EXCEPT ![i].records = Tail(@)]
        /\ conn' = [conn EXCEPT !.deliveries = @ + 1, !.last = IF withToken THEN @ ELSE {t}]
        /\ tokens' = (IF withToken THEN tokens \union {t} ELSE tokens)
        /\ hist' = [hist EXCEPT !.asked = @ \ {m}, !.holder[m] = {t}]
        /\ UNCHANGED broker
    BY <1>2, <1>4, <1>5, <1>8 DEF Pulsar!Receive
  <1>10. t.consumer = i /\ t.msg = m /\ t.delivery = conn.deliveries + 1
    BY <1>8
  <1>11. /\ hist'.accepted = hist.accepted /\ hist'.asked = hist.asked \ {m} /\ hist'.unsure = hist.unsure
         /\ hist'.holder[m] = {t} /\ \A x \in Messages : x # m => hist'.holder[x] = hist.holder[x]
    BY <1>1, <1>9 DEF PulsarHists
  <1>12. /\ conn'.last = (IF withToken THEN conn.last ELSE {t}) /\ conn'.settled = conn.settled
         /\ conn'.deliveries = conn.deliveries + 1 /\ conn'.pump = conn.pump
    BY <1>1, <1>9 DEF PulsarConns
  <1>13. /\ DOMAIN table' = DOMAIN table /\ table'[i].records = Tail(s) /\ table'[i].got = table[i].got
         /\ table'[i].phase = table[i].phase /\ \A j \in DOMAIN table : j # i => table'[j] = table[j]
    <2> DEFINE n == Tail(table[i].records)
    <2>1. table' = [table EXCEPT ![i].records = n]
      BY <1>9
    <2> HIDE DEF n
    <2>2. /\ DOMAIN table' = DOMAIN table /\ table'[i].records = n /\ table'[i].got = table[i].got
          /\ table'[i].phase = table[i].phase /\ \A j \in DOMAIN table : j # i => table'[j] = table[j]
      BY <1>1, <2>1 DEF PulsarPumps
    <2> QED BY <1>4, <2>2 DEF n
  <1>14. /\ DOMAIN s = 1..Len(s) /\ Len(s) \in Nat /\ Len(s) # 0 /\ s[1] = m /\ DOMAIN Tail(s) = 1..(Len(s) - 1)
         /\ \A k \in DOMAIN Tail(s) : k + 1 \in DOMAIN s /\ Tail(s)[k] = s[k + 1] /\ k \in Nat
    BY <1>3, <1>4, <1>5
  <1>15. m \in Buffered(i)
    BY <1>4, <1>14 DEF Buffered
  <1>16. i \in broker.live
    BY <1>2, <1>15 DEF PulsarInv, BufferedOnce
  <1>17. /\ \A k, l \in DOMAIN s : s[k] = s[l] => k = l
         /\ \A k \in DOMAIN s : s[k] \notin table[i].got
         /\ \A x \in Buffered(i) : [consumer |-> i, msg |-> x] \in broker.unacked
    BY <1>4, <1>16 DEF PulsarInv, BufferedOnce
  <1>18. Buffered(i)' \subseteq Buffered(i) /\ m \notin Buffered(i)'
    <2>1. Buffered(i)' = {Tail(s)[k] : k \in DOMAIN Tail(s)} \union table[i].got
      BY <1>13 DEF Buffered
    <2>2. Buffered(i) = {s[k] : k \in DOMAIN s} \union table[i].got
      BY <1>4 DEF Buffered
    <2>3. \A k \in DOMAIN Tail(s) : Tail(s)[k] \in Buffered(i) /\ Tail(s)[k] # m
      <3> SUFFICES ASSUME NEW k \in DOMAIN Tail(s)
                   PROVE  Tail(s)[k] \in Buffered(i) /\ Tail(s)[k] # m
        OBVIOUS
      <3>1. k + 1 \in DOMAIN s /\ Tail(s)[k] = s[k + 1] /\ k + 1 # 1 /\ 1 \in DOMAIN s
        BY <1>14
      <3> QED BY <1>14, <1>17, <2>2, <3>1
    <2>4. m \notin table[i].got
      BY <1>14, <1>17
    <2> QED BY <2>1, <2>2, <2>3, <2>4
  <1>19. \A j \in DOMAIN table : j # i => Buffered(j)' = Buffered(j)
    BY <1>13 DEF Buffered
  <1>20. PICK u \in broker.unacked : u.msg = m /\ u.consumer = i
    BY <1>15, <1>17
  <1>21. m \in hist.accepted /\ m \notin broker.backlog
    BY <1>20 DEF PulsarInv, HeldBack
  <1>22. ContractStep
    <2>1. \A x : PulsarStored(x)' <=> PulsarStored(x)
      BY <1>9 DEF PulsarStored
    <2>2. PulsarStored(m)
      BY <1>20 DEF PulsarStored
    <2>3. /\ Gone' = Gone /\ Accepted' = Accepted /\ Asked' = Asked \ {m} /\ Unsure' = Unsure /\ Cleared' = Cleared
          /\ m \in Accepted /\ m \notin Gone
      BY <1>11, <1>21, <2>1, <2>2, PulsarMapped, PulsarMappedNext
    <2> QED BY <2>3, PromisesDeliver
  <1>23. HeldBack' /\ Attached' = Attached
    BY <1>9, <1>11 DEF PulsarInv, HeldBack, Attached
  <1>24. BufferedOnce'
    <2>1. \A j \in broker.live : j = i
      BY <1>16, OneLive DEF PulsarInv
    <2>2. \A x \in Buffered(i)' : [consumer |-> i, msg |-> x] \in broker'.unacked
      BY <1>9, <1>17, <1>18
    <2>3. \A k, l \in DOMAIN table'[i].records : table'[i].records[k] = table'[i].records[l] => k = l
      <3> SUFFICES ASSUME NEW k \in DOMAIN Tail(s), NEW l \in DOMAIN Tail(s), Tail(s)[k] = Tail(s)[l]
                   PROVE  k = l
        BY <1>13
      <3>1. k + 1 \in DOMAIN s /\ l + 1 \in DOMAIN s /\ s[k + 1] = s[l + 1] /\ k \in Nat /\ l \in Nat
        BY <1>14
      <3>2. k + 1 = l + 1
        BY <1>17, <3>1
      <3> QED BY <3>1, <3>2
    <2>4. \A k \in DOMAIN table'[i].records : table'[i].records[k] \notin table'[i].got
      BY <1>13, <1>14, <1>17
    <2>5. \A j \in broker'.live :
       /\ \A x \in Buffered(j)' : [consumer |-> j, msg |-> x] \in broker'.unacked
       /\ \A k, l \in DOMAIN table'[j].records : table'[j].records[k] = table'[j].records[l] => k = l
       /\ \A k \in DOMAIN table'[j].records : table'[j].records[k] \notin table'[j].got
      <3> SUFFICES ASSUME NEW j \in broker'.live
                   PROVE  /\ \A x \in Buffered(j)' : [consumer |-> j, msg |-> x] \in broker'.unacked
                          /\ \A k, l \in DOMAIN table'[j].records : table'[j].records[k] = table'[j].records[l] => k = l
                          /\ \A k \in DOMAIN table'[j].records : table'[j].records[k] \notin table'[j].got
        OBVIOUS
      <3>1. j = i
        BY <1>9, <2>1
      <3> QED BY <2>2, <2>3, <2>4, <3>1
    <2>6. conn'.pump \in broker'.live
      BY <1>2, <1>9, <1>12, <1>16
    <2> QED BY <2>5, <2>6 DEF BufferedOnce
  <1>25. \A r \in tokens \union conn.last : r # t /\ r.delivery <= conn'.deliveries
    <2>1. \A r \in tokens \union conn.last : r.delivery \in Nat
      BY <1>1 DEF PulsarInv, PumpInv, PulsarTypes, PulsarConns, PulsarTokens
    <2> QED BY <1>6, <1>10, <1>12, <2>1 DEF PulsarInv, NewestHeld
  <1>26. NewestHeld'
    <2>1. Unsettled' \subseteq Unsettled \union {t}
      BY <1>9, <1>12 DEF Unsettled
    <2>2. \A r \in Unsettled' : r.consumer \in Attached' =>
       /\ hist'.holder[r.msg] = {r} /\ r.msg \notin broker'.backlog
       /\ r.msg \notin Buffered(r.consumer)'
       /\ \A v \in broker'.unacked : v.msg = r.msg => v.consumer = r.consumer
      <3> SUFFICES ASSUME NEW r \in Unsettled', r.consumer \in Attached
                   PROVE  /\ hist'.holder[r.msg] = {r} /\ r.msg \notin broker'.backlog
                          /\ r.msg \notin Buffered(r.consumer)'
                          /\ \A v \in broker'.unacked : v.msg = r.msg => v.consumer = r.consumer
        BY <1>23
      <3>1. CASE r = t
        <4>1. \A v \in broker.unacked : v.msg = m => v.consumer = i
          BY <1>20 DEF PulsarInv, HeldBack
        <4> QED BY <1>9, <1>10, <1>11, <1>18, <1>21, <3>1, <4>1
      <3>2. CASE r # t
        <4>1. r \in Unsettled /\ r \in tokens \union conn.last
          BY <1>9, <2>1, <3>2 DEF Unsettled
        <4>2. /\ hist.holder[r.msg] = {r} /\ r.msg \notin broker.backlog /\ r.msg \notin Buffered(r.consumer)
              /\ \A v \in broker.unacked : v.msg = r.msg => v.consumer = r.consumer
          BY <4>1 DEF PulsarInv, NewestHeld
        <4>3. r.msg # m /\ r.msg \in Messages
          <5>1. r \in PulsarTokens
            BY <4>1 DEF PulsarInv, PumpInv, PulsarTypes, PulsarConns
          <5>2. r.msg = m => r.consumer = i
            BY <1>20, <4>2
          <5> QED BY <1>15, <4>2, <5>1, <5>2 DEF PulsarTokens
        <4>4. r.msg \notin Buffered(r.consumer)'
          <5>1. r.consumer \in DOMAIN table
            BY <4>1 DEF PulsarInv, NewestHeld
          <5> QED BY <1>18, <1>19, <4>2, <5>1
        <4> QED BY <1>9, <1>11, <4>2, <4>3, <4>4
      <3> QED BY <3>1, <3>2
    <2>3. \A r \in tokens' \union conn'.last :
       /\ r.msg \in hist'.accepted /\ r.delivery <= conn'.deliveries
       /\ r.consumer \in DOMAIN table' /\ table'[r.consumer].phase \notin {"subscribe", "publish"}
      <3>1. table[i].phase \notin {"subscribe", "publish"}
        BY <1>3 DEF PulsarInv, PumpInv, PumpPhases
      <3>2. \A r \in tokens \union conn.last :
              /\ r.msg \in hist'.accepted /\ r.delivery <= conn'.deliveries
              /\ r.consumer \in DOMAIN table' /\ table'[r.consumer].phase \notin {"subscribe", "publish"}
        BY <1>11, <1>13, <1>25 DEF PulsarInv, NewestHeld
      <3>3. /\ t.msg \in hist'.accepted /\ t.delivery <= conn'.deliveries
            /\ t.consumer \in DOMAIN table' /\ table'[t.consumer].phase \notin {"subscribe", "publish"}
        BY <1>6, <1>10, <1>11, <1>12, <1>13, <1>21, <3>1
      <3> QED BY <1>9, <1>12, <3>2, <3>3
    <2>4. tokens' \intersect conn'.last = {} /\ (conn'.last = {} \/ \E r \in PulsarTokens : conn'.last = {r})
      BY <1>9, <1>12, <1>25 DEF PulsarInv, NewestHeld
    <2> QED BY <2>2, <2>3, <2>4 DEF NewestHeld
  <1> QED BY <1>22, <1>23, <1>24, <1>26 DEF PulsarInv

LEMMA PulsarStart ==
  ASSUME Pulsar!Init, which = "pulsar"
  PROVE  PulsarInv /\ Contract!Init
  <1>1. PumpInv /\ StrayInv
    BY PumpsStart
  <1>2. /\ broker = [backlog |-> {}, live |-> {}, stray |-> {}, unacked |-> {}] /\ tokens = {}
        /\ hist = [accepted |-> {}, asked |-> {}, unsure |-> {}, holder |-> [m \in Messages |-> {}]]
        /\ conn.pump = 0 /\ conn.last = {}
    BY DEF Pulsar!Init, Pulsar!NoPump, Pulsar!NoMessage
  <1>3. HeldBack /\ BufferedOnce /\ NewestHeld
    BY <1>2 DEF HeldBack, BufferedOnce, NewestHeld, Unsettled
  <1>4. Contract!Init
    BY <1>2, PulsarMapped DEF Contract!Init
  <1> QED BY <1>1, <1>3, <1>4 DEF PulsarInv

LEMMA PulsarStep ==
  ASSUME PulsarInv, which = "pulsar", which' = which, Pulsar!Next
  PROVE  PulsarInv' /\ ContractStep
  <1> PumpInv' /\ StrayInv'
    BY PumpsStep, StraysStep DEF PulsarInv
  <1>1. CASE Pulsar!Connect \/ Pulsar!Disconnect \/ Pulsar!EnsurePump
    BY <1>1, PulsarConnects, PulsarBuilds
  <1>2. CASE \E i \in DOMAIN table : Pulsar!PumpStep(i)
    BY <1>2, PulsarSubscribes, PulsarPumpTurns, PulsarRetires, PulsarDrops, PulsarReceives, PulsarBuffers
       DEF Pulsar!PumpStep
  <1>3. CASE \E m \in Messages, stored \in BOOLEAN : Pulsar!Push(m, stored)
    BY <1>3, PulsarPush
  <1>4. CASE Pulsar!PopWithAck \/ Pulsar!Pop \/ Pulsar!PopFindsFailure
    BY <1>4, PulsarHandsOut, PulsarFindsFailure DEF Pulsar!PopWithAck, Pulsar!Pop
  <1>5. CASE \E t \in tokens : Pulsar!Ack(t) \/ Pulsar!AckFails(t) \/ Pulsar!SettleStale(t) \/ Pulsar!Nack(t)
    BY <1>5, PulsarTokenSettles
  <1>6. CASE \E ack \in BOOLEAN : Pulsar!LegacySettle(ack)
    BY <1>6, PulsarLegacySettles
  <1> QED BY <1>1, <1>2, <1>3, <1>4, <1>5, <1>6 DEF Pulsar!Next


----------------------------------------------------------------------------
(* RabbitMQ: what the server knows of the deliveries of the open channel. *)

RabbitTokens == [channel : Nat, tag : Nat, msg : Messages]
RabbitConns ==
  [epoch : Nat, channel : Nat, generation : Nat, open : BOOLEAN, tags : Nat, losses : Nat]
RabbitBrokers == [durable : BOOLEAN, ready : SUBSET Messages, unacked : SUBSET RabbitTokens]
RabbitHists ==
  [accepted : SUBSET Messages, asked : SUBSET Messages, unsure : SUBSET Messages,
   cleared : SUBSET Messages, holder : [Messages -> SUBSET RabbitTokens]]

RabbitTables ==
  [declared : BOOLEAN, pending : Nat, inFlight : SUBSET RabbitTokens, last : Nat,
   completed : SUBSET RabbitTokens]

RabbitTypes ==
  /\ conn \in RabbitConns /\ broker \in RabbitBrokers /\ hist \in RabbitHists
  /\ table \in RabbitTables
  /\ tokens \in SUBSET RabbitTokens

\* Only an open channel has deliveries that are not acked, and a new channel
\* is built after the old one.
ChannelDeliveries ==
  /\ conn.channel \in {0, conn.generation}
  /\ ~conn.open => broker.unacked = {}
  /\ op # RabbitMQ!Idle => ~conn.open
  /\ \A u \in broker.unacked : u.channel = conn.generation /\ u.tag <= conn.tags

\* A message is ready, or out in one delivery, the newest.
OutOnce ==
  /\ broker.ready \subseteq hist.accepted
  /\ \A u \in broker.unacked : /\ u.msg \in hist.accepted /\ u.msg \notin broker.ready
                               /\ hist.holder[u.msg] = {u}
  /\ \A u, v \in broker.unacked : u.msg = v.msg \/ u.tag = v.tag => u = v

\* A token of the channel names the delivery that the server knows by its tag,
\* until it is settled; the last delivery of pop has none.
TagsNameTokens ==
  /\ table.last <= conn.tags
  /\ \A t \in tokens :
       /\ t.msg \in hist.accepted /\ t.channel <= conn.generation
       /\ t.channel = conn.generation =>
            /\ t.tag <= conn.tags /\ (table.last # 0 => t.tag # table.last)
            /\ \A u \in broker.unacked : u.tag = t.tag => u = t
            /\ conn.open /\ t \notin table.completed => t \in broker.unacked

AskedAccepted == hist.asked \union hist.unsure \union hist.cleared \subseteq hist.accepted

RabbitInv == RabbitTypes /\ ChannelDeliveries /\ OutOnce /\ TagsNameTokens /\ AskedAccepted

----------------------------------------------------------------------------
(* SQS: the leases of the server and the tokens that name them. *)

Leases == [msg : Messages, receipt : Nat]
SqsTokens == [generation : Nat, epoch : Nat, lease : Leases]
SqsConns ==
  [generation : Nat, made : Nat, leaving : BOOLEAN, disconnects : Nat, resolved : BOOLEAN,
   verifies : BOOLEAN]
SqsBrokers ==
  [owner : {"absent", "ours", "other"}, visible : SUBSET Messages, leased : SUBSET Leases,
   receipts : Nat]
SqsHists ==
  [accepted : SUBSET Messages, asked : SUBSET Messages, unsure : SUBSET Messages,
   cleared : SUBSET Messages, holder : [Messages -> SUBSET SqsTokens]]
SqsTables ==
  [deliveries : [inFlight : SUBSET SqsTokens, last : SUBSET SqsTokens], epoch : Nat,
   settled : SUBSET SqsTokens]

SqsTypes ==
  /\ conn \in SqsConns /\ broker \in SqsBrokers /\ hist \in SqsHists
  /\ table \in SqsTables /\ tokens \in SUBSET SqsTokens

\* A message is visible, or in one lease.
LeasedOnce ==
  /\ broker.visible \subseteq hist.accepted
  /\ \A d \in broker.leased : /\ d.msg \in hist.accepted /\ d.msg \notin broker.visible
                              /\ d.receipt <= broker.receipts
  /\ \A d, e \in broker.leased : d.msg = e.msg => d = e

\* A token whose lease the server knows is of the newest delivery.
LeaseIsNewest(t) ==
  /\ t.lease.msg \in hist.accepted /\ t.lease.receipt <= broker.receipts
  /\ t.lease \in broker.leased => t \in hist.holder[t.lease.msg]

\* What is inside its lease: an ack has asked for its message, and a purge
\* covers all that is stored, since nothing is pushed before it ends.
SqsOperation ==
  \/ op = [kind |-> "idle"]
  \/ /\ op \in [kind : {"settle"}, token : SqsTokens, ack : BOOLEAN]
     /\ LeaseIsNewest(op.token)
     /\ op.ack /\ op.token.lease \in broker.leased => op.token.lease.msg \in hist.asked
  \/ /\ op \in [kind : {"clear"}, generation : Nat \ {0}]
     /\ conn.generation = op.generation \/ (conn.generation = 0 /\ conn.leaving)
     /\ hist.accepted \subseteq hist.cleared

SqsInv ==
  /\ SqsTypes /\ LeasedOnce /\ SqsOperation
  /\ \A t \in tokens \union table.deliveries.last : LeaseIsNewest(t)
  /\ hist.cleared \subseteq hist.accepted

----------------------------------------------------------------------------
(* RocketMQ: leases that wait in the buffer or in a pop before a token names
   them. *)

RocketTokens == [consumer : Nat, lease : Leases]
Singles == {{d} : d \in Leases} \union {{}}
RocketSelects == [consumer : Nat, buffer : Singles, demand : {0, 1}, failed : BOOLEAN]
RocketConns ==
  [epoch : Nat, leaving : BOOLEAN, consumer : Nat, generation : Nat, select : RocketSelects,
   last : SUBSET RocketTokens, settled : SUBSET RocketTokens]
RocketBrokers == [visible : SUBSET Messages, leased : SUBSET Leases, receipts : Nat]
RocketHists ==
  [accepted : SUBSET Messages, asked : SUBSET Messages, unsure : SUBSET Messages,
   holder : [Messages -> SUBSET RocketTokens]]

RocketTypes ==
  /\ conn \in RocketConns /\ broker \in RocketBrokers /\ hist \in RocketHists
  /\ tokens \in SUBSET RocketTokens

RocketOperation ==
  \/ op = [kind |-> "idle"]
  \/ op \in [kind : {"connect"}, epoch : Nat]
  \/ op \in [kind : {"pop"}, got : Singles \ {{}}, consumer : Nat]
  \/ /\ op \in [kind : {"settle"}, token : RocketTokens, ack : BOOLEAN] /\ op.token \in tokens
     /\ op.ack /\ op.token.lease \in broker.leased => op.token.lease.msg \in hist.asked

\* A lease that is not handed out yet is younger than the tokens of its
\* message, which is therefore not gone.
Waits(d) ==
  /\ d.msg \in hist.accepted /\ d.receipt <= broker.receipts
  /\ \A t \in tokens \union conn.last : t.lease.msg = d.msg => t.lease.receipt < d.receipt
  /\ d.msg \in broker.visible \/ \E e \in broker.leased : e.msg = d.msg /\ e.receipt >= d.receipt

InOrder ==
  /\ \A d \in conn.select.buffer : Waits(d)
  /\ op.kind = "pop" => /\ \A d \in op.got : Waits(d)
                        /\ \A d \in op.got, e \in conn.select.buffer : d.receipt < e.receipt

RocketInv ==
  /\ RocketTypes /\ LeasedOnce /\ RocketOperation /\ InOrder
  /\ \A t \in tokens \union conn.last : LeaseIsNewest(t)

----------------------------------------------------------------------------
(* RabbitMQ, action by action. *)

\* What the contract sees of a durable queue, in terms of messages.
RabbitStored(m) == m \in broker.ready \/ \E u \in broker.unacked : u.msg = m

LEMMA RabbitMapped ==
  ASSUME which = "rabbitmq", RabbitTypes, broker.durable
  PROVE  /\ Accepted = hist.accepted /\ Asked = hist.asked \intersect hist.accepted
         /\ Unsure = hist.unsure \intersect hist.accepted
         /\ Cleared = hist.cleared \intersect hist.accepted
         /\ Gone = {m \in hist.accepted : ~RabbitStored(m)}
  <1>1. /\ Accepted = RabbitMQ!Accepted /\ Asked = RabbitMQ!Asked /\ Unsure = RabbitMQ!Unsure
        /\ Cleared = RabbitMQ!Cleared /\ Gone = RabbitMQ!Gone
    BY DEF Accepted, Asked, Unsure, Cleared, Gone, Stores
  <1> QED BY <1>1 DEF RabbitMQ!Accepted, RabbitMQ!Asked, RabbitMQ!Unsure, RabbitMQ!Cleared,
         RabbitMQ!Gone, RabbitMQ!Stored, RabbitStored

LEMMA RabbitMappedNext ==
  ASSUME which' = "rabbitmq", RabbitTypes', broker'.durable
  PROVE  /\ Accepted' = hist'.accepted /\ Asked' = hist'.asked \intersect hist'.accepted
         /\ Unsure' = hist'.unsure \intersect hist'.accepted
         /\ Cleared' = hist'.cleared \intersect hist'.accepted
         /\ Gone' = {m \in hist'.accepted : ~RabbitStored(m)'}
  <1>1. /\ Accepted' = RabbitMQ!Accepted' /\ Asked' = RabbitMQ!Asked' /\ Unsure' = RabbitMQ!Unsure'
        /\ Cleared' = RabbitMQ!Cleared' /\ Gone' = RabbitMQ!Gone'
    BY DEF Accepted, Asked, Unsure, Cleared, Gone, Stores
  <1> QED BY <1>1 DEF RabbitMQ!Accepted, RabbitMQ!Asked, RabbitMQ!Unsure, RabbitMQ!Cleared,
         RabbitMQ!Gone, RabbitMQ!Stored, RabbitStored

\* Nothing is promised for a queue that is not durable.
LEMMA RabbitVolatile ==
  ASSUME which = "rabbitmq", which' = which, ~broker.durable, ~broker'.durable
  PROVE  ContractStep
  <1>1. /\ Accepted = RabbitMQ!Accepted /\ Asked = RabbitMQ!Asked /\ Unsure = RabbitMQ!Unsure
        /\ Cleared = RabbitMQ!Cleared /\ Gone = RabbitMQ!Gone
    BY DEF Accepted, Asked, Unsure, Cleared, Gone, Stores
  <1>2. /\ Accepted' = RabbitMQ!Accepted' /\ Asked' = RabbitMQ!Asked' /\ Unsure' = RabbitMQ!Unsure'
        /\ Cleared' = RabbitMQ!Cleared' /\ Gone' = RabbitMQ!Gone'
    BY DEF Accepted, Asked, Unsure, Cleared, Gone, Stores
  <1>3. Accepted = {} /\ Asked = {} /\ Unsure = {} /\ Cleared = {} /\ Gone = {}
    BY <1>1 DEF RabbitMQ!Accepted, RabbitMQ!Asked, RabbitMQ!Unsure, RabbitMQ!Cleared, RabbitMQ!Gone
  <1>4. Accepted' = {} /\ Asked' = {} /\ Unsure' = {} /\ Cleared' = {} /\ Gone' = {}
    BY <1>2 DEF RabbitMQ!Accepted, RabbitMQ!Asked, RabbitMQ!Unsure, RabbitMQ!Cleared, RabbitMQ!Gone
  <1> QED BY <1>3, <1>4, NoPromise

\* A step of the backend alone.
LEMMA RabbitSame ==
  ASSUME RabbitTypes, RabbitTypes', which = "rabbitmq", which' = which, UNCHANGED <<broker, hist>>
  PROVE  ContractStep
  <1>1. CASE broker.durable
    <2>1. \A m : RabbitStored(m)' <=> RabbitStored(m)
      BY DEF RabbitStored
    <2>2. Gone' = Gone /\ Accepted' = Accepted /\ Asked' = Asked /\ Unsure' = Unsure /\ Cleared' = Cleared
      BY <1>1, <2>1, RabbitMapped, RabbitMappedNext
    <2> QED BY <2>2, NoPromise
  <1>2. CASE ~broker.durable
    BY <1>2, RabbitVolatile, Zenon
  <1> QED BY <1>1, <1>2

\* The deliveries of a channel that is closed are ready again.
LEMMA RabbitCloses ==
  ASSUME RabbitInv, which = "rabbitmq", which' = which,
         broker' = RabbitMQ!Requeued(broker),
         conn' \in RabbitConns, ~conn'.open, conn'.generation = conn.generation,
         conn'.channel \in {0, conn.channel}, conn'.tags = conn.tags, UNCHANGED <<tokens, hist>>,
         table' \in RabbitTables, table'.last \in {0, table.last}
  PROVE  RabbitInv' /\ ContractStep
  <1>1. /\ broker' \in RabbitBrokers /\ broker'.unacked = {} /\ broker'.durable = broker.durable
        /\ broker'.ready = broker.ready \union {u.msg : u \in broker.unacked}
    <2>1. broker \in RabbitBrokers
      BY DEF RabbitInv, RabbitTypes
    <2>2. {u.msg : u \in broker.unacked} \in SUBSET Messages
      BY <2>1 DEF RabbitBrokers, RabbitTokens
    <2>3. broker' = [broker EXCEPT !.ready = @ \union {u.msg : u \in broker.unacked}, !.unacked = {}]
      BY DEF RabbitMQ!Requeued
    <2> QED BY <2>1, <2>2, <2>3 DEF RabbitBrokers
  <1>2. RabbitTypes'
    BY <1>1 DEF RabbitInv, RabbitTypes
  <1>3. ChannelDeliveries'
    BY <1>1 DEF RabbitInv, ChannelDeliveries
  <1>4. OutOnce'
    BY <1>1 DEF RabbitInv, OutOnce
  <1>5. TagsNameTokens'
    <2>1. conn.tags \in Nat
      BY DEF RabbitInv, RabbitTypes, RabbitConns
    <2> QED BY <1>1, <2>1 DEF RabbitInv, TagsNameTokens
  <1>6. ContractStep
    <2>1. CASE broker.durable
      <3>1. \A m : RabbitStored(m)' <=> RabbitStored(m)
        BY <1>1 DEF RabbitStored
      <3>2. Gone' = Gone /\ Accepted' = Accepted /\ Asked' = Asked /\ Unsure' = Unsure /\ Cleared' = Cleared
        BY <1>1, <1>2, <2>1, <3>1, RabbitMapped, RabbitMappedNext DEF RabbitInv
      <3> QED BY <3>2, NoPromise
    <2>2. CASE ~broker.durable
      BY <1>1, <2>2, RabbitVolatile, Zenon
    <2> QED BY <2>1, <2>2
  <1> QED BY <1>2, <1>3, <1>4, <1>5, <1>6 DEF RabbitInv, AskedAccepted

\* A delivery of the channel ends: the message leaves, or is ready again.
LEMMA RabbitEnds ==
  ASSUME RabbitInv, which = "rabbitmq", which' = which, NEW U \in SUBSET broker.unacked,
         NEW R \in SUBSET {u.msg : u \in U},
         broker' = [broker EXCEPT !.ready = @ \union R, !.unacked = @ \ U],
         hist' \in RabbitHists, hist'.accepted = hist.accepted, hist'.holder = hist.holder, AskedAccepted',
         UNCHANGED <<conn, tokens, op>>, table' \in RabbitTables, table'.last \in {0, table.last},
         table.completed \subseteq table'.completed,
         \A t \in tokens : t \in U => t \in table'.completed
  PROVE  /\ RabbitInv' /\ broker'.durable = broker.durable
         /\ \A m : RabbitStored(m)' <=> RabbitStored(m) /\ (m \in {u.msg : u \in U} => m \in R)
  <1>1. /\ broker' \in RabbitBrokers /\ broker'.durable = broker.durable
        /\ broker'.ready = broker.ready \union R /\ broker'.unacked = broker.unacked \ U
    <2>1. broker \in RabbitBrokers
      BY DEF RabbitInv, RabbitTypes
    <2>2. R \in SUBSET Messages
      BY <2>1 DEF RabbitBrokers, RabbitTokens
    <2> QED BY <2>1, <2>2 DEF RabbitBrokers
  <1>2. RabbitTypes'
    BY <1>1 DEF RabbitInv, RabbitTypes
  <1>3. ChannelDeliveries'
    BY <1>1 DEF RabbitInv, ChannelDeliveries
  <1>4. OutOnce'
    BY <1>1 DEF RabbitInv, OutOnce
  <1>5. TagsNameTokens'
    <2>1. conn.tags \in Nat
      BY DEF RabbitInv, RabbitTypes, RabbitConns
    <2> QED BY <1>1, <2>1 DEF RabbitInv, TagsNameTokens
  <1>6. \A m : RabbitStored(m)' <=> RabbitStored(m) /\ (m \in {u.msg : u \in U} => m \in R)
    BY <1>1 DEF RabbitInv, OutOnce, RabbitStored
  <1> QED BY <1>1, <1>2, <1>3, <1>4, <1>5, <1>6 DEF RabbitInv

\* What the contract sees of a step that keeps the accepted messages.
LEMMA RabbitPromise ==
  ASSUME RabbitTypes, RabbitTypes', which = "rabbitmq", which' = which, broker.durable, broker'.durable,
         hist'.accepted = hist.accepted
  PROVE  /\ Accepted' = Accepted /\ Accepted = hist.accepted
         /\ (hist'.asked = hist.asked => Asked' = Asked)
         /\ (hist'.unsure = hist.unsure => Unsure' = Unsure)
         /\ (hist'.cleared = hist.cleared => Cleared' = Cleared)
         /\ \A m : m \in Gone <=> m \in hist.accepted /\ ~RabbitStored(m)
         /\ \A m : m \in Gone' <=> m \in hist.accepted /\ ~RabbitStored(m)'
         /\ \A m \in hist.accepted :
              /\ hist'.asked = hist.asked \union {m} => Asked' = Asked \union {m}
              /\ hist'.asked = hist.asked \ {m} => Asked' = Asked \ {m}
              /\ hist'.unsure = hist.unsure \union {m} => Unsure' = Unsure \union {m}
  BY RabbitMapped, RabbitMappedNext

LEMMA RabbitConnects ==
  ASSUME RabbitInv, which = "rabbitmq", which' = which,
         RabbitMQ!ConnectBegin \/ RabbitMQ!ConnectDone \/ RabbitMQ!ConnectAborted \/ RabbitMQ!Disconnect
  PROVE  RabbitInv' /\ ContractStep
  <1>1. conn \in RabbitConns
    BY DEF RabbitInv, RabbitTypes
  <1>6. RabbitMQ!NoDeliveries \in RabbitTables /\ RabbitMQ!NoDeliveries.last = 0
    BY DEF RabbitMQ!NoDeliveries, RabbitMQ!NoTag, RabbitTables
  <1>2. CASE RabbitMQ!ConnectBegin
    <2>1. /\ conn' = [conn EXCEPT !.channel = 0, !.open = FALSE] /\ broker' = RabbitMQ!Requeued(broker)
          /\ UNCHANGED <<tokens, hist>> /\ table' = RabbitMQ!NoDeliveries
      BY <1>2 DEF RabbitMQ!ConnectBegin, RabbitMQ!NoChannel
    <2>2. /\ conn' \in RabbitConns /\ ~conn'.open /\ conn'.generation = conn.generation
          /\ conn'.channel = 0 /\ conn'.tags = conn.tags
      BY <1>1, <2>1 DEF RabbitConns
    <2> QED BY <1>6, <2>1, <2>2, RabbitCloses
  <1>3. CASE RabbitMQ!Disconnect
    <2>1. /\ conn' = [conn EXCEPT !.epoch = @ + 1, !.channel = 0, !.open = FALSE]
          /\ broker' = RabbitMQ!Requeued(broker) /\ UNCHANGED <<tokens, hist>>
          /\ table' = RabbitMQ!NoDeliveries
      BY <1>3 DEF RabbitMQ!Disconnect, RabbitMQ!NoChannel
    <2>2. conn.epoch + 1 \in Nat
      BY <1>1 DEF RabbitConns
    <2>3. /\ conn' \in RabbitConns /\ ~conn'.open /\ conn'.generation = conn.generation
          /\ conn'.channel = 0 /\ conn'.tags = conn.tags
      BY <1>1, <2>1, <2>2 DEF RabbitConns
    <2> QED BY <1>6, <2>1, <2>3, RabbitCloses
  <1>4. CASE RabbitMQ!ConnectDone
    <2>1. /\ conn' = [conn EXCEPT !.generation = @ + 1, !.channel = conn.generation + 1,
                                  !.open = TRUE, !.tags = 0]
          /\ op # RabbitMQ!Idle /\ op' = RabbitMQ!Idle /\ UNCHANGED <<broker, tokens, hist>>
          /\ table' = RabbitMQ!NoDeliveries
      BY <1>4 DEF RabbitMQ!ConnectDone
    <2>2. conn.generation + 1 \in Nat
      BY <1>1 DEF RabbitConns
    <2>3. /\ conn' \in RabbitConns /\ conn'.open /\ conn'.generation = conn.generation + 1
          /\ conn'.channel = conn.generation + 1 /\ conn'.tags = 0 /\ conn.generation \in Nat
      BY <1>1, <2>1, <2>2 DEF RabbitConns
    <2>4. broker.unacked = {}
      BY <2>1 DEF RabbitInv, ChannelDeliveries
    <2>5. RabbitTypes' /\ OutOnce'
      BY <1>6, <2>1, <2>3 DEF RabbitInv, RabbitTypes, OutOnce
    <2>6. ChannelDeliveries'
      BY <2>1, <2>3, <2>4 DEF ChannelDeliveries
    <2>7. TagsNameTokens'
      <3>1. \A t \in tokens : t.channel \in Nat
        BY DEF RabbitInv, RabbitTypes, RabbitTokens
      <3> QED BY <1>6, <2>1, <2>3, <2>4, <3>1 DEF RabbitInv, TagsNameTokens
    <2> QED BY <2>1, <2>5, <2>6, <2>7, RabbitSame DEF RabbitInv, AskedAccepted
  <1>5. CASE RabbitMQ!ConnectAborted
    <2>1. op' = RabbitMQ!Idle /\ UNCHANGED <<conn, broker, table, tokens, hist>>
      BY <1>5 DEF RabbitMQ!ConnectAborted
    <2>2. RabbitInv'
      BY <2>1 DEF RabbitInv, RabbitTypes, ChannelDeliveries, OutOnce, TagsNameTokens, AskedAccepted
    <2> QED BY <2>1, <2>2, RabbitSame DEF RabbitInv
  <1> QED BY <1>2, <1>3, <1>4, <1>5

\* The channel is lost, and with it what is not durable.
LEMMA RabbitLost ==
  ASSUME RabbitInv, which = "rabbitmq", which' = which, NEW restart \in BOOLEAN, RabbitMQ!ChannelLost(restart)
  PROVE  RabbitInv' /\ ContractStep
  <1>1. conn \in RabbitConns /\ broker \in RabbitBrokers /\ table \in RabbitTables
    BY DEF RabbitInv, RabbitTypes
  <1>2. /\ conn' = [conn EXCEPT !.open = FALSE, !.losses = @ + 1] /\ UNCHANGED <<table, tokens, op, hist>>
        /\ conn.losses + 1 \in Nat
    BY <1>1 DEF RabbitMQ!ChannelLost, RabbitConns
  <1>3. /\ conn' \in RabbitConns /\ ~conn'.open /\ conn'.generation = conn.generation
        /\ conn'.channel = conn.channel /\ conn'.tags = conn.tags
    BY <1>1, <1>2 DEF RabbitConns
  <1>4. CASE restart /\ ~broker.durable
    <2>1. broker' = [broker EXCEPT !.ready = {}, !.unacked = {}]
      BY <1>4, Zenon DEF RabbitMQ!ChannelLost
    <2>2. broker' \in RabbitBrokers /\ broker'.ready = {} /\ broker'.unacked = {} /\ ~broker'.durable
      BY <1>1, <1>4, <2>1 DEF RabbitBrokers
    <2>3. RabbitTypes'
      BY <1>2, <1>3, <2>2 DEF RabbitInv, RabbitTypes
    <2>4. ChannelDeliveries' /\ OutOnce'
      BY <1>2, <1>3, <2>2 DEF RabbitInv, ChannelDeliveries, OutOnce
    <2>5. TagsNameTokens'
      BY <1>2, <1>3, <2>2 DEF RabbitInv, TagsNameTokens
    <2>6. ContractStep
      BY <1>4, <2>2, RabbitVolatile
    <2> QED BY <1>2, <2>3, <2>4, <2>5, <2>6 DEF RabbitInv, AskedAccepted
  <1>5. CASE ~(restart /\ ~broker.durable)
    <2>1. broker' = RabbitMQ!Requeued(broker)
      BY <1>5, Zenon DEF RabbitMQ!ChannelLost
    <2> QED BY <1>1, <1>2, <1>3, <2>1, RabbitCloses
  <1> QED BY <1>4, <1>5

\* A push is stored or not.
LEMMA RabbitPush ==
  ASSUME RabbitInv, which = "rabbitmq", which' = which, NEW m \in Messages, NEW require \in BOOLEAN,
         NEW stored \in BOOLEAN, RabbitMQ!Push(m, require, stored)
  PROVE  RabbitInv' /\ ContractStep
  <1>1. broker \in RabbitBrokers /\ table \in RabbitTables /\ hist \in RabbitHists
    BY DEF RabbitInv, RabbitTypes
  <1>2. UNCHANGED <<conn, tokens, op>> /\ m \notin hist.accepted /\ table' = [table EXCEPT !.declared = TRUE]
    BY DEF RabbitMQ!Push
  <1>3. table' \in RabbitTables /\ table'.last = table.last /\ table'.completed = table.completed
    BY <1>1, <1>2 DEF RabbitTables
  <1>4. CASE ~stored
    <2>1. /\ broker' = [broker EXCEPT !.ready = broker.ready]
          /\ hist' = [hist EXCEPT !.accepted = hist.accepted]
      BY <1>4, Zenon DEF RabbitMQ!Push
    <2>2. broker' = broker /\ hist' = hist
      BY <1>1, <2>1 DEF RabbitBrokers, RabbitHists
    <2>3. RabbitInv'
      BY <1>2, <1>3, <2>2 DEF RabbitInv, RabbitTypes, ChannelDeliveries, OutOnce, TagsNameTokens, AskedAccepted
    <2> QED BY <2>2, <2>3, RabbitSame DEF RabbitInv
  <1>5. CASE stored
    <2>1. /\ broker' = [broker EXCEPT !.ready = broker.ready \union {m}]
          /\ hist' = [hist EXCEPT !.accepted = hist.accepted \union {m}]
      BY <1>5, Zenon DEF RabbitMQ!Push
    <2>2. broker.ready \union {m} \in SUBSET Messages /\ hist.accepted \union {m} \in SUBSET Messages
      BY <1>1 DEF RabbitBrokers, RabbitHists
    <2>3. /\ broker' \in RabbitBrokers /\ broker'.ready = broker.ready \union {m}
          /\ broker'.unacked = broker.unacked /\ broker'.durable = broker.durable
      BY <1>1, <2>1, <2>2 DEF RabbitBrokers
    <2>4. /\ hist' \in RabbitHists /\ hist'.accepted = hist.accepted \union {m} /\ hist'.asked = hist.asked
          /\ hist'.unsure = hist.unsure /\ hist'.cleared = hist.cleared /\ hist'.holder = hist.holder
      BY <1>1, <2>1, <2>2 DEF RabbitHists
    <2>5. RabbitTypes'
      BY <1>2, <1>3, <2>3, <2>4 DEF RabbitInv, RabbitTypes
    <2>6. ChannelDeliveries' /\ TagsNameTokens'
      BY <1>2, <1>3, <2>3, <2>4 DEF RabbitInv, ChannelDeliveries, TagsNameTokens
    <2>7. OutOnce'
      BY <1>2, <2>3, <2>4 DEF RabbitInv, OutOnce
    <2>8. ContractStep
      <3>1. CASE broker.durable
        <4>1. \A n : RabbitStored(n)' <=> RabbitStored(n) \/ n = m
          BY <2>3 DEF RabbitStored
        <4>2. /\ Accepted = hist.accepted /\ Accepted' = hist'.accepted
              /\ Asked = hist.asked \intersect hist.accepted /\ Asked' = hist'.asked \intersect hist'.accepted
              /\ Unsure = hist.unsure \intersect hist.accepted /\ Unsure' = hist'.unsure \intersect hist'.accepted
              /\ Cleared = hist.cleared \intersect hist.accepted
              /\ Cleared' = hist'.cleared \intersect hist'.accepted
              /\ Gone = {n \in hist.accepted : ~RabbitStored(n)}
              /\ Gone' = {n \in hist'.accepted : ~RabbitStored(n)'}
          BY <2>3, <2>5, <3>1, RabbitMapped, RabbitMappedNext DEF RabbitInv
        <4>3. Gone' = Gone
          BY <1>2, <2>4, <4>1, <4>2
        <4>4. m \notin hist.asked /\ m \notin hist.unsure /\ m \notin hist.cleared
          BY <1>2 DEF RabbitInv, AskedAccepted
        <4>5. Asked' = Asked /\ Unsure' = Unsure /\ Cleared' = Cleared
          BY <2>4, <4>2, <4>4
        <4> QED BY <1>2, <2>4, <4>2, <4>3, <4>5, PromisesPush
      <3>2. CASE ~broker.durable
        BY <2>3, <3>2, RabbitVolatile, Zenon
      <3> QED BY <3>1, <3>2
    <2>9. AskedAccepted'
      BY <2>4 DEF RabbitInv, AskedAccepted
    <2> QED BY <2>5, <2>6, <2>7, <2>8, <2>9 DEF RabbitInv
  <1> QED BY <1>4, <1>5

\* A message is handed out, with a token or as the last delivery.
LEMMA RabbitGet ==
  ASSUME RabbitInv, which = "rabbitmq", which' = which, NEW m \in Messages, NEW track \in BOOLEAN,
         RabbitMQ!BasicGet(m, track)
  PROVE  RabbitInv' /\ ContractStep
  <1> DEFINE token == [channel |-> conn.channel, tag |-> conn.tags + 1, msg |-> m]
  <1>1. /\ conn \in RabbitConns /\ broker \in RabbitBrokers /\ table \in RabbitTables
        /\ hist \in RabbitHists /\ tokens \in SUBSET RabbitTokens
    BY DEF RabbitInv, RabbitTypes
  <1>2. /\ conn.open /\ conn.channel = conn.generation /\ m \in broker.ready /\ op' = op
    BY DEF RabbitMQ!BasicGet, RabbitMQ!Healthy, RabbitMQ!NoChannel, RabbitInv, ChannelDeliveries
  <1>3. conn.tags + 1 \in Nat /\ conn.tags \in Nat /\ conn.channel \in Nat
    BY <1>1 DEF RabbitConns
  <1>4. /\ token \in RabbitTokens /\ token.msg = m /\ token.tag = conn.tags + 1
        /\ token.channel = conn.generation
    BY <1>2, <1>3 DEF RabbitTokens
  <1>5. /\ broker' = [broker EXCEPT !.ready = @ \ {m}, !.unacked = @ \union {token}]
        /\ hist' = [hist EXCEPT !.asked = @ \ {m}, !.holder[m] = {token}]
        /\ conn' = [conn EXCEPT !.tags = @ + 1]
        /\ tokens' = IF track THEN tokens \union {token} ELSE tokens
    BY Zenon DEF RabbitMQ!BasicGet
  <1>6. PICK tracked \in {{token}, {}} :
          table' = [table EXCEPT !.declared = TRUE, !.pending = @ + 1, !.inFlight = @ \union tracked,
                                 !.last = IF track THEN @ ELSE token.tag]
    BY DEF RabbitMQ!BasicGet
  <1> HIDE DEF token
  <1>7. /\ conn' \in RabbitConns /\ conn'.open /\ conn'.generation = conn.generation
        /\ conn'.channel = conn.channel /\ conn'.tags = conn.tags + 1
    BY <1>1, <1>2, <1>3, <1>5 DEF RabbitConns
  <1>8. /\ broker' \in RabbitBrokers /\ broker'.ready = broker.ready \ {m}
        /\ broker'.unacked = broker.unacked \union {token} /\ broker'.durable = broker.durable
    BY <1>1, <1>4, <1>5 DEF RabbitBrokers
  <1>9. /\ hist' \in RabbitHists /\ hist'.accepted = hist.accepted /\ hist'.asked = hist.asked \ {m}
        /\ hist'.unsure = hist.unsure /\ hist'.cleared = hist.cleared
        /\ hist'.holder[m] = {token} /\ \A n \in Messages : n # m => hist'.holder[n] = hist.holder[n]
    <2>1. [hist.holder EXCEPT ![m] = {token}] \in [Messages -> SUBSET RabbitTokens]
      BY <1>1, <1>4 DEF RabbitHists
    <2>2. hist' = [hist EXCEPT !.asked = @ \ {m}, !.holder = [hist.holder EXCEPT ![m] = {token}]]
      BY <1>5
    <2>3. hist' \in RabbitHists /\ hist'.holder = [hist.holder EXCEPT ![m] = {token}]
      BY <1>1, <2>1, <2>2 DEF RabbitHists
    <2> QED BY <1>1, <2>2, <2>3 DEF RabbitHists
  <1>10. /\ table' \in RabbitTables /\ table'.completed = table.completed
         /\ table'.last = IF track THEN table.last ELSE conn.tags + 1
    <2>1. table.pending + 1 \in Nat /\ table.inFlight \union tracked \in SUBSET RabbitTokens
          /\ (IF track THEN table.last ELSE token.tag) \in Nat
      BY <1>1, <1>3, <1>4 DEF RabbitTables
    <2> QED BY <1>1, <1>4, <1>6, <2>1 DEF RabbitTables
  <1>11. tokens' \in SUBSET RabbitTokens /\ tokens' \subseteq tokens \union {token} /\ (~track => tokens' = tokens)
    BY <1>1, <1>4, <1>5
  <1>12. RabbitTypes'
    BY <1>7, <1>8, <1>9, <1>10, <1>11 DEF RabbitTypes
  <1>13. /\ \A u \in broker.unacked : u.tag \in Nat /\ u.msg \in Messages
         /\ \A t \in tokens : t.tag \in Nat /\ t.channel \in Nat
         /\ table.last \in Nat
    BY <1>1 DEF RabbitBrokers, RabbitTokens, RabbitTables
  <1>14. ChannelDeliveries'
    BY <1>2, <1>3, <1>4, <1>7, <1>8, <1>13 DEF RabbitInv, ChannelDeliveries
  <1>15. OutOnce'
    <2>1. broker'.ready \subseteq hist'.accepted /\ m \in hist.accepted
      BY <1>2, <1>8, <1>9 DEF RabbitInv, OutOnce
    <2>2. \A u \in broker.unacked : /\ u.msg \in hist.accepted /\ u.msg # m /\ u.msg \notin broker.ready
                                    /\ hist'.holder[u.msg] = {u} /\ u.tag # token.tag
      BY <1>2, <1>3, <1>4, <1>9, <1>13 DEF RabbitInv, OutOnce, ChannelDeliveries
    <2>3. \A u, v \in broker.unacked : u.msg = v.msg \/ u.tag = v.tag => u = v
      BY DEF RabbitInv, OutOnce
    <2> QED BY <1>4, <1>8, <1>9, <2>1, <2>2, <2>3 DEF OutOnce
  <1>16. TagsNameTokens'
    <2>1. table'.last <= conn'.tags
      BY <1>3, <1>7, <1>10, <1>13 DEF RabbitInv, TagsNameTokens
    <2>2. ASSUME NEW t \in tokens', t # token
          PROVE  /\ t.msg \in hist'.accepted /\ t.channel <= conn'.generation
                 /\ t.channel = conn'.generation =>
                      /\ t.tag <= conn'.tags /\ (table'.last # 0 => t.tag # table'.last)
                      /\ \A u \in broker'.unacked : u.tag = t.tag => u = t
                      /\ conn'.open /\ t \notin table'.completed => t \in broker'.unacked
      BY <1>2, <1>3, <1>4, <1>7, <1>8, <1>9, <1>10, <1>11, <1>13, <2>2 DEF RabbitInv, TagsNameTokens
    <2>3. ASSUME token \in tokens'
          PROVE  /\ token.msg \in hist'.accepted /\ token.channel <= conn'.generation
                 /\ token.tag <= conn'.tags /\ (table'.last # 0 => token.tag # table'.last)
                 /\ \A u \in broker'.unacked : u.tag = token.tag => u = token
                 /\ token \in broker'.unacked
      <3>1. token \notin tokens
        BY <1>3, <1>4, <1>13 DEF RabbitInv, TagsNameTokens
      <3>2. table'.last = table.last
        BY <1>10, <1>11, <2>3, <3>1
      <3> QED
        BY <1>2, <1>3, <1>4, <1>7, <1>8, <1>9, <1>13, <3>2
        DEF RabbitInv, TagsNameTokens, OutOnce, ChannelDeliveries
    <2> QED BY <2>1, <2>2, <2>3 DEF TagsNameTokens
  <1>17. AskedAccepted'
    BY <1>9 DEF RabbitInv, AskedAccepted
  <1>18. ContractStep
    <2>1. CASE broker.durable
      <3>1. \A n : RabbitStored(n)' <=> RabbitStored(n)
        BY <1>2, <1>4, <1>8 DEF RabbitStored
      <3>2. RabbitStored(m) /\ m \in hist.accepted
        BY <1>2 DEF RabbitStored, RabbitInv, OutOnce
      <3>3. /\ Accepted' = Accepted /\ m \in Accepted /\ Unsure' = Unsure /\ Cleared' = Cleared
            /\ Asked' = Asked \ {m} /\ Gone' = Gone /\ m \notin Gone
        BY <1>8, <1>9, <1>12, <2>1, <3>1, <3>2, RabbitPromise DEF RabbitInv
      <3> QED BY <3>3, PromisesDeliver
    <2>2. CASE ~broker.durable
      BY <1>8, <2>2, RabbitVolatile, Zenon
    <2> QED BY <2>1, <2>2
  <1> QED BY <1>12, <1>14, <1>15, <1>16, <1>17, <1>18 DEF RabbitInv

\* A settled table.
LEMMA RabbitSettled ==
  ASSUME RabbitInv, NEW t \in RabbitTokens
  PROVE  /\ RabbitMQ!Settled(t) \in RabbitTables /\ RabbitMQ!Settled(t).last = table.last
         /\ RabbitMQ!Settled(t).completed = table.completed \union {t}
  <1>1. table \in RabbitTables
    BY DEF RabbitInv, RabbitTypes
  <1>2. (IF table.pending <= 1 THEN 0 ELSE table.pending - 1) \in Nat
    BY <1>1 DEF RabbitTables
  <1>3. table.inFlight \ {t} \in SUBSET RabbitTokens /\ table.completed \union {t} \in SUBSET RabbitTokens
    BY <1>1 DEF RabbitTables
  <1> QED BY <1>1, <1>2, <1>3 DEF RabbitMQ!Settled, RabbitTables

LEMMA RabbitLegacyTable ==
  ASSUME RabbitInv
  PROVE  /\ RabbitMQ!LegacySettled \in RabbitTables /\ RabbitMQ!LegacySettled.last = 0
         /\ RabbitMQ!LegacySettled.completed = table.completed
  <1>1. table \in RabbitTables
    BY DEF RabbitInv, RabbitTypes
  <1>2. (IF table.pending <= 1 THEN 0 ELSE table.pending - 1) \in Nat
    BY <1>1 DEF RabbitTables
  <1> QED BY <1>1, <1>2 DEF RabbitMQ!LegacySettled, RabbitMQ!NoTag, RabbitTables

\* Nothing is asked for, and what is stored stays.
LEMMA RabbitKeeps ==
  ASSUME RabbitInv, RabbitInv', which = "rabbitmq", which' = which, broker'.durable = broker.durable,
         hist' = hist, \A m : RabbitStored(m)' <=> RabbitStored(m)
  PROVE  ContractStep
  <1>1. CASE broker.durable
    <2>1. RabbitTypes /\ RabbitTypes' /\ broker'.durable
      BY <1>1, Zenon DEF RabbitInv
    <2>2. Gone' = Gone /\ Accepted' = Accepted /\ Asked' = Asked /\ Unsure' = Unsure /\ Cleared' = Cleared
      BY <1>1, <2>1, RabbitPromise
    <2> QED BY <2>2, NoPromise
  <1>2. CASE ~broker.durable
    BY <1>2, RabbitVolatile, Zenon
  <1> QED BY <1>1, <1>2

\* A token that can still be acked names a delivery that the server knows, the
\* newest of its message.
LEMMA RabbitCurrent ==
  ASSUME RabbitInv, NEW t \in tokens, RabbitMQ!Current(t), conn.open
  PROVE  /\ t \in broker.unacked /\ RabbitMQ!Tagged(t.tag) = {t} /\ t \in hist.holder[t.msg]
         /\ RabbitMQ!Asks(t) = hist.asked \union {t.msg}
         /\ t.msg \in hist.accepted /\ t.msg \in Messages /\ t \in RabbitTokens
  <1>1. t \in broker.unacked
    BY DEF RabbitInv, TagsNameTokens, RabbitMQ!Current
  <1>2. hist.holder[t.msg] = {t} /\ t.msg \in hist.accepted
    BY <1>1 DEF RabbitInv, OutOnce
  <1>3. RabbitMQ!Tagged(t.tag) = {t}
    BY <1>1 DEF RabbitInv, OutOnce, RabbitMQ!Tagged
  <1>4. t \in RabbitTokens
    BY DEF RabbitInv, RabbitTypes
  <1> QED BY <1>1, <1>2, <1>3, <1>4 DEF RabbitMQ!Asks, RabbitTokens

\* What the contract sees of an ack.
LEMMA RabbitAcks ==
  ASSUME RabbitInv, RabbitInv', which = "rabbitmq", which' = which, broker'.durable = broker.durable,
         NEW m \in hist.accepted, hist'.accepted = hist.accepted, hist'.cleared = hist.cleared,
         hist'.asked = hist.asked \union {m}, hist'.unsure \in {hist.unsure, hist.unsure \union {m}},
         \A n : n # m => (RabbitStored(n)' <=> RabbitStored(n)),
         RabbitStored(m)' => RabbitStored(m)
  PROVE  ContractStep
  <1>1. CASE broker.durable
    <2>1. RabbitTypes /\ RabbitTypes' /\ broker'.durable
      BY <1>1, Zenon DEF RabbitInv
    <2>2. /\ Accepted' = Accepted /\ m \in Accepted /\ Cleared' = Cleared /\ Asked' = Asked \union {m}
          /\ Unsure' \in {Unsure, Unsure \union {m}}
          /\ \A n : n \in Gone <=> n \in hist.accepted /\ ~RabbitStored(n)
          /\ \A n : n \in Gone' <=> n \in hist.accepted /\ ~RabbitStored(n)'
      BY <1>1, <2>1, RabbitPromise
    <2>3. Gone' \in {Gone, Gone \union {m}}
      BY <2>2
    <2>4. m \in Messages
      BY DEF RabbitInv, RabbitTypes, RabbitHists
    <2> QED BY <2>2, <2>3, <2>4, PromisesAck
  <1>2. CASE ~broker.durable
    BY <1>2, RabbitVolatile, Zenon
  <1> QED BY <1>1, <1>2

LEMMA RabbitAckStep ==
  ASSUME RabbitInv, which = "rabbitmq", which' = which, NEW t \in tokens, NEW applied \in BOOLEAN,
         RabbitMQ!Ack(t, applied)
  PROVE  RabbitInv' /\ ContractStep
  <1> DEFINE U == IF applied THEN {t} ELSE {}
             R == {}
  <1>1. /\ t \in broker.unacked /\ RabbitMQ!Tagged(t.tag) = {t} /\ RabbitMQ!Asks(t) = hist.asked \union {t.msg}
        /\ t.msg \in hist.accepted /\ t.msg \in Messages /\ t \in RabbitTokens
    BY RabbitCurrent DEF RabbitMQ!Ack
  <1>2. broker \in RabbitBrokers /\ hist \in RabbitHists
    BY DEF RabbitInv, RabbitTypes
  <1>3. /\ table' = RabbitMQ!Settled(t) /\ UNCHANGED <<conn, tokens, op>>
        /\ hist' = [hist EXCEPT !.asked = hist.asked \union {t.msg}]
        /\ broker' = [broker EXCEPT !.unacked = IF applied THEN @ \ {t} ELSE @]
    BY <1>1, Zenon DEF RabbitMQ!Ack
  <1>4. broker' = [broker EXCEPT !.ready = @ \union R, !.unacked = @ \ U]
    BY <1>2, <1>3 DEF RabbitBrokers
  <1>5. /\ hist' \in RabbitHists /\ hist'.accepted = hist.accepted /\ hist'.holder = hist.holder
        /\ hist'.asked = hist.asked \union {t.msg} /\ hist'.unsure = hist.unsure /\ hist'.cleared = hist.cleared
    <2>1. hist.asked \union {t.msg} \in SUBSET Messages
      BY <1>1, <1>2 DEF RabbitHists
    <2> QED BY <1>2, <1>3, <2>1 DEF RabbitHists
  <1>6. AskedAccepted'
    BY <1>1, <1>5 DEF RabbitInv, AskedAccepted
  <1>7. U \in SUBSET broker.unacked /\ (\A u \in U : u = t) /\ R \in SUBSET {u.msg : u \in U}
    BY <1>1
  <1> HIDE DEF U, R
  <1>8. /\ table' \in RabbitTables /\ table'.last = table.last /\ table'.completed = table.completed \union {t}
    BY <1>1, <1>3, RabbitSettled
  <1>9. /\ RabbitInv' /\ broker'.durable = broker.durable
        /\ \A m : RabbitStored(m)' <=> RabbitStored(m) /\ (m \in {u.msg : u \in U} => m \in R)
    BY <1>3, <1>4, <1>5, <1>6, <1>7, <1>8, RabbitEnds
  <1>10. ContractStep
    BY <1>1, <1>5, <1>7, <1>9, RabbitAcks DEF R
  <1> QED BY <1>9, <1>10

\* The connection breaks under an ack, which the server may have taken.
LEMMA RabbitAckFails ==
  ASSUME RabbitInv, which = "rabbitmq", which' = which, NEW t \in tokens, NEW applied \in BOOLEAN,
         RabbitMQ!AckFails(t, applied)
  PROVE  RabbitInv' /\ ContractStep
  <1> DEFINE U == IF applied THEN broker.unacked \ {t} ELSE broker.unacked
  <1>1. /\ t \in broker.unacked /\ RabbitMQ!Tagged(t.tag) = {t} /\ RabbitMQ!Asks(t) = hist.asked \union {t.msg}
        /\ t.msg \in hist.accepted /\ t.msg \in Messages /\ t \in RabbitTokens
    BY RabbitCurrent DEF RabbitMQ!AckFails
  <1>2. broker \in RabbitBrokers /\ hist \in RabbitHists /\ conn \in RabbitConns
    BY DEF RabbitInv, RabbitTypes
  <1>3. /\ conn' = [conn EXCEPT !.open = FALSE, !.losses = @ + 1] /\ UNCHANGED <<table, tokens, op>>
        /\ hist' = [hist EXCEPT !.asked = hist.asked \union {t.msg},
                                !.unsure = IF applied THEN @ \union {t.msg} ELSE @]
        /\ broker' = RabbitMQ!Requeued([broker EXCEPT !.unacked = IF applied THEN @ \ {t} ELSE @])
    BY <1>1, Zenon DEF RabbitMQ!AckFails
  <1>4. broker' = [broker EXCEPT !.ready = @ \union {u.msg : u \in U}, !.unacked = {}]
    BY <1>2, <1>3 DEF RabbitBrokers, RabbitMQ!Requeued
  <1>5. /\ hist' \in RabbitHists /\ hist'.accepted = hist.accepted /\ hist'.holder = hist.holder
        /\ hist'.asked = hist.asked \union {t.msg} /\ hist'.cleared = hist.cleared
        /\ hist'.unsure \in {hist.unsure, hist.unsure \union {t.msg}}
    <2>1. hist.asked \union {t.msg} \in SUBSET Messages /\ hist.unsure \union {t.msg} \in SUBSET Messages
      BY <1>1, <1>2 DEF RabbitHists
    <2> QED BY <1>2, <1>3, <2>1 DEF RabbitHists
  <1>6. AskedAccepted'
    BY <1>1, <1>5 DEF RabbitInv, AskedAccepted
  <1>7. U \subseteq broker.unacked /\ \A u \in broker.unacked : u \in U \/ u = t
    BY <1>1
  <1> HIDE DEF U
  <1>8. /\ broker' \in RabbitBrokers /\ broker'.unacked = {} /\ broker'.durable = broker.durable
        /\ broker'.ready = broker.ready \union {u.msg : u \in U}
    <2>1. {u.msg : u \in U} \in SUBSET Messages
      BY <1>2, <1>7 DEF RabbitBrokers, RabbitTokens
    <2> QED BY <1>2, <1>4, <2>1 DEF RabbitBrokers
  <1>9. /\ conn' \in RabbitConns /\ ~conn'.open /\ conn'.generation = conn.generation
        /\ conn'.channel = conn.channel /\ conn'.tags = conn.tags
    <2>1. conn.losses + 1 \in Nat
      BY <1>2 DEF RabbitConns
    <2> QED BY <1>2, <1>3, <2>1 DEF RabbitConns
  <1>10. RabbitTypes'
    BY <1>3, <1>5, <1>8, <1>9 DEF RabbitInv, RabbitTypes
  <1>11. ChannelDeliveries'
    BY <1>3, <1>8, <1>9 DEF RabbitInv, ChannelDeliveries
  <1>12. OutOnce' /\ TagsNameTokens'
    <2>1. OutOnce'
      BY <1>5, <1>7, <1>8 DEF RabbitInv, OutOnce
    <2>2. TagsNameTokens'
      BY <1>3, <1>5, <1>8, <1>9 DEF RabbitInv, TagsNameTokens
    <2> QED BY <2>1, <2>2
  <1>13. RabbitInv'
    BY <1>6, <1>10, <1>11, <1>12 DEF RabbitInv
  <1>14. \A n : /\ n # t.msg => (RabbitStored(n)' <=> RabbitStored(n))
                /\ RabbitStored(n)' => RabbitStored(n)
    BY <1>7, <1>8 DEF RabbitStored
  <1> QED BY <1>1, <1>5, <1>8, <1>13, <1>14, RabbitAcks

\* A token of the past settles nothing, but its holder has asked.
LEMMA RabbitStale ==
  ASSUME RabbitInv, which = "rabbitmq", which' = which, NEW t \in tokens, RabbitMQ!SettleStale(t)
  PROVE  RabbitInv' /\ ContractStep
  <1>1. hist \in RabbitHists /\ t.msg \in hist.accepted /\ t.msg \in Messages
    BY DEF RabbitInv, RabbitTypes, TagsNameTokens, RabbitHists
  <1>2. hist' = [hist EXCEPT !.asked = RabbitMQ!Asks(t)] /\ UNCHANGED <<conn, broker, table, tokens, op>>
    BY DEF RabbitMQ!SettleStale
  <1>3. RabbitMQ!Asks(t) \in {hist.asked, hist.asked \union {t.msg}}
    BY DEF RabbitMQ!Asks
  <1>4. /\ hist' \in RabbitHists /\ hist'.accepted = hist.accepted /\ hist'.holder = hist.holder
        /\ hist'.asked \in {hist.asked, hist.asked \union {t.msg}} /\ hist'.unsure = hist.unsure
        /\ hist'.cleared = hist.cleared
    <2>1. RabbitMQ!Asks(t) \in SUBSET Messages
      BY <1>1, <1>3 DEF RabbitHists
    <2> QED BY <1>1, <1>2, <1>3, <2>1 DEF RabbitHists
  <1>5. RabbitInv'
    BY <1>1, <1>2, <1>4
    DEF RabbitInv, RabbitTypes, ChannelDeliveries, OutOnce, TagsNameTokens, AskedAccepted
  <1>6. \A n : RabbitStored(n)' <=> RabbitStored(n)
    BY <1>2 DEF RabbitStored
  <1>7. CASE hist'.asked = hist.asked \union {t.msg}
    BY <1>1, <1>2, <1>4, <1>5, <1>6, <1>7, RabbitAcks
  <1>8. CASE hist'.asked = hist.asked
    <2>1. hist' = hist
      BY <1>1, <1>4, <1>8, <1>2 DEF RabbitHists
    <2> QED BY <1>2, <1>5, <2>1, RabbitSame DEF RabbitInv
  <1> QED BY <1>4, <1>7, <1>8

\* The delivery is ready again.
LEMMA RabbitNack ==
  ASSUME RabbitInv, which = "rabbitmq", which' = which, NEW t \in tokens, RabbitMQ!Nack(t)
  PROVE  RabbitInv' /\ ContractStep
  <1> DEFINE U == {t}
             R == {u.msg : u \in U}
  <1>1. /\ t \in broker.unacked /\ RabbitMQ!Tagged(t.tag) = U /\ t \in RabbitTokens
    BY RabbitCurrent DEF RabbitMQ!Nack
  <1>2. /\ table' = RabbitMQ!Settled(t) /\ UNCHANGED <<conn, tokens, op, hist>>
        /\ broker' = [broker EXCEPT !.ready = @ \union {u.msg : u \in RabbitMQ!Tagged(t.tag)},
                                    !.unacked = @ \ RabbitMQ!Tagged(t.tag)]
    BY Zenon DEF RabbitMQ!Nack
  <1>3. broker' = [broker EXCEPT !.ready = @ \union R, !.unacked = @ \ U]
    BY <1>1, <1>2
  <1>4. U \in SUBSET broker.unacked /\ (\A u \in U : u = t) /\ R \in SUBSET {u.msg : u \in U}
        /\ R = {u.msg : u \in U}
    BY <1>1
  <1> HIDE DEF U, R
  <1>5. /\ table' \in RabbitTables /\ table'.last = table.last /\ table'.completed = table.completed \union {t}
    BY <1>1, <1>2, RabbitSettled
  <1>6. hist' \in RabbitHists /\ hist'.accepted = hist.accepted /\ hist'.holder = hist.holder /\ AskedAccepted'
    BY <1>2 DEF RabbitInv, RabbitTypes, AskedAccepted
  <1>7. /\ RabbitInv' /\ broker'.durable = broker.durable
        /\ \A m : RabbitStored(m)' <=> RabbitStored(m) /\ (m \in {u.msg : u \in U} => m \in R)
    BY <1>2, <1>3, <1>4, <1>5, <1>6, RabbitEnds
  <1>8. \A m : RabbitStored(m)' <=> RabbitStored(m)
    BY <1>4, <1>7
  <1> QED BY <1>2, <1>7, <1>8, RabbitKeeps

\* ack and nack without a token settle the last delivery of pop, which has
\* none.
LEMMA RabbitLegacy ==
  ASSUME RabbitInv, which = "rabbitmq", which' = which, NEW applied \in BOOLEAN,
         RabbitMQ!AckLegacy(applied) \/ RabbitMQ!NackLegacy
  PROVE  RabbitInv' /\ ContractStep
  <1> DEFINE T == RabbitMQ!Tagged(table.last)
  <1>1. /\ T \in SUBSET broker.unacked /\ table.last # 0 /\ table' = RabbitMQ!LegacySettled
        /\ UNCHANGED <<conn, tokens, op>>
    BY DEF RabbitMQ!AckLegacy, RabbitMQ!NackLegacy, RabbitMQ!NoTag, RabbitMQ!Tagged
  <1>2. \A t \in tokens : t \notin T
    BY <1>1 DEF RabbitInv, TagsNameTokens, ChannelDeliveries, RabbitMQ!Tagged
  <1>3. \A u \in T : /\ hist.holder[u.msg] = {u} /\ u.msg \in hist.accepted /\ u.msg \in Messages
                     /\ \A v \in T : u = v
    BY DEF RabbitInv, OutOnce, RabbitMQ!Tagged, RabbitTypes, RabbitBrokers, RabbitTokens
  <1>4. broker \in RabbitBrokers /\ hist \in RabbitHists
    BY DEF RabbitInv, RabbitTypes
  <1>5. /\ table' \in RabbitTables /\ table'.last = 0 /\ table'.completed = table.completed
    BY <1>1, RabbitLegacyTable
  <1>6. CASE RabbitMQ!NackLegacy
    <2> DEFINE R == {u.msg : u \in T}
    <2>1. /\ broker' = [broker EXCEPT !.ready = @ \union R, !.unacked = @ \ T] /\ hist' = hist
      BY <1>6, Zenon DEF RabbitMQ!NackLegacy
    <2>2. R \in SUBSET {u.msg : u \in T} /\ R = {u.msg : u \in T}
      OBVIOUS
    <2> HIDE DEF R, T
    <2>3. hist' \in RabbitHists /\ hist'.accepted = hist.accepted /\ hist'.holder = hist.holder /\ AskedAccepted'
      BY <2>1 DEF RabbitInv, RabbitTypes, AskedAccepted
    <2>4. /\ RabbitInv' /\ broker'.durable = broker.durable
          /\ \A m : RabbitStored(m)' <=> RabbitStored(m) /\ (m \in {u.msg : u \in T} => m \in R)
      BY <1>1, <1>2, <1>5, <2>1, <2>2, <2>3, RabbitEnds
    <2>5. \A m : RabbitStored(m)' <=> RabbitStored(m)
      BY <2>2, <2>4
    <2> QED BY <2>1, <2>4, <2>5, RabbitKeeps
  <1>7. CASE RabbitMQ!AckLegacy(applied)
    <2> DEFINE U == IF applied THEN T ELSE {}
               R == {}
    <2>1. /\ broker' = [broker EXCEPT !.unacked = IF applied THEN @ \ T ELSE @]
          /\ hist' = [hist EXCEPT !.asked = @ \union {u.msg : u \in {x \in T : x \in hist.holder[x.msg]}}]
      BY <1>7, Zenon DEF RabbitMQ!AckLegacy
    <2>2. broker' = [broker EXCEPT !.ready = @ \union R, !.unacked = @ \ U]
      BY <1>4, <2>1 DEF RabbitBrokers
    <2>3. hist' = [hist EXCEPT !.asked = @ \union {u.msg : u \in T}]
      <3>1. {x \in T : x \in hist.holder[x.msg]} = T
        BY <1>3
      <3> QED BY <2>1, <3>1
    <2>4. U \in SUBSET T /\ U \in SUBSET broker.unacked /\ R \in SUBSET {u.msg : u \in U} /\ \A m : m \notin R
      BY <1>1
    <2> HIDE DEF U, R, T
    <2>5. /\ hist' \in RabbitHists /\ hist'.accepted = hist.accepted /\ hist'.holder = hist.holder
          /\ hist'.asked = hist.asked \union {u.msg : u \in T} /\ hist'.unsure = hist.unsure
          /\ hist'.cleared = hist.cleared
      <3>1. hist.asked \union {u.msg : u \in T} \in SUBSET Messages
        BY <1>3, <1>4 DEF RabbitHists
      <3> QED BY <1>4, <2>3, <3>1 DEF RabbitHists
    <2>6. AskedAccepted'
      BY <1>3, <2>5 DEF RabbitInv, AskedAccepted
    <2>7. /\ RabbitInv' /\ broker'.durable = broker.durable
          /\ \A m : RabbitStored(m)' <=> RabbitStored(m) /\ (m \in {u.msg : u \in U} => m \in R)
      BY <1>1, <1>2, <1>5, <2>2, <2>4, <2>5, <2>6, RabbitEnds
    <2>8. CASE T = {}
      <3>1. hist'.asked = hist.asked /\ \A m : RabbitStored(m)' <=> RabbitStored(m)
        BY <2>4, <2>5, <2>7, <2>8
      <3>2. hist' = hist
        BY <1>4, <2>3, <2>8 DEF RabbitHists
      <3> QED BY <2>7, <3>1, <3>2, RabbitKeeps
    <2>9. CASE T # {}
      <3>1. PICK u \in T : TRUE
        BY <2>9
      <3>2. {v.msg : v \in T} = {u.msg} /\ \A v \in U : v = u
        BY <1>3, <2>4
      <3>3. /\ \A n : n # u.msg => (RabbitStored(n)' <=> RabbitStored(n))
            /\ RabbitStored(u.msg)' => RabbitStored(u.msg)
        BY <2>7, <3>2
      <3> QED BY <1>3, <2>5, <2>7, <3>2, <3>3, RabbitAcks
    <2> QED BY <2>8, <2>9
  <1> QED BY <1>6, <1>7

\* What is ready is cleared.
LEMMA RabbitClear ==
  ASSUME RabbitInv, which = "rabbitmq", which' = which, RabbitMQ!ClearQueue
  PROVE  RabbitInv' /\ ContractStep
  <1>1. broker \in RabbitBrokers /\ hist \in RabbitHists /\ table \in RabbitTables
    BY DEF RabbitInv, RabbitTypes
  <1>2. /\ broker' = [broker EXCEPT !.ready = {}] /\ UNCHANGED <<conn, tokens, op>>
        /\ hist' = [hist EXCEPT !.cleared = @ \union broker.ready]
        /\ table' = [table EXCEPT !.declared = TRUE]
    BY Zenon DEF RabbitMQ!ClearQueue
  <1>3. table' \in RabbitTables /\ table'.last = table.last /\ table'.completed = table.completed
    BY <1>1, <1>2 DEF RabbitTables
  <1>4. /\ broker' \in RabbitBrokers /\ broker'.ready = {} /\ broker'.unacked = broker.unacked
        /\ broker'.durable = broker.durable /\ broker.ready \in SUBSET Messages
    BY <1>1, <1>2 DEF RabbitBrokers
  <1>5. /\ hist' \in RabbitHists /\ hist'.accepted = hist.accepted /\ hist'.holder = hist.holder
        /\ hist'.asked = hist.asked /\ hist'.unsure = hist.unsure
        /\ hist'.cleared = hist.cleared \union broker.ready
    <2>1. hist.cleared \union broker.ready \in SUBSET Messages
      BY <1>1, <1>4 DEF RabbitHists
    <2> QED BY <1>1, <1>2, <2>1 DEF RabbitHists
  <1>6. RabbitTypes'
    BY <1>2, <1>3, <1>4, <1>5 DEF RabbitInv, RabbitTypes
  <1>7. ChannelDeliveries' /\ AskedAccepted'
    BY <1>2, <1>4, <1>5 DEF RabbitInv, ChannelDeliveries, OutOnce, AskedAccepted
  <1>8. OutOnce'
    BY <1>4, <1>5 DEF RabbitInv, OutOnce
  <1>9. TagsNameTokens'
    BY <1>2, <1>3, <1>4, <1>5 DEF RabbitInv, TagsNameTokens
  <1>10. ContractStep
    <2>1. CASE broker.durable
      <3> DEFINE C == broker.ready
      <3>1. RabbitTypes /\ broker'.durable
        BY <1>4, <2>1, Zenon DEF RabbitInv
      <3>2. /\ Accepted' = Accepted /\ Accepted = hist.accepted /\ Asked' = Asked /\ Unsure' = Unsure
            /\ \A n : n \in Gone <=> n \in hist.accepted /\ ~RabbitStored(n)
            /\ \A n : n \in Gone' <=> n \in hist.accepted /\ ~RabbitStored(n)'
        BY <1>5, <1>6, <2>1, <3>1, RabbitPromise
      <3>3. Cleared = hist.cleared \intersect hist.accepted /\ Cleared' = hist'.cleared \intersect hist'.accepted
        BY <1>6, <2>1, <3>1, RabbitMapped, RabbitMappedNext
      <3>4. C \subseteq hist.accepted
        BY DEF RabbitInv, OutOnce
      <3>5. Cleared' = Cleared \union C
        BY <1>5, <3>3, <3>4
      <3>6. \A n : RabbitStored(n)' <=> RabbitStored(n) /\ n \notin C
        BY <1>4 DEF RabbitStored, RabbitInv, OutOnce
      <3>7. Gone' = Gone \union C
        BY <3>2, <3>4, <3>6
      <3> HIDE DEF C
      <3> QED BY <1>4, <3>2, <3>4, <3>5, <3>7, PromisesClear DEF C
    <2>2. CASE ~broker.durable
      BY <1>4, <2>2, RabbitVolatile, Zenon
    <2> QED BY <2>1, <2>2
  <1> QED BY <1>6, <1>7, <1>8, <1>9, <1>10 DEF RabbitInv

LEMMA RabbitStart ==
  ASSUME RabbitMQ!Init, which = "rabbitmq"
  PROVE  RabbitInv /\ Contract!Init
  <1>1. /\ conn = [epoch |-> 0, channel |-> 0, generation |-> 0, open |-> FALSE, tags |-> 0, losses |-> 0]
        /\ broker \in [durable : BOOLEAN, ready : {{}}, unacked : {{}}]
        /\ table = RabbitMQ!NoDeliveries /\ tokens = {} /\ op = RabbitMQ!Idle
        /\ hist = [accepted |-> {}, asked |-> {}, unsure |-> {}, cleared |-> {},
                   holder |-> [m \in Messages |-> {}]]
    BY DEF RabbitMQ!Init, RabbitMQ!NoChannel
  <1>2. RabbitMQ!NoDeliveries \in RabbitTables /\ RabbitMQ!NoDeliveries.last = 0
    BY DEF RabbitMQ!NoDeliveries, RabbitMQ!NoTag, RabbitTables
  <1>3. RabbitTypes
    BY <1>1, <1>2 DEF RabbitTypes, RabbitConns, RabbitBrokers, RabbitHists
  <1>4. ChannelDeliveries /\ OutOnce /\ TagsNameTokens /\ AskedAccepted
    BY <1>1, <1>2 DEF ChannelDeliveries, OutOnce, TagsNameTokens, AskedAccepted
  <1>5. /\ Accepted = RabbitMQ!Accepted /\ Asked = RabbitMQ!Asked /\ Unsure = RabbitMQ!Unsure
        /\ Cleared = RabbitMQ!Cleared /\ Gone = RabbitMQ!Gone
    BY DEF Accepted, Asked, Unsure, Cleared, Gone, Stores
  <1>6. Contract!Init
    BY <1>1, <1>5 DEF Contract!Init, RabbitMQ!Accepted, RabbitMQ!Asked, RabbitMQ!Unsure, RabbitMQ!Cleared,
       RabbitMQ!Gone
  <1> QED BY <1>3, <1>4, <1>6 DEF RabbitInv

LEMMA RabbitStep ==
  ASSUME RabbitInv, which = "rabbitmq", which' = which, RabbitMQ!Next
  PROVE  RabbitInv' /\ ContractStep
  <1>1. CASE RabbitMQ!ConnectBegin \/ RabbitMQ!ConnectDone \/ RabbitMQ!ConnectAborted \/ RabbitMQ!Disconnect
    BY <1>1, RabbitConnects
  <1>2. CASE \E restart \in BOOLEAN : RabbitMQ!ChannelLost(restart)
    BY <1>2, RabbitLost
  <1>3. CASE \E m \in Messages, require, stored \in BOOLEAN : RabbitMQ!Push(m, require, stored)
    BY <1>3, RabbitPush
  <1>4. CASE \E m \in Messages : RabbitMQ!PopWithAck(m) \/ RabbitMQ!Pop(m)
    BY <1>4, RabbitGet DEF RabbitMQ!PopWithAck, RabbitMQ!Pop
  <1>5. CASE \E t \in tokens : RabbitMQ!SettleStale(t) \/ RabbitMQ!Nack(t)
    BY <1>5, RabbitStale, RabbitNack
  <1>6. CASE \E t \in tokens, applied \in BOOLEAN :
               RabbitMQ!Ack(t, applied) \/ RabbitMQ!AckFails(t, applied)
    BY <1>6, RabbitAckStep, RabbitAckFails
  <1>7. CASE (\E applied \in BOOLEAN : RabbitMQ!AckLegacy(applied)) \/ RabbitMQ!NackLegacy
    BY <1>7, RabbitLegacy
  <1>8. CASE RabbitMQ!ClearQueue
    BY <1>8, RabbitClear
  <1> QED BY <1>1, <1>2, <1>3, <1>4, <1>5, <1>6, <1>7, <1>8 DEF RabbitMQ!Next


----------------------------------------------------------------------------
(* The leases of SQS and RocketMQ. *)

\* What the contract sees of a queue whose server leases the messages.
Stored(m) == m \in broker.visible \/ \E d \in broker.leased : d.msg = m

\* A server that forgets leases only.
LEMMA LeasesShrink ==
  ASSUME hist.accepted \subseteq hist'.accepted, hist'.holder = hist.holder,
         broker'.leased \subseteq broker.leased, broker'.receipts = broker.receipts
  PROVE  \A t : LeaseIsNewest(t) => LeaseIsNewest(t)'
  BY DEF LeaseIsNewest

\* The messages of the leases that end leave, or are visible again.
LEMMA LeasesEnd ==
  ASSUME LeasedOnce, hist'.accepted = hist.accepted, broker'.leased \subseteq broker.leased,
         broker'.receipts = broker.receipts,
         broker'.visible \subseteq broker.visible \union {d.msg : d \in broker.leased \ broker'.leased}
  PROVE  LeasedOnce'
  <1>1. \A d \in broker.leased \ broker'.leased :
          d.msg \in hist.accepted /\ \A e \in broker'.leased : e.msg # d.msg
    BY DEF LeasedOnce
  <1>2. broker'.visible \subseteq hist'.accepted
    BY <1>1 DEF LeasedOnce
  <1>3. \A d \in broker'.leased : d.msg \notin broker'.visible
    BY <1>1 DEF LeasedOnce
  <1> QED BY <1>2, <1>3 DEF LeasedOnce

\* A message is leased: its older tokens name no lease of the server.
LEMMA LeaseAdded ==
  ASSUME LeasedOnce, hist'.accepted = hist.accepted, NEW m \in broker.visible, NEW d, NEW h,
         hist.holder \in [Messages -> h], m \in Messages, broker.receipts \in Nat,
         d.msg = m, d.receipt = broker.receipts + 1,
         \A n \in Messages : n # m => hist'.holder[n] = hist.holder[n],
         broker'.leased = broker.leased \union {d}, broker'.receipts = broker.receipts + 1,
         NEW t, t.lease \in Leases, LeaseIsNewest(t)
  PROVE  /\ LeaseIsNewest(t)' /\ t.lease # d
         /\ t.lease \in broker.leased => t.lease.msg # m
  <1>1. t.lease.receipt \in Nat /\ t.lease.msg \in Messages
    BY DEF Leases
  <1>2. t.lease # d
    BY <1>1 DEF LeaseIsNewest
  <1>3. t.lease \in broker.leased => t.lease.msg # m
    BY DEF LeasedOnce
  <1> QED BY <1>1, <1>2, <1>3 DEF LeaseIsNewest

----------------------------------------------------------------------------
(* SQS, action by action. *)

LEMMA SqsMapped ==
  ASSUME which = "sqs"
  PROVE  /\ Accepted = hist.accepted /\ Asked = hist.asked /\ Unsure = hist.unsure
         /\ Cleared = hist.cleared /\ Gone = {m \in hist.accepted : ~Stored(m)}
  <1>1. /\ Accepted = hist.accepted /\ Asked = hist.asked /\ Unsure = hist.unsure
        /\ Cleared = hist.cleared /\ Gone = Sqs!Gone
    BY DEF Accepted, Asked, Unsure, Cleared, Gone, Stores
  <1> QED BY <1>1 DEF Sqs!Gone, Stored

LEMMA SqsMappedNext ==
  ASSUME which' = "sqs"
  PROVE  /\ Accepted' = hist'.accepted /\ Asked' = hist'.asked /\ Unsure' = hist'.unsure
         /\ Cleared' = hist'.cleared /\ Gone' = {m \in hist'.accepted : ~Stored(m)'}
  <1>1. /\ Accepted' = hist'.accepted /\ Asked' = hist'.asked /\ Unsure' = hist'.unsure
        /\ Cleared' = hist'.cleared /\ Gone' = Sqs!Gone'
    BY DEF Accepted, Asked, Unsure, Cleared, Gone, Stores
  <1> QED BY <1>1 DEF Sqs!Gone, Stored

\* What is stored stays, and nothing is asked for.
LEMMA SqsSame ==
  ASSUME which = "sqs", which' = which, hist' = hist, \A m : Stored(m)' <=> Stored(m)
  PROVE  ContractStep
  <1>1. Gone' = Gone /\ Accepted' = Accepted /\ Asked' = Asked /\ Unsure' = Unsure /\ Cleared' = Cleared
    BY SqsMapped, SqsMappedNext
  <1> QED BY <1>1, NoPromise

\* The holder of a token asks for the end of its delivery.
LEMMA SqsAsks ==
  ASSUME SqsInv, which = "sqs", which' = which, NEW t \in SqsTokens, t.lease.msg \in hist.accepted,
         hist' = [hist EXCEPT !.asked = Sqs!Asks(t)], broker' = broker
  PROVE  /\ ContractStep /\ hist' \in SqsHists /\ hist'.accepted = hist.accepted
         /\ hist'.cleared = hist.cleared /\ hist'.holder = hist.holder /\ hist.asked \subseteq hist'.asked
         /\ t \in hist.holder[t.lease.msg] => t.lease.msg \in hist'.asked
  <1> DEFINE m == t.lease.msg
             A == Sqs!Asks(t)
  <1>1. hist \in SqsHists /\ m \in Messages
    BY DEF SqsInv, SqsTypes, SqsTokens, Leases
  <1>2. A = IF t \in hist.holder[m] THEN hist.asked \union {m} ELSE hist.asked
    BY DEF Sqs!Asks
  <1>3. A \in SUBSET Messages
    BY <1>1, <1>2 DEF SqsHists
  <1> HIDE DEF A
  <1>4. /\ hist' \in SqsHists /\ hist'.accepted = hist.accepted /\ hist'.asked = A
        /\ hist'.unsure = hist.unsure /\ hist'.cleared = hist.cleared /\ hist'.holder = hist.holder
    BY <1>1, <1>3 DEF SqsHists, A
  <1>5. \A n : Stored(n)' <=> Stored(n)
    BY DEF Stored
  <1>6. Gone' = Gone /\ Accepted' = Accepted /\ Unsure' = Unsure /\ Cleared' = Cleared /\ Asked' = A /\ Asked = hist.asked
    BY <1>4, <1>5, SqsMapped, SqsMappedNext
  <1>7. m \in Accepted
    BY SqsMapped
  <1>8. ContractStep
    <2> HIDE DEF m
    <2>1. CASE t \in hist.holder[m]
      BY <1>1, <1>2, <1>6, <1>7, <2>1, PromisesAck
    <2>2. CASE t \notin hist.holder[m]
      BY <1>2, <1>6, <2>2, NoPromise
    <2> QED BY <2>1, <2>2
  <1> QED BY <1>2, <1>4, <1>8

LEMMA SqsConnects ==
  ASSUME SqsInv, which = "sqs", which' = which, Sqs!Connect \/ Sqs!DisconnectBegin \/ Sqs!DisconnectEnd
  PROVE  SqsInv' /\ ContractStep
  <1>1. conn \in SqsConns /\ table \in SqsTables /\ UNCHANGED <<broker, tokens, op, hist>>
    BY DEF SqsInv, SqsTypes, Sqs!Connect, Sqs!DisconnectBegin, Sqs!DisconnectEnd
  <1>2. \A m : Stored(m)' <=> Stored(m)
    BY <1>1 DEF Stored
  <1>3. ContractStep
    BY <1>1, <1>2, SqsSame
  <1>4. \A t : LeaseIsNewest(t) => LeaseIsNewest(t)'
    BY <1>1 DEF LeaseIsNewest
  <1>5. LeasedOnce'
    BY <1>1 DEF SqsInv, LeasedOnce
  <1>6. /\ conn' \in SqsConns /\ table' \in SqsTables
        /\ table'.deliveries.last \subseteq table.deliveries.last
        /\ (conn'.generation = conn.generation /\ conn'.leaving = conn.leaving)
             \/ (conn'.generation = 0 /\ conn'.leaving)
             \/ op = [kind |-> "idle"] \/ (conn.generation = 0 /\ ~conn.leaving)
    <2>1. CASE Sqs!Connect
      <3>1. /\ conn' = [conn EXCEPT !.generation = conn.made + 1, !.made = @ + 1, !.resolved = FALSE]
            /\ table' = [table EXCEPT !.epoch = 0] /\ conn.generation = 0 /\ ~conn.leaving
        BY <2>1 DEF Sqs!Connect, Sqs!Connected, Sqs!NoGeneration
      <3>2. conn.made + 1 \in Nat
        BY <1>1 DEF SqsConns
      <3> QED BY <1>1, <3>1, <3>2 DEF SqsConns, SqsTables
    <2>2. CASE Sqs!DisconnectBegin
      <3>1. /\ conn' = [conn EXCEPT !.generation = 0, !.leaving = TRUE, !.disconnects = @ + 1, !.resolved = FALSE]
            /\ table' = table
        BY <2>2 DEF Sqs!DisconnectBegin, Sqs!NoGeneration
      <3>2. conn.disconnects + 1 \in Nat
        BY <1>1 DEF SqsConns
      <3> QED BY <1>1, <3>1, <3>2 DEF SqsConns
    <2>3. CASE Sqs!DisconnectEnd
      <3>1. /\ conn' = [conn EXCEPT !.leaving = FALSE] /\ op = [kind |-> "idle"]
            /\ table' = [table EXCEPT !.deliveries = [inFlight |-> {}, last |-> {}]]
        BY <2>3 DEF Sqs!DisconnectEnd, Sqs!Idle, Sqs!NoDeliveries
      <3> QED BY <1>1, <3>1 DEF SqsConns, SqsTables
    <2> QED BY <2>1, <2>2, <2>3
  <1>7. SqsTypes'
    BY <1>1, <1>6 DEF SqsInv, SqsTypes
  <1>8. SqsOperation'
    <2>1. CASE op = [kind |-> "idle"]
      BY <1>1, <2>1 DEF SqsOperation
    <2>2. CASE op \in [kind : {"settle"}, token : SqsTokens, ack : BOOLEAN]
      BY <1>1, <1>4, <2>2 DEF SqsInv, SqsOperation
    <2>3. CASE op \in [kind : {"clear"}, generation : Nat \ {0}]
      <3>1. op.kind = "clear"
        BY <2>3
      <3>2. /\ conn.generation = op.generation \/ (conn.generation = 0 /\ conn.leaving)
            /\ hist.accepted \subseteq hist.cleared
        BY <2>3, <3>1 DEF SqsInv, SqsOperation
      <3>3. op.generation # 0
        BY <2>3, <3>1 DEF SqsInv, SqsOperation
      <3> QED BY <1>1, <1>6, <2>3, <3>1, <3>2, <3>3 DEF SqsOperation
    <2> QED BY <2>1, <2>2, <2>3 DEF SqsInv, SqsOperation
  <1> QED BY <1>1, <1>3, <1>4, <1>5, <1>6, <1>7, <1>8 DEF SqsInv


\* _queue_url_for_generation, for what the queue holds.
LEMMA SqsQueueUrl ==
  ASSUME SqsInv, Sqs!QueueUrl
  PROVE  /\ conn.generation # 0 /\ Sqs!Resolved \in SqsConns /\ Sqs!Resolved.generation = conn.generation
         /\ Sqs!Resolved.leaving <=> conn.leaving
         /\ Sqs!Created(broker) \in SqsBrokers /\ Sqs!Created(broker).visible = broker.visible
         /\ Sqs!Created(broker).leased = broker.leased /\ Sqs!Created(broker).receipts = broker.receipts
  <1>1. conn \in SqsConns /\ broker \in SqsBrokers
    BY DEF SqsInv, SqsTypes
  <1>2. conn.generation # 0
    BY DEF Sqs!QueueUrl, Sqs!Connected, Sqs!NoGeneration
  <1>3. /\ Sqs!Resolved \in SqsConns /\ Sqs!Resolved.generation = conn.generation
        /\ Sqs!Resolved.leaving <=> conn.leaving
    BY <1>1 DEF Sqs!Resolved, SqsConns
  <1>4. /\ Sqs!Created(broker) \in SqsBrokers /\ Sqs!Created(broker).visible = broker.visible
        /\ Sqs!Created(broker).leased = broker.leased /\ Sqs!Created(broker).receipts = broker.receipts
    BY <1>1 DEF Sqs!Created, SqsBrokers
  <1> QED BY <1>2, <1>3, <1>4

\* An operation that the lifecycle of the queue lets run meets no purge.
LEMMA SqsMeetsNoPurge ==
  ASSUME SqsInv, Sqs!OperationMayRun, conn.generation # 0
  PROVE  \/ op = [kind |-> "idle"]
         \/ /\ op \in [kind : {"settle"}, token : SqsTokens, ack : BOOLEAN] /\ op.kind = "settle"
            /\ LeaseIsNewest(op.token)
            /\ op.ack /\ op.token.lease \in broker.leased => op.token.lease.msg \in hist.asked
  BY DEF SqsInv, SqsOperation, Sqs!OperationMayRun

LEMMA SqsPush ==
  ASSUME SqsInv, which = "sqs", which' = which, NEW m \in Messages, NEW stored \in BOOLEAN,
         Sqs!Push(m, stored)
  PROVE  SqsInv' /\ ContractStep
  <1> DEFINE c == Sqs!Created(broker)
             V == IF stored THEN broker.visible \union {m} ELSE broker.visible
             A == IF stored THEN hist.accepted \union {m} ELSE hist.accepted
  <1>1. Sqs!QueueUrl /\ Sqs!OperationMayRun /\ hist \in SqsHists /\ broker \in SqsBrokers
    BY DEF Sqs!Push, SqsInv, SqsTypes
  <1>2. /\ conn.generation # 0 /\ Sqs!Resolved \in SqsConns
        /\ c \in SqsBrokers /\ c.visible = broker.visible /\ c.leased = broker.leased
        /\ c.receipts = broker.receipts
    BY <1>1, SqsQueueUrl
  <1> HIDE DEF c
  <1>3. /\ m \notin hist.accepted /\ conn' = Sqs!Resolved /\ broker' = [c EXCEPT !.visible = V]
        /\ hist' = [hist EXCEPT !.accepted = A] /\ UNCHANGED <<table, tokens, op>>
    BY <1>2 DEF Sqs!Push, c
  <1>4. V \in SUBSET Messages /\ A \in SUBSET Messages /\ hist.accepted \subseteq A
    BY <1>1 DEF SqsHists, SqsBrokers
  <1> HIDE DEF V, A
  <1>5. /\ broker' \in SqsBrokers /\ broker'.visible = V /\ broker'.leased = broker.leased
        /\ broker'.receipts = broker.receipts
    BY <1>2, <1>3, <1>4 DEF SqsBrokers
  <1>6. /\ hist' \in SqsHists /\ hist'.accepted = A /\ hist'.asked = hist.asked /\ hist'.unsure = hist.unsure
        /\ hist'.cleared = hist.cleared /\ hist'.holder = hist.holder
    BY <1>1, <1>3, <1>4 DEF SqsHists
  <1>7. SqsTypes'
    BY <1>2, <1>3, <1>5, <1>6 DEF SqsInv, SqsTypes
  <1>8. \A t : LeaseIsNewest(t) => LeaseIsNewest(t)'
    BY <1>4, <1>5, <1>6, LeasesShrink
  <1>9. LeasedOnce'
    BY <1>3, <1>5, <1>6 DEF SqsInv, LeasedOnce, V, A
  <1>10. SqsOperation'
    BY <1>1, <1>2, <1>3, <1>5, <1>6, <1>8, SqsMeetsNoPurge DEF SqsOperation
  <1>11. ContractStep
    <2>1. \A n : Stored(n)' <=> Stored(n) \/ (stored /\ n = m)
      BY <1>5 DEF Stored, V
    <2>2. Gone' = Gone
      BY <1>3, <1>6, <2>1, SqsMapped, SqsMappedNext DEF A
    <2>3. Accepted = hist.accepted /\ Accepted' = A /\ Asked' = Asked /\ Unsure' = Unsure /\ Cleared' = Cleared
      BY <1>6, SqsMapped, SqsMappedNext
    <2> QED BY <1>3, <2>2, <2>3, PromisesPush, NoPromise DEF A
  <1>12. hist'.cleared \subseteq hist'.accepted
    BY <1>4, <1>6 DEF SqsInv
  <1> QED BY <1>3, <1>7, <1>8, <1>9, <1>10, <1>11, <1>12 DEF SqsInv

LEMMA SqsReceive ==
  ASSUME SqsInv, which = "sqs", which' = which, NEW m \in Messages, NEW issueToken \in BOOLEAN,
         Sqs!Receive(m, issueToken)
  PROVE  SqsInv' /\ ContractStep
  <1> DEFINE c == Sqs!Created(broker)
             d == [msg |-> m, receipt |-> broker.receipts + 1]
  <1>1. /\ Sqs!QueueUrl /\ Sqs!OperationMayRun /\ hist \in SqsHists /\ broker \in SqsBrokers
        /\ table \in SqsTables /\ conn \in SqsConns /\ tokens \in SUBSET SqsTokens
    BY DEF Sqs!Receive, SqsInv, SqsTypes
  <1>2. /\ conn.generation # 0 /\ Sqs!Resolved \in SqsConns
        /\ c \in SqsBrokers /\ c.visible = broker.visible /\ c.leased = broker.leased
        /\ c.receipts = broker.receipts
    BY <1>1, SqsQueueUrl
  <1> HIDE DEF c
  <1>3. broker.receipts + 1 \in Nat /\ broker.receipts \in Nat
    BY <1>1 DEF SqsBrokers
  <1>4. d \in Leases /\ d.msg = m /\ d.receipt = broker.receipts + 1
    BY <1>3 DEF Leases
  <1>5. [generation |-> conn.generation, epoch |-> table.epoch, lease |-> d] \in SqsTokens
    BY <1>1, <1>4 DEF SqsTokens, SqsConns, SqsTables
  <1>6. PICK t \in SqsTokens : t = [generation |-> conn.generation, epoch |-> table.epoch, lease |-> d]
    BY <1>5
  <1> DEFINE del == IF ~issueToken THEN [table.deliveries EXCEPT !.last = {t}]
                    ELSE IF Sqs!Cardinality(table.deliveries.inFlight) < MaxInFlight
                         THEN [table.deliveries EXCEPT !.inFlight = table.deliveries.inFlight \union {t}]
                         ELSE table.deliveries
  <1>20. /\ m \in broker.visible /\ conn' = Sqs!Resolved
         /\ broker' = [c EXCEPT !.visible = @ \ {m}, !.leased = @ \union {d}, !.receipts = @ + 1]
         /\ tokens' = (IF issueToken THEN tokens \union {t} ELSE tokens)
         /\ hist' = [hist EXCEPT !.asked = @ \ {m}, !.holder[m] = {t}] /\ op' = op
    BY <1>6, Zenon DEF Sqs!Receive, c
  <1>21. table' = [table EXCEPT !.deliveries = del]
    BY <1>6, Zenon DEF Sqs!Receive
  <1>22. t.lease = d
    BY <1>6
  <1> HIDE DEF d
  <1>7. /\ del \in [inFlight : SUBSET SqsTokens, last : SUBSET SqsTokens]
        /\ del.last \subseteq table.deliveries.last \union {t}
    <2>1. table.deliveries \in [inFlight : SUBSET SqsTokens, last : SUBSET SqsTokens]
      BY <1>1 DEF SqsTables
    <2> QED BY <1>22, <2>1
  <1> HIDE DEF del
  <1>8. /\ table' \in SqsTables /\ table'.deliveries.last \subseteq table.deliveries.last \union {t}
    BY <1>1, <1>20, <1>21, <1>7 DEF SqsTables
  <1>9. /\ broker' \in SqsBrokers /\ broker'.visible = broker.visible \ {m}
        /\ broker'.leased = broker.leased \union {d} /\ broker'.receipts = broker.receipts + 1
    BY <1>2, <1>20, <1>21, <1>3, <1>4 DEF SqsBrokers
  <1>10. /\ hist' \in SqsHists /\ hist'.accepted = hist.accepted /\ hist'.asked = hist.asked \ {m}
         /\ hist'.unsure = hist.unsure /\ hist'.cleared = hist.cleared
         /\ hist'.holder[m] = {t} /\ \A n \in Messages : n # m => hist'.holder[n] = hist.holder[n]
    BY <1>1, <1>20, <1>21, <1>22 DEF SqsHists
  <1>11. tokens' \subseteq tokens \union {t} /\ tokens' \in SUBSET SqsTokens
    BY <1>1, <1>20, <1>21, <1>22
  <1>12. SqsTypes'
    BY <1>2, <1>20, <1>21, <1>8, <1>9, <1>10, <1>11 DEF SqsTypes
  <1>13. \A s \in SqsTokens : LeaseIsNewest(s) =>
           LeaseIsNewest(s)' /\ s.lease # d /\ (s.lease \in broker.leased => s.lease.msg # m)
    <2>1. \A s \in SqsTokens : s.lease \in Leases
      BY DEF SqsTokens
    <2>2. LeasedOnce /\ hist.holder \in [Messages -> SUBSET SqsTokens]
      BY <1>1 DEF SqsInv, SqsHists
    <2> QED BY <1>20, <1>21, <1>3, <1>4, <1>9, <1>10, <2>1, <2>2, LeaseAdded
  <1>14. m \in hist.accepted
    BY <1>20, <1>21 DEF SqsInv, LeasedOnce
  <1>15. LeaseIsNewest(t)'
    BY <1>3, <1>4, <1>22, <1>9, <1>10, <1>14 DEF LeaseIsNewest
  <1>16. LeasedOnce'
    <2>1. broker'.visible \subseteq hist'.accepted
      BY <1>9, <1>10 DEF SqsInv, LeasedOnce
    <2>2. \A e \in broker'.leased : /\ e.msg \in hist'.accepted /\ e.msg \notin broker'.visible
                                    /\ e.receipt <= broker'.receipts
      <3> SUFFICES ASSUME NEW e \in broker'.leased
                   PROVE  /\ e.msg \in hist'.accepted /\ e.msg \notin broker'.visible
                          /\ e.receipt <= broker'.receipts
        OBVIOUS
      <3>1. e.receipt \in Nat
        BY <1>1, <1>4, <1>9 DEF SqsBrokers, Leases
      <3> QED BY <1>3, <1>4, <1>9, <1>10, <1>14, <3>1 DEF SqsInv, LeasedOnce
    <2>3. \A e, f \in broker'.leased : e.msg = f.msg => e = f
      BY <1>20, <1>21, <1>4, <1>9 DEF SqsInv, LeasedOnce
    <2> QED BY <2>1, <2>2, <2>3 DEF LeasedOnce
  <1>17. SqsOperation'
    <2>1. CASE op = [kind |-> "idle"]
      BY <1>20, <1>21, <2>1 DEF SqsOperation
    <2>2. CASE op # [kind |-> "idle"]
      <3>1. /\ op \in [kind : {"settle"}, token : SqsTokens, ack : BOOLEAN] /\ LeaseIsNewest(op.token)
            /\ op.ack /\ op.token.lease \in broker.leased => op.token.lease.msg \in hist.asked
        BY <1>1, <1>2, <2>2, SqsMeetsNoPurge
      <3>2. op.token \in SqsTokens
        BY <3>1
      <3>3. /\ LeaseIsNewest(op.token)' /\ op.token.lease # d
            /\ (op.token.lease \in broker.leased => op.token.lease.msg # m)
        BY <1>13, <1>20, <3>1, <3>2
      <3>4. op.ack /\ op.token.lease \in broker'.leased => op.token.lease.msg \in hist'.asked
        BY <1>9, <1>10, <3>1, <3>3
      <3> QED BY <1>20, <1>21, <3>1, <3>3, <3>4 DEF SqsOperation
    <2> QED BY <2>1, <2>2
  <1>18. \A s \in tokens' \union table'.deliveries.last : LeaseIsNewest(s)'
    <2>1. table.deliveries.last \subseteq SqsTokens /\ tokens \subseteq SqsTokens
      BY <1>1 DEF SqsTables
    <2> QED BY <1>8, <1>11, <1>13, <1>15, <2>1 DEF SqsInv
  <1>19. ContractStep
    <2>1. \A n : Stored(n)' <=> Stored(n)
      BY <1>20, <1>21, <1>4, <1>9 DEF Stored
    <2>2. /\ Gone' = Gone /\ Accepted' = Accepted /\ Asked' = Asked \ {m} /\ Unsure' = Unsure /\ Cleared' = Cleared
          /\ m \in Accepted /\ m \notin Gone
      <3>1. Stored(m)
        BY <1>20, <1>21 DEF Stored
      <3> QED BY <1>10, <1>14, <2>1, <3>1, SqsMapped, SqsMappedNext
    <2> QED BY <2>2, PromisesDeliver
  <1> QED BY <1>10, <1>12, <1>16, <1>17, <1>18, <1>19 DEF SqsInv

LEMMA SqsTimeout ==
  ASSUME SqsInv, which = "sqs", which' = which, NEW d \in broker.leased, Sqs!VisibilityTimeoutEnds(d)
  PROVE  SqsInv' /\ ContractStep
  <1>1. /\ broker \in SqsBrokers /\ UNCHANGED <<conn, table, tokens, op, hist>>
        /\ broker' = [broker EXCEPT !.leased = @ \ {d}, !.visible = @ \union {d.msg}]
    BY DEF Sqs!VisibilityTimeoutEnds, SqsInv, SqsTypes
  <1>2. d.msg \in Messages
    BY <1>1 DEF SqsBrokers, Leases
  <1>3. /\ broker' \in SqsBrokers /\ broker'.visible = broker.visible \union {d.msg}
        /\ broker'.leased = broker.leased \ {d} /\ broker'.receipts = broker.receipts
    BY <1>1, <1>2 DEF SqsBrokers
  <1>4. SqsTypes'
    BY <1>1, <1>3 DEF SqsInv, SqsTypes
  <1>5. \A t : LeaseIsNewest(t) => LeaseIsNewest(t)'
    BY <1>1, <1>3, LeasesShrink
  <1>6. LeasedOnce'
    BY <1>1, <1>3 DEF SqsInv, LeasedOnce
  <1>7. SqsOperation'
    BY <1>1, <1>3, <1>5 DEF SqsInv, SqsOperation
  <1>8. \A n : Stored(n)' <=> Stored(n)
    BY <1>3 DEF Stored
  <1>9. ContractStep
    BY <1>1, <1>8, SqsSame
  <1> QED BY <1>1, <1>4, <1>5, <1>6, <1>7, <1>9 DEF SqsInv


\* The tables forget a settled token.
LEMMA SqsForgotten ==
  ASSUME table \in SqsTables, NEW t \in SqsTokens
  PROVE  /\ Sqs!Forgotten(t) \in SqsTables
         /\ Sqs!Forgotten(t).deliveries.last \subseteq table.deliveries.last
  <1>1. table.deliveries \in [inFlight : SUBSET SqsTokens, last : SUBSET SqsTokens]
    BY DEF SqsTables
  <1> QED BY <1>1 DEF Sqs!Forgotten, SqsTables

\* The end of a lease: the message leaves, or is visible again.
LEMMA SqsLeaseEnds ==
  ASSUME SqsInv, NEW t \in SqsTokens
  PROVE  LET a == Sqs!Deleted(t)
             n == Sqs!Released(t)
             B == {d.msg : d \in broker.leased \intersect {t.lease}}
         IN  /\ a \in SqsBrokers /\ a.visible = broker.visible /\ a.leased = broker.leased \ {t.lease}
             /\ a.receipts = broker.receipts
             /\ n \in SqsBrokers /\ n.visible = broker.visible \union B /\ n.receipts = broker.receipts
             /\ n.leased = broker.leased \ {t.lease}
  <1> DEFINE B == {d.msg : d \in broker.leased \intersect {t.lease}}
  <1>1. broker \in SqsBrokers
    BY DEF SqsInv, SqsTypes
  <1>2. B \in SUBSET Messages
    BY <1>1 DEF SqsBrokers, Leases
  <1>3. Sqs!Released(t) = [broker EXCEPT !.leased = @ \ {t.lease}, !.visible = @ \union B]
    BY DEF Sqs!Released
  <1> HIDE DEF B
  <1>4. /\ Sqs!Released(t) \in SqsBrokers /\ Sqs!Released(t).visible = broker.visible \union B
        /\ Sqs!Released(t).receipts = broker.receipts /\ Sqs!Released(t).leased = broker.leased \ {t.lease}
    BY <1>1, <1>2, <1>3 DEF SqsBrokers
  <1>5. /\ Sqs!Deleted(t) \in SqsBrokers /\ Sqs!Deleted(t).visible = broker.visible
        /\ Sqs!Deleted(t).leased = broker.leased \ {t.lease} /\ Sqs!Deleted(t).receipts = broker.receipts
    BY <1>1 DEF Sqs!Deleted, SqsBrokers
  <1>6. QED BY <1>4, <1>5 DEF B

LEMMA SqsSettleBegin ==
  ASSUME SqsInv, which = "sqs", which' = which, NEW t \in tokens \union table.deliveries.last,
         NEW ack \in BOOLEAN, Sqs!SettleBegin(t, ack)
  PROVE  SqsInv' /\ ContractStep
  <1>1. t \in SqsTokens /\ LeaseIsNewest(t)
    BY DEF SqsInv, SqsTypes, SqsTables
  <1>2. /\ UNCHANGED <<conn, broker, table, tokens>> /\ op' = [kind |-> "settle", token |-> t, ack |-> ack]
        /\ hist' = IF ack THEN [hist EXCEPT !.asked = Sqs!Asks(t)] ELSE hist
    BY DEF Sqs!SettleBegin
  <1>3. /\ op' \in [kind : {"settle"}, token : SqsTokens, ack : BOOLEAN] /\ op'.token = t /\ (op'.ack <=> ack)
    BY <1>1, <1>2
  <1>4. /\ ContractStep /\ hist' \in SqsHists /\ hist'.accepted = hist.accepted
        /\ hist'.cleared = hist.cleared /\ hist'.holder = hist.holder
        /\ ack /\ t \in hist.holder[t.lease.msg] => t.lease.msg \in hist'.asked
    <2>1. CASE ack
      <3>1. t.lease.msg \in hist.accepted
        BY <1>1 DEF LeaseIsNewest
      <3> QED BY <1>1, <1>2, <2>1, <3>1, SqsAsks
    <2>2. CASE ~ack
      <3>1. \A n : Stored(n)' <=> Stored(n)
        BY <1>2 DEF Stored
      <3> QED BY <1>2, <2>2, <3>1, SqsSame DEF SqsInv, SqsTypes
    <2> QED BY <2>1, <2>2
  <1>5. \A s : LeaseIsNewest(s) => LeaseIsNewest(s)'
    BY <1>2, <1>4, LeasesShrink
  <1>6. SqsTypes' /\ LeasedOnce'
    BY <1>2, <1>4 DEF SqsInv, SqsTypes, LeasedOnce
  <1>7. SqsOperation'
    <2>1. LeaseIsNewest(op.token)'
      BY <1>1, <1>3, <1>5
    <2>2. op'.ack /\ op'.token.lease \in broker'.leased => op'.token.lease.msg \in hist'.asked
      BY <1>1, <1>2, <1>3, <1>4 DEF LeaseIsNewest
    <2> QED BY <1>3, <2>1, <2>2 DEF SqsOperation
  <1> QED BY <1>2, <1>4, <1>5, <1>6, <1>7 DEF SqsInv

LEMMA SqsSettleStale ==
  ASSUME SqsInv, which = "sqs", which' = which, NEW t \in tokens \union table.deliveries.last,
         NEW ack \in BOOLEAN, Sqs!SettleStale(t, ack)
  PROVE  SqsInv' /\ ContractStep
  <1>1. t \in SqsTokens /\ LeaseIsNewest(t) /\ table \in SqsTables
    BY DEF SqsInv, SqsTypes, SqsTables
  <1>2. /\ UNCHANGED <<conn, broker, tokens, op>> /\ table' = Sqs!Forgotten(t) /\ op = [kind |-> "idle"]
        /\ hist' = IF ack THEN [hist EXCEPT !.asked = Sqs!Asks(t)] ELSE hist
    BY DEF Sqs!SettleStale, Sqs!Idle
  <1>3. /\ ContractStep /\ hist' \in SqsHists /\ hist'.accepted = hist.accepted
        /\ hist'.cleared = hist.cleared /\ hist'.holder = hist.holder
    <2>1. CASE ack
      <3>1. t.lease.msg \in hist.accepted
        BY <1>1 DEF LeaseIsNewest
      <3> QED BY <1>1, <1>2, <2>1, <3>1, SqsAsks
    <2>2. CASE ~ack
      <3>1. \A n : Stored(n)' <=> Stored(n)
        BY <1>2 DEF Stored
      <3> QED BY <1>2, <2>2, <3>1, SqsSame DEF SqsInv, SqsTypes
    <2> QED BY <2>1, <2>2
  <1>4. table' \in SqsTables /\ table'.deliveries.last \subseteq table.deliveries.last
    BY <1>1, <1>2, SqsForgotten
  <1>5. \A s : LeaseIsNewest(s) => LeaseIsNewest(s)'
    BY <1>2, <1>3, LeasesShrink
  <1>6. SqsTypes' /\ LeasedOnce'
    BY <1>2, <1>3, <1>4 DEF SqsInv, SqsTypes, LeasedOnce
  <1>7. SqsOperation'
    BY <1>2 DEF SqsOperation
  <1> QED BY <1>2, <1>3, <1>4, <1>5, <1>6, <1>7 DEF SqsInv

LEMMA SqsSettled ==
  ASSUME SqsInv, which = "sqs", which' = which,
         Sqs!SettleEnd \/ \E taken \in BOOLEAN : Sqs!SettleFails(taken)
  PROVE  SqsInv' /\ ContractStep
  <1>1. /\ op \in [kind : {"settle"}, token : SqsTokens, ack : BOOLEAN] /\ LeaseIsNewest(op.token)
        /\ op.ack /\ op.token.lease \in broker.leased => op.token.lease.msg \in hist.asked
    BY DEF SqsInv, SqsOperation, Sqs!SettleEnd, Sqs!SettleFails
  <1>2. PICK t \in SqsTokens : t = op.token
    BY <1>1
  <1> DEFINE m == t.lease.msg
  <1>3. op' = [kind |-> "idle"] /\ UNCHANGED <<conn, tokens>>
    BY DEF Sqs!SettleEnd, Sqs!SettleFails, Sqs!Idle
  <1>4. /\ broker' \in SqsBrokers /\ broker'.leased \subseteq broker.leased
        /\ broker'.receipts = broker.receipts
        /\ broker'.visible \subseteq broker.visible \union {d.msg : d \in broker.leased \ broker'.leased}
        /\ \/ \A n : Stored(n)' <=> Stored(n)
           \/ op.ack /\ t.lease \in broker.leased /\ \A n : Stored(n)' <=> Stored(n) /\ n # m
    <2>1. CASE broker' = broker
      BY <2>1 DEF SqsInv, SqsTypes, Stored
    <2>2. CASE broker' = Sqs!Deleted(t) /\ op.ack
      <3>1. /\ broker' \in SqsBrokers /\ broker'.visible = broker.visible
            /\ broker'.leased = broker.leased \ {t.lease} /\ broker'.receipts = broker.receipts
        BY <2>2, SqsLeaseEnds
      <3>2. CASE t.lease \in broker.leased
        <4>1. \A n : Stored(n)' <=> Stored(n) /\ n # m
          BY <1>2, <3>1, <3>2 DEF Stored, SqsInv, LeasedOnce
        <4> QED BY <2>2, <3>1, <3>2, <4>1
      <3>3. CASE t.lease \notin broker.leased
        <4>1. \A n : Stored(n)' <=> Stored(n)
          BY <3>1, <3>3 DEF Stored
        <4> QED BY <3>1, <4>1
      <3> QED BY <3>2, <3>3
    <2>3. CASE broker' = Sqs!Released(t)
      <3> DEFINE B == {d.msg : d \in broker.leased \intersect {t.lease}}
      <3>1. /\ broker' \in SqsBrokers /\ broker'.visible = broker.visible \union B
            /\ broker'.leased = broker.leased \ {t.lease} /\ broker'.receipts = broker.receipts
        BY <2>3, SqsLeaseEnds
      <3>2. \A n : Stored(n)' <=> Stored(n)
        BY <3>1 DEF Stored
      <3>3. B \subseteq {d.msg : d \in broker.leased \ broker'.leased}
        BY <3>1
      <3> QED BY <3>1, <3>2, <3>3
    <2> QED BY <1>1, <1>2, <2>1, <2>2, <2>3 DEF Sqs!SettleEnd, Sqs!SettleFails
  <1>5. table' \in SqsTables /\ table'.deliveries.last \subseteq table.deliveries.last
    BY <1>2, SqsForgotten DEF Sqs!SettleEnd, Sqs!SettleFails, SqsInv, SqsTypes
  <1>6. m \in Messages /\ m \in hist.accepted
    BY <1>1, <1>2 DEF SqsTokens, Leases, LeaseIsNewest
  <1>7. PICK U \in SUBSET Messages : /\ hist' = [hist EXCEPT !.unsure = U]
                                     /\ U = hist.unsure \/ (broker' # broker /\ U = hist.unsure \union {m})
    <2>1. hist \in SqsHists
      BY DEF SqsInv, SqsTypes
    <2>2. CASE hist' = hist
      <3>1. hist = [hist EXCEPT !.unsure = hist.unsure] /\ hist.unsure \in SUBSET Messages
        BY <2>1 DEF SqsHists
      <3> QED BY <2>2, <3>1
    <2>3. CASE \E taken \in BOOLEAN : Sqs!SettleFails(taken)
      <3> DEFINE W == IF broker' # broker THEN hist.unsure \union {m} ELSE hist.unsure
      <3>1. hist' = [hist EXCEPT !.unsure = W]
        BY <1>2, <2>3 DEF Sqs!SettleFails
      <3>2. W \in SUBSET Messages
        BY <1>6, <2>1 DEF SqsHists
      <3> QED BY <3>1, <3>2
    <2> QED BY <2>2, <2>3 DEF Sqs!SettleEnd
  <1>8. /\ hist' \in SqsHists /\ hist'.accepted = hist.accepted /\ hist'.asked = hist.asked
        /\ hist'.cleared = hist.cleared /\ hist'.holder = hist.holder /\ hist'.unsure = U
    BY <1>7 DEF SqsHists, SqsInv, SqsTypes
  <1>9. \A s : LeaseIsNewest(s) => LeaseIsNewest(s)'
    BY <1>4, <1>8, LeasesShrink
  <1>10. SqsTypes'
    BY <1>3, <1>4, <1>5, <1>8 DEF SqsInv, SqsTypes
  <1>11. LeasedOnce'
    BY <1>4, <1>8, LeasesEnd DEF SqsInv
  <1>12. SqsOperation'
    BY <1>3 DEF SqsOperation
  <1>13. ContractStep
    <2>1. Accepted' = Accepted /\ Asked' = Asked /\ Cleared' = Cleared /\ Asked = hist.asked /\ Unsure' = U /\ Unsure = hist.unsure
      BY <1>8, SqsMapped, SqsMappedNext
    <2>2. CASE \A n : Stored(n)' <=> Stored(n)
      <3>1. Gone' = Gone
        BY <1>8, <2>2, SqsMapped, SqsMappedNext
      <3>2. U = hist.unsure
        <4>1. CASE broker' = broker
          BY <1>7, <4>1
        <4>2. CASE broker' # broker /\ ~\E taken \in BOOLEAN : Sqs!SettleFails(taken)
          <5>1. hist' = hist
            BY <4>2 DEF Sqs!SettleEnd
          <5> QED BY <1>8, <5>1
        <4>3. CASE broker' # broker /\ \E taken \in BOOLEAN : Sqs!SettleFails(taken)
          <5>1. broker' = Sqs!Deleted(t) /\ op.ack
            BY <1>2, <4>3 DEF Sqs!SettleFails
          <5>2. broker'.leased = broker.leased \ {t.lease} /\ broker'.visible = broker.visible
            BY <5>1, SqsLeaseEnds
          <5>3. t.lease \in broker.leased
            <6>1. SUFFICES ASSUME t.lease \notin broker.leased PROVE FALSE
              OBVIOUS
            <6>2. broker.leased \ {t.lease} = broker.leased
              BY <6>1
            <6>3. Sqs!Deleted(t) = broker
              BY <6>2 DEF Sqs!Deleted, SqsInv, SqsTypes, SqsBrokers
            <6> QED BY <4>3, <5>1, <6>3
          <5>4. Stored(m)
            BY <1>2, <5>3 DEF Stored
          <5>5. ~Stored(m)'
            BY <1>2, <5>2, <5>3 DEF Stored, SqsInv, LeasedOnce
          <5> QED BY <2>2, <5>4, <5>5
        <4> QED BY <4>1, <4>2, <4>3
      <3> QED BY <2>1, <3>1, <3>2, NoPromise
    <2>3. CASE op.ack /\ t.lease \in broker.leased /\ \A n : Stored(n)' <=> Stored(n) /\ n # m
      <3> DEFINE S == {m}
                 back == {}
      <3>1. Gone' = Gone \union S
        BY <1>6, <1>8, <2>3, SqsMapped, SqsMappedNext
      <3>2. S \subseteq Asked /\ S \in SUBSET Messages /\ back \in SUBSET Messages /\ back \subseteq Unsure
        BY <1>1, <1>2, <1>6, <2>1, <2>3
      <3>3. Unsure' \in {Unsure, Unsure \union S}
        BY <1>7, <2>1
      <3>4. Gone' = (Gone \ back) \union S
        BY <3>1
      <3> HIDE DEF S, back
      <3> QED BY <2>1, <3>2, <3>3, <3>4, PromisesSettle
    <2> QED BY <1>4, <2>2, <2>3
  <1> QED BY <1>3, <1>5, <1>8, <1>9, <1>10, <1>11, <1>12, <1>13 DEF SqsInv

LEMMA SqsClear ==
  ASSUME SqsInv, which = "sqs", which' = which,
         Sqs!ClearBegin \/ \E purged \in BOOLEAN : Sqs!ClearEnd(purged)
  PROVE  SqsInv' /\ ContractStep
  <1>1. hist \in SqsHists /\ broker \in SqsBrokers /\ table \in SqsTables /\ conn \in SqsConns
    BY DEF SqsInv, SqsTypes
  <1>2. CASE Sqs!ClearBegin
    <2> DEFINE c == Sqs!Created(broker)
               A == hist.cleared \union hist.accepted
    <2>1. /\ conn.generation # 0 /\ Sqs!Resolved \in SqsConns /\ Sqs!Resolved.generation = conn.generation
          /\ c \in SqsBrokers /\ c.visible = broker.visible /\ c.leased = broker.leased
          /\ c.receipts = broker.receipts
      BY <1>2, SqsQueueUrl DEF Sqs!ClearBegin
    <2> HIDE DEF c
    <2>2. /\ conn' = Sqs!Resolved /\ broker' = c /\ UNCHANGED tokens
          /\ table' = [table EXCEPT !.epoch = @ + 1, !.deliveries = [inFlight |-> {}, last |-> {}]]
          /\ op' = [kind |-> "clear", generation |-> conn.generation]
          /\ hist' = [hist EXCEPT !.cleared = A]
      BY <1>2 DEF Sqs!ClearBegin, Sqs!NoDeliveries, c
    <2>3. A \in SUBSET Messages /\ A = hist.accepted
      BY <1>1 DEF SqsHists, SqsInv
    <2> HIDE DEF A
    <2>4. /\ hist' \in SqsHists /\ hist'.accepted = hist.accepted /\ hist'.asked = hist.asked
          /\ hist'.cleared = hist.accepted /\ hist'.holder = hist.holder /\ hist'.unsure = hist.unsure
      BY <1>1, <2>2, <2>3 DEF SqsHists
    <2>5. table.epoch + 1 \in Nat
      BY <1>1 DEF SqsTables
    <2>6. table' \in SqsTables /\ table'.deliveries.last = {}
      BY <1>1, <2>2, <2>5 DEF SqsTables
    <2>7. op' \in [kind : {"clear"}, generation : Nat \ {0}] /\ op'.generation = conn'.generation
      BY <1>1, <2>1, <2>2 DEF SqsConns
    <2>8. SqsTypes' /\ LeasedOnce' /\ SqsOperation'
      BY <2>1, <2>2, <2>4, <2>6, <2>7 DEF SqsInv, SqsTypes, LeasedOnce, SqsOperation
    <2>9. \A s : LeaseIsNewest(s) => LeaseIsNewest(s)'
      BY <2>1, <2>2, <2>4, LeasesShrink
    <2>10. \A n : Stored(n)' <=> Stored(n)
      BY <2>1, <2>2 DEF Stored
    <2>11. /\ Gone' = Gone /\ Accepted' = Accepted /\ Asked' = Asked /\ Unsure' = Unsure
           /\ Cleared' = hist.accepted /\ Cleared = hist.cleared /\ Accepted = hist.accepted
      BY <2>4, <2>10, SqsMapped, SqsMappedNext
    <2>12. ContractStep
      <3> DEFINE C == hist.accepted
                 S == {}
      <3>1. /\ C \in SUBSET Messages /\ S \in SUBSET Messages /\ C \subseteq Accepted
            /\ S \subseteq Cleared \union C /\ Cleared' = Cleared \union C /\ Gone' = Gone \union S
        BY <1>1, <2>11 DEF SqsHists, SqsInv
      <3> HIDE DEF C, S
      <3> QED BY <2>11, <3>1, PromisesClear
    <2> QED BY <2>2, <2>4, <2>6, <2>8, <2>9, <2>12 DEF SqsInv
  <1>3. CASE \E purged \in BOOLEAN : Sqs!ClearEnd(purged)
    <2>1. op.kind = "clear" /\ op' = [kind |-> "idle"] /\ UNCHANGED <<conn, table, tokens, hist>>
      BY <1>3 DEF Sqs!ClearEnd, Sqs!Idle
    <2>2. hist.accepted \subseteq hist.cleared
      BY <2>1 DEF SqsInv, SqsOperation
    <2>3. SqsOperation'
      BY <2>1 DEF SqsOperation
    <2>4. CASE broker' = broker
      <3>1. \A n : Stored(n)' <=> Stored(n)
        BY <2>4 DEF Stored
      <3>2. ContractStep
        BY <2>1, <3>1, SqsSame
      <3>3. \A s : LeaseIsNewest(s) => LeaseIsNewest(s)'
        BY <2>1, <2>4, LeasesShrink
      <3>4. SqsTypes' /\ LeasedOnce'
        BY <2>1, <2>4 DEF SqsInv, SqsTypes, LeasedOnce
      <3> QED BY <2>1, <2>3, <3>2, <3>3, <3>4 DEF SqsInv
    <2>5. CASE broker' = [broker EXCEPT !.visible = {}, !.leased = {}]
      <3>1. /\ broker' \in SqsBrokers /\ broker'.visible = {} /\ broker'.leased = {}
            /\ broker'.receipts = broker.receipts
        BY <1>1, <2>5 DEF SqsBrokers
      <3>2. \A n : ~Stored(n)'
        BY <3>1 DEF Stored
      <3>3. \A s : LeaseIsNewest(s) => LeaseIsNewest(s)'
        BY <2>1, <3>1, LeasesShrink
      <3>4. SqsTypes' /\ LeasedOnce'
        BY <2>1, <3>1 DEF SqsInv, SqsTypes, LeasedOnce
      <3>5. ContractStep
        <4> DEFINE C == {}
                   S == hist.accepted
        <4>1. /\ Accepted' = Accepted /\ Asked' = Asked /\ Unsure' = Unsure /\ Cleared' = Cleared
              /\ Gone' = hist.accepted /\ Gone \subseteq hist.accepted /\ Cleared = hist.cleared
          BY <2>1, <3>2, SqsMapped, SqsMappedNext
        <4>2. /\ C \in SUBSET Messages /\ S \in SUBSET Messages /\ C \subseteq Accepted
              /\ S \subseteq Cleared \union C /\ Cleared' = Cleared \union C /\ Gone' = Gone \union S
          BY <1>1, <2>2, <4>1 DEF SqsHists
        <4> HIDE DEF C, S
        <4> QED BY <4>1, <4>2, PromisesClear
      <3> QED BY <2>1, <2>3, <3>3, <3>4, <3>5 DEF SqsInv
    <2> QED BY <1>3, <2>4, <2>5 DEF Sqs!ClearEnd
  <1> QED BY <1>2, <1>3

LEMMA SqsStart ==
  ASSUME Sqs!Init, which = "sqs"
  PROVE  SqsInv /\ Contract!Init
  <1>1. /\ conn \in [generation : {0}, made : {0}, leaving : {FALSE}, disconnects : {0},
                     resolved : {FALSE}, verifies : BOOLEAN]
        /\ broker \in [owner : {"absent", "ours", "other"}, visible : {{}}, leased : {{}}, receipts : {0}]
        /\ table = [deliveries |-> [inFlight |-> {}, last |-> {}], epoch |-> 0, settled |-> {}]
        /\ tokens = {} /\ op = [kind |-> "idle"]
        /\ hist = [accepted |-> {}, asked |-> {}, unsure |-> {}, cleared |-> {},
                   holder |-> [m \in Messages |-> {}]]
    BY DEF Sqs!Init, Sqs!NoGeneration, Sqs!NoDeliveries, Sqs!Idle
  <1>2. conn \in SqsConns /\ broker \in SqsBrokers
    <2>1. conn \in SqsConns
      <3>1. PICK v \in BOOLEAN : conn = [generation |-> 0, made |-> 0, leaving |-> FALSE, disconnects |-> 0,
                                         resolved |-> FALSE, verifies |-> v]
        BY <1>1, Zenon
      <3> QED BY <3>1 DEF SqsConns
    <2>2. broker \in SqsBrokers
      BY <1>1 DEF SqsBrokers
    <2> QED BY <2>1, <2>2
  <1>3. table \in SqsTables /\ hist \in SqsHists
    BY <1>1 DEF SqsTables, SqsHists
  <1>4. broker.visible = {} /\ broker.leased = {} /\ hist.accepted = {} /\ table.deliveries.last = {} /\ hist.cleared = {}
    BY <1>1
  <1>5. SqsTypes /\ LeasedOnce /\ SqsOperation
    BY <1>1, <1>2, <1>3, <1>4 DEF SqsTypes, LeasedOnce, SqsOperation
  <1>6. Contract!Init
    BY <1>1, <1>4, SqsMapped DEF Contract!Init
  <1> QED BY <1>1, <1>4, <1>5, <1>6 DEF SqsInv

LEMMA SqsStep ==
  ASSUME SqsInv, which = "sqs", which' = which, Sqs!Next
  PROVE  SqsInv' /\ ContractStep
  <1>1. CASE Sqs!Connect \/ Sqs!DisconnectBegin \/ Sqs!DisconnectEnd
    BY <1>1, SqsConnects
  <1>2. CASE \E m \in Messages, stored \in BOOLEAN : Sqs!Push(m, stored)
    BY <1>2, SqsPush
  <1>3. CASE \E m \in Messages : Sqs!Pop(m) \/ Sqs!PopWithAck(m)
    BY <1>3, SqsReceive DEF Sqs!Pop, Sqs!PopWithAck
  <1>4. CASE \E d \in broker.leased : Sqs!VisibilityTimeoutEnds(d)
    BY <1>4, SqsTimeout
  <1>5. CASE \E t \in tokens \union table.deliveries.last, ack \in BOOLEAN :
               Sqs!SettleBegin(t, ack) \/ Sqs!SettleStale(t, ack)
    BY <1>5, SqsSettleBegin, SqsSettleStale
  <1>6. CASE Sqs!SettleEnd \/ \E taken \in BOOLEAN : Sqs!SettleFails(taken)
    BY <1>6, SqsSettled
  <1>7. CASE Sqs!ClearBegin \/ \E purged \in BOOLEAN : Sqs!ClearEnd(purged)
    BY <1>7, SqsClear
  <1> QED BY <1>1, <1>2, <1>3, <1>4, <1>5, <1>6, <1>7 DEF Sqs!Next


----------------------------------------------------------------------------
(* RocketMQ, action by action. *)

LEMMA RocketMapped ==
  ASSUME which = "rocketmq"
  PROVE  /\ Accepted = hist.accepted /\ Asked = hist.asked /\ Unsure = hist.unsure
         /\ Cleared = {} /\ Gone = {m \in hist.accepted : ~Stored(m)}
  <1>1. /\ Accepted = hist.accepted /\ Asked = hist.asked /\ Unsure = hist.unsure
        /\ Cleared = {} /\ Gone = RocketMQ!Gone
    BY DEF Accepted, Asked, Unsure, Cleared, Gone, Stores
  <1> QED BY <1>1 DEF RocketMQ!Gone, Stored

LEMMA RocketMappedNext ==
  ASSUME which' = "rocketmq"
  PROVE  /\ Accepted' = hist'.accepted /\ Asked' = hist'.asked /\ Unsure' = hist'.unsure
         /\ Cleared' = {} /\ Gone' = {m \in hist'.accepted : ~Stored(m)'}
  <1>1. /\ Accepted' = hist'.accepted /\ Asked' = hist'.asked /\ Unsure' = hist'.unsure
        /\ Cleared' = {} /\ Gone' = RocketMQ!Gone'
    BY DEF Accepted, Asked, Unsure, Cleared, Gone, Stores
  <1> QED BY <1>1 DEF RocketMQ!Gone, Stored

\* What is stored stays, and nothing is asked for.
LEMMA RocketSame ==
  ASSUME which = "rocketmq", which' = which, hist' = hist, \A m : Stored(m)' <=> Stored(m)
  PROVE  ContractStep
  <1>1. Gone' = Gone /\ Accepted' = Accepted /\ Asked' = Asked /\ Unsure' = Unsure /\ Cleared' = Cleared
    BY RocketMapped, RocketMappedNext
  <1> QED BY <1>1, NoPromise

\* What RocketInv says of the values of its variables.
LEMMA RocketFacts ==
  ASSUME RocketInv
  PROVE  /\ broker.leased \subseteq Leases /\ broker.receipts \in Nat
         /\ conn.select.buffer \subseteq Leases
         /\ \A t \in tokens \union conn.last : t \in RocketTokens /\ t.lease \in Leases
         /\ op.kind = "pop" => op.got \subseteq Leases
         /\ \A d \in Leases : d.msg \in Messages /\ d.receipt \in Nat
  <1>1. broker.leased \subseteq Leases /\ broker.receipts \in Nat
    BY DEF RocketInv, RocketTypes, RocketBrokers
  <1>2. conn.select.buffer \in Singles /\ conn.last \subseteq RocketTokens /\ tokens \subseteq RocketTokens
    BY DEF RocketInv, RocketTypes, RocketConns, RocketSelects
  <1>3. op.kind = "pop" => op.got \in Singles
    BY DEF RocketInv, RocketOperation
  <1>4. \A t \in RocketTokens : t.lease \in Leases
    BY DEF RocketTokens
  <1> QED BY <1>1, <1>2, <1>3, <1>4 DEF Singles, Leases

\* A step that leases nothing and hands nothing out.
LEMMA RocketHandsOutNothing ==
  ASSUME RocketInv, RocketTypes', LeasedOnce', hist.accepted \subseteq hist'.accepted,
         hist'.holder = hist.holder, hist.asked \subseteq hist'.asked,
         broker'.leased \subseteq broker.leased, broker'.receipts = broker.receipts,
         broker.visible \subseteq broker'.visible, tokens' = tokens, conn'.last \subseteq conn.last,
         conn'.select.buffer \subseteq conn.select.buffer,
         RocketOperation', op' = op \/ op'.kind # "pop",
         \A e \in broker.leased \ broker'.leased :
           e.msg \in broker'.visible \/ \E t \in tokens \union conn.last : t.lease = e
  PROVE  RocketInv'
  <1>1. /\ broker.leased \subseteq Leases /\ conn.select.buffer \subseteq Leases
        /\ (\A t \in tokens \union conn.last : t.lease \in Leases)
        /\ (op.kind = "pop" => op.got \subseteq Leases)
        /\ \A d \in Leases : d.msg \in Messages /\ d.receipt \in Nat
    BY RocketFacts
  <1>2. \A d \in Leases : Waits(d) => Waits(d)'
    <2> SUFFICES ASSUME NEW d \in Leases, Waits(d)
                 PROVE  Waits(d)'
      OBVIOUS
    <2>1. d.msg \in hist'.accepted /\ d.receipt <= broker'.receipts
      BY DEF Waits
    <2>2. \A t \in tokens' \union conn'.last : t.lease.msg = d.msg => t.lease.receipt < d.receipt
      BY DEF Waits
    <2>3. d.msg \in broker'.visible \/ \E e \in broker'.leased : e.msg = d.msg /\ e.receipt >= d.receipt
      <3>1. CASE d.msg \in broker.visible
        BY <3>1
      <3>2. CASE \E e \in broker.leased : e.msg = d.msg /\ e.receipt >= d.receipt
        <4>1. PICK e \in broker.leased : e.msg = d.msg /\ e.receipt >= d.receipt
          BY <3>2
        <4>2. ~\E t \in tokens \union conn.last : t.lease = e
          BY <1>1, <4>1 DEF Waits
        <4> QED BY <4>1, <4>2
      <3> QED BY <3>1, <3>2 DEF Waits
    <2> QED BY <2>1, <2>2, <2>3 DEF Waits
  <1>3. InOrder'
    <2>1. \A d \in conn'.select.buffer : Waits(d)'
      BY <1>1, <1>2 DEF RocketInv, InOrder
    <2>2. CASE op'.kind = "pop"
      <3>1. op' = op
        BY <2>2
      <3>2. \A d \in op'.got : Waits(d)'
        BY <1>1, <1>2, <2>2, <3>1 DEF RocketInv, InOrder
      <3>3. \A d \in op'.got, e \in conn'.select.buffer : d.receipt < e.receipt
        BY <2>2, <3>1 DEF RocketInv, InOrder
      <3> QED BY <2>1, <3>2, <3>3 DEF InOrder
    <2> QED BY <2>1, <2>2 DEF InOrder
  <1>4. \A t \in tokens' \union conn'.last : LeaseIsNewest(t)'
    BY LeasesShrink DEF RocketInv
  <1> QED BY <1>3, <1>4 DEF RocketInv

\* The same, for an operation that goes on, ends or connects.
LEMMA RocketQuiet ==
  ASSUME RocketInv, RocketTypes', LeasedOnce', hist.accepted \subseteq hist'.accepted,
         hist'.holder = hist.holder, hist.asked \subseteq hist'.asked,
         broker'.leased \subseteq broker.leased, broker'.receipts = broker.receipts,
         broker.visible \subseteq broker'.visible, tokens' = tokens, conn'.last \subseteq conn.last,
         conn'.select.buffer \subseteq conn.select.buffer,
         op' = op \/ op' = [kind |-> "idle"] \/ op' \in [kind : {"connect"}, epoch : Nat],
         \A e \in broker.leased \ broker'.leased :
           e.msg \in broker'.visible \/ \E t \in tokens \union conn.last : t.lease = e
  PROVE  RocketInv'
  <1>1. RocketOperation'
    <2>1. CASE op' = op
      <3>1. CASE op \in [kind : {"settle"}, token : RocketTokens, ack : BOOLEAN]
        BY <2>1, <3>1 DEF RocketInv, RocketOperation
      <3>2. CASE op \notin [kind : {"settle"}, token : RocketTokens, ack : BOOLEAN]
        BY <2>1, <3>2 DEF RocketInv, RocketOperation
      <3> QED BY <3>1, <3>2
    <2>2. CASE op' = [kind |-> "idle"] \/ op' \in [kind : {"connect"}, epoch : Nat]
      BY <2>2 DEF RocketOperation
    <2> QED BY <2>1, <2>2
  <1>2. op' = op \/ op'.kind # "pop"
    OBVIOUS
  <1> QED BY <1>1, <1>2, RocketHandsOutNothing

\* The same, when the server's side does not change either.
LEMMA RocketLocal ==
  ASSUME RocketInv, which = "rocketmq", which' = which, UNCHANGED <<broker, tokens, hist>>,
         conn' \in RocketConns, conn'.last \subseteq conn.last,
         conn'.select.buffer \subseteq conn.select.buffer,
         op' = op \/ op' = [kind |-> "idle"] \/ op' \in [kind : {"connect"}, epoch : Nat]
  PROVE  RocketInv' /\ ContractStep
  <1>1. RocketTypes' /\ LeasedOnce'
    BY DEF RocketInv, RocketTypes, LeasedOnce
  <1>2. RocketInv'
    BY <1>1, RocketQuiet
  <1>3. \A m : Stored(m)' <=> Stored(m)
    BY DEF Stored
  <1>4. ContractStep
    BY <1>3, RocketSame
  <1> QED BY <1>2, <1>4

LEMMA RocketConnects ==
  ASSUME RocketInv, which = "rocketmq", which' = which,
         \/ RocketMQ!ConnectBegin \/ RocketMQ!ConnectDone \/ RocketMQ!ConnectAborted
         \/ RocketMQ!DisconnectBegin \/ RocketMQ!Disconnect \/ RocketMQ!PopDrops
  PROVE  RocketInv' /\ ContractStep
  <1>1. conn \in RocketConns
    BY DEF RocketInv, RocketTypes
  <1>2. conn.epoch \in Nat /\ conn.epoch + 1 \in Nat /\ conn.generation + 1 \in Nat /\ conn.select \in RocketSelects
    BY <1>1 DEF RocketConns
  <1>3. UNCHANGED <<broker, tokens, hist>>
    BY DEF RocketMQ!ConnectBegin, RocketMQ!ConnectDone, RocketMQ!ConnectAborted, RocketMQ!DisconnectBegin,
       RocketMQ!Disconnect, RocketMQ!PopDrops
  <1>4. op' = op \/ op' = [kind |-> "idle"] \/ op' \in [kind : {"connect"}, epoch : Nat]
    BY <1>2 DEF RocketMQ!ConnectBegin, RocketMQ!ConnectDone, RocketMQ!ConnectAborted, RocketMQ!DisconnectBegin,
       RocketMQ!Disconnect, RocketMQ!PopDrops, RocketMQ!Idle
  <1>5. /\ conn' \in RocketConns /\ conn'.last \subseteq conn.last
        /\ conn'.select.buffer \subseteq conn.select.buffer
    <2>1. CASE conn' = conn
      BY <1>1, <2>1
    <2>2. CASE RocketMQ!ConnectDone
      <3>1. conn' = [conn EXCEPT !.generation = @ + 1, !.consumer = conn.generation + 1]
        BY <2>2 DEF RocketMQ!ConnectDone
      <3> QED BY <1>1, <1>2, <3>1 DEF RocketConns
    <2>3. CASE RocketMQ!DisconnectBegin
      <3>1. conn' = [conn EXCEPT !.epoch = @ + 1, !.leaving = TRUE]
        BY <2>3 DEF RocketMQ!DisconnectBegin
      <3> QED BY <1>1, <1>2, <3>1 DEF RocketConns
    <2>4. CASE RocketMQ!Disconnect
      <3> DEFINE s == RocketMQ!NoSelection
      <3>1. s = [consumer |-> 0, buffer |-> {}, demand |-> 0, failed |-> FALSE]
        BY DEF RocketMQ!NoSelection, RocketMQ!NoConsumer
      <3>2. s \in RocketSelects /\ s.buffer = {}
        BY <3>1 DEF RocketSelects, Singles
      <3>3. conn' = [conn EXCEPT !.leaving = FALSE, !.consumer = 0, !.generation = @ + 1, !.select = s, !.last = {}]
        BY <2>4 DEF RocketMQ!Disconnect, RocketMQ!NoConsumer
      <3> HIDE DEF s
      <3>4. conn' \in RocketConns /\ conn'.last = {} /\ conn'.select = s
        BY <1>1, <1>2, <3>2, <3>3 DEF RocketConns
      <3> QED BY <3>2, <3>4
    <2> QED BY <2>1, <2>2, <2>3, <2>4 DEF RocketMQ!ConnectBegin, RocketMQ!ConnectAborted, RocketMQ!PopDrops
  <1> QED BY <1>3, <1>4, <1>5, RocketLocal


\* The receive pump and the demand of a pop, as long as nothing is leased.
LEMMA RocketPumps ==
  ASSUME RocketInv, which = "rocketmq", which' = which, NEW i,
         RocketMQ!PumpSubscribes(i) \/ RocketMQ!PumpWakes(i) \/ RocketMQ!PumpFails(i) \/ RocketMQ!PopAsks
  PROVE  RocketInv' /\ ContractStep
  <1>1. conn \in RocketConns /\ conn.select \in RocketSelects /\ conn.consumer \in Nat
    BY DEF RocketInv, RocketTypes, RocketConns
  <1>2. UNCHANGED <<broker, tokens, op, hist>>
    BY DEF RocketMQ!PumpSubscribes, RocketMQ!PumpWakes, RocketMQ!PumpFails, RocketMQ!PopAsks
  <1>3. PICK s \in RocketSelects : conn' = [conn EXCEPT !.select = s] /\ s.buffer \subseteq conn.select.buffer
    <2>1. CASE conn' = conn
      <3>1. conn = [conn EXCEPT !.select = conn.select]
        BY <1>1 DEF RocketConns
      <3> QED BY <1>1, <2>1, <3>1
    <2>2. CASE conn' = [conn EXCEPT !.select.demand = 0]
      <3>1. [conn.select EXCEPT !.demand = 0] \in RocketSelects
        BY <1>1 DEF RocketSelects
      <3>2. [conn.select EXCEPT !.demand = 0].buffer = conn.select.buffer
        BY <1>1 DEF RocketSelects
      <3>3. conn' = [conn EXCEPT !.select = [conn.select EXCEPT !.demand = 0]]
        BY <2>2
      <3> QED BY <3>1, <3>2, <3>3
    <2>3. CASE RocketMQ!PumpFails(i)
      <3> DEFINE f == conn.select.failed \/ RocketMQ!PumpCurrent(i)
                 s == [conn.select EXCEPT !.failed = f]
      <3>1. f \in BOOLEAN
        BY <1>1 DEF RocketSelects, RocketMQ!PumpCurrent
      <3>2. conn' = [conn EXCEPT !.select = s]
        BY <2>3 DEF RocketMQ!PumpFails
      <3> HIDE DEF f
      <3>3. s \in RocketSelects /\ s.buffer = conn.select.buffer
        BY <1>1, <3>1 DEF RocketSelects
      <3> QED BY <3>2, <3>3
    <2>4. CASE RocketMQ!PopAsks
      <3> DEFINE o == IF conn.select.consumer = 0 THEN RocketMQ!NoSelection ELSE conn.select
                 s == [o EXCEPT !.consumer = conn.consumer, !.demand = 1]
      <3>1. conn' = [conn EXCEPT !.select = s]
        BY <2>4 DEF RocketMQ!PopAsks, RocketMQ!NoConsumer
      <3>2. o \in RocketSelects /\ o.buffer \subseteq conn.select.buffer
        BY <1>1 DEF RocketMQ!NoSelection, RocketMQ!NoConsumer, RocketSelects, Singles
      <3> HIDE DEF o
      <3>3. s \in RocketSelects /\ s.buffer = o.buffer
        BY <1>1, <3>2 DEF RocketSelects
      <3> QED BY <3>1, <3>2, <3>3
    <2> QED BY <2>1, <2>2, <2>3, <2>4 DEF RocketMQ!PumpSubscribes, RocketMQ!PumpWakes
  <1>4. conn' \in RocketConns /\ conn'.last = conn.last /\ conn'.select = s
    BY <1>1, <1>3 DEF RocketConns
  <1> QED BY <1>2, <1>3, <1>4, RocketLocal

LEMMA RocketReceivesNothing ==
  ASSUME RocketInv, which = "rocketmq", which' = which, NEW i, RocketMQ!PumpReceives(i, {})
  PROVE  RocketInv' /\ ContractStep
  <1>1. conn \in RocketConns /\ conn.select \in RocketSelects /\ broker \in RocketBrokers
    BY DEF RocketInv, RocketTypes, RocketConns
  <1> DEFINE L == {[msg |-> m, receipt |-> broker.receipts + 1] : m \in {}}
  <1>2. L = {}
    OBVIOUS
  <1>3. /\ broker' = [visible |-> broker.visible \ {}, leased |-> broker.leased \union L, receipts |-> broker.receipts]
        /\ conn' = (IF RocketMQ!PumpCurrent(i) THEN [conn EXCEPT !.select.buffer = L] ELSE conn)
        /\ UNCHANGED <<tokens, op, hist>>
    BY DEF RocketMQ!PumpReceives
  <1> HIDE DEF L
  <1>4. broker' = broker
    <2>1. broker.visible \ {} = broker.visible /\ broker.leased \union L = broker.leased
      BY <1>2
    <2> QED BY <1>1, <1>3, <2>1 DEF RocketBrokers
  <1>5. /\ conn' \in RocketConns /\ conn'.last = conn.last
        /\ conn'.select.buffer \subseteq conn.select.buffer
    <2>1. CASE conn' = conn
      BY <1>1, <2>1
    <2>2. CASE conn' = [conn EXCEPT !.select.buffer = L]
      <3> DEFINE s == [conn.select EXCEPT !.buffer = {}]
      <3>1. s \in RocketSelects /\ s.buffer = {}
        BY <1>1 DEF RocketSelects, Singles
      <3>2. conn' = [conn EXCEPT !.select = s]
        BY <1>2, <2>2
      <3> HIDE DEF s
      <3>3. conn' \in RocketConns /\ conn'.last = conn.last /\ conn'.select = s
        BY <1>1, <3>1, <3>2 DEF RocketConns
      <3> QED BY <3>1, <3>3
    <2> QED BY <1>3, <2>1, <2>2
  <1> QED BY <1>3, <1>4, <1>5, RocketLocal

LEMMA RocketReceives ==
  ASSUME RocketInv, which = "rocketmq", which' = which, NEW i, NEW m \in Messages, RocketMQ!PumpReceives(i, {m})
  PROVE  RocketInv' /\ ContractStep
  <1>1. conn \in RocketConns /\ conn.select \in RocketSelects /\ broker \in RocketBrokers /\ hist \in RocketHists
    BY DEF RocketInv, RocketTypes, RocketConns
  <1>2. /\ broker.leased \subseteq Leases /\ broker.receipts \in Nat /\ broker.receipts + 1 \in Nat
        /\ conn.select.buffer \subseteq Leases
        /\ (\A t \in tokens \union conn.last : t \in RocketTokens /\ t.lease \in Leases)
        /\ (op.kind = "pop" => op.got \subseteq Leases)
        /\ \A d \in Leases : d.msg \in Messages /\ d.receipt \in Nat
    BY RocketFacts
  <1>3. [msg |-> m, receipt |-> broker.receipts + 1] \in Leases
    BY <1>2 DEF Leases
  <1>4. PICK d \in Leases : d = [msg |-> m, receipt |-> broker.receipts + 1]
    BY <1>3
  <1>5. d.msg = m /\ d.receipt = broker.receipts + 1
    BY <1>4
  <1>6. {[msg |-> x, receipt |-> broker.receipts + 1] : x \in {m}} = {d}
    BY <1>4
  <1>7. /\ m \in broker.visible
        /\ broker' = [visible |-> broker.visible \ {m}, leased |-> broker.leased \union {d},
                      receipts |-> broker.receipts + 1]
        /\ conn' = conn \/ conn' = [conn EXCEPT !.select.buffer = {d}]
        /\ UNCHANGED <<tokens, op, hist>>
    BY <1>6 DEF RocketMQ!PumpReceives
  <1>8. /\ broker' \in RocketBrokers /\ broker'.visible = broker.visible \ {m}
        /\ broker'.leased = broker.leased \union {d} /\ broker'.receipts = broker.receipts + 1
    BY <1>1, <1>2, <1>7 DEF RocketBrokers
  <1>9. /\ conn' \in RocketConns /\ conn'.last = conn.last
        /\ conn'.select.buffer = conn.select.buffer \/ conn'.select.buffer = {d}
    <2>1. CASE conn' = conn
      BY <1>1, <2>1
    <2>2. CASE conn' = [conn EXCEPT !.select.buffer = {d}]
      <3> DEFINE s == [conn.select EXCEPT !.buffer = {d}]
      <3>1. {d} \in Singles
        BY DEF Singles
      <3>2. s \in RocketSelects /\ s.buffer = {d}
        BY <1>1, <3>1 DEF RocketSelects
      <3>3. conn' = [conn EXCEPT !.select = s]
        BY <2>2
      <3> HIDE DEF s
      <3>4. conn' \in RocketConns /\ conn'.last = conn.last /\ conn'.select = s
        BY <1>1, <3>2, <3>3 DEF RocketConns
      <3> QED BY <3>2, <3>4
    <2> QED BY <1>7, <2>1, <2>2
  <1>10. RocketTypes'
    BY <1>7, <1>8, <1>9 DEF RocketInv, RocketTypes
  <1>11. m \in hist.accepted
    BY <1>7 DEF RocketInv, LeasedOnce
  <1>12. LeasedOnce'
    <2>1. broker'.visible \subseteq hist'.accepted
      BY <1>7, <1>8 DEF RocketInv, LeasedOnce
    <2>2. \A e \in broker'.leased : /\ e.msg \in hist'.accepted /\ e.msg \notin broker'.visible
                                    /\ e.receipt <= broker'.receipts
      BY <1>2, <1>5, <1>7, <1>8, <1>11 DEF RocketInv, LeasedOnce
    <2>3. \A e, f \in broker'.leased : e.msg = f.msg => e = f
      BY <1>5, <1>7, <1>8 DEF RocketInv, LeasedOnce
    <2> QED BY <2>1, <2>2, <2>3 DEF LeasedOnce
  <1>13. \A t \in tokens' \union conn'.last :
           LeaseIsNewest(t)' /\ t.lease # d /\ (t.lease \in broker.leased => t.lease.msg # m)
    <2> SUFFICES ASSUME NEW t \in tokens \union conn.last
                 PROVE  LeaseIsNewest(t)' /\ t.lease # d /\ (t.lease \in broker.leased => t.lease.msg # m)
      BY <1>7, <1>9
    <2>1. LeaseIsNewest(t) /\ t.lease \in Leases
      BY <1>2 DEF RocketInv
    <2>2. LeasedOnce /\ hist.holder \in [Messages -> SUBSET RocketTokens]
      BY <1>1 DEF RocketInv, RocketHists
    <2> QED BY <1>2, <1>5, <1>7, <1>8, <2>1, <2>2, LeaseAdded
  <1>14. \A e \in Leases : Waits(e) => Waits(e)'
    <2> SUFFICES ASSUME NEW e \in Leases, Waits(e)
                 PROVE  Waits(e)'
      OBVIOUS
    <2>1. e.receipt \in Nat /\ e.receipt <= broker.receipts /\ e.msg \in hist'.accepted
      BY <1>2, <1>7 DEF Waits
    <2>2. e.msg \in broker'.visible \/ \E f \in broker'.leased : f.msg = e.msg /\ f.receipt >= e.receipt
      <3>1. CASE e.msg = m
        BY <1>2, <1>5, <1>8, <2>1, <3>1
      <3>2. CASE e.msg # m
        BY <1>8, <3>2 DEF Waits
      <3> QED BY <3>1, <3>2
    <2> QED BY <1>2, <1>7, <1>8, <1>9, <2>1, <2>2 DEF Waits
  <1>15. Waits(d)'
    <2> SUFFICES /\ d.msg \in hist'.accepted /\ d.receipt <= broker'.receipts
                 /\ \A t \in tokens \union conn.last : t.lease.msg = d.msg => t.lease.receipt < d.receipt
                 /\ \E e \in broker'.leased : e.msg = d.msg /\ e.receipt >= d.receipt
      BY <1>7, <1>9 DEF Waits
    <2>1. \A t \in tokens \union conn.last : t.lease.receipt <= broker.receipts
      BY DEF RocketInv, LeaseIsNewest
    <2> QED BY <1>2, <1>5, <1>7, <1>8, <1>11, <2>1
  <1>16. InOrder'
    <2>1. \A e \in conn'.select.buffer : Waits(e)'
      BY <1>2, <1>9, <1>14, <1>15 DEF RocketInv, InOrder
    <2>2. CASE op.kind = "pop"
      <3>1. \A e \in op.got : Waits(e) /\ Waits(e)'
        BY <1>2, <1>14, <2>2 DEF RocketInv, InOrder
      <3>2. \A e \in op.got, f \in conn'.select.buffer : e.receipt < f.receipt
        <4>1. \A e \in op.got : e.receipt <= broker.receipts /\ e.receipt \in Nat
          BY <1>2, <2>2, <3>1 DEF Waits
        <4> QED BY <1>2, <1>5, <1>9, <2>2, <4>1 DEF RocketInv, InOrder
      <3> QED BY <1>7, <2>1, <3>1, <3>2 DEF InOrder
    <2>3. CASE op.kind # "pop"
      BY <1>7, <2>1, <2>3 DEF InOrder
    <2> QED BY <2>2, <2>3
  <1>17. RocketOperation'
    <2>1. CASE op \in [kind : {"settle"}, token : RocketTokens, ack : BOOLEAN]
      <3>1. op.kind = "settle"
        BY <2>1
      <3>2. /\ op.token \in tokens
            /\ op.ack /\ op.token.lease \in broker.leased => op.token.lease.msg \in hist.asked
        BY <2>1, <3>1 DEF RocketInv, RocketOperation
      <3>3. op.token.lease # d
        BY <1>7, <1>13, <3>2
      <3> QED BY <1>7, <1>8, <2>1, <3>2, <3>3 DEF RocketOperation
    <2>2. CASE op \notin [kind : {"settle"}, token : RocketTokens, ack : BOOLEAN]
      BY <1>7, <2>2 DEF RocketInv, RocketOperation
    <2> QED BY <2>1, <2>2
  <1>18. ContractStep
    <2>1. \A n : Stored(n)' <=> Stored(n)
      BY <1>5, <1>7, <1>8 DEF Stored
    <2> QED BY <1>7, <2>1, RocketSame
  <1>19. \A t \in tokens' \union conn'.last : LeaseIsNewest(t)'
    BY <1>13
  <1> QED BY <1>10, <1>12, <1>16, <1>17, <1>18, <1>19 DEF RocketInv

LEMMA RocketTimeout ==
  ASSUME RocketInv, which = "rocketmq", which' = which, NEW d \in broker.leased,
         RocketMQ!InvisibleDurationEnds(d)
  PROVE  RocketInv' /\ ContractStep
  <1>1. /\ broker \in RocketBrokers /\ UNCHANGED <<conn, tokens, op, hist>>
        /\ broker' = [broker EXCEPT !.leased = @ \ {d}, !.visible = @ \union {d.msg}]
    BY DEF RocketMQ!InvisibleDurationEnds, RocketInv, RocketTypes
  <1>2. d.msg \in Messages
    BY RocketFacts
  <1>3. /\ broker' \in RocketBrokers /\ broker'.visible = broker.visible \union {d.msg}
        /\ broker'.leased = broker.leased \ {d} /\ broker'.receipts = broker.receipts
    BY <1>1, <1>2 DEF RocketBrokers
  <1>4. RocketTypes'
    BY <1>1, <1>3 DEF RocketInv, RocketTypes
  <1>5. LeasedOnce'
    BY <1>1, <1>3, LeasesEnd DEF RocketInv
  <1>6. RocketInv'
    BY <1>1, <1>3, <1>4, <1>5, RocketQuiet
  <1>7. \A n : Stored(n)' <=> Stored(n)
    BY <1>3 DEF Stored
  <1>8. ContractStep
    BY <1>1, <1>7, RocketSame
  <1> QED BY <1>6, <1>8

LEMMA RocketPush ==
  ASSUME RocketInv, which = "rocketmq", which' = which, NEW m \in Messages, NEW stored \in BOOLEAN,
         RocketMQ!Push(m, stored)
  PROVE  RocketInv' /\ ContractStep
  <1> DEFINE V == IF stored THEN broker.visible \union {m} ELSE broker.visible
             A == IF stored THEN hist.accepted \union {m} ELSE hist.accepted
  <1>1. /\ hist \in RocketHists /\ broker \in RocketBrokers /\ m \notin hist.accepted
        /\ broker' = [broker EXCEPT !.visible = V] /\ hist' = [hist EXCEPT !.accepted = A]
        /\ UNCHANGED <<conn, tokens, op>>
    BY DEF RocketMQ!Push, RocketInv, RocketTypes
  <1>2. V \in SUBSET Messages /\ A \in SUBSET Messages /\ hist.accepted \subseteq A /\ broker.visible \subseteq V
    BY <1>1 DEF RocketHists, RocketBrokers
  <1> HIDE DEF V, A
  <1>3. /\ broker' \in RocketBrokers /\ broker'.visible = V /\ broker'.leased = broker.leased
        /\ broker'.receipts = broker.receipts
    BY <1>1, <1>2 DEF RocketBrokers
  <1>4. /\ hist' \in RocketHists /\ hist'.accepted = A /\ hist'.asked = hist.asked /\ hist'.unsure = hist.unsure
        /\ hist'.holder = hist.holder
    BY <1>1, <1>2 DEF RocketHists
  <1>5. RocketTypes'
    BY <1>1, <1>3, <1>4 DEF RocketInv, RocketTypes
  <1>6. LeasedOnce'
    BY <1>1, <1>3, <1>4 DEF RocketInv, LeasedOnce, V, A
  <1>7. RocketInv'
    BY <1>1, <1>2, <1>3, <1>4, <1>5, <1>6, RocketQuiet
  <1>8. ContractStep
    <2>1. \A n : Stored(n)' <=> Stored(n) \/ (stored /\ n = m)
      BY <1>3 DEF Stored, V
    <2>2. Gone' = Gone
      BY <1>1, <1>4, <2>1, RocketMapped, RocketMappedNext DEF A
    <2>3. Accepted = hist.accepted /\ Accepted' = A /\ Asked' = Asked /\ Unsure' = Unsure /\ Cleared' = Cleared
      BY <1>4, RocketMapped, RocketMappedNext
    <2> QED BY <1>1, <2>2, <2>3, PromisesPush, NoPromise DEF A
  <1> QED BY <1>7, <1>8


\* A pop takes the delivery of the buffer.
LEMMA RocketTakes ==
  ASSUME RocketInv, which = "rocketmq", which' = which, RocketMQ!PopTakes
  PROVE  RocketInv' /\ ContractStep
  <1>1. conn \in RocketConns /\ conn.select \in RocketSelects /\ conn.select.consumer \in Nat
    BY DEF RocketInv, RocketTypes, RocketConns, RocketSelects
  <1>2. /\ op' = [kind |-> "pop", got |-> conn.select.buffer, consumer |-> conn.select.consumer]
        /\ conn' = [conn EXCEPT !.select.buffer = {}] /\ conn.select.buffer # {}
        /\ UNCHANGED <<broker, tokens, hist>>
    BY DEF RocketMQ!PopTakes
  <1> DEFINE s == [conn.select EXCEPT !.buffer = {}]
  <1>3. s \in RocketSelects /\ s.buffer = {}
    BY <1>1 DEF RocketSelects, Singles
  <1>4. conn' = [conn EXCEPT !.select = s]
    BY <1>2
  <1> HIDE DEF s
  <1>5. conn' \in RocketConns /\ conn'.last = conn.last /\ conn'.select = s
    BY <1>1, <1>3, <1>4 DEF RocketConns
  <1>6. conn.select.buffer \in Singles \ {{}}
    BY <1>1, <1>2 DEF RocketSelects
  <1>7. RocketOperation'
    <2>1. op' \in [kind : {"pop"}, got : Singles \ {{}}, consumer : Nat]
      BY <1>1, <1>2, <1>6
    <2> QED BY <2>1 DEF RocketOperation
  <1>8. InOrder'
    <2>1. \A d \in conn.select.buffer : Waits(d)'
      BY <1>2, <1>5 DEF RocketInv, InOrder, Waits
    <2>2. conn'.select.buffer = {} /\ op'.got = conn.select.buffer
      BY <1>2, <1>3, <1>5
    <2> QED BY <2>1, <2>2 DEF InOrder
  <1>9. \A t \in tokens' \union conn'.last : LeaseIsNewest(t)'
    BY <1>2, <1>5 DEF RocketInv, LeaseIsNewest
  <1>10. RocketTypes' /\ LeasedOnce'
    BY <1>2, <1>5 DEF RocketInv, RocketTypes, LeasedOnce
  <1>11. \A m : Stored(m)' <=> Stored(m)
    BY <1>2 DEF Stored
  <1>12. ContractStep
    BY <1>2, <1>11, RocketSame
  <1> QED BY <1>7, <1>8, <1>9, <1>10, <1>12 DEF RocketInv

\* A pop hands its delivery out: the server holds no older lease of the
\* message, and the one in the buffer is younger.
LEMMA RocketDelivers ==
  ASSUME RocketInv, which = "rocketmq", which' = which, NEW withToken \in BOOLEAN,
         RocketMQ!PopDelivers(withToken)
  PROVE  RocketInv' /\ ContractStep
  <1>1. /\ conn \in RocketConns /\ hist \in RocketHists /\ tokens \in SUBSET RocketTokens
        /\ conn.select.buffer \subseteq Leases
        /\ (\A t \in tokens \union conn.last : t \in RocketTokens /\ t.lease \in Leases)
        /\ \A d \in Leases : d.msg \in Messages /\ d.receipt \in Nat
    BY RocketFacts DEF RocketInv, RocketTypes
  <1>2. op.got \in Singles \ {{}} /\ op.consumer \in Nat /\ op.kind = "pop"
    BY DEF RocketMQ!PopDelivers, RocketInv, RocketOperation
  <1>3. PICK d \in Leases : op.got = {d}
    BY <1>2 DEF Singles
  <1>4. (CHOOSE e \in op.got : TRUE) = d
    BY <1>3
  <1>5. [consumer |-> op.consumer, lease |-> d] \in RocketTokens
    BY <1>2 DEF RocketTokens
  <1>6. PICK t \in RocketTokens : t = [consumer |-> op.consumer, lease |-> d]
    BY <1>5
  <1>7. PICK m \in Messages : m = d.msg
    BY <1>1
  <1>8. t.lease = d /\ t.lease.msg = m
    BY <1>6, <1>7
  <1> DEFINE L == IF withToken THEN conn.last ELSE {t}
  <1>9. /\ tokens' = (IF withToken THEN tokens \union {t} ELSE tokens)
        /\ conn' = [conn EXCEPT !.last = L] /\ op' = [kind |-> "idle"] /\ broker' = broker
        /\ hist' = [hist EXCEPT !.asked = @ \ {m}, !.holder[m] = {t}]
    BY <1>4, <1>6, <1>7 DEF RocketMQ!PopDelivers, RocketMQ!Idle
  <1>10. L \in SUBSET RocketTokens
    BY <1>1 DEF RocketConns
  <1>11. tokens' \union L \subseteq tokens \union conn.last \union {t} /\ tokens' \in SUBSET RocketTokens
    BY <1>1, <1>9
  <1> HIDE DEF L
  <1>12. conn' \in RocketConns /\ conn'.last = L /\ conn'.select = conn.select
    BY <1>1, <1>9, <1>10 DEF RocketConns
  <1>13. [hist.holder EXCEPT ![m] = {t}] \in [Messages -> SUBSET RocketTokens]
    BY <1>1 DEF RocketHists
  <1>14. /\ hist' \in RocketHists /\ hist'.accepted = hist.accepted /\ hist'.asked = hist.asked \ {m}
         /\ hist'.unsure = hist.unsure /\ hist'.holder = [hist.holder EXCEPT ![m] = {t}]
    BY <1>1, <1>9, <1>13 DEF RocketHists
  <1>15. hist'.holder[m] = {t} /\ \A n \in Messages : n # m => hist'.holder[n] = hist.holder[n]
    BY <1>1, <1>14 DEF RocketHists
  <1>16. Waits(d) /\ \A e \in conn.select.buffer : Waits(e) /\ d.receipt < e.receipt
    BY <1>2, <1>3 DEF RocketInv, InOrder
  <1>17. RocketTypes' /\ LeasedOnce' /\ RocketOperation'
    BY <1>9, <1>11, <1>12, <1>14 DEF RocketInv, RocketTypes, LeasedOnce, RocketOperation
  <1>18. \A e \in conn.select.buffer : Waits(e)'
    <2> SUFFICES ASSUME NEW e \in conn.select.buffer
                 PROVE  Waits(e)'
      OBVIOUS
    <2>1. Waits(e) /\ d.receipt < e.receipt
      BY <1>16
    <2>2. \A r \in tokens' \union conn'.last : r.lease.msg = e.msg => r.lease.receipt < e.receipt
      BY <1>8, <1>11, <1>12, <2>1 DEF Waits
    <2> QED BY <1>9, <1>14, <2>1, <2>2 DEF Waits
  <1>19. InOrder'
    BY <1>9, <1>12, <1>18 DEF InOrder
  <1>20. LeaseIsNewest(t)'
    BY <1>7, <1>8, <1>9, <1>14, <1>15, <1>16 DEF LeaseIsNewest, Waits
  <1>21. \A r \in tokens \union conn.last : LeaseIsNewest(r)'
    <2> SUFFICES ASSUME NEW r \in tokens \union conn.last
                 PROVE  LeaseIsNewest(r)'
      OBVIOUS
    <2>1. LeaseIsNewest(r) /\ r.lease.msg \in Messages /\ r.lease.receipt \in Nat
      BY <1>1 DEF RocketInv
    <2>2. CASE r.lease.msg = m
      <3>1. r.lease.receipt < d.receipt
        BY <1>7, <1>16, <2>2 DEF Waits
      <3>2. r.lease \notin broker.leased
        <4>1. SUFFICES ASSUME r.lease \in broker.leased PROVE FALSE
          OBVIOUS
        <4>2. m \notin broker.visible /\ \A e \in broker.leased : e.msg = m => e = r.lease
          BY <2>2, <4>1 DEF RocketInv, LeasedOnce
        <4>3. PICK e \in broker.leased : e.msg = m /\ e.receipt >= d.receipt
          BY <1>7, <1>16, <4>2 DEF Waits
        <4> QED BY <1>1, <2>1, <3>1, <4>2, <4>3
      <3> QED BY <1>9, <1>14, <2>1, <3>2 DEF LeaseIsNewest
    <2>3. CASE r.lease.msg # m
      BY <1>9, <1>14, <1>15, <2>1, <2>3 DEF LeaseIsNewest
    <2> QED BY <2>2, <2>3
  <1>22. \A r \in tokens' \union conn'.last : LeaseIsNewest(r)'
    BY <1>11, <1>12, <1>20, <1>21
  <1>23. ContractStep
    <2>1. \A n : Stored(n)' <=> Stored(n)
      BY <1>9 DEF Stored
    <2>2. Stored(m) /\ m \in hist.accepted
      BY <1>7, <1>16 DEF Waits, Stored
    <2>3. /\ Gone' = Gone /\ Accepted' = Accepted /\ Asked' = Asked \ {m} /\ Unsure' = Unsure
          /\ Cleared' = Cleared /\ m \in Accepted /\ m \notin Gone
      BY <1>14, <2>1, <2>2, RocketMapped, RocketMappedNext
    <2> QED BY <2>3, PromisesDeliver
  <1> QED BY <1>17, <1>19, <1>22, <1>23 DEF RocketInv

\* What the server does with a settled lease: the message leaves, or is
\* visible again; it knows the newest lease only.
LEMMA RocketLeaseEnds ==
  ASSUME RocketInv, NEW t \in tokens \union conn.last, hist'.accepted = hist.accepted,
         broker' = broker \/ broker' = RocketMQ!Acknowledged(t) \/ broker' = RocketMQ!Released(t)
  PROVE  /\ broker' \in RocketBrokers /\ broker'.leased \subseteq broker.leased
         /\ broker'.receipts = broker.receipts /\ broker.visible \subseteq broker'.visible
         /\ LeasedOnce' /\ \A e \in broker.leased \ broker'.leased : t.lease = e
         /\ \/ /\ \A n : Stored(n)' <=> Stored(n)
               /\ broker' # RocketMQ!Acknowledged(t) \/ broker' = broker
            \/ /\ broker' = RocketMQ!Acknowledged(t) /\ t.lease \in broker.leased
               /\ \A n : Stored(n)' <=> Stored(n) /\ n # t.lease.msg
  <1>1. broker \in RocketBrokers /\ LeasedOnce /\ t.lease \in Leases
    BY RocketFacts DEF RocketInv, RocketTypes
  <1>2. PICK l \in Leases : l = t.lease
    BY <1>1
  <1>3. CASE broker' = broker
    BY <1>1, <1>3 DEF LeasedOnce, Stored
  <1>4. CASE broker' = RocketMQ!Acknowledged(t) /\ broker' # broker
    <2>1. broker' = [broker EXCEPT !.leased = @ \ {l}]
      BY <1>2, <1>4 DEF RocketMQ!Acknowledged
    <2>2. /\ broker' \in RocketBrokers /\ broker'.visible = broker.visible
          /\ broker'.leased = broker.leased \ {l} /\ broker'.receipts = broker.receipts
      BY <1>1, <2>1 DEF RocketBrokers
    <2>3. l \in broker.leased
      <3>1. SUFFICES ASSUME l \notin broker.leased PROVE FALSE
        OBVIOUS
      <3>2. broker.leased \ {l} = broker.leased
        BY <3>1
      <3>3. [broker EXCEPT !.leased = @ \ {l}] = broker
        BY <1>1, <3>2 DEF RocketBrokers
      <3> QED BY <1>4, <2>1, <3>3
    <2>4. \A n : Stored(n)' <=> Stored(n) /\ n # l.msg
      BY <1>1, <2>2, <2>3 DEF Stored, LeasedOnce
    <2>5. LeasedOnce'
      BY <1>1, <2>2, LeasesEnd
    <2> QED BY <1>2, <1>4, <2>2, <2>3, <2>4, <2>5
  <1>5. CASE broker' = RocketMQ!Released(t) /\ broker' # broker /\ broker' # RocketMQ!Acknowledged(t)
    <2> DEFINE B == {d.msg : d \in broker.leased \intersect {l}}
    <2>1. broker' = [broker EXCEPT !.leased = @ \ {l}, !.visible = @ \union B]
      BY <1>2, <1>5 DEF RocketMQ!Released
    <2>2. B \in SUBSET Messages
      BY DEF Leases
    <2>3. B \subseteq {d.msg : d \in broker.leased \ (broker.leased \ {l})}
      OBVIOUS
    <2>4. \A n : n \in B <=> l \in broker.leased /\ n = l.msg
      OBVIOUS
    <2> HIDE DEF B
    <2>5. /\ broker' \in RocketBrokers /\ broker'.visible = broker.visible \union B
          /\ broker'.leased = broker.leased \ {l} /\ broker'.receipts = broker.receipts
      BY <1>1, <2>1, <2>2 DEF RocketBrokers
    <2>6. \A n : Stored(n)' <=> Stored(n)
      BY <2>4, <2>5 DEF Stored
    <2>7. LeasedOnce'
      BY <1>1, <2>3, <2>5, LeasesEnd
    <2> QED BY <1>2, <1>5, <2>5, <2>6, <2>7
  <1> QED BY <1>3, <1>4, <1>5

\* The holder of a token asks for the end of its delivery.
LEMMA RocketAsks ==
  ASSUME RocketInv, NEW t \in tokens \union conn.last, NEW ack \in BOOLEAN,
         hist' = IF ack THEN [hist EXCEPT !.asked = RocketMQ!Asks(t)] ELSE hist
  PROVE  /\ hist' \in RocketHists /\ hist'.accepted = hist.accepted
         /\ hist'.unsure = hist.unsure /\ hist'.holder = hist.holder /\ hist.asked \subseteq hist'.asked
         /\ \/ hist'.asked = hist.asked /\ (ack => t \notin hist.holder[t.lease.msg])
            \/ hist'.asked = hist.asked \union {t.lease.msg} /\ ack
  <1>1. hist \in RocketHists /\ t.lease.msg \in Messages
    BY RocketFacts DEF RocketInv, RocketTypes
  <1>2. CASE ~ack
    BY <1>1, <1>2
  <1>3. CASE ack
    <2> DEFINE A == RocketMQ!Asks(t)
    <2>1. A = IF t \in hist.holder[t.lease.msg] THEN hist.asked \union {t.lease.msg} ELSE hist.asked
      BY DEF RocketMQ!Asks
    <2>2. A \in SUBSET Messages
      BY <1>1, <2>1 DEF RocketHists
    <2>3. hist' = [hist EXCEPT !.asked = A]
      BY <1>3
    <2> HIDE DEF A
    <2>4. /\ hist' \in RocketHists /\ hist'.accepted = hist.accepted /\ hist'.asked = A
          /\ hist'.unsure = hist.unsure /\ hist'.holder = hist.holder
      BY <1>1, <2>2, <2>3 DEF RocketHists
    <2> QED BY <1>3, <2>1, <2>4
  <1> QED BY <1>2, <1>3

\* What the contract sees of a request, with or without its effect.
LEMMA RocketAskSeen ==
  ASSUME RocketInv, which = "rocketmq", which' = which, NEW t \in tokens \union conn.last, NEW ack \in BOOLEAN,
         hist' = IF ack THEN [hist EXCEPT !.asked = RocketMQ!Asks(t)] ELSE hist,
         \/ \A n : Stored(n)' <=> Stored(n)
         \/ ack /\ t.lease \in broker.leased /\ \A n : Stored(n)' <=> Stored(n) /\ n # t.lease.msg
  PROVE  ContractStep
  <1>1. PICK m \in Messages : m = t.lease.msg
    BY RocketFacts
  <1>2. LeaseIsNewest(t)
    BY DEF RocketInv
  <1>3. /\ hist'.accepted = hist.accepted /\ hist'.unsure = hist.unsure
        /\ \/ hist'.asked = hist.asked /\ (ack => t \notin hist.holder[m])
           \/ hist'.asked = hist.asked \union {m} /\ ack
    BY <1>1, RocketAsks
  <1>4. /\ Accepted' = Accepted /\ Unsure' = Unsure /\ Cleared' = Cleared /\ m \in Accepted
        /\ Asked = hist.asked /\ Asked' = hist'.asked
    BY <1>1, <1>2, <1>3, RocketMapped, RocketMappedNext DEF LeaseIsNewest
  <1>5. CASE \A n : Stored(n)' <=> Stored(n)
    <2>1. Gone' = Gone
      BY <1>3, <1>5, RocketMapped, RocketMappedNext
    <2> QED BY <1>3, <1>4, <2>1, PromisesAck, NoPromise
  <1>6. CASE ack /\ t.lease \in broker.leased /\ \A n : Stored(n)' <=> Stored(n) /\ n # t.lease.msg
    <2>1. Gone' = Gone \union {m}
      BY <1>1, <1>2, <1>3, <1>6, RocketMapped, RocketMappedNext DEF LeaseIsNewest
    <2>2. Asked' = Asked \union {m}
      BY <1>1, <1>2, <1>3, <1>4, <1>6 DEF LeaseIsNewest
    <2> QED BY <1>4, <2>1, <2>2, PromisesAck
  <1> QED BY <1>5, <1>6

LEMMA RocketSettleBegins ==
  ASSUME RocketInv, which = "rocketmq", which' = which, NEW t \in tokens, NEW ack \in BOOLEAN,
         RocketMQ!SettleBegin(t, ack)
  PROVE  RocketInv' /\ ContractStep
  <1>1. /\ UNCHANGED <<conn, broker, tokens>> /\ op' = [kind |-> "settle", token |-> t, ack |-> ack]
        /\ hist' = IF ack THEN [hist EXCEPT !.asked = RocketMQ!Asks(t)] ELSE hist
    BY DEF RocketMQ!SettleBegin
  <1>2. t \in RocketTokens /\ LeaseIsNewest(t)
    BY RocketFacts DEF RocketInv
  <1>3. /\ op' \in [kind : {"settle"}, token : RocketTokens, ack : BOOLEAN] /\ op'.token = t /\ (op'.ack <=> ack)
        /\ op'.kind = "settle"
    BY <1>1, <1>2
  <1>4. /\ hist' \in RocketHists /\ hist'.accepted = hist.accepted
        /\ hist'.holder = hist.holder /\ hist.asked \subseteq hist'.asked
        /\ \/ hist'.asked = hist.asked /\ (ack => t \notin hist.holder[t.lease.msg])
           \/ hist'.asked = hist.asked \union {t.lease.msg} /\ ack
    BY <1>1, RocketAsks
  <1>5. RocketOperation'
    <2>1. op'.ack /\ op'.token.lease \in broker'.leased => op'.token.lease.msg \in hist'.asked
      BY <1>1, <1>2, <1>3, <1>4 DEF LeaseIsNewest
    <2> QED BY <1>1, <1>3, <2>1 DEF RocketOperation
  <1>6. RocketTypes' /\ LeasedOnce'
    BY <1>1, <1>4 DEF RocketInv, RocketTypes, LeasedOnce
  <1>7. RocketInv'
    BY <1>1, <1>3, <1>4, <1>5, <1>6, RocketHandsOutNothing
  <1>8. \A n : Stored(n)' <=> Stored(n)
    BY <1>1 DEF Stored
  <1> QED BY <1>1, <1>7, <1>8, RocketAskSeen

LEMMA RocketSettleStale ==
  ASSUME RocketInv, which = "rocketmq", which' = which, NEW t \in tokens, NEW ack \in BOOLEAN,
         RocketMQ!SettleStale(t, ack)
  PROVE  RocketInv' /\ ContractStep
  <1>1. /\ UNCHANGED <<broker, tokens, op>> /\ conn' = [conn EXCEPT !.settled = @ \union {t}]
        /\ hist' = IF ack THEN [hist EXCEPT !.asked = RocketMQ!Asks(t)] ELSE hist
    BY DEF RocketMQ!SettleStale
  <1>2. t \in RocketTokens /\ conn \in RocketConns
    BY RocketFacts DEF RocketInv, RocketTypes
  <1>3. conn' \in RocketConns /\ conn'.last = conn.last /\ conn'.select = conn.select
    BY <1>1, <1>2 DEF RocketConns
  <1>4. /\ hist' \in RocketHists /\ hist'.accepted = hist.accepted
        /\ hist'.holder = hist.holder /\ hist.asked \subseteq hist'.asked
    BY <1>1, RocketAsks
  <1>5. RocketTypes' /\ LeasedOnce'
    BY <1>1, <1>3, <1>4 DEF RocketInv, RocketTypes, LeasedOnce
  <1>6. RocketInv'
    BY <1>1, <1>3, <1>4, <1>5, RocketQuiet
  <1>7. \A n : Stored(n)' <=> Stored(n)
    BY <1>1 DEF Stored
  <1> QED BY <1>1, <1>6, <1>7, RocketAskSeen

LEMMA RocketLegacySettle ==
  ASSUME RocketInv, which = "rocketmq", which' = which, NEW t \in conn.last, NEW ack \in BOOLEAN,
         RocketMQ!LegacySettle(t, ack)
  PROVE  RocketInv' /\ ContractStep
  <1>1. /\ UNCHANGED <<tokens, op>> /\ conn' = [conn EXCEPT !.last = {}]
        /\ hist' = (IF ack THEN [hist EXCEPT !.asked = RocketMQ!Asks(t)] ELSE hist)
        /\ broker' = IF ack THEN RocketMQ!Acknowledged(t) ELSE RocketMQ!Released(t)
    BY DEF RocketMQ!LegacySettle
  <1>2. conn \in RocketConns
    BY DEF RocketInv, RocketTypes
  <1>3. conn' \in RocketConns /\ conn'.last = {} /\ conn'.select = conn.select
    BY <1>1, <1>2 DEF RocketConns
  <1>4. /\ hist' \in RocketHists /\ hist'.accepted = hist.accepted
        /\ hist'.holder = hist.holder /\ hist.asked \subseteq hist'.asked
    BY <1>1, RocketAsks
  <1>5. broker' = broker \/ broker' = RocketMQ!Acknowledged(t) \/ broker' = RocketMQ!Released(t)
    BY <1>1
  <1>6. /\ broker' \in RocketBrokers /\ broker'.leased \subseteq broker.leased
        /\ broker'.receipts = broker.receipts /\ broker.visible \subseteq broker'.visible
        /\ LeasedOnce' /\ \A e \in broker.leased \ broker'.leased : t.lease = e
        /\ \/ \A n : Stored(n)' <=> Stored(n)
           \/ /\ broker' = RocketMQ!Acknowledged(t) /\ t.lease \in broker.leased
              /\ \A n : Stored(n)' <=> Stored(n) /\ n # t.lease.msg
    BY <1>4, <1>5, RocketLeaseEnds
  <1>7. RocketTypes'
    BY <1>1, <1>3, <1>4, <1>6 DEF RocketInv, RocketTypes
  <1>8. RocketInv'
    BY <1>1, <1>3, <1>4, <1>6, <1>7, RocketQuiet
  <1>9. \/ \A n : Stored(n)' <=> Stored(n)
        \/ ack /\ t.lease \in broker.leased /\ \A n : Stored(n)' <=> Stored(n) /\ n # t.lease.msg
    <2>1. CASE ack
      BY <1>6, <2>1
    <2>2. CASE ~ack
      <3>1. broker' = RocketMQ!Released(t)
        BY <1>1, <2>2
      <3>2. \A n : Stored(n)' <=> Stored(n)
        <4>1. broker \in RocketBrokers /\ LeasedOnce
          BY DEF RocketInv, RocketTypes
        <4>2. broker'.visible = broker.visible \union {d.msg : d \in broker.leased \intersect {t.lease}}
              /\ broker'.leased = broker.leased \ {t.lease}
          BY <3>1, <4>1 DEF RocketMQ!Released, RocketBrokers
        <4> QED BY <4>2 DEF Stored
      <3> QED BY <3>2
    <2> QED BY <2>1, <2>2
  <1>10. ContractStep
    BY <1>1, <1>9, RocketAskSeen
  <1> QED BY <1>8, <1>10

\* The SDK call returns or raises.
LEMMA RocketSettled ==
  ASSUME RocketInv, which = "rocketmq", which' = which,
         RocketMQ!SettleEnd \/ \E taken \in BOOLEAN : RocketMQ!SettleFails(taken)
  PROVE  RocketInv' /\ ContractStep
  <1>1. /\ op \in [kind : {"settle"}, token : RocketTokens, ack : BOOLEAN] /\ op.token \in tokens
        /\ op.ack /\ op.token.lease \in broker.leased => op.token.lease.msg \in hist.asked
    BY DEF RocketInv, RocketOperation, RocketMQ!SettleEnd, RocketMQ!SettleFails
  <1>2. PICK t \in tokens : t = op.token
    BY <1>1
  <1>3. PICK m \in Messages : m = t.lease.msg
    BY RocketFacts
  <1>4. t \in RocketTokens /\ m \in hist.accepted
    BY <1>3, RocketFacts DEF RocketInv, LeaseIsNewest
  <1>5. op' = [kind |-> "idle"] /\ tokens' = tokens
    BY DEF RocketMQ!SettleEnd, RocketMQ!SettleFails, RocketMQ!Idle
  <1>6. broker' = broker \/ (op.ack /\ broker' = RocketMQ!Acknowledged(t)) \/ (~op.ack /\ broker' = RocketMQ!Released(t))
    BY <1>2 DEF RocketMQ!SettleEnd, RocketMQ!SettleFails
  <1>7. hist \in RocketHists /\ conn \in RocketConns
    BY DEF RocketInv, RocketTypes
  <1>8. conn' \in RocketConns /\ conn'.last \subseteq conn.last /\ conn'.select = conn.select
    <2>1. CASE conn' = conn
      BY <1>7, <2>1
    <2>2. CASE RocketMQ!SettleEnd
      <3> DEFINE L == IF t.consumer = conn.consumer THEN conn.last \ {t} ELSE conn.last
      <3>1. conn' = [conn EXCEPT !.settled = @ \union {t}, !.last = L]
        BY <1>2, <2>2 DEF RocketMQ!SettleEnd
      <3>2. L \in SUBSET RocketTokens /\ L \subseteq conn.last
        BY <1>7 DEF RocketConns
      <3> HIDE DEF L
      <3> QED BY <1>4, <1>7, <3>1, <3>2 DEF RocketConns
    <2> QED BY <2>1, <2>2 DEF RocketMQ!SettleFails
  <1>9. PICK U \in SUBSET Messages : /\ hist' = [hist EXCEPT !.unsure = U]
                                     /\ \/ U = hist.unsure
                                        \/ /\ broker' # broker /\ U = hist.unsure \union {m}
                                           /\ broker' = RocketMQ!Acknowledged(t)
    <2>1. CASE hist' = hist
      <3>1. hist = [hist EXCEPT !.unsure = hist.unsure] /\ hist.unsure \in SUBSET Messages
        BY <1>7 DEF RocketHists
      <3> QED BY <2>1, <3>1
    <2>2. CASE \E taken \in BOOLEAN : RocketMQ!SettleFails(taken)
      <3> DEFINE W == IF broker' # broker THEN hist.unsure \union {m} ELSE hist.unsure
      <3>1. hist' = [hist EXCEPT !.unsure = W]
        BY <1>2, <1>3, <2>2 DEF RocketMQ!SettleFails
      <3>2. broker' = broker \/ broker' = RocketMQ!Acknowledged(t)
        BY <1>2, <2>2 DEF RocketMQ!SettleFails
      <3>3. W \in SUBSET Messages
        BY <1>7 DEF RocketHists
      <3> QED BY <3>1, <3>2, <3>3
    <2> QED BY <2>1, <2>2 DEF RocketMQ!SettleEnd
  <1>10. /\ hist' \in RocketHists /\ hist'.accepted = hist.accepted /\ hist'.asked = hist.asked
         /\ hist'.holder = hist.holder /\ hist'.unsure = U
    BY <1>7, <1>9 DEF RocketHists
  <1>11. /\ broker' \in RocketBrokers /\ broker'.leased \subseteq broker.leased
         /\ broker'.receipts = broker.receipts /\ broker.visible \subseteq broker'.visible
         /\ LeasedOnce' /\ \A e \in broker.leased \ broker'.leased : t.lease = e
         /\ \/ /\ \A n : Stored(n)' <=> Stored(n)
               /\ broker' # RocketMQ!Acknowledged(t) \/ broker' = broker
            \/ /\ broker' = RocketMQ!Acknowledged(t) /\ t.lease \in broker.leased
               /\ \A n : Stored(n)' <=> Stored(n) /\ n # t.lease.msg
    <2>1. broker' = broker \/ broker' = RocketMQ!Acknowledged(t) \/ broker' = RocketMQ!Released(t)
      BY <1>6
    <2> QED BY <1>10, <2>1, RocketLeaseEnds
  <1>12. RocketTypes'
    BY <1>5, <1>8, <1>10, <1>11 DEF RocketInv, RocketTypes
  <1>13. RocketInv'
    BY <1>5, <1>8, <1>10, <1>11, <1>12, RocketQuiet
  <1>14. ContractStep
    <2>1. /\ Accepted' = Accepted /\ Asked' = Asked /\ Cleared' = Cleared /\ Asked = hist.asked
          /\ Unsure' = U /\ Unsure = hist.unsure
      BY <1>10, RocketMapped, RocketMappedNext
    <2>2. CASE /\ \A n : Stored(n)' <=> Stored(n)
               /\ broker' # RocketMQ!Acknowledged(t) \/ broker' = broker
      <3>1. Gone' = Gone
        BY <1>10, <2>2, RocketMapped, RocketMappedNext
      <3>2. U = hist.unsure
        BY <1>9, <2>2
      <3> QED BY <2>1, <3>1, <3>2, NoPromise
    <2>3. CASE /\ broker' = RocketMQ!Acknowledged(t) /\ t.lease \in broker.leased
               /\ \A n : Stored(n)' <=> Stored(n) /\ n # t.lease.msg
      <3>1. CASE op.ack
        <4> DEFINE S == {m}
                   back == {}
        <4>1. Gone' = Gone \union S
          BY <1>3, <1>4, <1>10, <2>3, RocketMapped, RocketMappedNext
        <4>2. S \subseteq Asked /\ S \in SUBSET Messages /\ back \in SUBSET Messages /\ back \subseteq Unsure
          BY <1>1, <1>2, <1>3, <2>1, <2>3, <3>1
        <4>3. Unsure' \in {Unsure, Unsure \union S}
          BY <1>9, <2>1
        <4>4. Gone' = (Gone \ back) \union S
          BY <4>1
        <4> HIDE DEF S, back
        <4> QED BY <2>1, <4>2, <4>3, <4>4, PromisesSettle
      <3>2. CASE ~op.ack
        <4>1. broker' = broker \/ broker' = RocketMQ!Released(t)
          BY <1>6, <3>2
        <4>2. \A n : Stored(n)' <=> Stored(n)
          <5>1. broker \in RocketBrokers
            BY DEF RocketInv, RocketTypes
          <5>2. CASE broker' = RocketMQ!Released(t)
            <6>1. broker'.visible = broker.visible \union {d.msg : d \in broker.leased \intersect {t.lease}}
                  /\ broker'.leased = broker.leased \ {t.lease}
              BY <5>1, <5>2 DEF RocketMQ!Released, RocketBrokers
            <6> QED BY <6>1 DEF Stored
          <5>3. CASE broker' = broker
            BY <5>3 DEF Stored
          <5> QED BY <4>1, <5>2, <5>3
        <4>3. Stored(m)
          BY <1>3, <2>3 DEF Stored
        <4> QED BY <1>3, <2>3, <4>2, <4>3
      <3> QED BY <3>1, <3>2
    <2> QED BY <1>11, <2>2, <2>3
  <1> QED BY <1>13, <1>14

LEMMA RocketStart ==
  ASSUME RocketMQ!Init, which = "rocketmq"
  PROVE  RocketInv /\ Contract!Init
  <1> DEFINE s == [consumer |-> 0, buffer |-> {}, demand |-> 0, failed |-> FALSE]
  <1>1. s \in RocketSelects /\ s.buffer = {}
    BY DEF RocketSelects, Singles
  <1>2. /\ conn = [epoch |-> 0, leaving |-> FALSE, consumer |-> 0, generation |-> 0, select |-> s,
                   last |-> {}, settled |-> {}]
        /\ broker = [visible |-> {}, leased |-> {}, receipts |-> 0] /\ tokens = {}
        /\ op = [kind |-> "idle"]
        /\ hist = [accepted |-> {}, asked |-> {}, unsure |-> {}, holder |-> [m \in Messages |-> {}]]
    BY DEF RocketMQ!Init, RocketMQ!NoSelection, RocketMQ!NoConsumer, RocketMQ!Idle
  <1> HIDE DEF s
  <1>3. conn \in RocketConns /\ conn.select = s /\ conn.last = {}
    BY <1>1, <1>2 DEF RocketConns
  <1>4. RocketTypes /\ LeasedOnce
    BY <1>2, <1>3 DEF RocketTypes, LeasedOnce, RocketBrokers, RocketHists
  <1>5. InOrder /\ RocketOperation
    BY <1>1, <1>2, <1>3 DEF InOrder, RocketOperation
  <1>6. Contract!Init
    BY <1>2, RocketMapped DEF Contract!Init
  <1> QED BY <1>2, <1>3, <1>4, <1>5, <1>6 DEF RocketInv

LEMMA RocketStep ==
  ASSUME RocketInv, which = "rocketmq", which' = which, RocketMQ!Next
  PROVE  RocketInv' /\ ContractStep
  <1>1. CASE \/ RocketMQ!ConnectBegin \/ RocketMQ!ConnectDone \/ RocketMQ!ConnectAborted
             \/ RocketMQ!DisconnectBegin \/ RocketMQ!Disconnect \/ RocketMQ!PopDrops
    BY <1>1, RocketConnects
  <1>2. CASE \E i \in DOMAIN table : RocketMQ!PumpStep(i)
    BY <1>2, RocketPumps, RocketReceivesNothing, RocketReceives DEF RocketMQ!PumpStep
  <1>3. CASE \E d \in broker.leased : RocketMQ!InvisibleDurationEnds(d)
    BY <1>3, RocketTimeout
  <1>4. CASE \E m \in Messages, stored \in BOOLEAN : RocketMQ!Push(m, stored)
    BY <1>4, RocketPush
  <1>5. CASE RocketMQ!PopAsks
    BY <1>5, RocketPumps
  <1>6. CASE RocketMQ!PopTakes \/ \E withToken \in BOOLEAN : RocketMQ!PopDelivers(withToken)
    BY <1>6, RocketTakes, RocketDelivers
  <1>7. CASE \E t \in tokens, ack \in BOOLEAN : RocketMQ!SettleBegin(t, ack) \/ RocketMQ!SettleStale(t, ack)
    BY <1>7, RocketSettleBegins, RocketSettleStale
  <1>8. CASE \E t \in conn.last, ack \in BOOLEAN : RocketMQ!LegacySettle(t, ack)
    BY <1>8, RocketLegacySettle
  <1>9. CASE RocketMQ!SettleEnd \/ \E taken \in BOOLEAN : RocketMQ!SettleFails(taken)
    BY <1>9, RocketSettled
  <1> QED BY <1>1, <1>2, <1>3, <1>4, <1>5, <1>6, <1>7, <1>8, <1>9 DEF RocketMQ!Next


----------------------------------------------------------------------------
(* The refinement. *)

\* The invariant of the backend that a behaviour is about.
BrokerInv ==
  /\ which \in Stores \union {"kafka", "rabbitmq", "pulsar", "sqs", "rocketmq"}
  /\ which = "kafka" => KafkaInv
  /\ which = "rabbitmq" => RabbitInv
  /\ which = "pulsar" => PulsarInv
  /\ which = "sqs" => SqsInv
  /\ which = "rocketmq" => RocketInv

\* Nothing of the contract's state changes in a behaviour of a store.
LEMMA StoresPromiseNothing ==
  ASSUME which \in Stores
  PROVE  Accepted = {} /\ Asked = {} /\ Gone = {} /\ Unsure = {} /\ Cleared = {}
  BY DEF Accepted, Asked, Gone, Unsure, Cleared, Stores

LEMMA StoresPromiseNothingNext ==
  ASSUME which' \in Stores
  PROVE  Accepted' = {} /\ Asked' = {} /\ Gone' = {} /\ Unsure' = {} /\ Cleared' = {}
  BY DEF Accepted, Asked, Gone, Unsure, Cleared, Stores

LEMMA BrokerInvKept ==
  ASSUME BrokerInv, UNCHANGED MCvars
  PROVE  BrokerInv' /\ ContractStep
  <1>1. UNCHANGED <<which, conn, broker, table, tokens, op, hist>>
    BY DEF MCvars
  <1>2. which = "rabbitmq" => RabbitInv'
    BY <1>1 DEF BrokerInv, RabbitInv, RabbitTypes, ChannelDeliveries, OutOnce, TagsNameTokens, AskedAccepted
  <1>3. which = "pulsar" => PulsarInv'
    <2>1. PumpInv /\ StrayInv => PumpInv' /\ StrayInv'
      BY <1>1 DEF PumpInv, PulsarTypes, OneSubscriber, Subscriber, PumpPhases, StrayInv
    <2>2. \A i : Buffered(i)' = Buffered(i)
      BY <1>1 DEF Buffered
    <2>3. Unsettled' = Unsettled
      BY <1>1 DEF Unsettled
    <2>4. BufferedOnce => BufferedOnce'
      BY <1>1, <2>2 DEF BufferedOnce
    <2>5. NewestHeld => NewestHeld'
      BY <1>1, <2>2, <2>3 DEF NewestHeld, Attached
    <2> QED BY <1>1, <2>1, <2>4, <2>5 DEF BrokerInv, PulsarInv, HeldBack, Attached
  <1>4. which = "sqs" => SqsInv'
    BY <1>1 DEF BrokerInv, SqsInv, SqsTypes, LeasedOnce, SqsOperation, LeaseIsNewest
  <1>5. which = "rocketmq" => RocketInv'
    BY <1>1 DEF BrokerInv, RocketInv, RocketTypes, LeasedOnce, RocketOperation, InOrder, Waits, LeaseIsNewest
  <1>6. ContractStep
    <2>1. CASE which = "rabbitmq"
      BY <1>1, <1>2, <2>1, RabbitSame DEF BrokerInv, RabbitInv
    <2>2. CASE which = "pulsar"
      <3>1. \A m : PulsarStored(m)' <=> PulsarStored(m)
        BY <1>1 DEF PulsarStored
      <3> QED BY <1>1, <2>2, <3>1, PulsarSame
    <2>3. CASE which \in {"sqs", "rocketmq"}
      <3>1. \A m : Stored(m)' <=> Stored(m)
        BY <1>1 DEF Stored
      <3> QED BY <1>1, <2>3, <3>1, SqsSame, RocketSame
    <2>4. CASE which \in Stores
      BY <1>1, <2>4, StoresPromiseNothing, StoresPromiseNothingNext, NoPromise
    <2>5. CASE which = "kafka"
      BY <1>1, <2>5, KafkaSame
    <2> QED BY <2>1, <2>2, <2>3, <2>4, <2>5 DEF BrokerInv
  <1>7. which = "kafka" => KafkaInv'
    BY <1>1, KafkaIdle DEF BrokerInv
  <1> QED BY <1>1, <1>2, <1>3, <1>4, <1>5, <1>6, <1>7 DEF BrokerInv

\* What the acknowledging backends promise, ack and nack of Kafka, RabbitMQ,
\* Pulsar, RocketMQ and SQS: whatever connects, disconnects, rebalances, lost
\* channels, expired leases, late acks and stale tokens happen, a stored
\* message leaves the broker for good only by the ack of its newest delivery or
\* by a clear.
THEOREM RefinesHolds == MCSpec => Refines
  <1>1. MCInit => BrokerInv /\ Contract!Init
    <2> SUFFICES ASSUME MCInit
                 PROVE  BrokerInv /\ Contract!Init
      OBVIOUS
    <2>1. CASE which = "rabbitmq"
      BY <2>1, RabbitStart DEF MCInit, BrokerInv
    <2>2. CASE which = "pulsar"
      BY <2>2, PulsarStart DEF MCInit, BrokerInv
    <2>3. CASE which = "sqs"
      BY <2>3, SqsStart DEF MCInit, BrokerInv
    <2>4. CASE which = "rocketmq"
      BY <2>4, RocketStart DEF MCInit, BrokerInv
    <2>5. CASE which \in Stores
      <3>1. Contract!Init
        BY <2>5, StoresPromiseNothing DEF Contract!Init
      <3> QED BY <2>5, <3>1 DEF Stores, BrokerInv
    <2>6. CASE which = "kafka"
      <3>1. Kafka!Init
        BY <2>6 DEF MCInit
      <3>2. KafkaInv /\ Contract!Init
        BY <2>6, <3>1, KafkaStart
      <3> QED BY <2>6, <3>2 DEF BrokerInv
    <2> QED BY <2>1, <2>2, <2>3, <2>4, <2>5, <2>6 DEF MCInit, Stores
  <1>2. BrokerInv /\ [MCNext]_MCvars => BrokerInv' /\ ContractStep
    <2> SUFFICES ASSUME BrokerInv, [MCNext]_MCvars
                 PROVE  BrokerInv' /\ ContractStep
      OBVIOUS
    <2>1. CASE UNCHANGED MCvars
      BY <2>1, BrokerInvKept
    <2>2. CASE MCNext
      <3>1. which' = which
        BY <2>2 DEF MCNext
      <3>2. CASE which = "rabbitmq"
        BY <2>2, <3>1, <3>2, RabbitStep DEF MCNext, BrokerInv
      <3>3. CASE which = "pulsar"
        BY <2>2, <3>1, <3>3, PulsarStep DEF MCNext, BrokerInv
      <3>4. CASE which = "sqs"
        BY <2>2, <3>1, <3>4, SqsStep DEF MCNext, BrokerInv
      <3>5. CASE which = "rocketmq"
        BY <2>2, <3>1, <3>5, RocketStep DEF MCNext, BrokerInv
      <3>6. CASE which \in Stores
        <4>1. ContractStep
          BY <3>1, <3>6, StoresPromiseNothing, StoresPromiseNothingNext, NoPromise
        <4> QED BY <3>1, <3>6, <4>1 DEF Stores, BrokerInv
      <3>7. CASE which = "kafka"
        BY <2>2, <3>1, <3>7, KafkaStep DEF MCNext, BrokerInv
      <3> QED BY <2>2, <3>2, <3>3, <3>4, <3>5, <3>6, <3>7 DEF BrokerInv
    <2> QED BY <2>1, <2>2
  <1> QED BY <1>1, <1>2, PTL DEF MCSpec, Refines, Contract!Spec, ContractStep

=============================================================================
