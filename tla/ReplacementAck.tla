--------------------------- MODULE ReplacementAck ---------------------------
(***************************************************************************)
(* How one broker delivery (the source) is settled when its download has   *)
(* ended: src/scrapy_extension/schedule/scheduler.py with the token of     *)
(* queue/strategies/base.py.                                               *)
(*                                                                         *)
(* The signals response_received and spider_error ack or nack the token    *)
(* the request carries.  An errback may answer a failed download with a    *)
(* stream of replacement requests; the token then moves into a group that  *)
(* acks the source once the stream is exhausted and every replacement is   *)
(* in the queue for good, and nacks it when the stream fails.  Both submit *)
(* the broker call to a worker thread and hear of its end in a reactor     *)
(* callback, so each is a step of its own.                                 *)
(*                                                                         *)
(* The public view of a worker may time out before the worker ends.  That  *)
(* changes no state: claim, group and token follow the worker itself.  It  *)
(* fails at once when its timer is refused, and then the success of a      *)
(* signal's worker goes unheard ("untold"): claim and token stay.          *)
(* Without a running reactor the same calls run one after the other, which *)
(* are behaviours of this specification too.                               *)
(***************************************************************************)
EXTENDS Integers, FiniteSets

CONSTANTS
  Children,   \* the replacement requests an errback may emit
  MaxOps,     \* bound: workers submitted for one delivery
  MaxFaults   \* bound: broker calls and submissions that fail

ASSUME OpsAssumption == MaxOps \in Nat
ASSUME FaultsAssumption == MaxFaults \in Nat

Ops == 1..MaxOps
NoOp == 0

VARIABLES
  meta,      \* request.meta: {"token"} while it carries the source token
  claims,    \* _settlement_claims: {"token"} while a signal owns it
  untold,    \* signal workers whose public view failed without a timeout; one
             \* leaves when it fails
  stream,    \* the errback's output
  flags,     \* of the group: see Flags
  pending,   \* _pending of the group
  child,     \* the replacement: not emitted, emitted without a token, emitted
             \* with a child token, or past its commit boundary
  issued,    \* workers submitted so far
  opBy,      \* who submitted the worker
  opKind,    \* queue.ack or queue.nack
  opStage,   \* how far the worker is
  bound,     \* _BoundQueueAckToken._state
  busy,      \* the worker that holds _settlement_in_progress, or NoOp
  landed,    \* workers whose broker call returned (for the properties)
  faults     \* failures so far

requestVars == <<meta, claims, untold>>
groupVars == <<stream, flags, pending, child>>
opVars == <<issued, opBy, opKind, opStage>>
tokenVars == <<bound, busy, landed, faults>>
vars == <<requestVars, groupVars, opVars, tokenVars>>

\* The group exists; _sealed; _terminal; _settlement_in_progress.
Flags == {"made", "sealed", "terminal", "settling"}
Stages == {"unused", "queued", "calling", "ok", "failed", "done"}

TypeOK ==
  /\ meta \in SUBSET {"token"}
  /\ claims \in SUBSET {"token"}
  /\ untold \in SUBSET Ops
  /\ stream \in {"download", "open", "exhausted", "broken"}
  /\ flags \in SUBSET Flags
  /\ pending \in SUBSET Children
  /\ child \in [Children -> {"absent", "loose", "attached", "safe"}]
  /\ issued \in 0..MaxOps
  /\ opBy \in [Ops -> {"signal", "group"}]
  /\ opKind \in [Ops -> {"ack", "nack"}]
  /\ opStage \in [Ops -> Stages]
  /\ bound \in {"pending", "acked", "nacked"}
  /\ busy \in {NoOp} \cup Ops
  /\ landed \in SUBSET Ops
  /\ faults \in 0..MaxFaults
  /\ busy # NoOp => opStage[busy] = "calling"

Init ==
  /\ meta = {"token"}
  /\ claims = {}
  /\ untold = {}
  /\ stream = "download"
  /\ flags = {}
  /\ pending = {}
  /\ child = [c \in Children |-> "absent"]
  /\ issued = 0
  /\ opBy = [o \in Ops |-> "signal"]
  /\ opKind = [o \in Ops |-> "ack"]
  /\ opStage = [o \in Ops |-> "unused"]
  /\ bound = "pending"
  /\ busy = NoOp
  /\ landed = {}
  /\ faults = 0

(***************************************************************************)
(* Submitting queue.ack or queue.nack to a worker thread                   *)
(* (_settle_token_async_ordered).                                          *)
(***************************************************************************)
Submit(by, kind) ==
  /\ issued < MaxOps
  /\ issued' = issued + 1
  /\ opBy' = [opBy EXCEPT ![issued + 1] = by]
  /\ opKind' = [opKind EXCEPT ![issued + 1] = kind]
  /\ opStage' = [opStage EXCEPT ![issued + 1] = "queued"]

(***************************************************************************)
(* _ack_request_token and _nack_request_token: settle the token that the   *)
(* request carries, unless another signal is about to.                     *)
(***************************************************************************)

\* _claim_request_settlement
Claimable == meta # {} /\ claims = {}

\* The timer of the worker's public view may be refused (defer_to_thread_ordered).
SettleRequest(kind) ==
  /\ Claimable
  /\ claims' = {"token"}
  /\ untold' \in {untold, untold \cup {issued + 1}}
  /\ Submit("signal", kind)
  /\ UNCHANGED meta

\* Nothing to claim: the call returns None.
SettleRequestIfAny(kind) ==
  \/ SettleRequest(kind)
  \/ /\ ~ Claimable
     /\ UNCHANGED <<requestVars, opVars>>

\* response_received: the download succeeded.  (The errback may still be called,
\* when a spider middleware refuses the response.)
ResponseReceived ==
  /\ stream = "download"
  /\ SettleRequest("ack")
  /\ UNCHANGED <<groupVars, tokenVars>>

\* spider_error: a callback or an errback raised.
SpiderError ==
  /\ SettleRequest("nack")
  /\ UNCHANGED <<groupVars, tokenVars>>

(***************************************************************************)
(* _DeferredReplacementAckGroup.  Each operator gives the next flags and   *)
(* pending children, and submits the source's settlement if it is due.     *)
(***************************************************************************)
\* Mutant: the last pending child settles the source of a stream still open.
LastPending(c) == pending = {c}
\* Mutant: sealing waits for a child even when none is pending.
NeverEmpty == FALSE

Live == "made" \in flags /\ "terminal" \notin flags
Settling == "settling" \in flags
Drained == pending = {}
LastOfSealed(c) == "sealed" \in flags /\ pending = {c}

\* seal()
Seal ==
  IF ~ Live
    THEN UNCHANGED <<flags, pending, opVars>>
    ELSE /\ UNCHANGED pending
         /\ IF Drained /\ ~ Settling
              THEN /\ flags' = flags \cup {"sealed", "settling"}
                   /\ Submit("group", "ack")
              ELSE /\ flags' = flags \cup {"sealed"}
                   /\ UNCHANGED opVars

\* abort(), of a group with flags fl: a worker that owns the source already cannot
\* be called back.
Abort(fl) ==
  IF "terminal" \in fl
    THEN UNCHANGED <<flags, pending, opVars>>
    ELSE /\ pending' = {}
         /\ IF "settling" \in fl
              THEN /\ flags' = fl \cup {"terminal"}
                   /\ UNCHANGED opVars
              ELSE /\ flags' = fl \cup {"terminal", "settling"}
                   /\ Submit("group", "nack")

(***************************************************************************)
(* The errback's output (_BackendDownloadFailureErrback).                  *)
(***************************************************************************)
Errback ==
  /\ stream = "download"
  /\ stream' = "open"
  /\ UNCHANGED <<flags, pending, child, requestVars, opVars, tokenVars>>

\* The group that the next replacement belongs to, made of the request's token if
\* there is one (_new_group).
NewGroup == IF "made" \in flags \/ meta = {} THEN flags ELSE flags \cup {"made"}

\* A replacement request: it gets a child token unless there is no token to
\* share or the group has aborted (_attach_replacement, new_child).
EmitReplacement(c) ==
  /\ stream = "open"
  /\ child[c] = "absent"
  /\ flags' = NewGroup
  /\ meta' = {}
  /\ IF "made" \in NewGroup /\ "terminal" \notin flags
       THEN /\ child' = [child EXCEPT ![c] = "attached"]
            /\ pending' = pending \cup {c}
       ELSE /\ child' = [child EXCEPT ![c] = "loose"]
            /\ UNCHANGED pending
  /\ UNCHANGED <<claims, untold, stream, opVars, tokenVars>>

\* A replacement that carries another delivery's token aborts the group.
EmitConflict ==
  /\ stream = "open"
  /\ "made" \in NewGroup
  /\ "terminal" \notin flags
  /\ meta' = {}
  /\ Abort(NewGroup)
  /\ UNCHANGED <<claims, untold, stream, child, tokenVars>>

\* The output ends: seal the group; without one the failure was handled and the
\* request's own token is acked.
Exhaust ==
  /\ stream = "open"
  /\ stream' = "exhausted"
  /\ \/ /\ "made" \in flags
        /\ Seal
        /\ UNCHANGED requestVars
     \/ /\ "made" \notin flags
        /\ SettleRequestIfAny("ack")
        /\ UNCHANGED <<flags, pending>>
  /\ UNCHANGED <<child, tokenVars>>

\* The errback or its output raises.
BreakStream ==
  /\ stream = "open"
  /\ stream' = "broken"
  /\ \/ /\ "made" \in flags
        /\ Abort(flags)
        /\ UNCHANGED requestVars
     \/ /\ "made" \notin flags
        /\ SettleRequestIfAny("nack")
        /\ UNCHANGED <<flags, pending>>
  /\ UNCHANGED <<child, tokenVars>>

(***************************************************************************)
(* The replacements in BackendQueue._push: past the durable commit (or the *)
(* drop of an invalid request) the child token is acked.  A copy of the    *)
(* request carries the same token, so it may be acked again, or nacked.    *)
(***************************************************************************)
Commit(c) ==
  /\ child[c] = "attached"
  /\ child' = [child EXCEPT ![c] = "safe"]
  /\ UNCHANGED <<requestVars, stream, flags, pending, opVars, tokenVars>>

\* accept(): the last child of a sealed group stays until the source is acked.
Accept(c) ==
  /\ child[c] = "safe"
  /\ Live
  /\ c \in pending
  /\ IF LastOfSealed(c)
       THEN /\ ~ Settling
            /\ flags' = flags \cup {"settling"}
            /\ Submit("group", "ack")
            /\ UNCHANGED pending
       ELSE /\ pending' = pending \ {c}
            /\ UNCHANGED <<flags, opVars>>
  /\ UNCHANGED <<requestVars, stream, child, tokenVars>>

ChildNack(c) ==
  /\ child[c] \in {"attached", "safe"}
  /\ Live
  /\ Abort(flags)
  /\ UNCHANGED <<requestVars, stream, child, tokenVars>>

(***************************************************************************)
(* A worker: _BoundQueueAckToken._settle.                                  *)
(***************************************************************************)

Settleable == bound = "pending" /\ busy = NoOp
Unreserve(o) == NoOp

\* Reserve the transition, or return without a broker call.
Start(o) ==
  /\ opStage[o] = "queued"
  /\ IF Settleable
       THEN /\ busy' = o
            /\ opStage' = [opStage EXCEPT ![o] = "calling"]
       ELSE /\ opStage' = [opStage EXCEPT ![o] = "ok"]
            /\ UNCHANGED busy
  /\ UNCHANGED <<requestVars, groupVars, issued, opBy, opKind, bound, landed, faults>>

\* The thread pool or the closing queue refuses the worker.
Refuse(o) ==
  /\ opStage[o] = "queued"
  /\ faults < MaxFaults
  /\ faults' = faults + 1
  /\ opStage' = [opStage EXCEPT ![o] = "failed"]
  /\ UNCHANGED <<requestVars, groupVars, issued, opBy, opKind, bound, busy, landed>>

BrokerReturns(o) ==
  /\ opStage[o] = "calling"
  /\ opStage' = [opStage EXCEPT ![o] = "ok"]
  /\ bound' = IF opKind[o] = "ack" THEN "acked" ELSE "nacked"
  /\ busy' = NoOp
  /\ landed' = landed \cup {o}
  /\ UNCHANGED <<requestVars, groupVars, issued, opBy, opKind, faults>>

\* The token stays pending, so that a later signal can settle it.
BrokerRaises(o) ==
  /\ opStage[o] = "calling"
  /\ faults < MaxFaults
  /\ faults' = faults + 1
  /\ opStage' = [opStage EXCEPT ![o] = "failed"]
  /\ busy' = Unreserve(o)
  /\ UNCHANGED <<requestVars, groupVars, issued, opBy, opKind, bound, landed>>

(***************************************************************************)
(* The reactor callbacks at the worker's end.                              *)
(***************************************************************************)
Ended(o) == opStage[o] \in {"ok", "failed"}

\* A signal's worker that failed releases the claim
\* (_release_settlement_claim); one that succeeded also drops the request's token
\* (_complete_claimed_request_token), unless its public view had failed already
\* (authoritative_success): then both stay for good.
CompleteSignal(o) ==
  /\ Ended(o)
  /\ opBy[o] = "signal"
  /\ opStage' = [opStage EXCEPT ![o] = "done"]
  /\ \/ /\ opStage[o] = "failed"
        /\ claims' = {}
        /\ untold' = untold \ {o}
        /\ UNCHANGED meta
     \/ /\ opStage[o] = "ok" /\ o \notin untold
        /\ meta' = {}
        /\ claims' = {}
        /\ UNCHANGED untold
     \/ /\ opStage[o] = "ok" /\ o \in untold
        /\ UNCHANGED requestVars
  /\ UNCHANGED <<groupVars, issued, opBy, opKind, tokenVars>>

\* settled_success and settled_failure: only a successful ack ends the group.
AfterSettlement(o) ==
  IF opStage[o] = "ok" /\ opKind[o] = "ack"
    THEN (flags \ {"settling"}) \cup {"terminal"}
    ELSE flags \ {"settling"}

CompleteGroup(o) ==
  /\ Ended(o)
  /\ opBy[o] = "group"
  /\ opStage' = [opStage EXCEPT ![o] = "done"]
  /\ flags' = AfterSettlement(o)
  /\ pending' = IF opStage[o] = "ok" /\ opKind[o] = "ack" THEN {} ELSE pending
  /\ UNCHANGED <<stream, child, requestVars, issued, opBy, opKind, tokenVars>>

Next ==
  \/ ResponseReceived
  \/ SpiderError
  \/ Errback
  \/ EmitConflict
  \/ Exhaust
  \/ BreakStream
  \/ \E c \in Children :
       \/ EmitReplacement(c)
       \/ Commit(c)
       \/ Accept(c)
       \/ ChildNack(c)
  \/ \E o \in Ops :
       \/ Start(o)
       \/ Refuse(o)
       \/ BrokerReturns(o)
       \/ BrokerRaises(o)
       \/ CompleteSignal(o)
       \/ CompleteGroup(o)

Spec == Init /\ [][Next]_vars

(***************************************************************************)
(* The thread pool runs its workers, broker calls return or raise (the     *)
(* drivers have timeouts) and the reactor runs its callbacks; an errback's *)
(* stream ends and its replacements reach the queue.                       *)
(***************************************************************************)
Fairness ==
  /\ \A o \in Ops : /\ WF_vars(Start(o) \/ Refuse(o))
                    /\ WF_vars(BrokerReturns(o) \/ BrokerRaises(o))
                    /\ WF_vars(CompleteSignal(o) \/ CompleteGroup(o))
  /\ WF_vars(Exhaust \/ BreakStream)
  /\ \A c \in Children : WF_vars(Commit(c)) /\ WF_vars(Accept(c))

FairSpec == Spec /\ Fairness

-----------------------------------------------------------------------------
(***************************************************************************)
(* Properties.                                                             *)
(***************************************************************************)

\* No replacement is lost: when a group acks its source, its stream is exhausted
\* and every replacement that got a child token is past its commit boundary
\* (scheduler.py lines 204-211), whatever children, signals and failed broker
\* calls came before.
SourceAckJustified ==
  \A o \in Ops :
    opStage[o] # "unused" /\ opBy[o] = "group" /\ opKind[o] = "ack"
      => stream = "exhausted" /\ \A c \in Children : child[c] # "attached"

\* One broker outcome: workers of signals and of the group share the token, yet
\* at most one broker call is in flight, and none once a call has returned
\* (base.py lines 119-126: "exactly one successful terminal transition").
OneOutcome ==
  /\ \A o, p \in Ops : opStage[o] = "calling" /\ opStage[p] = "calling" => o = p
  /\ \A o, p \in landed : o = p
  /\ landed # {} => \A o \in Ops : opStage[o] # "calling"

Outstanding(o) == opStage[o] \in {"queued", "calling", "ok", "failed"}

\* "Without this claim the later signal would start a second ack or nack for the
\* same delivery" (scheduler.py lines 2344-2350): the claim belongs to one worker
\* of a signal at most, which is outstanding or succeeded untold, and is held
\* exactly as long as there is one: only an untold one keeps it for good.
Unheard(o) == opStage[o] = "done" /\ o \in untold
HoldsClaim(o) == opBy[o] = "signal" /\ (Outstanding(o) \/ Unheard(o))

ClaimExclusive ==
  /\ \A o, p \in Ops : HoldsClaim(o) /\ HoldsClaim(p) => o = p
  /\ claims # {} <=> \E o \in Ops : HoldsClaim(o)

\* "Never let late child commits turn this into an ack" (scheduler.py lines
\* 349-350): once a group is terminal it submits nothing.
AbortIsFinal ==
  [][ "terminal" \in flags =>
        \A o \in Ops : opStage[o] = "unused" /\ opStage'[o] # "unused"
                         => opBy'[o] = "signal" ]_vars

\* Every settlement ends, for the group and for the request, whatever fails: the
\* claim is released, unless its worker succeeded and the news of it was lost.
SettlementEnds ==
  /\ Settling ~> ~ Settling
  /\ claims # {} ~> claims = {} \/ \E o \in Ops : Unheard(o)

\* Without faults a delivery whose errback ran is settled.
HandledDelivered == stream # "download" /\ issued < MaxOps ~> bound # "pending" \/ faults > 0

\* One broker call settles the delivery, by one signal or by a group whose
\* replacements have all been handed over.
SettlementSound == SourceAckJustified /\ OneOutcome /\ ClaimExclusive

\* A settlement comes to an end, an aborted group stays out of it, and a
\* delivery that was handled is settled.
SettlementsEnd == AbortIsFinal /\ SettlementEnds /\ HandledDelivered

=============================================================================
