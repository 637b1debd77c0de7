------------------------ MODULE SchedulerLifecycle ------------------------
(***************************************************************************)
(* Opening, polling and closing the scheduler inside a running reactor     *)
(* (BackendScheduler in schedule/scheduler.py).  Blocking calls run in     *)
(* worker threads; what follows a call runs in a reactor callback.  open() *)
(* is a chain of three workers: open the duplicate filter, warm up the     *)
(* connections, construct the queue.  A close attempt is a chain too: wait *)
(* for an open under way, wait for the settlements under way, close the    *)
(* queue, disconnect the signals and close the duplicate filter, release   *)
(* the connection managers.  An attempt that fails leaves what it has done *)
(* in flags, and the next attempt goes on from there.                      *)
(*                                                                         *)
(* The bounded view of a chain may time out before the chain ends; that    *)
(* changes no state, since the attempt stays its own until the chain ends. *)
(* The queue is reduced to its gate: QueueLifecycle has the rest.          *)
(***************************************************************************)
EXTENDS Naturals, FiniteSets

CONSTANTS Tokens,    \* deliveries, in the order they are popped
          PauseAt, ResumeAt,   \* the backpressure thresholds
          MaxDepth   \* bound: the queue depth a poll reads

VARIABLES
  state,      \* _lifecycle_state
  opening,    \* the worker the open under way waits for, or "none"
  cancelled,  \* _open_close_requested
  closeStage,  \* the stage of the close attempt that owns the scheduler, or "none"
  lossy,      \* the attempt is an abort
  queue,      \* "none", "live", "closing" (rejects operations), "closed"
  terminal,   \* _queue_terminal
  signals,    \* the ack signals are connected
  dupefilter, \* "shut", "open" or "released"
  managers,   \* the connection managers still held
  awaited,    \* the settlements _pending_settlement_barrier collected
  carried,    \* deliveries whose request carries its token in request.meta
  settlementClaims,   \* _settlement_claims
  settling,   \* delivery |-> how far its settlement is
  unheard,    \* settlements whose public view failed without a timeout
  paused, probeDue,   \* the backpressure gate
  signalled,  \* delivery |-> signals fired for its request
  acked, skipped, cut, late  \* history: broker calls that landed for a
                 \* delivery, polls in a row that the gate sent away, the
                 \* settlements an abort left running, and the settlements
                 \* submitted when the close of the queue was under way

lifecycle == <<state, opening, cancelled>>
closing == <<closeStage, lossy, terminal, awaited>>
parts == <<queue, signals, dupefilter, managers>>
settlement == <<carried, settlementClaims, settling, unheard, signalled, acked, cut, late>>
gate == <<paused, probeDue, skipped>>
schedulerVars == <<lifecycle, closing, parts, settlement, gate>>

Managers == {"queue", "snapshot"}
Pending == {k \in Tokens : settling[k] \in {"queued", "calling", "ok", "failed", "rejected"}}
Calling == {k \in Tokens : settling[k] = "calling"}

SchedulerInit ==
  /\ state = "new" /\ opening = "none" /\ cancelled = FALSE
  /\ closeStage = "none" /\ lossy = FALSE /\ terminal = FALSE /\ awaited = {}
  /\ queue = "none" /\ signals = FALSE /\ dupefilter = "shut" /\ managers = Managers
  /\ carried = {} /\ settlementClaims = {} /\ settling = [k \in Tokens |-> "none"] /\ unheard = {}
  /\ paused = FALSE /\ probeDue = FALSE
  /\ acked = [k \in Tokens |-> 0] /\ skipped = 0 /\ cut = {} /\ late = {}
  /\ signalled = [k \in Tokens |-> 0]

----------------------------------------------------------------------------
(* The close attempt. *)

AttemptFails ==
  /\ closeStage' = "none" /\ lossy' = FALSE
  /\ UNCHANGED <<awaited, terminal, queue, signals, dupefilter, managers>>

\* The ack signals reach the scheduler from here on, or no longer.
ConnectAckSignals == signals' = TRUE
DisconnectSignalLeases == signals' = FALSE

\* _close_after_queue(): the signals go, then the duplicate filter, then the
\* managers, each only when it is not done yet.  A disconnect that raises ends
\* the attempt with a signal still connected.
CloseAfterQueue ==
  /\ terminal' = TRUE
  /\ \/ /\ DisconnectSignalLeases
        /\ closeStage' = IF dupefilter = "released" THEN "managers" ELSE "dupefilter"
     \/ signals /\ closeStage' = "none" /\ UNCHANGED signals
  /\ UNCHANGED <<awaited, dupefilter, managers>>

\* Mutant: the attempt goes past the settlements under way.
CloseLockedAtOnce ==
  IF queue # "none" /\ ~terminal
  THEN closeStage' = "queue" /\ UNCHANGED <<awaited, terminal, queue, signals, dupefilter, managers>>
  ELSE CloseAfterQueue /\ UNCHANGED queue

\* _close_locked(): as far as it goes without waiting.
CloseLocked ==
  IF terminal THEN CloseAfterQueue /\ UNCHANGED queue
  ELSE IF Pending # {}
  THEN /\ closeStage' = "settlements" /\ awaited' = Pending
       /\ UNCHANGED <<terminal, queue, signals, dupefilter, managers>>
  ELSE IF queue # "none"
  THEN /\ closeStage' = "queue"
       /\ UNCHANGED <<awaited, terminal, queue, signals, dupefilter, managers>>
  ELSE CloseAfterQueue /\ UNCHANGED queue

\* Mutant: a close does not wait for the open under way.
CloseDuringOpen(abort) ==
  /\ state # "closed" /\ closeStage = "none"
  /\ state' = "closing" /\ lossy' = abort /\ cancelled' = TRUE
  /\ CloseLocked
  /\ UNCHANGED <<opening, settlement, gate>>

\* close() and abort().  Refused while an attempt is under way; an open under
\* way is cancelled and waited for.
Close(abort) ==
  /\ state # "closed" /\ closeStage = "none" /\ (state = "opening" => opening # "none")
  /\ state' = "closing" /\ lossy' = abort
  /\ IF opening # "none"
     THEN /\ cancelled' = TRUE /\ closeStage' = "open"
          /\ UNCHANGED <<awaited, terminal, parts>>
     ELSE CloseLocked /\ UNCHANGED cancelled
  /\ UNCHANGED <<opening, settlement, gate>>

\* The open ended, or every settlement collected did: look again.
CloseContinues ==
  /\ \/ closeStage = "open" /\ opening = "none"
     \/ closeStage = "settlements" /\ awaited = {}
  /\ CloseLocked
  /\ UNCHANGED <<lifecycle, lossy, settlement, gate>>

\* queue.close() in a worker: from its start the queue rejects operations.
QueueCloseBegins ==
  /\ closeStage = "queue" /\ queue = "live" /\ queue' = "closing"
  /\ UNCHANGED <<lifecycle, closing, signals, dupefilter, managers, settlement, gate>>

\* _handle_queue_close_failure() lets an abort go on whatever the queue reports.
QueueGivenUp ==
  /\ lossy /\ queue # "live"
  /\ cut' = cut \union Calling
  /\ CloseAfterQueue /\ UNCHANGED <<queue, lossy>>

\* It ends: drained and closed (the cleanup of the strategy may have failed,
\* which is terminal too), or the attempt fails and can be retried, for a
\* drain that timed out, a checkpoint that failed or a refused worker.
QueueCloseEnds ==
  /\ closeStage = "queue"
  /\ \/ /\ queue # "live" /\ Calling = {}
        /\ queue' = "closed" /\ CloseAfterQueue /\ UNCHANGED <<lossy, cut>>
     \/ QueueGivenUp
     \/ ~(lossy /\ queue # "live") /\ AttemptFails /\ UNCHANGED cut
  /\ UNCHANGED <<lifecycle, carried, settlementClaims, settling, unheard, signalled, acked, late, gate>>

\* The duplicate filter is closed or released in a worker.
DupefilterCloses ==
  /\ closeStage = "dupefilter"
  /\ \/ /\ dupefilter' = "released" /\ closeStage' = "managers"
        /\ UNCHANGED <<lossy, awaited, terminal, queue, signals, managers>>
     \/ AttemptFails
  /\ UNCHANGED <<lifecycle, settlement, gate>>

\* _release_managers() and _publish_closed(): each manager is released unless
\* it was before; one failure fails the attempt after both were tried.
ReleaseManagers ==
  /\ closeStage = "managers"
  /\ \E kept \in SUBSET managers :
       /\ managers' = kept /\ closeStage' = "none" /\ lossy' = FALSE
       /\ IF kept = {}
          THEN /\ state' = "closed" /\ queue' = "none" /\ opening' = "none"
               /\ cancelled' = FALSE /\ paused' = FALSE /\ probeDue' = FALSE
          ELSE UNCHANGED <<lifecycle, queue, paused, probeDue>>
  /\ UNCHANGED <<terminal, awaited, signals, dupefilter, settlement, skipped>>

----------------------------------------------------------------------------
(* Opening. *)

Open ==
  /\ state = "new" /\ state' = "opening" /\ cancelled' = FALSE
  /\ opening' = IF dupefilter = "shut" THEN "dupefilter" ELSE "warm"
  /\ UNCHANGED <<closing, parts, settlement, gate>>

\* _cleanup_after_open_failure()
CleansUp == state' = "closing" /\ lossy' = FALSE /\ CloseLocked

\* A worker of the open failed: the same close attempt an explicit close makes
\* cleans up, unless one waits already.
OpenFails ==
  /\ opening # "none" /\ opening' = "none"
  /\ IF closeStage = "none"
     THEN CleansUp
     ELSE UNCHANGED <<state, lossy, closeStage, awaited, terminal, parts>>
  /\ UNCHANGED <<cancelled, settlement, gate>>

\* The reactor refused the worker of the next step: the open never happened.
OpenRefused ==
  /\ opening # "none" /\ opening' = "none"
  /\ state' = IF state = "opening" THEN "new" ELSE state
  /\ cancelled' = FALSE
  /\ UNCHANGED <<closing, parts, settlement, gate>>

\* The duplicate filter is open: warm up the connections.
DupefilterOpened ==
  /\ opening = "dupefilter" /\ opening' = "warm" /\ dupefilter' = "open"
  /\ UNCHANGED <<state, cancelled, closing, queue, signals, managers, settlement, gate>>

\* Mutant: a cancelled open does not report that it ended.
WarmedUnsettled ==
  /\ opening = "warm" /\ ~cancelled /\ opening' = "queue"
  /\ UNCHANGED <<state, cancelled, closing, parts, settlement, gate>>

\* Warm: construct the queue, unless a close came meanwhile.
Warmed ==
  /\ opening = "warm" /\ opening' = IF cancelled THEN "none" ELSE "queue"
  /\ UNCHANGED <<state, cancelled, closing, parts, settlement, gate>>

\* publish_queue(): the queue and the signals are there for a close to find,
\* but the scheduler is open only when nobody asked to close it.
QueueConstructed ==
  /\ opening = "queue" /\ opening' = "none"
  /\ queue' = "live" /\ ConnectAckSignals
  /\ state' = IF cancelled \/ state # "opening" THEN state ELSE "open"
  /\ paused' = FALSE /\ probeDue' = FALSE
  /\ UNCHANGED <<cancelled, closing, dupefilter, managers, settlement, skipped>>

\* The queue is published, but connecting a signal raises: the open fails with
\* a live queue for the close to find.
SignalsRefused ==
  /\ opening = "queue" /\ opening' = "none"
  /\ queue' = "live" /\ signals' \in BOOLEAN
  /\ IF closeStage = "none"
     THEN state' = "closing" /\ lossy' = FALSE /\ closeStage' = "queue"
     ELSE UNCHANGED <<state, lossy, closeStage>>
  /\ UNCHANGED <<cancelled, terminal, awaited, dupefilter, managers, settlement, gate>>

----------------------------------------------------------------------------
(* Polling and settling. *)

\* A poll that goes past the gate: it takes a message, if there is one by then
\* (other processes push and pop at any time) and the pop does not fail.
Pops(k) ==
  /\ skipped' = 0
  /\ \/ /\ carried' = carried \union {k}
        /\ settling' = [settling EXCEPT ![k] = "idle"]
        /\ UNCHANGED <<settlementClaims, unheard, signalled, acked, cut, late>>
     \/ UNCHANGED settlement

\* Mutant: a pause does not owe a probe.
PausesForGood(depth) ==
  /\ depth >= PauseAt \/ (paused /\ depth > ResumeAt)
  /\ paused' = TRUE /\ probeDue' = FALSE
  /\ skipped' = skipped + 1
  /\ UNCHANGED settlement

\* The gate sends the poll away: the depth reached the upper threshold, or it
\* is still above the lower one and the last poll was the probe.
Pauses(depth) ==
  /\ IF paused THEN depth > ResumeAt /\ ~probeDue ELSE depth >= PauseAt
  /\ paused' = TRUE /\ probeDue' = TRUE
  /\ skipped' = IF depth > 0 THEN skipped + 1 ELSE 0
  /\ UNCHANGED settlement

\* The gate lets the poll through: not paused, resumed, or the probe is due;
\* a depth that cannot be read lets it through as well.
Passes(k, depth) ==
  /\ \/ /\ IF paused THEN depth <= ResumeAt ELSE depth < PauseAt
        /\ paused' = FALSE /\ probeDue' = FALSE
     \/ paused /\ depth > ResumeAt /\ probeDue /\ paused' = TRUE /\ probeDue' = FALSE
     \/ UNCHANGED <<paused, probeDue>>
  /\ Pops(k)

\* next_request(), for as long as there is a queue that accepts operations.
NextRequest ==
  /\ queue = "live" /\ \E k \in Tokens : settling[k] = "none"
  /\ \E depth \in 0 .. MaxDepth :
       Pauses(depth) \/ Passes(CHOOSE k \in Tokens : settling[k] = "none", depth)
  /\ UNCHANGED <<lifecycle, closing, parts>>

\* Mutant: a settlement does not look at the claim of an earlier one.
ClaimableTwice(k) == signals /\ k \in carried /\ queue # "none"

\* _claim_request_settlement(): the request has its token and nobody claimed it.
SettlementClaimable(k) == signals /\ k \in carried \ settlementClaims /\ queue # "none"

\* response_received or spider_error, each once for a delivery: claim the
\* token and submit the ack or nack.  A refused worker gives the claim back at
\* once; a refused timer fails the public view of a worker that runs on.
Settle(k) ==
  /\ SettlementClaimable(k) /\ settling[k] \in {"idle", "done"} /\ signalled[k] < 2
  /\ signalled' = [signalled EXCEPT ![k] = @ + 1]
  /\ settlementClaims' = settlementClaims \union {k}
  /\ settling' = [settling EXCEPT ![k] = "queued"]
  /\ unheard' \in {unheard, unheard \union {k}}
  /\ late' = IF closeStage = "queue" \/ queue # "live" THEN late \union {k} ELSE late
  /\ UNCHANGED <<lifecycle, closing, parts, carried, acked, cut, gate>>

\* The worker enters the queue, which rejects it once its close began.
Enters(k) ==
  /\ settling[k] = "queued"
  /\ settling' = [settling EXCEPT ![k] = IF queue = "live" THEN "calling" ELSE "rejected"]
  /\ UNCHANGED <<lifecycle, closing, parts, carried, settlementClaims, unheard, signalled, acked, cut, late, gate>>

\* The broker answers or the call fails.
Returns(k) ==
  /\ settling[k] = "calling"
  /\ \E r \in {"ok", "failed"} :
       /\ settling' = [settling EXCEPT ![k] = r]
       /\ acked' = [acked EXCEPT ![k] = IF r = "ok" THEN @ + 1 ELSE @]
  /\ cut' = cut \ {k}
  /\ UNCHANGED <<lifecycle, closing, parts, carried, settlementClaims, unheard, signalled, late, gate>>

\* The callback: a success takes the token from the request and ends the
\* claim, unless the public view had failed for want of a timer; a failure
\* ends the claim and leaves the token to be settled again.
Settled(k) ==
  /\ settling[k] \in {"ok", "failed", "rejected"}
  /\ settling' = [settling EXCEPT ![k] = "done"]
  /\ IF settling[k] # "ok" THEN settlementClaims' = settlementClaims \ {k} /\ UNCHANGED carried
     ELSE IF k \in unheard THEN UNCHANGED <<settlementClaims, carried>>
     ELSE settlementClaims' = settlementClaims \ {k} /\ carried' = carried \ {k}
  /\ unheard' = unheard \ {k} /\ awaited' = awaited \ {k} /\ late' = late \ {k}
  /\ UNCHANGED <<lifecycle, closeStage, lossy, terminal, parts, signalled, acked, cut, gate>>

----------------------------------------------------------------------------
OpenStep == DupefilterOpened \/ Warmed \/ QueueConstructed \/ SignalsRefused
CloseStep == CloseContinues \/ QueueCloseBegins \/ QueueCloseEnds
             \/ DupefilterCloses \/ ReleaseManagers
SettleStep(k) == Enters(k) \/ Returns(k) \/ Settled(k)

SchedulerNext ==
  \/ Open \/ OpenStep \/ OpenFails \/ OpenRefused
  \/ \E abort \in BOOLEAN : Close(abort)
  \/ CloseStep \/ NextRequest
  \/ \E k \in Tokens : Settle(k) \/ SettleStep(k)

\* Workers end and their callbacks run: every call they make is bounded.
SchedulerFairness ==
  /\ WF_schedulerVars(OpenStep) /\ WF_schedulerVars(CloseStep)
  /\ \A k \in Tokens : WF_schedulerVars(SettleStep(k))

----------------------------------------------------------------------------
SchedulerTypeOK ==
  /\ state \in {"new", "opening", "open", "closing", "closed"}
  /\ opening \in {"none", "dupefilter", "warm", "queue"}
  /\ closeStage \in {"none", "open", "settlements", "queue", "dupefilter", "managers"}
  /\ queue \in {"none", "live", "closing", "closed"}
  /\ managers \subseteq Managers /\ carried \subseteq Tokens /\ settlementClaims \subseteq Tokens

\* Nothing that was built or borrowed is still at work when the managers go:
\* no worker of an open, no queue that accepts operations, no duplicate
\* filter, and no settlement inside the queue except those an abort cut off
\* (the order of _close_locked and the barrier in front of it).
ReleasedLast ==
  /\ SchedulerTypeOK
  /\ managers # Managers =>
       /\ opening = "none" /\ queue # "live" /\ dupefilter = "released" /\ ~signals
       /\ Calling \subseteq cut

\* A delivery is settled at the broker once at most by the scheduler, although
\* two signals may fire for one request, a settlement may be refused and tried
\* again, and a refused timer leaves a claim behind (_claim_request_settlement,
\* authoritative_success).
SettledOnce == \A k \in Tokens : acked[k] <= 1

\* A settlement submitted before the queue began to close is not turned away
\* by the closing queue: the barrier waits for it, and looks again for those
\* that came meanwhile.
EarlySettlementsEnter ==
  \A k \in Tokens : settling[k] = "rejected" => k \in late

\* The backpressure gate never sends two polls in a row away while there is
\* something to pop: a paused crawl goes on draining.
GateProbes == skipped <= 1

\* A close attempt comes to its end, whatever open or settlement it has to
\* wait for: a settlement that begins after the barrier collected does not
\* hold it up for ever.
CloseAttemptEnds == (closeStage # "none") ~> (closeStage = "none")
=============================================================================
