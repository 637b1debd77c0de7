----------------------------- MODULE DupeFilter -----------------------------
(***************************************************************************)
(* The lifecycle of the duplicate filter and the receipts it hands out     *)
(* (BackendDupeFilter in dupefilter/dupefilter.py).                        *)
(*                                                                         *)
(* A call of request_seen is admitted into the current epoch and works on  *)
(* the membership filter outside the lifecycle lock.  open, clear and      *)
(* release stop the admission, wait for the admitted calls and only then   *)
(* touch the filter and start a new epoch.                                 *)
(*                                                                         *)
(* Two protocols use the filter.  The scheduler's own reads the marker,    *)
(* keeps a reservation and writes the marker when the push is done         *)
(* (Delivery has it in full).  Scrapy's boolean protocol writes the marker *)
(* at once and keeps a receipt, so that forget can take the marker back    *)
(* when the push failed.  A filter that cannot remove, or cannot be        *)
(* reached, gets a retry allowance instead: one more miss for that         *)
(* fingerprint.  Allowances are bounded, and a slot for one is reserved    *)
(* before the marker is written.                                           *)
(*                                                                         *)
(* A call is interrupted (KeyboardInterrupt and the like) in the filter's  *)
(* callbacks and between one of them and the publication of its result.    *)
(* Monitors, a filter that calls back into request_seen, and one without   *)
(* membership support, which raises on every call, are left out.           *)
(***************************************************************************)
EXTENDS Naturals, Sequences, FiniteSets, SequencesExt

CONSTANTS
  Callers,      \* threads
  Requests,     \* Request objects
  Fingerprint,       \* request |-> its fingerprint
  Nobody,
  Owners,       \* release tokens, "direct" among them
  Limits,       \* values of _retry_allowance_limit
  ShadowLimit,  \* _volatile_fingerprint_limit
  MaxEpoch,     \* bound: epochs
  MaxDecisions  \* bound: calls of request_seen

VARIABLES
  phase,          \* _lifecycle_state
  epoch,          \* _reservation_epoch
  prior,          \* prior_state of the clear under way, "new" when there is none
  opener,         \* whose frame holds _open_owner_token
  clearer,        \* _lifecycle_transition_thread_id, set with _clear_in_progress
  closeRequested, \* _close_requested
  owner,          \* _release_owner_token; an alias counts as "direct"
  releaser,       \* _release_thread_id, set with _release_in_progress
  released,       \* of {"filter", "manager"}: what close has released
  marked,        \* the content of the membership filter
  removes,        \* the filter supports remove
  limit,          \* _retry_allowance_limit
  volatile,         \* _volatile_fingerprints, oldest first
  allowances,     \* _retry_allowances
  slots,          \* _retry_allowance_slots_reserved
  receipts,       \* _legacy_reservations and _legacy_handoffs
  retired,        \* _legacy_retired_requests
  reserved,       \* _active_reservations: callers whose reservation is known
  call,           \* what each caller does
  owed,           \* history: fingerprints whose request went nowhere
  leaked,         \* history: slots no call, receipt or allowance has
  reopened,       \* history: a clear undid the closing phase
  decisions       \* history: calls of request_seen so far

transition == <<prior, opener, clearer, closeRequested, owner, releaser, released>>
fixed == <<removes, limit>>
ledger == <<volatile, allowances, slots, receipts, retired, reserved>>
history == <<owed, leaked>>
vars == <<phase, epoch, transition, marked, fixed, ledger, call, history, reopened,
          decisions>>

Prints == {Fingerprint[r] : r \in Requests}
Phases == {"new", "opening", "open", "clearing", "closing", "closed"}

\* One invocation of a caller: slot is the slot_reserved of its intent.
Idle == [at |-> "idle", request |-> Nobody, transactional |-> FALSE, epoch |-> 0,
         slot |-> FALSE, kept |-> FALSE]
At(c, s) == call[c].at = s
PrintOf(c) == Fingerprint[call[c].request]
Goto(c, s) == call' = [call EXCEPT ![c].at = s]
Starts(c, s) == call' = [call EXCEPT ![c] = [Idle EXCEPT !.at = s]]
Leaves(c) == call' = [call EXCEPT ![c] = Idle]

\* _active_operations: the calls between the two halves of _admit_operation.
Operations == {"looking", "probing", "adding", "answering", "interrupted",
               "removing", "granting", "forgotten", "committing"}
Active == {c \in Callers : call[c].at \in Operations}
Admitting == phase \in {"new", "open"}

\* _filter_operation_lock is free.
FilterFree ==
  \A c \in Callers :
    call[c].at \notin {"probing", "adding", "opening_filter", "clearing_filter"}

\* A receipt of the boolean protocol, numbered in the order of publication.  It
\* is in _legacy_reservations until a thread (by) consumes it, then in
\* _legacy_handoffs; settler is the caller of the forget that is settling it.
\* Receipts of a Request are consumed oldest first and never put back, so the
\* numbers are the order of both tables.
Receipt(r) ==
  [request |-> r, no |-> 1 + Max({0} \union {e.no : e \in receipts}),
   by |-> Nobody, settler |-> Nobody, slot |-> TRUE]

\* _legacy_reservation_for_request_locked(): the receipts of r that nobody
\* settles; a handoff belongs to the thread that consumed it.
Unsettled(r, by) ==
  {e \in receipts : e.request = r /\ e.settler = Nobody /\ e.by = by}
Oldest(S) == CHOOSE e \in S : \A f \in S : e.no <= f.no
Settling(c) == {e \in receipts : e.settler = c}
Changed(e, f) == receipts' = (receipts \ {e}) \union {f}

Init ==
  /\ phase = "new" /\ epoch = 0 /\ prior = "new"
  /\ opener = Nobody /\ clearer = Nobody /\ closeRequested = FALSE
  /\ owner = Nobody /\ releaser = Nobody
  /\ released = {} /\ marked = {}
  /\ removes \in BOOLEAN /\ limit \in Limits
  /\ volatile = <<>> /\ allowances = {} /\ slots = 0
  /\ receipts = {} /\ retired = {} /\ reserved = {}
  /\ call = [c \in Callers |-> Idle]
  /\ owed = {} /\ leaked = 0 /\ reopened = FALSE /\ decisions = 0

----------------------------------------------------------------------------
(* The retry allowances. *)

SlotFree == Cardinality(allowances) + slots < limit

\* _grant_retry_allowance() with a reserved slot: the slot becomes the
\* allowance, or is given back where the fingerprint has one already.
Grant(f) == allowances' = allowances \union {f} /\ slots' = slots - 1

\* Somebody has the request again, mostly because a miss is told.
Told(f) == owed' = owed \ {f} /\ UNCHANGED leaked

----------------------------------------------------------------------------
(* request_seen and request_seen_with_reservation. *)

\* Admission; the intent of the boolean protocol or the reservation of the
\* scheduler's is on record before the filter is asked.
SeenBegins(c, r, transactional) ==
  /\ At(c, "idle") /\ Admitting
  /\ decisions < MaxDecisions /\ decisions' = decisions + 1
  /\ call' = [call EXCEPT ![c] =
       [Idle EXCEPT !.at = "looking", !.request = r, !.transactional = transactional,
                    !.epoch = epoch]]
  /\ reserved' = IF transactional THEN reserved \union {c} ELSE reserved
  /\ UNCHANGED <<phase, epoch, transition, marked, fixed, history, reopened,
                 volatile, allowances, slots, receipts, retired>>

\* _request_seen_unlocked() up to the call of the filter.
LooksUp(c) ==
  /\ At(c, "looking") /\ ~call[c].transactional /\ FilterFree
  /\ \/ /\ PrintOf(c) \in Range(volatile)
        /\ Goto(c, "answering") /\ UNCHANGED <<allowances, slots, history>>
     \/ /\ PrintOf(c) \notin Range(volatile) /\ PrintOf(c) \in allowances
        /\ allowances' = allowances \ {PrintOf(c)} /\ slots' = slots + 1
        /\ call' = [call EXCEPT ![c].at = "answering", ![c].slot = TRUE, ![c].kept = TRUE]
        /\ Told(PrintOf(c))
     \/ /\ PrintOf(c) \notin Range(volatile) \union allowances /\ ~SlotFree
        /\ Goto(c, "probing") /\ UNCHANGED <<allowances, slots, history>>
     \/ /\ PrintOf(c) \notin Range(volatile) \union allowances /\ SlotFree
        /\ slots' = slots + 1 /\ UNCHANGED <<allowances, history>>
        /\ call' = [call EXCEPT ![c].at = "adding", ![c].slot = TRUE]
  /\ UNCHANGED <<phase, epoch, transition, marked, fixed, reopened,
                 volatile, receipts, retired, reserved, decisions>>

\* No slot is free: the filter is only asked.  An error counts as a miss.
Probes(c) ==
  /\ At(c, "probing")
  /\ \/ PrintOf(c) \in marked /\ Goto(c, "answering") /\ UNCHANGED history
     \/ Goto(c, "answering") /\ Told(PrintOf(c))
     \/ Goto(c, "interrupted") /\ UNCHANGED history
  /\ UNCHANGED <<phase, epoch, transition, marked, fixed, ledger, reopened,
                 decisions>>

\* filter.add(): the marker is new, or it was there, or the filter is full or
\* fails.  Only a new marker gets a receipt and keeps the slot.
Adds(c) ==
  /\ At(c, "adding")
  /\ \/ /\ PrintOf(c) \notin marked /\ marked' = marked \union {PrintOf(c)}
        /\ call' = [call EXCEPT ![c].at = "answering", ![c].kept = TRUE]
        /\ UNCHANGED slots /\ Told(PrintOf(c))
     \/ /\ PrintOf(c) \in marked
        /\ call' = [call EXCEPT ![c].at = "answering", ![c].slot = FALSE]
        /\ slots' = slots - 1 /\ UNCHANGED <<marked, history>>
     \/ /\ marked' \in {marked, marked \union {PrintOf(c)}}
        /\ call' = [call EXCEPT ![c].at = "answering", ![c].slot = FALSE]
        /\ slots' = slots - 1 /\ Told(PrintOf(c))
  /\ UNCHANGED <<phase, epoch, transition, fixed, reopened,
                 volatile, allowances, receipts, retired, reserved, decisions>>

\* A control exception in filter.add(), before or after its effect.  The call
\* answers for the request until it is compensated.
AddInterrupted(c) ==
  /\ At(c, "adding") /\ Goto(c, "interrupted") /\ Told(PrintOf(c))
  /\ marked' \in {marked, marked \union {PrintOf(c)}}
  /\ UNCHANGED <<phase, epoch, transition, fixed, ledger, reopened, decisions>>

\* The receipt is published and takes the slot over; the intent is retired.
Answers(c) ==
  /\ At(c, "answering") /\ Leaves(c)
  /\ receipts' = receipts \union IF call[c].kept THEN {Receipt(call[c].request)} ELSE {}
  /\ UNCHANGED <<phase, epoch, transition, marked, fixed, history, reopened,
                 volatile, allowances, slots, retired, reserved, decisions>>

AnswerInterrupted(c) ==
  /\ At(c, "answering") /\ Goto(c, "interrupted")
  /\ UNCHANGED <<phase, epoch, transition, marked, fixed, ledger, history, reopened,
                 decisions>>

\* Mutant: the interrupted call gives its slot back.
CompensateReleases(c) ==
  /\ At(c, "interrupted") /\ Leaves(c)
  /\ IF call[c].slot THEN slots' = slots - 1 /\ owed' = owed \union {PrintOf(c)}
     ELSE UNCHANGED <<slots, owed>>
  /\ UNCHANGED <<phase, epoch, transition, marked, fixed, reopened, allowances,
                 volatile, receipts, retired, reserved, leaked, decisions>>

\* _compensate_interrupted_legacy_add_locked(): the marker may be there, nobody
\* has the request, and the slot becomes an allowance.  A pending receipt of
\* the same Request is taken for the call's own, although it may be that of
\* another call: then the slot stays reserved.
Compensate(c) ==
  /\ At(c, "interrupted") /\ Leaves(c)
  /\ LET mine == Unsettled(call[c].request, Nobody) IN
     IF ~call[c].slot THEN UNCHANGED <<allowances, slots, history>>
     ELSE IF mine # {} /\ Oldest(mine).slot
     THEN leaked' = leaked + 1 /\ UNCHANGED <<allowances, slots, owed>>
     ELSE Grant(PrintOf(c)) /\ owed' = owed \union {PrintOf(c)} /\ UNCHANGED leaked
  /\ UNCHANGED <<phase, epoch, transition, marked, fixed, reopened,
                 volatile, receipts, retired, reserved, decisions>>

\* _request_seen_for_scheduler_unlocked(): a hit, or an interrupt, discards the
\* reservation; a miss, or an error, leaves it with the caller.
Decides(c) ==
  /\ At(c, "looking") /\ call[c].transactional /\ FilterFree
  /\ \/ Leaves(c) /\ reserved' = reserved \ {c}
     \/ PrintOf(c) \notin Range(volatile) /\ Goto(c, "holding") /\ UNCHANGED reserved
  /\ UNCHANGED <<phase, epoch, transition, marked, fixed, history, reopened,
                 volatile, allowances, slots, receipts, retired, decisions>>

----------------------------------------------------------------------------
(* The scheduler's protocol: commit and rollback. *)

\* _reservation_is_current_locked()
Current(c) == c \in reserved /\ call[c].epoch = epoch

\* commit_reservation() is admitted with the reservation it holds.  One of an
\* earlier epoch is ignored; during a transition it is discarded.
CommitBegins(c) ==
  /\ At(c, "holding")
  /\ IF Current(c) /\ Admitting THEN Goto(c, "committing") /\ UNCHANGED reserved
     ELSE Leaves(c) /\ reserved' = reserved \ {c}
  /\ UNCHANGED <<phase, epoch, transition, marked, fixed, history, reopened,
                 volatile, allowances, slots, receipts, retired, decisions>>

\* The marker is written, or not when the filter is full, fails or is
\* interrupted.
Commits(c) ==
  /\ At(c, "committing") /\ FilterFree /\ Leaves(c)
  /\ marked' \in {marked, marked \union {PrintOf(c)}}
  /\ reserved' = reserved \ {c} /\ Told(PrintOf(c))
  /\ UNCHANGED <<phase, epoch, transition, fixed, reopened,
                 volatile, allowances, slots, receipts, retired, decisions>>

\* commit_volatile_reservation(): the marker of a process-local push; the
\* oldest gives way.
Shadowed(f) ==
  IF f \in Range(volatile) THEN Append(RemoveFirst(volatile, f), f)
  ELSE Append(IF Len(volatile) >= ShadowLimit THEN Tail(volatile) ELSE volatile, f)

CommitsVolatile(c) ==
  /\ At(c, "holding") /\ Current(c) /\ Admitting /\ Leaves(c)
  /\ volatile' = Shadowed(PrintOf(c)) /\ reserved' = reserved \ {c} /\ Told(PrintOf(c))
  /\ UNCHANGED <<phase, epoch, transition, marked, fixed, reopened,
                 allowances, slots, receipts, retired, decisions>>

\* rollback_reservation() and rollback_reservation_intent(), in any phase.
RollsBack(c) ==
  /\ At(c, "holding") /\ Leaves(c) /\ reserved' = reserved \ {c}
  /\ UNCHANGED <<phase, epoch, transition, marked, fixed, history, reopened,
                 volatile, allowances, slots, receipts, retired, decisions>>

----------------------------------------------------------------------------
(* The boolean protocol: consume, settle and forget. *)

\* consume_reservation(): the oldest receipt of r is handed to this thread.
Consumes(c, r) ==
  /\ At(c, "idle")
  /\ LET open == Unsettled(r, Nobody) IN
     /\ open # {}
     /\ Changed(Oldest(open), [Oldest(open) EXCEPT !.by = c])
  /\ retired' = retired \ {r}
  /\ UNCHANGED <<phase, epoch, transition, marked, fixed, history, reopened, call,
                 volatile, allowances, slots, reserved, decisions>>

\* settle_reservation(): the push succeeded; the slot is free again.
Settles(c, r) ==
  /\ At(c, "idle")
  /\ Unsettled(r, c) # {}
  /\ receipts' = receipts \ {Oldest(Unsettled(r, c))} /\ slots' = slots - 1
  /\ UNCHANGED <<phase, epoch, transition, marked, fixed, history, reopened, call,
                 volatile, allowances, retired, reserved, decisions>>

\* forget(): this thread's handoff, or else a pending receipt, unless r had
\* receipts in an earlier epoch; it is marked before the admission.
ForgetBegins(c, r) ==
  /\ At(c, "idle") /\ phase # "closed"
  /\ LET mine == Unsettled(r, c)
         open == IF r \in retired THEN {} ELSE Unsettled(r, Nobody)
         e == Oldest(IF mine # {} THEN mine ELSE open) IN
     mine \union open # {} /\ Changed(e, [e EXCEPT !.settler = c])
  /\ call' = [call EXCEPT ![c] =
       [Idle EXCEPT !.at = "forgetting", !.request = r, !.epoch = epoch]]
  /\ UNCHANGED <<phase, epoch, transition, marked, fixed, history, reopened,
                 volatile, allowances, slots, retired, reserved, decisions>>

\* _remove_legacy_reservation_locked(): the receipt goes, and its slot.
Drops(c) ==
  /\ receipts' = receipts \ Settling(c)
  /\ slots' = IF \E e \in Settling(c) : e.slot THEN slots - 1 ELSE slots

\* The admission: a transition since may have retired the receipt, and one
\* under way discards it.
ForgetAdmitted(c) ==
  /\ At(c, "forgetting")
  /\ IF Settling(c) # {} /\ Admitting
     THEN call' = [call EXCEPT ![c].at = "removing", ![c].epoch = epoch]
          /\ UNCHANGED <<receipts, slots>>
     ELSE Leaves(c) /\ Drops(c)
  /\ UNCHANGED <<phase, epoch, transition, marked, fixed, history, reopened,
                 volatile, allowances, retired, reserved, decisions>>

\* filter.remove(): done, or an allowance is needed because the filter does not
\* support it, fails or is interrupted.
Removes(c) ==
  /\ At(c, "removing") /\ FilterFree
  /\ \/ /\ removes /\ marked' = marked \ {PrintOf(c)} /\ Goto(c, "forgotten")
        /\ owed' = owed \union {PrintOf(c)} /\ UNCHANGED leaked
     \/ /\ marked' \in {marked, IF removes THEN marked \ {PrintOf(c)} ELSE marked}
        /\ Goto(c, "granting") /\ UNCHANGED history
  /\ UNCHANGED <<phase, epoch, transition, fixed, ledger, reopened, decisions>>

\* The receipt's slot becomes the allowance, and the receipt has none any more.
Grants(c) ==
  /\ At(c, "granting") /\ Goto(c, "forgotten") /\ Grant(PrintOf(c))
  /\ receipts' = (receipts \ Settling(c)) \union
                 {[e EXCEPT !.slot = FALSE] : e \in Settling(c)}
  /\ owed' = owed \union {PrintOf(c)}
  /\ UNCHANGED <<phase, epoch, transition, marked, fixed, reopened,
                 volatile, retired, reserved, leaked, decisions>>

ForgetEnds(c) ==
  /\ At(c, "forgotten") /\ Leaves(c) /\ Drops(c)
  /\ UNCHANGED <<phase, epoch, transition, marked, fixed, history, reopened,
                 volatile, allowances, retired, reserved, decisions>>

\* _legacy_request_collected(): the Request is garbage, and its receipts go.
Collected(r) ==
  /\ \A c \in Callers : call[c].request # r
  /\ LET lost == {e \in receipts : e.request = r} IN
     /\ lost # {} /\ receipts' = receipts \ lost
     /\ slots' = slots - Cardinality({e \in lost : e.slot})
  /\ retired' = retired \ {r}
  /\ UNCHANGED <<phase, epoch, transition, marked, fixed, history, reopened, call,
                 volatile, allowances, reserved, decisions>>

----------------------------------------------------------------------------
(* open, clear and release. *)

\* _clear_retry_allowances(): a new epoch knows nothing of the old receipts.
Resets(e) ==
  /\ epoch' = e
  /\ volatile' = <<>> /\ allowances' = {} /\ slots' = 0
  /\ retired' = retired \union {x.request : x \in receipts}
  /\ receipts' = {} /\ reserved' = {}
  /\ owed' = {} /\ leaked' = 0

\* _reserve_release_locked(): another owner, or an attempt under way.
MayRelease(o) == owner \in {Nobody, o} /\ releaser = Nobody

\* _wait_for_quiescence_locked()
Quiescent == Active = {}

OpenBegins(c) ==
  /\ At(c, "idle") /\ phase = "new" /\ epoch < MaxEpoch
  /\ phase' = "opening" /\ opener' = c /\ closeRequested' = FALSE
  /\ Starts(c, "open_waits")
  /\ UNCHANGED <<epoch, prior, clearer, owner, releaser, released, marked, fixed,
                 ledger, history, reopened, decisions>>

OpenDrained(c) ==
  /\ At(c, "open_waits") /\ Quiescent /\ Resets(epoch + 1) /\ Goto(c, "opening_filter")
  /\ UNCHANGED <<phase, transition, marked, fixed, reopened, decisions>>

\* The wait times out, or ends with the control exception it recorded.
OpenWaitFails(c) ==
  /\ At(c, "open_waits") /\ Leaves(c) /\ phase' = "new" /\ opener' = Nobody
  /\ UNCHANGED <<epoch, prior, clearer, closeRequested, owner, releaser, released,
                 marked, fixed, ledger, history, reopened, decisions>>

\* filter.open(), and filter.clear() where clear_on_open says so: a filter is
\* opened once.
FilterOpens(c) ==
  /\ At(c, "opening_filter") /\ Leaves(c) /\ phase' = "open" /\ opener' = Nobody
  /\ \/ marked' = {} /\ Resets(epoch)
     \/ UNCHANGED <<marked, epoch, ledger, history>>
  /\ UNCHANGED <<prior, clearer, closeRequested, owner, releaser, released, fixed,
                 reopened, decisions>>

\* A failed open turns into a release of its own, where it may; the failed
\* filter call may have cleared the markers.
FilterOpenFails(c) ==
  /\ At(c, "opening_filter") /\ opener' = Nobody
  /\ marked' \in {marked, {}}
  /\ IF MayRelease("direct")
     THEN /\ owner' = "direct" /\ releaser' = c /\ closeRequested' = FALSE
          /\ phase' = "closing" /\ Goto(c, "release_waits")
     ELSE Leaves(c) /\ UNCHANGED <<phase, owner, releaser, closeRequested>>
  /\ UNCHANGED <<epoch, prior, clearer, released, fixed, ledger, history, reopened,
                 decisions>>

\* A control exception between two sections of open(): its frame is gone and
\* the phase stays.
OpenAbandoned(c) ==
  /\ At(c, "opening_filter") /\ Leaves(c) /\ opener' = Nobody
  /\ UNCHANGED <<phase, epoch, prior, clearer, closeRequested, owner, releaser, released,
                 marked, fixed, ledger, history, reopened, decisions>>

ClearBegins(c) ==
  /\ At(c, "idle") /\ Admitting /\ epoch < MaxEpoch
  /\ prior' = phase /\ phase' = "clearing" /\ clearer' = c
  /\ Starts(c, "clear_waits")
  /\ UNCHANGED <<epoch, opener, closeRequested, owner, releaser, released, marked,
                 fixed, ledger, history, reopened, decisions>>

ClearDrained(c) ==
  /\ At(c, "clear_waits") /\ Quiescent /\ Goto(c, "clearing_filter")
  /\ UNCHANGED <<phase, epoch, transition, marked, fixed, ledger, history, reopened,
                 decisions>>

\* The phase a clear ends in: a release that came meanwhile set another one.
Undoes(next) ==
  /\ phase' = next /\ clearer' = Nobody /\ prior' = "new"
  /\ reopened' = (reopened \/ (phase = "closing" /\ next # "closing"))

\* The wait fails: the phase is what it was, even if a release has begun.
ClearWaitFails(c) ==
  /\ At(c, "clear_waits") /\ Leaves(c) /\ Undoes(prior)
  /\ UNCHANGED <<epoch, opener, closeRequested, owner, releaser, released, marked,
                 fixed, ledger, history, decisions>>

\* filter.clear(): only its success starts an epoch.
FilterClears(c) ==
  /\ At(c, "clearing_filter") /\ Leaves(c)
  /\ Undoes(IF closeRequested THEN "closing" ELSE prior)
  /\ \/ marked' = {} /\ Resets(epoch + 1)
     \/ marked' \in {marked, {}} /\ UNCHANGED <<epoch, ledger, history>>
  /\ UNCHANGED <<opener, closeRequested, owner, releaser, released, fixed, decisions>>

\* release() and close(), refused while an open is under way too.
ReleaseBegins(c, o) ==
  /\ At(c, "idle") /\ phase # "closed" /\ epoch < MaxEpoch
  /\ opener = Nobody /\ MayRelease(o)
  /\ owner' = o /\ releaser' = c
  /\ closeRequested' = (phase = "clearing") /\ phase' = "closing"
  /\ Starts(c, "release_waits")
  /\ UNCHANGED <<epoch, prior, opener, clearer, released, marked, fixed, ledger,
                 history, reopened, decisions>>

\* _close_locked(): a clear under way ends first, then the admitted calls.
ClearEnded(c) ==
  /\ At(c, "release_waits") /\ clearer = Nobody /\ Goto(c, "release_drains")
  /\ UNCHANGED <<phase, epoch, transition, marked, fixed, ledger, history, reopened,
                 decisions>>

ReleaseDrained(c) ==
  /\ At(c, "release_drains") /\ Quiescent /\ Resets(epoch + 1)
  /\ Goto(c, "closing_filter")
  /\ UNCHANGED <<phase, transition, marked, fixed, reopened, decisions>>

ReleaseWaitFails(c) ==
  /\ call[c].at \in {"release_waits", "release_drains"} /\ Leaves(c) /\ releaser' = Nobody
  /\ UNCHANGED <<phase, epoch, prior, opener, clearer, closeRequested, owner, released,
                 marked, fixed, ledger, history, reopened, decisions>>

\* The filter is closed, then the manager released; what failed is retried by
\* the next release, which goes on from here.
FilterCloses(c) ==
  /\ At(c, "closing_filter") /\ Leaves(c) /\ releaser' = Nobody
  /\ released' \in {S \in SUBSET {"filter", "manager"} :
                      released \subseteq S /\ ("manager" \in S \ released => "filter" \in S)}
  /\ LET done == released' = {"filter", "manager"} IN
     /\ phase' = IF done THEN "closed" ELSE phase
     /\ closeRequested' = (closeRequested /\ ~done)
  /\ UNCHANGED <<epoch, prior, opener, clearer, owner, marked, fixed, ledger, history,
                 reopened, decisions>>

----------------------------------------------------------------------------
Decision(c) ==
  \/ \E r \in Requests, transactional \in BOOLEAN : SeenBegins(c, r, transactional)
  \/ LooksUp(c) \/ Probes(c) \/ Adds(c) \/ AddInterrupted(c)
  \/ Answers(c) \/ AnswerInterrupted(c) \/ Compensate(c) \/ Decides(c)

Settlement(c) ==
  \/ CommitBegins(c) \/ Commits(c) \/ CommitsVolatile(c) \/ RollsBack(c)
  \/ \E r \in Requests : Consumes(c, r) \/ Settles(c, r) \/ ForgetBegins(c, r)
  \/ ForgetAdmitted(c) \/ Removes(c) \/ Grants(c) \/ ForgetEnds(c)

Transition(c) ==
  \/ OpenBegins(c) \/ OpenDrained(c) \/ OpenWaitFails(c)
  \/ FilterOpens(c) \/ FilterOpenFails(c) \/ OpenAbandoned(c)
  \/ ClearBegins(c) \/ ClearDrained(c) \/ ClearWaitFails(c) \/ FilterClears(c)
  \/ \E o \in Owners : ReleaseBegins(c, o)
  \/ ClearEnded(c) \/ ReleaseDrained(c) \/ ReleaseWaitFails(c) \/ FilterCloses(c)

Next ==
  \/ \E c \in Callers : Decision(c) \/ Settlement(c) \/ Transition(c)
  \/ \E r \in Requests : Collected(r)

----------------------------------------------------------------------------
TypeOK ==
  /\ phase \in Phases /\ epoch \in Nat
  /\ {opener, clearer, releaser} \subseteq Callers \union {Nobody}
  /\ marked \subseteq Prints /\ allowances \subseteq Prints
  /\ Len(volatile) <= ShadowLimit /\ reserved \subseteq Callers

\* A request that went nowhere, because its push failed and was forgotten or
\* because the call was interrupted, can be sent again: its fingerprint is not in
\* the filter, or has an allowance for one more miss.  No marker is left behind
\* for it alone (forget, _compensate_interrupted_legacy_add_locked).
RetryKept == owed \cap marked \subseteq allowances

\* Every reserved slot is that of a call, a receipt or an allowance to come: it
\* is given back once, never for another's, and the allowances fit their limit.
\* The one exception is the slot of an interrupted call that took the receipt
\* of another call for its own (_reserve_retry_allowance_slot,
\* _remove_legacy_reservation_locked, _grant_retry_allowance).
SlotsAccounted ==
  /\ slots = Cardinality({c \in Active : call[c].slot})
             + Cardinality({e \in receipts : e.slot}) + leaked
  /\ Cardinality(allowances) + slots <= limit

\* The filter is opened, cleared or closed by one caller at a time and under no
\* admitted call, except where a clear has undone the closing phase; and no
\* call outlives the epoch it was admitted in (_wait_for_quiescence_locked).
TransitionsAlone ==
  /\ \A c \in Active : call[c].epoch = epoch
  /\ reopened \/ \A c \in Callers :
       call[c].at \in {"opening_filter", "clearing_filter", "closing_filter"} =>
         /\ Active = {}
         /\ \A d \in Callers \ {c} :
              call[d].at \notin {"opening_filter", "clearing_filter", "closing_filter"}

FilterSound == TypeOK /\ RetryKept /\ SlotsAccounted /\ TransitionsAlone
=============================================================================
