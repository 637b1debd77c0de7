------------------------------ MODULE Delivery ------------------------------
(***************************************************************************)
(* Crawler processes that share a broker queue and a duplicate filter:     *)
(* BackendScheduler.enqueue_request (schedule/scheduler.py) with the       *)
(* transactional protocol of BackendDupeFilter (dupefilter/dupefilter.py)  *)
(* and BackendQueue._push (queue/queue.py).                                *)
(*                                                                         *)
(* enqueue_request asks the filter, pushes the request, and publishes the  *)
(* marker only after a durable push; a replacement of a broker delivery    *)
(* settles that delivery only after a durable push.  Between any two of    *)
(* these steps the process may crash, be interrupted, or be overtaken by   *)
(* another process that works on the same URL.                             *)
(*                                                                         *)
(* The filter is exact (a set): false positives of the probabilistic       *)
(* filters are outside this model.  The broker is one with acknowledgement *)
(* (its messages stay until they are acked).                               *)
(***************************************************************************)
EXTENDS Integers, FiniteSets

CONSTANTS
  Workers,        \* crawler processes
  URLs,           \* request fingerprints
  Routes,         \* the queue routes in use: "durable", "local"
  VolatileLimit,  \* _volatile_fingerprint_limit
  MaxCopies,      \* bound: queued copies of a URL
  MaxCrashes      \* bound: crashes and interrupts

ASSUME RoutesAssumption == Routes \subseteq {"durable", "local"}
ASSUME LimitAssumption == VolatileLimit \in Nat \ {0}
ASSUME CopiesAssumption == MaxCopies \in Nat
ASSUME CrashesAssumption == MaxCrashes \in Nat

None == "none"
ASSUME NoneAssumption == None \notin URLs

VARIABLES
  ready,      \* broker messages that can be popped, per URL
  orphan,     \* broker messages delivered to nobody alive, awaiting redelivery
  markers,    \* the shared filter
  shadow,     \* _volatile_fingerprints of each process
  local,      \* requests in each process-local queue
  work,       \* the request a process has popped, or None
  tokened,    \* the processes whose request carries a broker token
  settling,   \* those whose source ack is under way
  place,      \* where enqueue_request is
  req,        \* the request being enqueued
  carries,    \* the processes whose enqueued request carries the source token
  intent,     \* the processes with an active reservation
  receipt,    \* those whose push returned literal True
  done,       \* URLs whose download ended
  pushed,     \* URLs ever pushed durably (for the properties)
  crashes

brokerVars == <<ready, orphan>>
filterVars == <<markers, shadow, intent>>
workVars == <<local, work, tokened, settling>>
enqueueVars == <<place, req, carries, receipt>>
vars == <<brokerVars, filterVars, workVars, enqueueVars, done, pushed, crashes>>

Places == {"idle", "dedup", "push", "fallback", "commit"}

TypeOK ==
  /\ ready \in [URLs -> Nat]
  /\ orphan \in [URLs -> Nat]
  /\ markers \in SUBSET URLs
  /\ shadow \in [Workers -> SUBSET URLs]
  /\ local \in [Workers -> [URLs -> Nat]]
  /\ work \in [Workers -> URLs \cup {None}]
  /\ tokened \in SUBSET Workers
  /\ settling \in SUBSET tokened
  /\ \A w \in tokened : work[w] # None
  /\ place \in [Workers -> Places]
  /\ req \in [Workers -> URLs \cup {None}]
  /\ \A w \in Workers : place[w] # "idle" => req[w] # None
  /\ carries \in SUBSET tokened
  /\ intent \in SUBSET Workers
  /\ receipt \in SUBSET Workers
  /\ done \in SUBSET URLs
  /\ pushed \in SUBSET URLs
  /\ crashes \in 0..MaxCrashes

Init ==
  /\ ready = [u \in URLs |-> 0]
  /\ orphan = [u \in URLs |-> 0]
  /\ markers = {}
  /\ shadow = [w \in Workers |-> {}]
  /\ local = [w \in Workers |-> [u \in URLs |-> 0]]
  /\ work = [w \in Workers |-> None]
  /\ tokened = {}
  /\ settling = {}
  /\ place = [w \in Workers |-> "idle"]
  /\ req = [w \in Workers |-> None]
  /\ carries = {}
  /\ intent = {}
  /\ receipt = {}
  /\ done = {}
  /\ pushed = {}
  /\ crashes = 0

\* The messages and in-flight requests through which u can still be crawled.
Kept(u) == \/ u \in done
           \/ ready[u] > 0
           \/ orphan[u] > 0
           \/ \E w \in tokened : work[w] = u

(***************************************************************************)
(* enqueue_request begins: a start URL or an extracted link (no token), or *)
(* the replacement (retry, redirect) of the request in hand.  dont_filter  *)
(* skips the filter; otherwise the owner's reservation is published before *)
(* the filter is asked (request_seen_with_reservation).                    *)
(***************************************************************************)
Begin(w, u, filtered) ==
  /\ place[w] = "idle"
  /\ intent' = IF filtered THEN intent \cup {w} ELSE intent
  /\ place' = [place EXCEPT ![w] = IF filtered THEN "dedup" ELSE "push"]
  /\ req' = [req EXCEPT ![w] = u]

EnqueueNew(w, u, filtered) ==
  /\ Begin(w, u, filtered)
  /\ UNCHANGED <<brokerVars, markers, shadow, workVars, carries, receipt, done, pushed, crashes>>

EnqueueReplacement(w, u, filtered) ==
  /\ w \in tokened \ settling
  /\ Begin(w, u, filtered)
  /\ carries' = carries \cup {w}
  /\ UNCHANGED <<brokerVars, markers, shadow, workVars, receipt, done, pushed, crashes>>

\* A request without a broker token has no claim on anything once replaced.
EnqueueLocalReplacement(w, u, filtered) ==
  /\ work[w] # None
  /\ w \notin tokened
  /\ Begin(w, u, filtered)
  /\ work' = [work EXCEPT ![w] = None]
  /\ done' = done \cup {work[w]}
  /\ UNCHANGED <<brokerVars, markers, shadow, local, tokened, settling, carries, receipt,
                 pushed, crashes>>

(***************************************************************************)
(* The decision: a hit discards the reservation, a miss keeps it.          *)
(***************************************************************************)
Seen(w) == req[w] \in shadow[w] \cup markers

\* enqueue_request returns or raises: the process is ready for the next request.
Finish(w) ==
  /\ place' = [place EXCEPT ![w] = "idle"]
  /\ carries' = carries \ {w}
  /\ receipt' = receipt \ {w}
  /\ req' = [req EXCEPT ![w] = None]

\* Mutant: the source of a replacement that failed is acknowledged.
AckAnyway(w) ==
  IF w \in carries
    THEN /\ work' = [work EXCEPT ![w] = None]
         /\ tokened' = tokened \ {w}
         /\ UNCHANGED orphan
    ELSE UNCHANGED <<orphan, work, tokened>>

\* A source token left unresolved: the broker will redeliver its message.
Abandon(w) ==
  IF w \in carries
    THEN /\ orphan' = [orphan EXCEPT ![work[w]] = @ + 1]
         /\ work' = [work EXCEPT ![w] = None]
         /\ tokened' = tokened \ {w}
    ELSE UNCHANGED <<orphan, work, tokened>>

\* A duplicate without a token is dropped.
DropDuplicate(w) ==
  /\ place[w] = "dedup"
  /\ Seen(w)
  /\ w \notin carries
  /\ intent' = intent \ {w}
  /\ Finish(w)
  /\ UNCHANGED <<brokerVars, markers, shadow, workVars, done, pushed, crashes>>

\* "A marker alone cannot prove that another worker's queue push has committed":
\* a duplicate with a source token is pushed all the same.
PushDuplicate(w) ==
  /\ place[w] = "dedup"
  /\ Seen(w)
  /\ w \in carries
  /\ intent' = intent \ {w}
  /\ place' = [place EXCEPT ![w] = "push"]
  /\ UNCHANGED <<brokerVars, markers, shadow, workVars, req, carries, receipt, done,
                 pushed, crashes>>

\* A miss keeps the reservation.  A shared filter that is out of reach counts as
\* a miss (_handle_backend_error), so its markers do not matter here.
Miss(w) ==
  /\ place[w] = "dedup"
  /\ req[w] \notin shadow[w]
  /\ place' = [place EXCEPT ![w] = "push"]
  /\ UNCHANGED <<brokerVars, filterVars, workVars, req, carries, receipt, done, pushed, crashes>>

\* The filter raises: its reservation is rolled back, the push is tried without it.
DedupOutage(w) ==
  /\ place[w] = "dedup"
  /\ intent' = intent \ {w}
  /\ place' = [place EXCEPT ![w] = "fallback"]
  /\ UNCHANGED <<brokerVars, markers, shadow, workVars, req, carries, receipt, done,
                 pushed, crashes>>

(***************************************************************************)
(* The push (BackendQueue._push).                                          *)
(***************************************************************************)
Room(u) == ready[u] + orphan[u] + Cardinality({w \in tokened : work[w] = u}) < MaxCopies

\* A source delivery may only be transferred through a durable route.
LocalAllowed(w) == w \notin carries

\* After a push: the reservation is finalised, if there is one.
AfterPush(w, durably) ==
  IF w \in intent
    THEN /\ place' = [place EXCEPT ![w] = "commit"]
         /\ receipt' = IF durably THEN receipt \cup {w} ELSE receipt
         /\ UNCHANGED <<req, carries>>
    ELSE Finish(w)

\* The broker has the request; the source, if any, is acked from here on.  A
\* redirected source needs no download of its own any more, a retried one lives on
\* in its copy.
PushDurable(w) ==
  /\ place[w] \in {"push", "fallback"}
  /\ "durable" \in Routes
  /\ Room(req[w])
  /\ ready' = [ready EXCEPT ![req[w]] = @ + 1]
  /\ pushed' = pushed \cup {req[w]}
  /\ settling' = IF w \in carries THEN settling \cup {w} ELSE settling
  /\ done' = IF w \in carries /\ work[w] # req[w] THEN done \cup {work[w]} ELSE done
  /\ AfterPush(w, TRUE)
  /\ UNCHANGED <<orphan, filterVars, local, work, tokened, crashes>>

\* A process-local strategy has the request.
PushLocal(w) ==
  /\ place[w] \in {"push", "fallback"}
  /\ "local" \in Routes
  /\ LocalAllowed(w)
  /\ local[w][req[w]] < MaxCopies
  /\ local' = [local EXCEPT ![w][req[w]] = @ + 1]
  /\ settling' = IF w \in carries THEN settling \cup {w} ELSE settling
  /\ AfterPush(w, FALSE)
  /\ UNCHANGED <<brokerVars, filterVars, work, tokened, done, pushed, crashes>>

\* The push fails, before or (landed) after the broker took the request, or the
\* route is refused: the reservation is rolled back and QueueError is raised.
PushFails(w, landed) ==
  /\ place[w] \in {"push", "fallback"}
  /\ landed => "durable" \in Routes /\ Room(req[w])
  /\ ready' = [ready EXCEPT ![req[w]] = IF landed THEN @ + 1 ELSE @]
  /\ intent' = intent \ {w}
  /\ Abandon(w)
  /\ Finish(w)
  /\ UNCHANGED <<markers, shadow, local, settling, done, pushed, crashes>>

\* A request that cannot be serialized, routed or stored is dropped, and its
\* source is acked with it (_terminate_invalid_replacement); if that ack fails the
\* source is left to the broker.
RejectInvalid(w, acked) ==
  /\ place[w] \in {"push", "fallback"}
  /\ intent' = intent \ {w}
  /\ IF w \in carries /\ acked
       THEN /\ done' = done \cup {work[w]}
            /\ work' = [work EXCEPT ![w] = None]
            /\ tokened' = tokened \ {w}
            /\ UNCHANGED orphan
       ELSE Abandon(w) /\ UNCHANGED done
  /\ Finish(w)
  /\ UNCHANGED <<ready, markers, shadow, local, settling, pushed, crashes>>

(***************************************************************************)
(* Finalising the reservation: a marker in the shared filter after a       *)
(* durable push, in the process' own shadow after a local one.             *)
(***************************************************************************)

Durable(w) == w \in receipt

\* commit_reservation; a filter that is full, out of reach or closed leaves the
\* request unmarked.
CommitMarker(w, stored) ==
  /\ place[w] = "commit"
  /\ Durable(w)
  /\ markers' = IF stored THEN markers \cup {req[w]} ELSE markers
  /\ intent' = intent \ {w}
  /\ Finish(w)
  /\ UNCHANGED <<brokerVars, shadow, workVars, done, pushed, crashes>>

\* commit_volatile_reservation: the bounded shadow evicts an older marker.
CommitShadow(w) ==
  /\ place[w] = "commit"
  /\ ~ Durable(w)
  /\ IF req[w] \in shadow[w] \/ Cardinality(shadow[w]) < VolatileLimit
       THEN shadow' = [shadow EXCEPT ![w] = @ \cup {req[w]}]
       ELSE \E old \in shadow[w] :
              shadow' = [shadow EXCEPT ![w] = (@ \ {old}) \cup {req[w]}]
  /\ intent' = intent \ {w}
  /\ Finish(w)
  /\ UNCHANGED <<brokerVars, markers, workVars, done, pushed, crashes>>

(***************************************************************************)
(* A process-control or unforeseen exception inside enqueue_request:       *)
(* whatever was pushed stays, the reservation is discarded, the exception  *)
(* goes on.                                                                *)
(***************************************************************************)

DiscardIntent(w) == intent \ {w}

Interrupt(w) ==
  /\ place[w] # "idle"
  /\ crashes < MaxCrashes
  /\ crashes' = crashes + 1
  /\ intent' = DiscardIntent(w)
  /\ IF w \in settling
       THEN UNCHANGED <<orphan, work, tokened>>
       ELSE Abandon(w)
  /\ Finish(w)
  /\ UNCHANGED <<ready, markers, shadow, local, settling, done, pushed>>

\* The process dies: its local queue, shadow and reservations are gone, and the
\* broker takes its delivery back.
Crash(w) ==
  /\ crashes < MaxCrashes
  /\ crashes' = crashes + 1
  /\ orphan' = IF w \in tokened THEN [orphan EXCEPT ![work[w]] = @ + 1] ELSE orphan
  /\ work' = [work EXCEPT ![w] = None]
  /\ tokened' = tokened \ {w}
  /\ settling' = settling \ {w}
  /\ carries' = carries \ {w}
  /\ receipt' = receipt \ {w}
  /\ intent' = intent \ {w}
  /\ shadow' = [shadow EXCEPT ![w] = {}]
  /\ local' = [local EXCEPT ![w] = [u \in URLs |-> 0]]
  /\ place' = [place EXCEPT ![w] = "idle"]
  /\ req' = [req EXCEPT ![w] = None]
  /\ UNCHANGED <<ready, markers, done, pushed>>

(***************************************************************************)
(* next_request, and the end of the download.                              *)
(***************************************************************************)
Pop(w, u) ==
  /\ place[w] = "idle"
  /\ work[w] = None
  /\ \/ /\ ready[u] > 0
        /\ ready' = [ready EXCEPT ![u] = @ - 1]
        /\ tokened' = tokened \cup {w}
        /\ UNCHANGED local
     \/ /\ local[w][u] > 0
        /\ local' = [local EXCEPT ![w][u] = @ - 1]
        /\ UNCHANGED <<ready, tokened>>
  /\ work' = [work EXCEPT ![w] = u]
  /\ UNCHANGED <<orphan, filterVars, settling, enqueueVars, done, pushed, crashes>>

\* The download ends.  On response_received the delivery is acked; an ack that fails
\* leaves the message to be delivered again.  A request without a token has nothing
\* to settle.
Respond(w, acked) ==
  /\ place[w] = "idle"
  /\ work[w] # None
  /\ w \notin settling
  /\ orphan' = IF w \in tokened /\ ~ acked THEN [orphan EXCEPT ![work[w]] = @ + 1] ELSE orphan
  /\ done' = done \cup {work[w]}
  /\ work' = [work EXCEPT ![w] = None]
  /\ tokened' = tokened \ {w}
  /\ UNCHANGED <<ready, filterVars, local, settling, enqueueVars, pushed, crashes>>

\* A download failure nobody handles, or spider_error: the delivery is nacked.
Fail(w) ==
  /\ place[w] = "idle"
  /\ w \in tokened \ settling
  /\ orphan' = [orphan EXCEPT ![work[w]] = @ + 1]
  /\ work' = [work EXCEPT ![w] = None]
  /\ tokened' = tokened \ {w}
  /\ UNCHANGED <<ready, filterVars, local, settling, enqueueVars, done, pushed, crashes>>

\* The worker of _schedule_replacement_ack ends.
AckSource(w, acked) ==
  /\ w \in settling
  /\ orphan' = IF acked THEN orphan ELSE [orphan EXCEPT ![work[w]] = @ + 1]
  /\ work' = [work EXCEPT ![w] = None]
  /\ tokened' = tokened \ {w}
  /\ settling' = settling \ {w}
  /\ carries' = carries \ {w}
  /\ UNCHANGED <<ready, filterVars, local, place, req, receipt, done, pushed, crashes>>

\* Visibility timeout, closed connection, nack: the broker delivers again.
Redeliver(u) ==
  /\ orphan[u] > 0
  /\ orphan' = [orphan EXCEPT ![u] = @ - 1]
  /\ ready' = [ready EXCEPT ![u] = @ + 1]
  /\ UNCHANGED <<filterVars, workVars, enqueueVars, done, pushed, crashes>>

Next ==
  \/ \E w \in Workers, u \in URLs, filtered \in BOOLEAN :
       \/ EnqueueNew(w, u, filtered)
       \/ EnqueueReplacement(w, u, filtered)
       \/ EnqueueLocalReplacement(w, u, filtered)
  \/ \E w \in Workers :
       \/ DropDuplicate(w)
       \/ PushDuplicate(w)
       \/ Miss(w)
       \/ DedupOutage(w)
       \/ PushDurable(w)
       \/ PushLocal(w)
       \/ \E landed \in BOOLEAN : PushFails(w, landed)
       \/ \E acked \in BOOLEAN : RejectInvalid(w, acked)
       \/ \E stored \in BOOLEAN : CommitMarker(w, stored)
       \/ CommitShadow(w)
       \/ Interrupt(w)
       \/ Crash(w)
       \/ \E u \in URLs : Pop(w, u)
       \/ \E acked \in BOOLEAN : Respond(w, acked)
       \/ Fail(w)
       \/ \E acked \in BOOLEAN : AckSource(w, acked)
  \/ \E u \in URLs : Redeliver(u)

Spec == Init /\ [][Next]_vars

-----------------------------------------------------------------------------
(***************************************************************************)
(* Properties.                                                             *)
(***************************************************************************)

\* Nothing that reached the broker is lost: a URL that was ever pushed durably has
\* been downloaded, or a message of it is in the broker or with a live process,
\* across crashes, interrupts, failed pushes and failed acks.  In particular a
\* source delivery is settled only behind its durable replacement (queue.py
\* lines 692-707 and 746-776).
NothingLost == \A u \in pushed : Kept(u)

\* No ghost marker: a URL whose next enqueue would be dropped as a duplicate is
\* still to be crawled, or has been: through the broker, or through the local
\* queue of the very process that would drop it ("a failed push or hard crash can
\* never strand a marker that has no durable queue item", dupefilter.py lines
\* 2206-2208, and scheduler.py lines 3195-3199).
SuppressedIsKept ==
  \A w \in Workers : \A u \in shadow[w] \cup markers :
    Kept(u) \/ local[w][u] > 0 \/ work[w] = u

\* However enqueue_request ends, and once it has given up on the filter, it leaves no
\* reservation active, which would block the filter's close (scheduler.py lines
\* 3312-3394).
IntentsSettled == \A w \in intent : place[w] \in {"dedup", "push", "commit"}

\* No URL is lost, none is suppressed that nobody will crawl, and no
\* reservation stays behind.
CrawlKept == NothingLost /\ SuppressedIsKept /\ IntentsSettled

=============================================================================
