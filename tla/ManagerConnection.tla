-------------------------- MODULE ManagerConnection --------------------------
(***************************************************************************)
(* The connection of one ConnectionManager in                              *)
(* src/scrapy_extension/backends/connectors/_manager.py: lazy connection   *)
(* through the backend property, direct connect() calls, replacement of a  *)
(* stale backend, and retirement.                                          *)
(*                                                                         *)
(* Two locks are at work: _connect_lock serialises whole connection        *)
(* transactions, network calls included, and _lock guards the state for a  *)
(* few statements.  Every action is one section of _lock, or one call into *)
(* a backend that the code makes outside of it.  The retired flag is set   *)
(* by the last release, under the registry's lock (ManagerRegistry), so it *)
(* may appear between any two steps.                                       *)
(***************************************************************************)
EXTENDS Integers, FiniteSets

CONSTANTS
  Threads,
  Attempts,       \* identities of _ConnectionAttempt objects
  MaxHandles,     \* bound: backends created
  MaxInterrupts   \* bound: interrupted publications of the retirement

ASSUME BoundsAssumption ==
  {MaxHandles, MaxInterrupts} \subseteq Nat

Handles == 1..MaxHandles
None == 0
NoThread == "none"
NoAttempt == "none"

ASSUME IdentitiesAssumption == NoThread \notin Threads /\ NoAttempt \notin Attempts

VARIABLES
  retired,      \* _retired
  complete,     \* _retirement_complete
  started,      \* _retirement_disconnect_started
  finalizer,    \* the thread of _retirement_finalizer_token
  backend,      \* _backend
  retiring,     \* _retiring_backend
  breaker,      \* the generation of _breaker
  tripped,      \* that breaker has left CLOSED
  connectLock,  \* the holder of _connect_lock
  connecting,   \* _connecting
  attempt,      \* _connect_attempt
  outcome,      \* an attempt's shared result
  made,         \* backends created so far
  closed,       \* closed[h]: how often h was disconnected
  bornWith,     \* bornWith[h]: the breaker generation h was published with
  interrupts,
  pc,           \* where a thread is
  lazy,         \* the attempt a thread owns or waits for, None in connect()
  hand,         \* the backend a thread was given by the backend property
  seen,         \* the breaker generation read beside it
  custody       \* a backend that only this thread will disconnect or publish

retireVars == <<complete, started, finalizer, retiring>>
linkVars == <<backend, breaker, tripped, connectLock>>
lazyVars == <<connecting, attempt, outcome>>
handleVars == <<made, closed, bornWith>>
localVars == <<hand, seen, custody>>
vars == <<retired, retireVars, linkVars, lazyVars, handleVars, localVars, pc,
          lazy, interrupts>>

States == {"idle", "ask", "wait", "lock", "probe", "drop", "try", "dial",
           "discard", "settle", "fail", "read", "got", "check", "pair", "fin",
           "await", "teardown", "publish", "raised"}

TypeOK ==
  /\ {retired, complete, started, connecting, tripped} \subseteq BOOLEAN
  /\ finalizer \in {NoThread} \cup Threads
  /\ {backend, retiring} \subseteq {None} \cup Handles
  /\ breaker \in 0..MaxHandles
  /\ connectLock \in {NoThread} \cup Threads
  /\ attempt \in {NoAttempt} \cup Attempts
  /\ outcome \in [Attempts -> {"open", "ok", "error"}]
  /\ made \in 0..MaxHandles
  /\ closed \in [Handles -> Nat]
  /\ bornWith \in [Handles -> 0..MaxHandles]
  /\ interrupts \in 0..MaxInterrupts
  /\ pc \in [Threads -> States]
  /\ lazy \in [Threads -> {NoAttempt} \cup Attempts]
  /\ hand \in [Threads -> {None} \cup Handles]
  /\ seen \in [Threads -> 0..MaxHandles]
  /\ custody \in [Threads -> {None} \cup Handles]

Init ==
  /\ retired = FALSE
  /\ complete = FALSE
  /\ started = FALSE
  /\ finalizer = NoThread
  /\ backend = None
  /\ retiring = None
  /\ breaker = 0
  /\ tripped = FALSE
  /\ connectLock = NoThread
  /\ connecting = FALSE
  /\ attempt = NoAttempt
  /\ outcome = [a \in Attempts |-> "open"]
  /\ made = 0
  /\ closed = [h \in Handles |-> 0]
  /\ bornWith = [h \in Handles |-> 0]
  /\ interrupts = 0
  /\ pc = [t \in Threads |-> "idle"]
  /\ lazy = [t \in Threads |-> NoAttempt]
  /\ hand = [t \in Threads |-> None]
  /\ seen = [t \in Threads |-> 0]
  /\ custody = [t \in Threads |-> None]

Goto(t, l) == pc' = [pc EXCEPT ![t] = l]
Disconnect(h) == closed' = [closed EXCEPT ![h] = @ + 1]

-----------------------------------------------------------------------------
(* The backend property *)

(* A thread asks for the backend, or takes a (backend, breaker) snapshot,  *)
(* which asks for the backend first.                                       *)
Ask(t) ==
  /\ pc[t] = "idle"
  /\ Goto(t, "ask")
  /\ UNCHANGED <<retired, retireVars, linkVars, lazyVars, handleVars,
                 interrupts, lazy, localVars>>

(* An attempt is a fresh object: an identity nobody refers to.  The        *)
(* lock-free fast path gives what the locked slow path gives: retired is  *)
(* monotone and is read again after the backend.                           *)
Access(t) ==
  /\ pc[t] = "ask"
  /\ \/ /\ retired
        /\ Goto(t, "idle")
        /\ UNCHANGED <<lazyVars, lazy, hand>>
     \/ /\ ~retired /\ backend # None
        /\ hand' = [hand EXCEPT ![t] = backend]
        /\ Goto(t, "got")
        /\ UNCHANGED <<lazyVars, lazy>>
     \/ /\ ~retired /\ backend = None /\ ~connecting
        /\ \E a \in Attempts :
             /\ \A u \in Threads : lazy[u] # a
             /\ attempt' = a
             /\ outcome' = [outcome EXCEPT ![a] = "open"]
             /\ lazy' = [lazy EXCEPT ![t] = a]
        /\ connecting' = TRUE
        /\ Goto(t, "lock")
        /\ UNCHANGED hand
     \/ /\ ~retired /\ backend = None /\ connecting
        /\ lazy' = [lazy EXCEPT ![t] = attempt]
        /\ Goto(t, "wait")
        /\ UNCHANGED <<lazyVars, hand>>
  /\ UNCHANGED <<retired, retireVars, linkVars, handleVars, interrupts,
                 seen, custody>>

(* attempt.event is set: the error is shared, a success asks again.        *)
Wake(t) ==
  /\ pc[t] = "wait"
  /\ outcome[lazy[t]] # "open"
  /\ Goto(t, IF outcome[lazy[t]] = "error" THEN "idle" ELSE "ask")
  /\ lazy' = [lazy EXCEPT ![t] = NoAttempt]
  /\ UNCHANGED <<retired, retireVars, linkVars, lazyVars, handleVars,
                 interrupts, localVars>>

-----------------------------------------------------------------------------
(* connect(): _run_connect_transaction *)

ConnectDirect(t) ==
  /\ pc[t] = "idle"
  /\ Goto(t, "lock")
  /\ UNCHANGED <<retired, retireVars, linkVars, lazyVars, handleVars,
                 interrupts, lazy, localVars>>

(* The transaction is over: a lazy owner settles its attempt, a direct     *)
(* caller returns or raises.                                               *)
Return(t) == Goto(t, IF lazy[t] # NoAttempt THEN "settle" ELSE "idle")
Raise(t) == Goto(t, IF lazy[t] # NoAttempt THEN "fail" ELSE "idle")

(* with _connect_lock: the first section of _detach_stale_backend.         *)
TakeLock(t) ==
  /\ pc[t] = "lock"
  /\ connectLock = NoThread
  /\ IF retired
       THEN /\ Raise(t)
            /\ UNCHANGED <<connectLock, hand>>
       ELSE /\ connectLock' = t
            /\ hand' = [hand EXCEPT ![t] = backend]
            /\ Goto(t, IF backend = None THEN "try" ELSE "probe")
  /\ UNCHANGED <<retired, retireVars, backend, breaker, tripped, lazyVars,
                 handleVars, interrupts, lazy, seen, custody>>

(* The probe ran unlocked: its result counts for the probed backend only.  *)
StillCurrent(t) == backend = hand[t]

(* is_connected() answers, and the second section of _detach_stale_backend *)
(* reconciles.  An unhealthy backend is detached with its breaker, and     *)
(* _connect_lock is given up for the disconnect.  The call raises when the *)
(* manager was retired, or out of is_connected() on a control exception.   *)
Probe(t) ==
  /\ pc[t] = "probe"
  /\ \/ /\ connectLock' = NoThread
        /\ Raise(t)
        /\ UNCHANGED <<backend, breaker, tripped, custody>>
     \/ /\ ~retired
        /\ Goto(t, "try")
        /\ UNCHANGED <<linkVars, custody>>
     \/ /\ ~retired /\ StillCurrent(t)
        /\ breaker < MaxHandles
        /\ custody' = [custody EXCEPT ![t] = backend]
        /\ backend' = None
        /\ breaker' = breaker + 1
        /\ tripped' = FALSE
        /\ connectLock' = NoThread
        /\ Goto(t, "drop")
  /\ hand' = [hand EXCEPT ![t] = None]
  /\ UNCHANGED <<retired, retireVars, lazyVars, handleVars, interrupts, lazy,
                 seen>>

(* The stale backend is disconnected outside both locks, and the           *)
(* transaction starts over, unless the manager was retired or a control    *)
(* exception leaves the disconnect.                                        *)
DropStale(t) ==
  /\ pc[t] = "drop"
  /\ Disconnect(custody[t])
  /\ custody' = [custody EXCEPT ![t] = None]
  /\ \/ Raise(t)
     \/ ~retired /\ Goto(t, "lock")
  /\ UNCHANGED <<retired, retireVars, linkVars, lazyVars, made, bornWith,
                 interrupts, lazy, hand, seen>>

AlreadyConnected == backend # None

(* _connect_with_retries up to backend.connect(): a healthy backend ends   *)
(* the transaction, a failed creation (bad settings, missing dependency)   *)
(* is not retried.                                                         *)
Try(t) ==
  /\ pc[t] = "try"
  /\ \/ /\ retired
        /\ connectLock' = NoThread
        /\ Raise(t)
        /\ UNCHANGED <<made, custody>>
     \/ /\ ~retired /\ AlreadyConnected
        /\ connectLock' = NoThread
        /\ Return(t)
        /\ UNCHANGED <<made, custody>>
     \/ /\ ~retired /\ ~AlreadyConnected
        /\ connectLock' = NoThread
        /\ Raise(t)
        /\ UNCHANGED <<made, custody>>
     \/ /\ ~retired /\ ~AlreadyConnected
        /\ made < MaxHandles
        /\ made' = made + 1
        /\ custody' = [custody EXCEPT ![t] = made + 1]
        /\ Goto(t, "dial")
        /\ UNCHANGED connectLock
  /\ UNCHANGED <<retired, retireVars, backend, breaker, tripped, lazyVars,
                 closed, bornWith, interrupts, lazy, hand, seen>>

(* backend.connect() raises: the candidate is disconnected.  Another try   *)
(* follows unless the manager was retired, the retries are used up or the  *)
(* retry deadline has passed; the last two are left open.                  *)
DialFails(t) ==
  /\ pc[t] = "dial"
  /\ Disconnect(custody[t])
  /\ custody' = [custody EXCEPT ![t] = None]
  /\ \/ /\ ~retired
        /\ Goto(t, "try")
        /\ UNCHANGED connectLock
     \/ /\ connectLock' = NoThread
        /\ Raise(t)
  /\ UNCHANGED <<retired, retireVars, backend, breaker, tripped, lazyVars,
                 made, bornWith, interrupts, lazy, hand, seen>>

\* Mutant: the connected candidate is published without a second look.
AlwaysPublish == TRUE

MayPublish == ~retired

(* backend.connect() returns: the candidate is published, unless the last  *)
(* holder released the manager in the meantime.                            *)
DialWorks(t) ==
  /\ pc[t] = "dial"
  /\ IF MayPublish
       THEN /\ backend' = custody[t]
            /\ bornWith' = [bornWith EXCEPT ![custody[t]] = breaker]
            /\ custody' = [custody EXCEPT ![t] = None]
            /\ connectLock' = NoThread
            /\ Return(t)
       ELSE /\ Goto(t, "discard")
            /\ UNCHANGED <<backend, connectLock, bornWith, custody>>
  /\ UNCHANGED <<retired, retireVars, breaker, tripped, lazyVars, made,
                 closed, interrupts, lazy, hand, seen>>

Discard(t) ==
  /\ pc[t] = "discard"
  /\ Disconnect(custody[t])
  /\ custody' = [custody EXCEPT ![t] = None]
  /\ connectLock' = NoThread
  /\ Raise(t)
  /\ UNCHANGED <<retired, retireVars, backend, breaker, tripped, lazyVars,
                 made, bornWith, interrupts, lazy, hand, seen>>

\* Mutant: the event of an attempt that failed is not set.
ShareSuccess(ok) == IF ok THEN "ok" ELSE "open"

Result(ok) == IF ok THEN "ok" ELSE "error"

(* _complete_lazy_connection_attempt: the owner shares its result.  A      *)
(* transaction that returned still fails when the manager was retired or   *)
(* the backend detached since.                                             *)
Settle(t) ==
  LET ok == pc[t] = "settle" /\ ~retired /\ backend # None
  IN /\ pc[t] \in {"settle", "fail"}
     /\ outcome' = [outcome EXCEPT ![lazy[t]] = Result(ok)]
     /\ connecting' = FALSE
     /\ lazy' = [lazy EXCEPT ![t] = NoAttempt]
     /\ Goto(t, IF ok THEN "read" ELSE "idle")
     /\ UNCHANGED <<retired, retireVars, linkVars, attempt, handleVars,
                    interrupts, localVars>>

Produced == backend # None

(* The owner reads the published backend once, under _lock; a reconnect    *)
(* may have detached it since the attempt was settled.                     *)
Read(t) ==
  /\ pc[t] = "read"
  /\ hand' = [hand EXCEPT ![t] = backend]
  /\ Goto(t, IF Produced THEN "got" ELSE "idle")
  /\ UNCHANGED <<retired, retireVars, linkVars, lazyVars, handleVars,
                 interrupts, lazy, seen, custody>>

-----------------------------------------------------------------------------
(* _get_backend_breaker_snapshot *)

ReadBreaker(t) ==
  /\ pc[t] = "got"
  /\ seen' = [seen EXCEPT ![t] = breaker]
  /\ Goto(t, "check")
  /\ UNCHANGED <<retired, retireVars, linkVars, lazyVars, handleVars,
                 interrupts, lazy, hand, custody>>

Coherent(t) == hand[t] = backend /\ seen[t] = breaker

(* The thread lets go of what it read. *)
Drop(t) ==
  /\ hand' = [hand EXCEPT ![t] = None]
  /\ seen' = [seen EXCEPT ![t] = 0]

Check(t) ==
  /\ pc[t] = "check"
  /\ IF ~retired /\ Coherent(t)
       THEN /\ Goto(t, "pair")
            /\ UNCHANGED <<hand, seen>>
       ELSE /\ Goto(t, IF retired THEN "idle" ELSE "ask")
            /\ Drop(t)
  /\ UNCHANGED <<retired, retireVars, linkVars, lazyVars, handleVars,
                 interrupts, lazy, custody>>

(* A call through the pair fails and opens the breaker of its generation.  *)
CallTrips(t) ==
  /\ pc[t] = "pair"
  /\ tripped' = (tripped \/ seen[t] = breaker)
  /\ Goto(t, "idle")
  /\ Drop(t)
  /\ UNCHANGED <<retired, retireVars, backend, breaker, connectLock, lazyVars,
                 handleVars, interrupts, lazy, custody>>

(* The caller is done with the backend, or with the pair, it was given.    *)
Done(t) ==
  /\ pc[t] \in {"got", "pair"}
  /\ Goto(t, "idle")
  /\ Drop(t)
  /\ UNCHANGED <<retired, retireVars, linkVars, lazyVars, handleVars,
                 interrupts, lazy, custody>>

-----------------------------------------------------------------------------
(* Retirement *)

(* The last release retires the manager; that release, and any release or  *)
(* clear_registry() after it, goes on to _finalize_retirement.             *)
Retire(t) ==
  /\ pc[t] = "idle"
  /\ retired' = TRUE
  /\ Goto(t, "fin")
  /\ UNCHANGED <<retireVars, linkVars, lazyVars, handleVars, interrupts,
                 lazy, localVars>>

(* The frame that claimed the finalization is still on its thread's stack. *)
OwnerActive ==
  finalizer # NoThread /\ pc[finalizer] \in {"teardown", "publish"}

FirstClaim == ~started

(* Take the finalization: detach the backend, to be disconnected unless an *)
(* earlier owner has begun to, and reset the breaker.  The reset reports a *)
(* breaker that was not CLOSED to the monitor, before it returns.          *)
Claim(t) ==
  LET detached == IF retiring = None THEN backend ELSE retiring
  IN /\ finalizer' = t
     /\ retiring' = detached
     /\ backend' = IF retiring = None THEN None ELSE backend
     /\ custody' = [custody EXCEPT
                      ![t] = IF FirstClaim THEN detached ELSE None]
     /\ started' = TRUE
     /\ tripped' = FALSE
     /\ Goto(t, "teardown")

Finalize(t) ==
  /\ pc[t] = "fin"
  /\ \/ /\ complete
        /\ finalizer' = NoThread
        /\ Goto(t, "idle")
        /\ UNCHANGED <<started, retiring, backend, tripped, custody>>
     \/ /\ ~complete /\ OwnerActive
        /\ Goto(t, "await")
        /\ UNCHANGED <<started, finalizer, retiring, backend, tripped,
                       custody>>
     \/ ~complete /\ ~OwnerActive /\ Claim(t)
  /\ UNCHANGED <<retired, complete, breaker, connectLock, lazyVars,
                 handleVars, interrupts, lazy, hand, seen>>

(* A contender waits for the event and looks every 10 ms whether its owner *)
(* is still there.                                                         *)
Await(t) ==
  /\ pc[t] = "await"
  /\ \/ /\ complete
        /\ Goto(t, "idle")
        /\ UNCHANGED <<started, finalizer, retiring, backend, tripped,
                       custody>>
     \/ ~complete /\ ~OwnerActive /\ Claim(t)
  /\ UNCHANGED <<retired, complete, breaker, connectLock, lazyVars,
                 handleVars, interrupts, lazy, hand, seen>>

(* The disconnect of the detached backend; what it raises is kept for      *)
(* after the publication.                                                  *)
Teardown(t) ==
  /\ pc[t] = "teardown"
  /\ IF custody[t] # None THEN Disconnect(custody[t]) ELSE UNCHANGED closed
  /\ custody' = [custody EXCEPT ![t] = None]
  /\ Goto(t, "publish")
  /\ UNCHANGED <<retired, retireVars, linkVars, lazyVars, made, bornWith,
                 interrupts, lazy, hand, seen>>

(* _publish_retirement_complete.                                           *)
Publish(t) ==
  /\ pc[t] = "publish"
  /\ complete' = TRUE
  /\ finalizer' = NoThread
  /\ retiring' = None
  /\ Goto(t, "idle")
  /\ UNCHANGED <<retired, started, linkVars, lazyVars, handleVars, interrupts,
                 lazy, localVars>>

(* Both passes of the publication are interrupted, before or after the     *)
(* first of its assignments.  The release is retained for a retry.         *)
PublishInterrupted(t) ==
  /\ pc[t] = "publish"
  /\ interrupts < MaxInterrupts
  /\ interrupts' = interrupts + 1
  /\ complete' \in {complete, TRUE}
  /\ Goto(t, "raised")
  /\ UNCHANGED <<retired, started, finalizer, retiring, linkVars, lazyVars,
                 handleVars, lazy, localVars>>

Retried == "fin"

(* retry_pending_releases runs the retained release again.                 *)
RetryRelease(t) ==
  /\ pc[t] = "raised"
  /\ Goto(t, Retried)
  /\ UNCHANGED <<retired, retireVars, linkVars, lazyVars, handleVars,
                 interrupts, lazy, localVars>>

-----------------------------------------------------------------------------
Step(t) ==
  \/ Access(t) \/ Wake(t) \/ Probe(t) \/ DropStale(t) \/ Try(t)
  \/ DialFails(t) \/ DialWorks(t) \/ Discard(t) \/ Settle(t) \/ Read(t)
  \/ ReadBreaker(t) \/ Check(t) \/ Done(t)
  \/ Finalize(t) \/ Await(t) \/ Teardown(t) \/ Publish(t) \/ RetryRelease(t)

Next ==
  \E t \in Threads :
    \/ Step(t) \/ TakeLock(t) \/ PublishInterrupted(t)
    \/ Ask(t) \/ ConnectDirect(t) \/ Retire(t) \/ CallTrips(t)

Spec == Init /\ [][Next]_vars

(* A thread that is inside the manager goes on, backend calls return, a    *)
(* retained release is retried by a later acquire, and _connect_lock is    *)
(* not withheld from a waiting thread forever.                             *)
Fairness ==
  \A t \in Threads : WF_vars(Step(t)) /\ SF_vars(TakeLock(t))

FairSpec == Spec /\ Fairness

-----------------------------------------------------------------------------
(* Properties *)

(* No backend is forgotten: one that was created and not disconnected is   *)
(* the published one or on its way through exactly one thread              *)
(* (_manager.py:2101-2175, 1743-1780: two concurrent connects must not     *)
(* overwrite each other's backend, and a backend that connects after the   *)
(* last release must not stay).                                            *)
NoHandleLeaked ==
  \A h \in 1..made :
    closed[h] = 0 =>
      Cardinality({t \in Threads : custody[t] = h})
        + (IF backend = h THEN 1 ELSE 0) = 1

(* No backend is disconnected twice, whatever the retirement meets: a      *)
(* transaction in flight, a second release, an interrupted publication     *)
(* that the next owner takes over (_manager.py:2345-2347, "without         *)
(* replaying opaque teardown").                                            *)
DisconnectedOnce == \A h \in Handles : closed[h] <= 1

(* Once the teardown has begun the manager never publishes a backend       *)
(* again, and no disconnected backend is published (_manager.py:2150-2154, *)
(* 1723-1729).                                                             *)
NoResurrection ==
  /\ started => backend = None
  /\ backend # None => closed[backend] = 0

(* The backend property never gives out None (_manager.py:2648-2662), and  *)
(* the pair that a snapshot gives out belongs to one connection            *)
(* generation: the backend never comes with the breaker of its successor   *)
(* or predecessor (_manager.py:2826-2864).                                 *)
CoherentPair ==
  \A t \in Threads :
    /\ pc[t] \in {"got", "check", "pair"} => hand[t] # None
    /\ pc[t] = "pair" => seen[t] = bornWith[hand[t]]

(* A peer that waits for a lazy attempt is woken (_manager.py:1618-1662).  *)
WaitersReturn == \A t \in Threads : pc[t] = "wait" ~> pc[t] # "wait"

(* A retired manager's retirement is completed, also when the owner of the *)
(* finalization was interrupted (_manager.py:2351-2386).                   *)
RetirementCompletes == retired ~> complete

(* Every backend built is in somebody's hands until it is disconnected,    *)
(* once; a retired manager publishes none; a snapshot is of one generation.*)
ConnectionSound == NoHandleLeaked /\ DisconnectedOnce /\ NoResurrection /\ CoherentPair

(* Nobody waits for ever, neither for a connect nor for the retirement.    *)
ConnectionEnds == WaitersReturn /\ RetirementCompletes

=============================================================================
