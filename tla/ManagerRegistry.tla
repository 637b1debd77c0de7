--------------------------- MODULE ManagerRegistry ---------------------------
(***************************************************************************)
(* The class-level registry of ConnectionManager in                        *)
(* src/scrapy_extension/backends/connectors/_manager.py.                   *)
(*                                                                         *)
(* Components acquire a manager by settings key.  Managers are built       *)
(* outside the registry lock behind a per-key construction gate, carry one *)
(* opaque token per acquire, and retire when the last token is released.   *)
(* clear_registry() tears everything down and fences, by an epoch, the     *)
(* candidates still being built.  A release that raises leaves a record in *)
(* a backlog that every later acquire retries.                             *)
(*                                                                         *)
(* A call is one acquire together with the release it is paired with; its  *)
(* token is the call itself.  Every action is one critical section of      *)
(* _registry_lock, or one step that the code takes outside of it.  What a  *)
(* retirement does to the connection is the subject of ManagerConnection.  *)
(***************************************************************************)
EXTENDS Integers, Sequences, FiniteSets, SequencesExt

CONSTANTS
  Calls,        \* the acquires of one behaviour
  Threads,
  ThreadOf,     \* the thread that makes a call
  Keys,         \* registry keys: distinct (backend type, settings) pairs
  Styles,       \* "exact": acquire_lease(), "legacy": get_manager()
  RaisingStyles,\* the styles whose release may raise
  MAX_MANAGERS,
  MAX_PENDING_RELEASES,
  MaxBuilds,    \* bound: construction attempts
  MaxClears,    \* bound: calls of clear_registry()
  MaxRaises     \* bound: releases and finalizers that raise

None == "none"

ASSUME NamesAssumption == None \notin Calls \cup Keys
ASSUME CallsAssumption == IsFiniteSet(Calls)
ASSUME ThreadOfAssumption == ThreadOf \in [Calls -> Threads]
ASSUME BoundsAssumption ==
  /\ MAX_MANAGERS \in Nat \ {0}
  /\ {MAX_PENDING_RELEASES, MaxBuilds, MaxClears, MaxRaises} \subseteq Nat

(* A construction attempt and the manager it builds share one number.      *)
Managers == 1..MaxBuilds
NoManager == 0

(* What a component releases: an exact lease, or close() on the manager.   *)
(* The backlogs _pending_release_leases and _pending_release_managers hold *)
(* the same two kinds of record.                                           *)
Hold == [m : {NoManager} \cup Managers, lease : {None} \cup Calls]
NoHold == [m |-> NoManager, lease |-> None]
ByClose(m) == [m |-> m, lease |-> None]
IsLease(h) == h.lease # None

VARIABLES
  registered,  \* the managers in _managers
  keyOf,       \* the registry key of a manager or of an attempt
  gate,        \* _manager_constructions: the attempt per key, or NoManager
  builds,      \* attempts made so far
  born,        \* attempt.epoch
  settled,     \* the attempts whose event is set
  epoch,       \* _registry_epoch
  active,      \* manager._active_acquires
  legacy,      \* manager._legacy_acquires, oldest first
  handoff,     \* manager._legacy_acquire_handoffs, per thread, latest last
  retired,     \* the managers with _retired
  complete,    \* the managers with _retirement_complete
  doomed,      \* managers popped for a forced teardown that has not run yet
  pending,     \* the failed releases kept for a retry
  pc,          \* where a call is
  want,        \* the key a call acquires: its input
  style,       \* the method a call acquires with: its input
  attempt,     \* the attempt a call builds or waits for
  hold,        \* what a call holds
  todo,        \* the snapshot of the backlog that a call retries
  job,         \* the backlog record whose finalizer a call runs
  raises,      \* releases and finalizers that have raised
  dropped      \* history: the failed releases that met a full backlog

managerVars == <<active, legacy, handoff, retired, complete>>
raiseVars == <<raises, dropped>>
gateVars == <<gate, builds, born, settled, keyOf>>
callVars == <<pc, want, style, attempt, hold, todo, job>>
vars == <<registered, epoch, doomed, pending, raiseVars,
          managerVars, gateVars, callVars>>

States == {"idle", "retry", "retryFinal", "look", "wait", "build", "fresh",
           "held", "again", "final", "done", "lost", "failed"}

TypeOK ==
  /\ registered \subseteq Managers
  /\ keyOf \in [Managers -> {None} \cup Keys]
  /\ gate \in [Keys -> {NoManager} \cup Managers]
  /\ builds \in 0..MaxBuilds
  /\ born \in [Managers -> 0..MaxClears]
  /\ settled \subseteq Managers
  /\ epoch \in 0..MaxClears
  /\ active \in [Managers -> SUBSET Calls]
  /\ legacy \in [Managers -> Seq(Calls)]
  /\ handoff \in [Managers -> [Threads -> Seq(Calls)]]
  /\ {retired, complete, doomed} \subseteq SUBSET Managers
  /\ pending \subseteq Hold
  /\ pc \in [Calls -> States]
  /\ want \in [Calls -> Keys]
  /\ style \in [Calls -> Styles]
  /\ attempt \in [Calls -> {NoManager} \cup Managers]
  /\ hold \in [Calls -> Hold]
  /\ todo \in [Calls -> SUBSET Hold]
  /\ job \in [Calls -> Hold]
  /\ raises \in 0..MaxRaises
  /\ dropped \subseteq Hold

Init ==
  /\ registered = {}
  /\ keyOf = [m \in Managers |-> None]
  /\ gate = [k \in Keys |-> NoManager]
  /\ builds = 0
  /\ born = [m \in Managers |-> 0]
  /\ settled = {}
  /\ epoch = 0
  /\ active = [m \in Managers |-> {}]
  /\ legacy = [m \in Managers |-> <<>>]
  /\ handoff = [m \in Managers |-> [t \in Threads |-> <<>>]]
  /\ retired = {}
  /\ complete = {}
  /\ doomed = {}
  /\ pending = {}
  /\ pc = [c \in Calls |-> "idle"]
  /\ want \in [Calls -> Keys]
  /\ style \in [Calls -> Styles]
  /\ attempt = [c \in Calls |-> NoManager]
  /\ hold = [c \in Calls |-> NoHold]
  /\ todo = [c \in Calls |-> {}]
  /\ job = [c \in Calls |-> NoHold]
  /\ raises = 0
  /\ dropped = {}

-----------------------------------------------------------------------------
(* Helpers of the critical sections *)

(* A thread makes its calls one after the other; a call that is inside the *)
(* registry code keeps its thread.                                         *)
Busy == {"retry", "retryFinal", "look", "wait", "build", "fresh", "again",
         "final"}
Free(c) == \A d \in Calls : ThreadOf[d] = ThreadOf[c] => pc[d] \notin Busy

(* _managers.get(key), as the set of zero or one manager.                  *)
At(k) == {m \in registered : keyOf[m] = k}

(* _register_acquire_under_lock.                                           *)
RegisterAcquire(m, c) ==
  /\ active' = [active EXCEPT ![m] = @ \cup {c}]
  /\ IF style[c] = "legacy"
       THEN /\ legacy' = [legacy EXCEPT ![m] = Append(@, c)]
            /\ handoff' = [handoff EXCEPT ![m][ThreadOf[c]] = Append(@, c)]
       ELSE UNCHANGED <<legacy, handoff>>
  /\ hold' = [hold EXCEPT
                ![c] = [m |-> m,
                        lease |-> IF style[c] = "legacy" THEN None ELSE c]]
  /\ pc' = [pc EXCEPT ![c] = IF style[c] = "legacy" THEN "fresh" ELSE "held"]

(* _collect_orphans_under_lock pops orphans until the registry is below    *)
(* its cap or only held managers are left.  Which orphans go first (the    *)
(* oldest) is left open.                                                   *)
Evictable(R) ==
  LET orphans == {m \in R : active[m] = {}}
  IN {V \in SUBSET orphans :
        /\ V # {} => Cardinality(R \ V) >= MAX_MANAGERS - 1
        /\ V = orphans \/ Cardinality(R \ V) < MAX_MANAGERS}

(* deque.remove() on the legacy tokens, the filter of the handoff lists: a *)
(* token is at most once in each of them.                                  *)
Without(s, c) == RemoveFirst(s, c)

EntryOf(m) == {m}

(* _release_acquire_under_lock: the last token takes the manager, and no   *)
(* successor under its key, out of the registry.                           *)
ReleaseAcquire(m, token) ==
  LET rest == active[m] \ {token}
  IN /\ active' = [active EXCEPT ![m] = rest]
     /\ legacy' = [legacy EXCEPT ![m] = Without(@, token)]
     /\ handoff' = [handoff EXCEPT
                      ![m] = [t \in Threads |-> Without(@[t], token)]]
     /\ retired' = IF rest = {} THEN retired \cup {m} ELSE retired
     /\ registered' = IF rest = {} THEN registered \ EntryOf(m)
                                  ELSE registered

\* Mutant: close() consumes any token of the manager.
AnyToken(h) ==
  IF IsLease(h) THEN h.lease
  ELSE IF active[h.m] # {} THEN CHOOSE t \in active[h.m] : TRUE ELSE None

(* The token that a release consumes: the lease's own one, or for close()  *)
(* the oldest legacy token, whoever acquired it.                           *)
TokenOf(h) ==
  IF IsLease(h) THEN h.lease
  ELSE IF legacy[h.m] # <<>> THEN Head(legacy[h.m]) ELSE None

(* The locked part of lease.release() and of manager.close().              *)
Consume(h) ==
  IF TokenOf(h) # None
    THEN ReleaseAcquire(h.m, TokenOf(h))
    ELSE UNCHANGED <<active, legacy, handoff, retired, registered>>

(* Whether that part leaves the retirement to be finalized by its caller.  *)
ShouldFinalize(h) ==
  /\ h.m \notin complete
  /\ IF TokenOf(h) # None
       THEN active[h.m] \subseteq {TokenOf(h)}
       ELSE h.m \in retired

(* _retain_failed_lease and _retain_failed_manager: two capped lists.      *)
Retain(P, h) ==
  IF Cardinality({x \in P : IsLease(x) = IsLease(h)}) >= MAX_PENDING_RELEASES
    THEN P
    ELSE P \cup {h}

RetainFailed(P, h) ==
  /\ raises < MaxRaises
  /\ raises' = raises + 1
  /\ (IF IsLease(h) THEN "exact" ELSE "legacy") \in RaisingStyles
  /\ pending' = Retain(P, h)
  /\ dropped' = dropped \cup ({h} \ Retain(P, h))

(* _forget_failed_lease, after a release that returned.  close() forgets   *)
(* nothing: only a published retirement does.                              *)
Forget(P, h) == IF IsLease(h) THEN P \ {h} ELSE P

(* _finalize_retirement: publishes the retirement and forgets the          *)
(* manager's record, unless the retirement is already published.           *)
Finalized(m) == IF m \in complete THEN pending ELSE pending \ {ByClose(m)}

-----------------------------------------------------------------------------
(* Acquire: get_manager() and acquire_lease() *)

(* retry_pending_releases takes a snapshot of the backlog.                 *)
Start(c) ==
  /\ pc[c] = "idle"
  /\ Free(c)
  /\ pc' = [pc EXCEPT ![c] = "retry"]
  /\ todo' = [todo EXCEPT ![c] = pending]
  /\ UNCHANGED <<registered, epoch, doomed, pending, raiseVars, managerVars,
                 gateVars, want, style, attempt, hold, job>>

(* The leases of the snapshot are retried before its managers.             *)
NextRetry(c) ==
  {h \in todo[c] : IsLease(h) \/ \A x \in todo[c] : ~IsLease(x)}

RetryRelease(c) ==
  /\ pc[c] = "retry"
  /\ \E h \in NextRetry(c) :
       /\ Consume(h)
       /\ todo' = [todo EXCEPT ![c] = @ \ {h}]
       /\ IF ShouldFinalize(h)
            THEN /\ pc' = [pc EXCEPT ![c] = "retryFinal"]
                 /\ job' = [job EXCEPT ![c] = h]
                 /\ UNCHANGED pending
            ELSE /\ pending' = Forget(pending, h)
                 /\ UNCHANGED <<pc, job>>
  /\ UNCHANGED <<epoch, doomed, raiseVars, complete, gateVars, want, style,
                 attempt, hold>>

(* A retried release that raises before its token is consumed is swallowed *)
(* and keeps its record.                                                   *)
RetryRaises(c) ==
  /\ pc[c] = "retry"
  /\ \E h \in NextRetry(c) :
       /\ RetainFailed(pending, h)
       /\ todo' = [todo EXCEPT ![c] = @ \ {h}]
  /\ UNCHANGED <<registered, epoch, doomed, managerVars, gateVars, pc, want,
                 style, attempt, hold, job>>

RetryFinalized(c) ==
  /\ pc[c] = "retryFinal"
  /\ complete' = complete \cup {job[c].m}
  /\ pending' = Forget(Finalized(job[c].m), job[c])
  /\ pc' = [pc EXCEPT ![c] = "retry"]
  /\ job' = [job EXCEPT ![c] = NoHold]
  /\ UNCHANGED <<registered, epoch, doomed, raiseVars, active, legacy, handoff,
                 retired, gateVars, want, style, attempt, hold, todo>>

(* A control exception leaves the retried finalization after it published  *)
(* the retirement: the release retains its record, and the loop goes on.   *)
RetryFinalizeRaises(c) ==
  LET h == job[c]
  IN /\ pc[c] = "retryFinal"
     /\ h.m \notin complete
     /\ complete' = complete \cup {h.m}
     /\ RetainFailed(Finalized(h.m), h)
     /\ pc' = [pc EXCEPT ![c] = "retry"]
     /\ job' = [job EXCEPT ![c] = NoHold]
     /\ UNCHANGED <<registered, epoch, doomed, active, legacy, handoff,
                    retired, gateVars, want, style, attempt, hold, todo>>

RetryDone(c) ==
  /\ pc[c] = "retry"
  /\ todo[c] = {}
  /\ pc' = [pc EXCEPT ![c] = "look"]
  /\ UNCHANGED <<registered, epoch, doomed, pending, raiseVars, managerVars,
                 gateVars, want, style, attempt, hold, todo, job>>

(* The lookup of _get_manager_with_token: a retired entry is popped and    *)
(* doomed; a live one is acquired; otherwise the call opens the key's      *)
(* construction gate or waits for the attempt that holds it.               *)
Lookup(c) ==
  LET k == want[c]
      live == At(k) \ retired
  IN /\ pc[c] = "look"
     /\ registered' = registered \ (At(k) \cap retired)
     /\ doomed' = doomed \cup (At(k) \cap retired)
     /\ \/ /\ \E m \in live : RegisterAcquire(m, c)
           /\ UNCHANGED <<gateVars, attempt>>
        \/ /\ live = {}
           /\ gate[k] = NoManager
           /\ builds < MaxBuilds
           /\ builds' = builds + 1
           /\ gate' = [gate EXCEPT ![k] = builds + 1]
           /\ born' = [born EXCEPT ![builds + 1] = epoch]
           /\ keyOf' = [keyOf EXCEPT ![builds + 1] = k]
           /\ attempt' = [attempt EXCEPT ![c] = builds + 1]
           /\ pc' = [pc EXCEPT ![c] = "build"]
           /\ UNCHANGED <<settled, active, legacy, handoff, hold>>
        \/ /\ live = {}
           /\ gate[k] # NoManager
           /\ attempt' = [attempt EXCEPT ![c] = gate[k]]
           /\ pc' = [pc EXCEPT ![c] = "wait"]
           /\ UNCHANGED <<gateVars, active, legacy, handoff, hold>>
     /\ UNCHANGED <<epoch, pending, raiseVars, retired, complete, want, style,
                    todo, job>>

(* attempt.event.wait() returns and the lookup starts over.                *)
Wake(c) ==
  /\ pc[c] = "wait"
  /\ attempt[c] \in settled
  /\ pc' = [pc EXCEPT ![c] = "look"]
  /\ UNCHANGED <<registered, epoch, doomed, pending, raiseVars, managerVars,
                 gateVars, want, style, attempt, hold, todo, job>>

(* The end of an attempt: its event is set, and the gate is given back if  *)
(* this attempt still holds it.                                            *)
Woken(a) == {a}
GateWithout(a) ==
  [k \in Keys |-> IF gate[k] = a THEN NoManager ELSE gate[k]]

(* The constructor raises (a recursive acquire by a constructor callback   *)
(* is one way): the gate is released and the waiters wake.                 *)
BuildFails(c) ==
  /\ pc[c] = "build"
  /\ gate' = GateWithout(attempt[c])
  /\ settled' = settled \cup Woken(attempt[c])
  /\ pc' = [pc EXCEPT ![c] = "failed"]
  /\ UNCHANGED <<registered, epoch, doomed, pending, raiseVars, managerVars,
                 builds, born, keyOf, want, style, attempt, hold, todo, job>>

\* Mutant: a built candidate is published without a second look.
PublishBlindly(a, existing) == TRUE

(* gate_is_current and existing is None.                                   *)
MayPublish(a, existing) ==
  gate[keyOf[a]] = a /\ epoch = born[a] /\ existing = {}

(* The publication of a built candidate.  A candidate that was started     *)
(* before a clear_registry() is never published: its call reuses the       *)
(* manager of the current generation or looks the key up again.            *)
Publish(c) ==
  LET a == attempt[c]
      stale == At(want[c]) \cap retired
      existing == At(want[c]) \ retired
      may == MayPublish(a, existing)
  IN /\ pc[c] = "build"
     /\ gate' = GateWithout(a)
     /\ settled' = settled \cup Woken(a)
     /\ \/ /\ may
           /\ \E V \in Evictable(registered \ stale) :
                /\ registered' = ((registered \ stale) \ V) \cup {a}
                /\ doomed' = doomed \cup stale \cup V
           /\ RegisterAcquire(a, c)
        \/ /\ ~may
           /\ \E m \in existing : RegisterAcquire(m, c)
           /\ registered' = registered \ stale
           /\ doomed' = doomed \cup stale \cup {a}
        \/ /\ ~may
           /\ existing = {}
           /\ registered' = registered \ stale
           /\ doomed' = doomed \cup stale \cup {a}
           /\ pc' = [pc EXCEPT ![c] = "look"]
           /\ UNCHANGED <<active, legacy, handoff, hold>>
     /\ UNCHANGED <<epoch, pending, raiseVars, retired, complete, builds, born,
                    keyOf, want, style, attempt, todo, job>>

(* _disconnect_backend_safely on a candidate or victim, and the loop at    *)
(* the end of clear_registry().  Its failures are suppressed.              *)
Teardown(m) ==
  /\ m \in doomed
  /\ doomed' = doomed \ {m}
  /\ active' = [active EXCEPT ![m] = {}]
  /\ legacy' = [legacy EXCEPT ![m] = <<>>]
  /\ handoff' = [handoff EXCEPT ![m] = [t \in Threads |-> <<>>]]
  /\ retired' = retired \cup {m}
  /\ complete' = complete \cup {m}
  /\ pending' = Finalized(m)
  /\ UNCHANGED <<registered, epoch, raiseVars, gateVars, callVars>>

(* A component that acquired with get_manager() may turn the token its     *)
(* thread was just given into an exact lease (_adopt_latest_legacy_lease). *)
(* When a peer's close() has consumed the token meanwhile there is nothing *)
(* to adopt, and the component goes on as a legacy holder.                 *)
ActiveHandoff(m, t) ==
  {i \in DOMAIN handoff[m][t] : handoff[m][t][i] \in active[m]}

NoLongerLegacy(m, token) == Without(legacy[m], token)

Adopt(c) ==
  LET m == hold[c].m
      t == ThreadOf[c]
      usable == ActiveHandoff(m, t)
      latest == Max(usable)
      token == handoff[m][t][latest]
  IN /\ pc[c] = "fresh"
     /\ pc' = [pc EXCEPT ![c] = "held"]
     /\ IF usable = {}
          THEN /\ handoff' = [handoff EXCEPT ![m][t] = <<>>]
               /\ UNCHANGED <<legacy, hold>>
          ELSE /\ handoff' = [handoff EXCEPT ![m][t] = SubSeq(@, 1, latest - 1)]
               /\ legacy' = [legacy EXCEPT ![m] = NoLongerLegacy(m, token)]
               /\ hold' = [hold EXCEPT ![c] = [m |-> m, lease |-> token]]
     /\ UNCHANGED <<registered, epoch, doomed, pending, raiseVars, active,
                    retired, complete, gateVars, want, style, attempt, todo,
                    job>>

(* A caller of get_manager() that will call close() itself.                *)
KeepLegacy(c) ==
  /\ pc[c] = "fresh"
  /\ pc' = [pc EXCEPT ![c] = "held"]
  /\ UNCHANGED <<registered, epoch, doomed, pending, raiseVars, managerVars,
                 gateVars, want, style, attempt, hold, todo, job>>

-----------------------------------------------------------------------------
(* Release: lease.release(), manager.close(), release_manager_acquire() *)

(* The first release, or the immediate second try after it raised.         *)
Release(c) ==
  /\ \/ pc[c] = "held" /\ Free(c)
     \/ pc[c] = "again"
  /\ Consume(hold[c])
  /\ IF ShouldFinalize(hold[c])
       THEN /\ pc' = [pc EXCEPT ![c] = "final"]
            /\ UNCHANGED pending
       ELSE /\ pc' = [pc EXCEPT ![c] = "done"]
            /\ pending' = Forget(pending, hold[c])
  /\ UNCHANGED <<epoch, doomed, raiseVars, complete, gateVars, want, style,
                 attempt, hold, todo, job>>

(* The release raises before it consumes its token: a record is kept, and  *)
(* release_manager_acquire() tries once more.  Other callers give up, and  *)
(* the record is all that is left of the hold.                             *)
ReleaseRaises(c) ==
  /\ \/ pc[c] = "held" /\ Free(c)
     \/ pc[c] = "again"
  /\ RetainFailed(pending, hold[c])
  /\ \E next \in IF pc[c] = "held" THEN {"again", "lost"} ELSE {"lost"} :
       pc' = [pc EXCEPT ![c] = next]
  /\ UNCHANGED <<registered, epoch, doomed, managerVars, gateVars, want,
                 style, attempt, hold, todo, job>>

FinalizeReturns(c) ==
  /\ pc[c] = "final"
  /\ complete' = complete \cup {hold[c].m}
  /\ pending' = Forget(Finalized(hold[c].m), hold[c])
  /\ pc' = [pc EXCEPT ![c] = "done"]
  /\ UNCHANGED <<registered, epoch, doomed, raiseVars, active, legacy, handoff,
                 retired, gateVars, want, style, attempt, hold, todo, job>>

(* The backend's disconnect raised a control exception: the retirement is  *)
(* published (and its record forgotten) first, then the exception leaves   *)
(* and the release retains a record.                                       *)
FinalizeRaises(c) ==
  LET h == hold[c]
  IN /\ pc[c] = "final"
     /\ h.m \notin complete
     /\ complete' = complete \cup {h.m}
     /\ RetainFailed(Finalized(h.m), h)
     /\ pc' = [pc EXCEPT ![c] = "lost"]
     /\ UNCHANGED <<registered, epoch, doomed, active, legacy, handoff,
                    retired, gateVars, want, style, attempt, hold, todo, job>>

(* A lease may be released any number of times.                            *)
ReleaseAgain(c) ==
  /\ pc[c] \in {"done", "lost"}
  /\ IsLease(hold[c])
  /\ Free(c)
  /\ Consume(hold[c])
  /\ IF ShouldFinalize(hold[c])
       THEN /\ pc' = [pc EXCEPT ![c] = "final"]
            /\ UNCHANGED pending
       ELSE /\ pc' = [pc EXCEPT ![c] = "done"]
            /\ pending' = Forget(pending, hold[c])
  /\ UNCHANGED <<epoch, doomed, raiseVars, complete, gateVars, want, style,
                 attempt, hold, todo, job>>

OpenGates == {gate[k] : k \in Keys} \ {NoManager}

(* clear_registry(): every manager and every attempt of the old generation *)
(* is cut off; the teardowns follow outside the lock.                      *)
Clear ==
  /\ epoch < MaxClears
  /\ epoch' = epoch + 1
  /\ registered' = {}
  /\ doomed' = doomed \cup registered
  /\ active' = [m \in Managers |->
                  IF m \in registered THEN {} ELSE active[m]]
  /\ legacy' = [m \in Managers |->
                  IF m \in registered THEN <<>> ELSE legacy[m]]
  /\ handoff' = [m \in Managers |->
                   IF m \in registered THEN [t \in Threads |-> <<>>]
                                       ELSE handoff[m]]
  /\ retired' = retired \cup registered
  /\ settled' = settled \cup OpenGates
  /\ gate' = [k \in Keys |-> NoManager]
  /\ UNCHANGED <<pending, raiseVars, complete, builds, born, keyOf, callVars>>

Next ==
  \/ Clear
  \/ \E m \in Managers : Teardown(m)
  \/ \E c \in Calls :
       \/ Start(c) \/ RetryRelease(c) \/ RetryRaises(c)
       \/ RetryFinalized(c) \/ RetryFinalizeRaises(c) \/ RetryDone(c)
       \/ Lookup(c) \/ Wake(c) \/ BuildFails(c) \/ Publish(c)
       \/ Adopt(c) \/ KeepLegacy(c)
       \/ Release(c) \/ ReleaseRaises(c)
       \/ FinalizeReturns(c) \/ FinalizeRaises(c) \/ ReleaseAgain(c)

Spec == Init /\ [][Next]_vars

-----------------------------------------------------------------------------
(* Properties *)

Holding == {"fresh", "held"}
GivenUp == {"again", "lost"}

(* A manager that no clear_registry() has torn down since it was started.  *)
Current(m) == born[m] = epoch

(* The registry only holds live managers that somebody has acquired, so a  *)
(* lookup never meets a retired entry and the LRU eviction of              *)
(* _collect_orphans_under_lock (_manager.py:1266-1284) never finds an      *)
(* orphan: a release that empties a manager unregisters it in the same     *)
(* critical section.                                                       *)
RegisteredIsHeld ==
  \A m \in registered : active[m] # {} /\ m \notin retired

(* Publication never replaces a registered manager (_manager.py:1155-1196: *)
(* the double check after construction), which would leave its holders     *)
(* with a connection that nobody can find.                                 *)
OnePerKey ==
  \A m, n \in registered : keyOf[m] = keyOf[n] => m = n

(* A candidate whose construction began before a clear_registry() is never *)
(* published after it (_manager.py:1155-1158, the epoch fence).            *)
ClearFencesBuilds == \A m \in registered : Current(m)

(* A call that waits for a construction waits for one that is still        *)
(* running, also after a clear, so that somebody will wake it              *)
(* (_manager.py:1129-1132, 1148, 1199 and 2461).                           *)
WaitersHaveABuilder ==
  \A c \in Calls :
    pc[c] = "wait" /\ attempt[c] \notin settled =>
      \E d \in Calls : pc[d] = "build" /\ attempt[d] = attempt[c]

(* The manager of an exact lease stays registered and keeps the lease's    *)
(* token until that lease is released or the registry is cleared: no       *)
(* peer's close(), adoption, retry or repeated release takes it away       *)
(* (_manager.py:576-583).                                                  *)
LeaseKeepsManager ==
  \A c \in Calls :
    LET h == hold[c]
    IN pc[c] = "held" /\ IsLease(h) /\ Current(h.m) =>
         /\ h.m \in registered
         /\ h.lease \in active[h.m]
         /\ \A d \in Calls :
              pc[d] = "held" /\ hold[d] = h => d = c

(* "Retry exact factory rollbacks without consuming unrelated holds."      *)
(* (_manager.py:928): whoever holds a manager that was not cleared, with a *)
(* lease or through get_manager(), holds one that has not been retired.    *)
HoldersKeepManager ==
  \A c \in Calls :
    pc[c] \in Holding /\ Current(hold[c].m) =>
      hold[c].m \notin retired

(* Every token of a current manager belongs to a call that holds it or to  *)
(* a failed lease release, one each; so the manager retires exactly with   *)
(* its last holder, although close() consumes the oldest legacy token and  *)
(* not its own (_manager.py:2219-2234, 973-999).                           *)
HoldsAccounted ==
  \A m \in Managers :
    Current(m) =>
      LET holders == {c \in Calls : pc[c] \in Holding /\ hold[c].m = m}
          lost == {c \in Calls : /\ pc[c] \in GivenUp
                                 /\ hold[c].m = m
                                 /\ hold[c].lease \in active[m]}
      IN /\ Cardinality(active[m]) = Cardinality(holders) + Cardinality(lost)
         /\ Len(legacy[m]) = Cardinality({c \in holders : ~IsLease(hold[c])})

(* A hold whose release raised is kept for a retry until it is consumed,   *)
(* unless the backlog was full when it raised: no retry, no other release  *)
(* and no retirement loses its record (_manager.py:603-613, 885-947).      *)
FailedReleaseIsKept ==
  \A c \in Calls :
    LET h == hold[c]
    IN pc[c] \in GivenUp /\ IsLease(h) /\ h.lease \in active[h.m] =>
         h \in pending \cup dropped

(* A manager leaves the registry only with its last token, and by the      *)
(* release of one of its own tokens: the late release of a cleared or      *)
(* retired predecessor never unregisters the manager that has taken over   *)
(* the key (_manager.py:2271-2273, the identity check).                    *)
SuccessorStays ==
  [][\A m \in registered \ registered' :
       /\ active'[m] = {}
       /\ epoch' = epoch => Cardinality(active[m]) = 1]_vars

(* The registry and its construction gates are consistent: one current,    *)
(* held manager per key, and a builder for everyone who waits.             *)
RegistrySound ==
  RegisteredIsHeld /\ OnePerKey /\ ClearFencesBuilds /\ WaitersHaveABuilder

(* A hold is worth what acquire() promised: its manager stays, its token   *)
(* is spent once and by its own release, and a release that raised is not  *)
(* forgotten.                                                              *)
HoldsKept ==
  /\ [](LeaseKeepsManager /\ HoldersKeepManager /\ HoldsAccounted /\ FailedReleaseIsKept)
  /\ SuccessorStays

=============================================================================
