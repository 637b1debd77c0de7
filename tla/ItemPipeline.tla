---------------------------- MODULE ItemPipeline ----------------------------
(***************************************************************************)
(* Opening, using and closing the item pipeline (BackendPipeline in        *)
(* pipeline/pipeline.py).  Under a running reactor the hooks only reserve: *)
(* open_spider() starts a worker, and items and the close wait their turn  *)
(* in one chain of workers, _async_tail.  Without a reactor every thread   *)
(* calls the blocking bodies itself.                                       *)
(*                                                                         *)
(* The caller is Scrapy's engine: open_spider() once, items only to a      *)
(* pipeline that is open.  Calls that are refused change nothing and have  *)
(* no action.  A close from within a store is not modelled.                *)
(***************************************************************************)
EXTENDS Naturals, Sequences, FiniteSets

CONSTANTS Workers,     \* the threads of the pool, or the callers' own
          Nobody,
          MaxErrors,   \* max_storage_errors
          MaxItems,    \* bound: items the pipeline is handed
          MaxCloses    \* bound: close attempts

VARIABLES
  reactor,     \* reactor_is_running()
  opens,       \* open_spider() has been called
  opener,     \* Nobody, "reserved", or the thread whose open is under way
  requested,   \* _open_close_requested
  chained,     \* a close waits behind the open worker
  openState,   \* "new", "open" (_opened) or "closed" (_closed)
  latched,     \* _closing
  pending,     \* _close_async_pending
  closer,      \* _close_owner_thread_id
  tail,        \* the jobs of _async_tail; the first one is started or next
  at,          \* thread |-> the call it is in
  forced,      \* the threads that close for a rollback
  strategy,    \* "shut", "open" or "closed"
  manager,     \* "held" or "released"
  errors,      \* _consecutive_storage_errors
  items, attempts,
  silent, lapsed   \* history: failed stores in a row that were not raised, and
                   \* a rollback goes on although its flush failed

hooks == <<opens, opener, requested, chained>>
close == <<latched, pending, closer, forced, attempts>>
stores == <<errors, items, silent>>
parts == <<strategy, manager, lapsed>>
pipelineVars == <<reactor, hooks, openState, close, tail, at, stores, parts>>

Busy(call) == {w \in Workers : at[w] = call}
Idle(w) == at[w] = "idle"
Goes(w, call) == at' = [at EXCEPT ![w] = call]

Init ==
  /\ reactor \in BOOLEAN /\ opens = FALSE /\ opener = Nobody /\ requested = FALSE
  /\ chained = FALSE /\ openState = "new"
  /\ latched = FALSE /\ pending = FALSE /\ closer = Nobody /\ forced = {}
  /\ tail = << >> /\ at = [w \in Workers |-> "idle"]
  /\ strategy = "shut" /\ manager = "held"
  /\ errors = 0 /\ items = 0 /\ attempts = 0 /\ silent = 0 /\ lapsed = FALSE

----------------------------------------------------------------------------
(* _close_locked(): the claim, the wait for the stores, the flush, the     *)
(* release.                                                                *)

\* Another attempt owns the close, or one is reserved.
CloseOwned(w) == latched /\ closer # w /\ (pending \/ closer # Nobody)

\* Mutant: the flush does not wait for the stores under way.
ClaimAtOnce(w) ==
  /\ latched' = TRUE /\ pending' = FALSE /\ closer' = w
  /\ Goes(w, "flushing")

\* The claim, refused when the pipeline is closed or the close is owned.
Claim(w) ==
  IF openState = "closed" \/ CloseOwned(w)
  THEN Goes(w, "idle") /\ UNCHANGED <<latched, pending, closer>>
  ELSE /\ latched' = TRUE /\ pending' = FALSE /\ closer' = w
       /\ Goes(w, IF Busy("storing") = {} THEN "flushing" ELSE "barrier")

StoresDone(w) ==
  /\ at[w] = "barrier" /\ Busy("storing") = {}
  /\ Goes(w, "flushing")
  /\ UNCHANGED <<reactor, hooks, openState, close, tail, stores, parts>>

\* strategy.close() fails: the latch stays, and nobody owns the close, so that
\* another attempt may claim it.  Only a rollback goes on.
FlushFails(w) ==
  /\ at[w] = "flushing" /\ closer' = Nobody
  /\ Goes(w, IF w \in forced THEN "unflushed" ELSE "idle")
  /\ lapsed' = (lapsed \/ w \in forced)
  /\ UNCHANGED <<reactor, hooks, openState, latched, pending, forced, attempts, tail,
                 stores, strategy, manager>>

\* The terminal state is published, and the manager is claimed.
CloseEnds(w) ==
  /\ openState' = "closed"
  /\ latched' = FALSE /\ pending' = FALSE /\ closer' = Nobody /\ requested' = FALSE
  /\ Goes(w, "releasing")
  /\ UNCHANGED <<reactor, opens, opener, chained, tail, stores, forced, attempts, manager, lapsed>>

Flushed(w) == at[w] = "flushing" /\ strategy' = "closed" /\ CloseEnds(w)
RollbackGoesOn(w) == at[w] = "unflushed" /\ CloseEnds(w) /\ UNCHANGED strategy

\* The manager goes once; a failure of its release is only reported.
ManagerReleased(w) ==
  /\ at[w] = "releasing"
  /\ manager' = "released" /\ forced' = forced \ {w} /\ Goes(w, "idle")
  /\ UNCHANGED <<reactor, hooks, openState, latched, pending, closer, attempts, tail,
                 stores, strategy, lapsed>>

----------------------------------------------------------------------------
(* open_spider(). *)

\* _open_spider_async() reserves the open for a worker.
OpenAsync ==
  /\ reactor /\ ~opens /\ openState = "new" /\ ~latched /\ opener = Nobody
  /\ opens' = TRUE /\ opener' = "reserved" /\ requested' = FALSE
  /\ UNCHANGED <<reactor, chained, openState, close, tail, at, stores, parts>>

\* _open_spider_sync() begins: the strategy is opened and the backend probed.
OpenBegins(w) ==
  /\ Idle(w) /\ Goes(w, "probing") /\ opener' = w /\ strategy' = "open"
  /\ IF reactor
     THEN opener = "reserved" /\ UNCHANGED <<opens, requested>>
     ELSE /\ ~opens /\ opens' = TRUE /\ openState = "new" /\ ~latched
          /\ requested' = FALSE
  /\ UNCHANGED <<reactor, chained, openState, close, tail, stores, manager, lapsed>>

\* Mutant: a failed probe leaves the open under way.
OpenFailsOpening(w) ==
  /\ at[w] = "probing" /\ Goes(w, "rollback") /\ forced' = forced \union {w}
  /\ UNCHANGED <<reactor, hooks, openState, latched, pending, closer, attempts, tail,
                 stores, parts>>

\* A failed probe gives the open up, and rolls back.
OpenFails(w) ==
  /\ at[w] = "probing" /\ opener' = Nobody
  /\ Goes(w, "rollback") /\ forced' = forced \union {w}
  /\ UNCHANGED <<reactor, opens, requested, chained, openState, latched, pending,
                 closer, attempts, tail, stores, parts>>

\* The end of an open that did not fail: the pipeline is open, unless a close
\* was requested meanwhile.  That close is done here when no other is to come.
OpenEnds(w) ==
  /\ at[w] = "probing" /\ opener' = Nobody /\ requested' = FALSE
  /\ IF requested
     THEN /\ Goes(w, IF pending THEN "idle" ELSE "rollback")
          /\ forced' = IF pending THEN forced ELSE forced \union {w}
          /\ UNCHANGED openState
     ELSE Goes(w, "idle") /\ openState' = "open" /\ UNCHANGED forced
  /\ UNCHANGED <<reactor, opens, chained, latched, pending, closer, attempts, tail,
                 stores, parts>>

Rollback(w) ==
  /\ at[w] = "rollback" /\ Claim(w)
  /\ forced' = IF openState = "closed" \/ CloseOwned(w) THEN forced \ {w} ELSE forced
  /\ UNCHANGED <<reactor, hooks, openState, attempts, tail, stores, parts>>

----------------------------------------------------------------------------
(* close_spider(). *)

\* _close_spider_async() reserves the close behind everything in the chain.
Reserve ==
  /\ latched' = TRUE /\ pending' = TRUE
  /\ tail' = Append(tail, "close")

CloseAsync ==
  /\ reactor /\ openState # "closed" /\ attempts < MaxCloses /\ attempts' = attempts + 1
  /\ IF opener # Nobody
     THEN /\ requested' = TRUE /\ pending' = TRUE /\ chained' = TRUE
          /\ UNCHANGED <<latched, tail>>
     ELSE ~latched /\ Reserve /\ UNCHANGED <<requested, chained>>
  /\ UNCHANGED <<reactor, opens, opener, openState, closer, forced, at, stores, parts>>

\* continue_after_open(): the close that waited for the open is reserved, if
\* it is still to be done.
ContinueAfterOpen ==
  /\ chained /\ opener = Nobody /\ chained' = FALSE
  /\ IF openState = "closed" \/ latched THEN UNCHANGED <<latched, pending, tail>> ELSE Reserve
  /\ UNCHANGED <<reactor, opens, opener, requested, openState, closer, forced, attempts,
                 at, stores, parts>>

\* A worker, or the callback, is refused: the reservation is given back.
CloseRefused ==
  /\ reactor /\ tail = <<"close">> /\ pending /\ latched
  /\ latched' = FALSE /\ pending' = FALSE /\ closer' = Nobody /\ tail' = << >>
  /\ UNCHANGED <<reactor, hooks, openState, forced, attempts, at, stores, parts>>

\* run_reserved_close() and _close_spider_sync(); without a reactor a close
\* waits for an open under way.
CloseBegins(w) ==
  /\ Idle(w)
  /\ IF reactor
     THEN /\ tail # << >> /\ Head(tail) = "close" /\ tail' = <<"closing">> \o Tail(tail)
          /\ pending' = FALSE /\ closer' = Nobody /\ UNCHANGED <<attempts, requested>>
     ELSE /\ openState # "closed" /\ attempts < MaxCloses /\ attempts' = attempts + 1
          /\ requested' = (requested \/ opener # Nobody)
          /\ UNCHANGED <<pending, closer, tail>>
  /\ Goes(w, "entering")
  /\ UNCHANGED <<reactor, opens, opener, chained, openState, latched, forced, stores, parts>>

CloseEnters(w) ==
  /\ at[w] = "entering" /\ opener = Nobody /\ Claim(w)
  /\ UNCHANGED <<reactor, hooks, openState, forced, attempts, tail, stores, parts>>

----------------------------------------------------------------------------
(* process_item(). *)

Rejects == openState = "closed" \/ latched

\* _process_item_async() takes a place in the chain.
ProcessItemAsync ==
  /\ reactor /\ openState = "open" /\ ~latched /\ opener = Nobody
  /\ items < MaxItems /\ items' = items + 1
  /\ tail' = Append(tail, "store")
  /\ UNCHANGED <<reactor, hooks, openState, close, at, errors, silent, parts>>

\* _process_item_sync(): its worker looks again, as the close may have been
\* latched while the item waited.
StoreBegins(w) ==
  /\ Idle(w)
  /\ IF reactor
     THEN /\ tail # << >> /\ Head(tail) = "store" /\ UNCHANGED items
          /\ IF Rejects
             THEN tail' = Tail(tail) /\ UNCHANGED at
             ELSE tail' = <<"storing">> \o Tail(tail) /\ Goes(w, "storing")
     ELSE /\ openState = "open" /\ ~Rejects /\ items < MaxItems /\ items' = items + 1
          /\ Goes(w, "storing") /\ UNCHANGED tail
  /\ UNCHANGED <<reactor, hooks, openState, close, errors, silent, parts>>

\* The pool refuses the worker: the item's failure is told, the chain goes on.
StoreRefused ==
  /\ reactor /\ tail # << >> /\ Head(tail) = "store" /\ tail' = Tail(tail)
  /\ UNCHANGED <<reactor, hooks, openState, close, at, stores, parts>>

LeaveStore(w) ==
  /\ at[w] = "storing" /\ Goes(w, "idle")
  /\ tail' = IF reactor THEN Tail(tail) ELSE tail
  /\ UNCHANGED <<reactor, hooks, openState, close, items, parts>>

\* The counter is updated without the lock: of two stores at once either may
\* miss what the other wrote.
Counted(w, value) ==
  errors' \in IF Busy("storing") = {w} THEN {value} ELSE 0 .. MaxItems

\* An item that is stored, or that is refused for what it is.
ItemStored(w) == LeaveStore(w) /\ Counted(w, 0) /\ silent' = 0
ItemInvalid(w) == LeaveStore(w) /\ UNCHANGED <<errors, silent>>

\* Mutant: the counter is compared before it is counted up.
StoreFailsLate(w) ==
  /\ LeaveStore(w) /\ Counted(w, errors + 1)
  /\ silent' = IF errors > MaxErrors THEN 0 ELSE silent + 1

\* The backend fails: the item goes on without being stored, until too many
\* in a row did.
StoreFails(w) ==
  /\ LeaveStore(w) /\ Counted(w, errors + 1)
  /\ silent' = IF errors' > MaxErrors THEN 0 ELSE silent + 1

\* The chain goes on when the worker of its close has returned.
CloseJobEnds ==
  /\ reactor /\ tail # << >> /\ Head(tail) = "closing"
  /\ \A w \in Workers : at[w] \notin {"entering", "barrier", "flushing", "releasing"} \/ w \in forced
  /\ tail' = Tail(tail)
  /\ UNCHANGED <<reactor, hooks, openState, close, at, stores, parts>>

----------------------------------------------------------------------------
Works(w) ==
  \/ StoresDone(w) \/ FlushFails(w) \/ Flushed(w) \/ RollbackGoesOn(w) \/ ManagerReleased(w)
  \/ OpenFails(w) \/ OpenEnds(w) \/ Rollback(w) \/ CloseEnters(w)
  \/ ItemStored(w) \/ ItemInvalid(w) \/ StoreFails(w)

Runs == ContinueAfterOpen \/ CloseJobEnds

Next ==
  \/ OpenAsync \/ CloseAsync \/ ContinueAfterOpen \/ CloseRefused \/ CloseJobEnds
  \/ ProcessItemAsync \/ StoreRefused
  \/ \E w \in Workers :
       OpenBegins(w) \/ CloseBegins(w) \/ StoreBegins(w) \/ Works(w)

\* Threads run, calls to the backend return, and the reactor runs its
\* callbacks and finds a worker for the next job of the chain.
Fairness ==
  /\ \A w \in Workers : WF_pipelineVars(Works(w))
  /\ WF_pipelineVars(Runs)
  /\ WF_pipelineVars(reactor /\ \E w \in Workers : OpenBegins(w) \/ CloseBegins(w) \/ StoreBegins(w))

Spec == Init /\ [][Next]_pipelineVars /\ Fairness

----------------------------------------------------------------------------
TypeOK ==
  /\ opener \in Workers \union {Nobody, "reserved"} /\ closer \in Workers \union {Nobody}
  /\ openState \in {"new", "open", "closed"} /\ forced \subseteq Workers
  /\ at \in [Workers -> {"idle", "probing", "rollback", "entering", "barrier",
                         "flushing", "unflushed", "releasing", "storing"}]
  /\ tail \in Seq({"store", "storing", "close", "closing"})

\* The connection manager goes last: by then no probe and no store is under
\* way, and no flush either, unless a rollback whose own flush failed overtook
\* a close that flushes again.  Such a flush owes nothing to any item.
ManagerGoesLast ==
  /\ manager = "released" => Busy("probing") \union Busy("storing") = {}
  /\ manager = "released" /\ ~lapsed => Busy("flushing") = {}
  /\ strategy = "closed" => Busy("storing") = {}
  /\ lapsed => items = 0

\* Under the reactor at most MaxErrors items in a row are lost in silence.
LossesAreRaised == reactor => silent <= MaxErrors

\* Every call returns, and every job of the chain gets its turn, whatever
\* failed before it.
CallsReturn ==
  /\ \A w \in Workers : (at[w] # "idle") ~> (at[w] = "idle")
  /\ (tail # << >>) ~> (tail = << >>)

\* What the docstring of _close_locked() promises of a failed close: a latched
\* close is refused only while an attempt is under way or reserved.
FailedCloseRetryable ==
  latched /\ reactor =>
    \/ pending \/ closer # Nobody \/ tail # << >>
    \/ Busy("rollback") \union Busy("unflushed") # {}
=============================================================================
