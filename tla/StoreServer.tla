---------------------------- MODULE StoreServer -----------------------------
(***************************************************************************)
(* The part that the backends without acknowledgements share: a server     *)
(* with a queue, a set and a key-value store, the threads that use it      *)
(* through one backend object, and what a history of their answers must    *)
(* look like.  The servers are external; a thread's operation leases the   *)
(* client generation it talks to.                                          *)
(***************************************************************************)
EXTENDS Naturals, FiniteSets

CONSTANTS
  Clients,         \* the threads of the process
  Messages,        \* the payloads of the queue
  Priorities,      \* their priorities
  Keys,            \* the keys of the store
  MaxWrites,       \* bound: values written to the store
  MaxTime,         \* bound: the clock
  MaxDisconnects   \* bound: disconnects

VARIABLES
  conn,     \* the backend object
  broker,   \* the server
  op,       \* op[c]: the operation thread c is inside
  hist      \* the answers

vars == <<conn, broker, op, hist>>

NoGen == 0
Idle == [kind |-> "idle", gen |-> NoGen]
Never == 0

NoConnection ==
  [gen |-> NoGen, made |-> 0, leaving |-> FALSE, retired |-> NoGen,
   epoch |-> 0, closed |-> {}]

EmptyServer ==
  [queue |-> {}, pushes |-> 0, members |-> {}, writes |-> 0, domain |-> "none",
   kv |-> [k \in Keys |-> {}], now |-> 0]

\* The physical names may be claimed already, by us or by somebody else.
Starts(domains) ==
  /\ conn = NoConnection
  /\ broker \in {[EmptyServer EXCEPT !.domain = d] : d \in domains}
  /\ op = [c \in Clients |-> Idle]
  /\ hist = [accepted |-> {}, given |-> [m \in Messages |-> 0], lost |-> {},
             stored |-> {}, ended |-> {}]

Leased(g) == \E c \in Clients : op[c].gen = g
Connecting == \E c \in Clients : op[c].kind = "connect"

\* A thread leases the published generation for one operation.
Leases(c) == op' = [op EXCEPT ![c] = [kind |-> "use", gen |-> conn.gen]]
Using(c) == op[c].kind = "use"
Ends(c) == op' = [op EXCEPT ![c] = Idle]

\* An operation that changes nothing on the server: a read, or one that
\* raises before the server heard of it.
Returns(c) == Using(c) /\ Ends(c) /\ UNCHANGED <<conn, broker, hist>>
-----------------------------------------------------------------------------
(* The server                                                              *)

Expired(item) == item.expires # Never /\ item.expires <= broker.now

Tick ==
  /\ broker.now < MaxTime
  /\ broker' = [broker EXCEPT !.now = @ + 1]
  /\ UNCHANGED <<conn, op, hist>>

Present(k) == broker.kv[k]

\* A value is written over the one that is there.
Writes(k, ttl) ==
  LET item == [key |-> k, rev |-> broker.writes + 1,
               expires |-> IF ttl = Never THEN Never ELSE broker.now + ttl]
  IN  /\ broker.writes < MaxWrites
      /\ broker' = [broker EXCEPT !.writes = @ + 1, !.kv[k] = {item}]
      /\ hist' = [hist EXCEPT !.stored = @ \cup {item},
                              !.ended = @ \cup Present(k)]

\* Another process writes to the store.
OtherStores(k, ttl) == Writes(k, ttl) /\ UNCHANGED <<conn, op>>

\* A deletion that a caller asked for.
Deletes(K) ==
  /\ broker' = [broker EXCEPT !.kv = [k \in Keys |->
                                        IF k \in K THEN {} ELSE @[k]]]
  /\ hist' = [hist EXCEPT !.ended = @ \cup UNION {Present(k) : k \in K}]

\* A cleanup nobody asked for.
Reaps(k, items) ==
  /\ broker' = [broker EXCEPT !.kv[k] = @ \ items]
  /\ UNCHANGED hist

Enqueues(m, priority, stored) ==
  /\ m \notin hist.accepted
  /\ hist' = IF stored THEN [hist EXCEPT !.accepted = @ \cup {m}] ELSE hist
  /\ broker' = IF ~stored THEN broker
               ELSE [broker EXCEPT !.pushes = @ + 1, !.queue = @ \cup
                       {[msg |-> m, pri |-> priority, seq |-> broker.pushes]}]

\* An entry leaves the queue, to a caller who hears of it or not.
Dequeues(e, heard) ==
  /\ broker' = [broker EXCEPT !.queue = @ \ {e}]
  /\ hist' = IF heard THEN [hist EXCEPT !.given[e.msg] = @ + 1]
             ELSE [hist EXCEPT !.lost = @ \cup {e.msg}]

ClearsQueue ==
  /\ broker' = [broker EXCEPT !.queue = {}]
  /\ hist' = [hist EXCEPT !.lost = @ \cup {e.msg : e \in broker.queue}]

\* add reports whether the member is new, remove whether it was there.
Adds == broker' = [broker EXCEPT !.members = {"item"}] /\ UNCHANGED hist
Removes == broker' = [broker EXCEPT !.members = {}] /\ UNCHANGED hist
-----------------------------------------------------------------------------
(* The answers                                                             *)

\* A message is handed to at most one caller, and one that left the queue
\* was handed out, cleared, or taken by a pop that raised.
PopsAccounted ==
  \A m \in hist.accepted :
    LET queued == m \in {e.msg : e \in broker.queue}
    IN  \/ queued /\ hist.given[m] = 0 /\ m \notin hist.lost
        \/ ~queued /\ hist.given[m] = 1 /\ m \notin hist.lost
        \/ ~queued /\ hist.given[m] = 0 /\ m \in hist.lost

\* A value that a caller stored is there until it expires, is overwritten,
\* or is deleted on request.
StoredIsKept ==
  \A s \in hist.stored :
    s \in Present(s.key) \/ s \in hist.ended \/ Expired(s)

\* A client is closed only when no operation uses it.
NoUseAfterClose == \A c \in Clients : op[c].gen \notin conn.closed
=============================================================================
