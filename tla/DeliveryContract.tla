-------------------------- MODULE DeliveryContract --------------------------
(***************************************************************************)
(* What an acknowledging queue backend promises (class QueueBackend of     *)
(* backends/base.py): a message the broker accepted leaves it for good     *)
(* only when the holder of its newest delivery has asked for that, or when *)
(* the whole queue is cleared.  A message that left is not handed out      *)
(* again, unless the backend reported the outcome of its ack as an error   *)
(* or a nack moved the consumer back over its delivery (a log has one read *)
(* position, so what was read after the nacked message is read again).     *)
(***************************************************************************)
CONSTANT Messages

VARIABLES
  accepted,   \* the messages the broker stored
  asked,      \* ... whose newest delivery has been acked by its holder
  gone,       \* ... that the broker will not deliver any more
  unsure,     \* ... that may be handed out again although they left: their
              \* ack reported an error, or a nack went back over them
  cleared     \* ... that were in the queue when a clear was called

vars == <<accepted, asked, gone, unsure, cleared>>

Init == accepted = {} /\ asked = {} /\ gone = {} /\ unsure = {} /\ cleared = {}

Push(m) ==
  /\ m \notin accepted
  /\ accepted' = accepted \cup {m}
  /\ UNCHANGED <<asked, gone, unsure, cleared>>

\* A new delivery supersedes the older ones: it has to be acked itself.
Deliver(m) ==
  /\ m \in accepted /\ (m \in gone => m \in unsure)
  /\ asked' = asked \ {m}
  /\ UNCHANGED <<accepted, gone, unsure, cleared>>

Ack(m) ==
  /\ m \in accepted
  /\ asked' = asked \cup {m}
  /\ gone' \in {gone, gone \cup {m}}
  /\ unsure' \in {unsure, unsure \cup {m}}
  /\ UNCHANGED <<accepted, cleared>>

\* A commit may settle several messages at once, each of them asked for; the
\* broker may take back what an ack of unknown outcome removed.
Settle(S, back) ==
  /\ S \subseteq asked /\ back \subseteq unsure
  /\ gone' = (gone \ back) \cup S
  /\ unsure' \in {unsure, unsure \cup S}
  /\ UNCHANGED <<accepted, asked, cleared>>

\* A nack or a late ack moves the consumer back over S.
Rewind(S) ==
  /\ S \subseteq accepted
  /\ unsure' = unsure \cup S
  /\ UNCHANGED <<accepted, asked, gone, cleared>>

\* A clear is called while C is in the queue, and removes messages (S) of this
\* or of an earlier call, at once or later.
Clear(C, S) ==
  /\ C \subseteq accepted /\ S \subseteq cleared \cup C
  /\ cleared' = cleared \cup C
  /\ gone' = gone \cup S
  /\ UNCHANGED <<accepted, asked, unsure>>

Next ==
  \/ \E m \in Messages : Push(m) \/ Deliver(m) \/ Ack(m)
  \/ \E S, back \in SUBSET Messages : Settle(S, back)
  \/ \E S \in SUBSET Messages : Rewind(S)
  \/ \E C, S \in SUBSET Messages : Clear(C, S)

Spec == Init /\ [][Next]_vars
=============================================================================
