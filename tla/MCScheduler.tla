----------------------------- MODULE MCScheduler -----------------------------
(***************************************************************************)
(* The scheduler for TLC: the settlement of one delivery with its          *)
(* replacements (ReplacementAck), or the scheduler from open() to close()  *)
(* with several deliveries (SchedulerLifecycle).  "which" says whose       *)
(* behaviours are explored; the other stays in its initial state.          *)
(***************************************************************************)
EXTENDS ReplacementAck, SchedulerLifecycle

VARIABLE which

MCInit == which \in {"settlement", "life"} /\ Init /\ SchedulerInit

MCNext ==
  /\ which' = which
  /\ \/ which = "settlement" /\ Next /\ UNCHANGED schedulerVars
     \/ which = "life" /\ SchedulerNext /\ UNCHANGED vars

MCSpec ==
  /\ MCInit /\ [][MCNext]_<<which, vars, schedulerVars>>
  /\ Fairness /\ SchedulerFairness
=============================================================================
