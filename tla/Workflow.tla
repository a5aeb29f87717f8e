------------------------------- MODULE Workflow -------------------------------
(***************************************************************************)
(* What a durable workflow promises (xruntime _workflow/_orchestrator.py): *)
(* completed steps stay completed across crashes and resumes, no step      *)
(* completes before the steps it depends on, and the verdict is final and  *)
(* right.  CheckpointedWorkflow is the implementation.                     *)
(***************************************************************************)
CONSTANT Steps

VARIABLES
    deps,       \* the steps a step depends on
    fatal,      \* the steps whose failure aborts the workflow
    done,       \* the steps that durably completed
    verdict

Init ==
    /\ deps \in [Steps -> SUBSET Steps]
    /\ fatal \in SUBSET Steps
    /\ done = {}
    /\ verdict = "open"

(* The fatal steps that a step needs are done: it may run. *)
Ready(s) == deps[s] \cap fatal \subseteq done

(* Some steps complete together.  A dependency that is not fatal may have  *)
(* failed for good, so only the fatal ones are required.                   *)
Progress ==
    /\ verdict = "open"
    /\ \E S \in SUBSET (Steps \ done) :
         /\ \A s \in S : Ready(s)
         /\ done' = done \cup S
    /\ UNCHANGED <<deps, fatal, verdict>>

(* Success needs every fatal step, failure one that could run but did not  *)
(* complete.                                                               *)
Conclude ==
    /\ verdict = "open"
    /\ \/ fatal \subseteq done /\ verdict' = "COMPLETED"
       \/ (\E s \in fatal \ done : Ready(s)) /\ verdict' = "FAILED"
    /\ UNCHANGED <<deps, fatal, done>>

Next == Progress \/ Conclude

Spec == Init /\ [][Next]_<<deps, fatal, done, verdict>>
==============================================================================
