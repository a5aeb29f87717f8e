------------------------- MODULE CheckpointedWorkflow -------------------------
(***************************************************************************)
(* xruntime's CheckpointedOrchestrator on one workflow: run, interrupted   *)
(* anywhere, and resume from the latest checkpoint until a result is       *)
(* returned.  The workflow, every graph over StepList with every choice of *)
(* on_failure, is picked by Init.                                          *)
(*                                                                         *)
(* The caller runs one run or resume at a time, and the checkpoints do not *)
(* expire (checkpoint_ttl_seconds=None).  created_at grows, so the latest  *)
(* checkpoint is the one saved last.                                       *)
(***************************************************************************)
EXTENDS Integers, FiniteSets, SequencesExt, Queues

CONSTANTS
    StepList,       \* workflow.steps, in the order of the definition
    NoCheckpoint,
    MaxInterrupts   \* bound on crashes and cancellations

Steps == ToSet(StepList)

StepStatus == {"PENDING", "RUNNING", "COMPLETED", "FAILED", "SKIPPED"}

Checkpoint ==
    [status : {"ACTIVE", "COMPLETED", "FAILED"},
     step_status : [Steps -> StepStatus],
     context : SUBSET Steps]

ASSUME WorkflowAssumption ==
    /\ StepList \in Seq(Steps) /\ IsInjective(StepList)
    /\ NoCheckpoint \notin Checkpoint
    /\ MaxInterrupts \in Nat

VARIABLES
    deps,           \* depends_on of every step
    fatal,          \* the steps with on_failure = "abort"
    latest,         \* the latest checkpoint in the store
    pc,             \* where the call of run or resume is; "idle": no call
    status,         \* result.step_status
    context,        \* the steps with an entry in the context
    layers, layer,  \* the layers and the index of the current one
    bound,          \* is the local last_step_id bound?
    result,         \* status of the WorkflowResult, or the error raised
    interrupts

workflow == <<deps, fatal>>
locals == <<status, context, layers, layer, bound>>
vars == <<workflow, latest, pc, locals, result, interrupts>>

AllPending == [s \in Steps |-> "PENDING"]

Init ==
    /\ deps \in [Steps -> SUBSET Steps]
    /\ fatal \in SUBSET Steps
    /\ latest = NoCheckpoint
    /\ pc = "idle"
    /\ status = AllPending
    /\ context = {}
    /\ layers = <<>> /\ layer = 1
    /\ bound = FALSE
    /\ result = "none"
    /\ interrupts = 0

------------------------------------------------------------------------------
(* Order and layers *)

(* The steps that enter the queue behind q when order has been popped:     *)
(* their last dependency just was.                                         *)
Queued(order, q) ==
    Keep(StepList, {s \in Steps \ (ToSet(order) \cup ToSet(q)) :
                      deps[s] \subseteq ToSet(order)})

Pop(p) ==
    LET order == Append(p.order, Head(p.queue))
        rest == Tail(p.queue)
    IN IF p.queue = <<>> THEN p
       ELSE [order |-> order, queue |-> rest \o Queued(order, rest)]

(* The order and the queue of topological_order after n steps are popped. *)
Popped(n) ==
    LET popped[k \in 0..n] ==
            IF k = 0 THEN [order |-> <<>>, queue |-> Queued(<<>>, <<>>)]
            ELSE Pop(popped[k - 1])
    IN popped[n]

topological_order == Popped(Len(StepList)).order

(* Mutant: an order is returned whether or not all steps were processed. *)
NoCycleCheck == FALSE

(* ValueError: the workflow has a dependency cycle. *)
HasCycle == Len(topological_order) # Len(StepList)

(* Step s is added to the i-th layer, which may be a new one. *)
InLayer(ls, i, s) ==
    IF i > Len(ls) THEN Append(ls, {s}) ELSE [ls EXCEPT ![i] = @ \cup {s}]

(* Mutant: the layer after the first one that holds a dependency. *)
PlaceTooEarly(ls, s) ==
    LET held == {i \in DOMAIN ls : deps[s] \cap ls[i] # {}}
    IN InLayer(ls, IF held = {} THEN 1 ELSE Min(held) + 1, s)

(* A step goes to the layer after the last one that holds a dependency. *)
Place(ls, s) ==
    LET held == {i \in DOMAIN ls : deps[s] \cap ls[i] # {}}
    IN InLayer(ls, IF held = {} THEN 1 ELSE Max(held) + 1, s)

GroupIntoLayers(order) ==
    LET grouped[k \in 0..Len(order)] ==
            IF k = 0 THEN <<>> ELSE Place(grouped[k - 1], order[k])
    IN grouped[Len(order)]

(* Mutant: resume skips one layer more than is completed. *)
DoneLayersPlusOne(ls, st) ==
    1 + Max({n \in 0..Len(ls) :
               \A i \in 1..n : \A s \in ls[i] : st[s] = "COMPLETED"})

(* The layers that resume skips: every step of theirs is COMPLETED. *)
DoneLayers(ls, st) ==
    Max({n \in 0..Len(ls) :
           \A i \in 1..n : \A s \in ls[i] : st[s] = "COMPLETED"})

------------------------------------------------------------------------------
(* run and resume *)

(* run: the caller has nothing to resume. *)
Run ==
    /\ pc = "idle"
    /\ latest = NoCheckpoint
    /\ \/ /\ HasCycle
          /\ pc' = "done"
          /\ result' = "ValueError"
          /\ UNCHANGED locals
       \/ /\ ~HasCycle
          /\ pc' = "layer"
          /\ status' = AllPending
          /\ context' = {}
          /\ layers' = GroupIntoLayers(topological_order)
          /\ layer' = 1
          /\ bound' = FALSE
          /\ UNCHANGED result
    /\ UNCHANGED <<workflow, latest, interrupts>>

(* resume of a finished workflow: the result is in the checkpoint. *)
ResumeFinished ==
    /\ pc = "idle"
    /\ latest # NoCheckpoint
    /\ latest.status # "ACTIVE"
    /\ status' = latest.step_status
    /\ result' = latest.status
    /\ pc' = "done"
    /\ UNCHANGED <<workflow, latest, context, layers, layer, bound, interrupts>>

(* Mutant: the context is not restored. *)
ResumeWithoutContext ==
    /\ pc = "idle"
    /\ latest # NoCheckpoint
    /\ latest.status = "ACTIVE"
    /\ status' = latest.step_status
    /\ context' = {}
    /\ layers' = GroupIntoLayers(topological_order)
    /\ layer' = DoneLayers(layers', status') + 1
    /\ bound' = FALSE
    /\ pc' = "layer"
    /\ UNCHANGED <<workflow, latest, result, interrupts>>

Resume ==
    /\ pc = "idle"
    /\ latest # NoCheckpoint
    /\ latest.status = "ACTIVE"
    /\ status' = latest.step_status
    /\ context' = latest.context
    /\ layers' = GroupIntoLayers(topological_order)
    /\ layer' = DoneLayers(layers', status') + 1
    /\ bound' = FALSE
    /\ pc' = "layer"
    /\ UNCHANGED <<workflow, latest, result, interrupts>>

(* _compute_runnable: not completed, and no dependency was skipped or      *)
(* aborted the workflow.  A dependency that is PENDING does not count.     *)
DepsFailed(s) ==
    \E d \in deps[s] :
        status[d] = "SKIPPED" \/ (status[d] = "FAILED" /\ d \in fatal)

(* Mutant: the completed steps of a layer run again with the others. *)
RunnableAgain(L) == {s \in L : ~DepsFailed(s)}

Runnable(L) == {s \in L : status[s] # "COMPLETED" /\ ~DepsFailed(s)}

StartLayer ==
    LET L == layers[layer]  R == Runnable(L) IN
    /\ pc = "layer"
    /\ layer <= Len(layers)
    /\ status' = [s \in Steps |->
                    IF s \in R THEN "RUNNING"
                    ELSE IF s \in L /\ status[s] # "COMPLETED" THEN "SKIPPED"
                    ELSE status[s]]
    /\ IF R = {} THEN layer' = layer + 1 /\ UNCHANGED pc
                 ELSE pc' = "exec" /\ UNCHANGED layer
    /\ UNCHANGED <<workflow, latest, context, layers, bound, result, interrupts>>

(* Mutant: a layer aborts only if none of its steps succeeded. *)
SettleLeniently ==
    LET R == {s \in Steps : status[s] = "RUNNING"} IN
    /\ pc = "exec"
    /\ \E ok \in SUBSET R :
         /\ status' = [s \in Steps |->
                         IF s \notin R THEN status[s]
                         ELSE IF s \in ok THEN "COMPLETED" ELSE "FAILED"]
         /\ context' = context \cup ok \cup (R \ fatal)
         /\ pc' = IF ok # {} \/ R \cap fatal = {} THEN "save" ELSE "saveabort"
    /\ bound' = TRUE
    /\ UNCHANGED <<workflow, latest, layers, layer, result, interrupts>>

(* The executors of the layer are gathered, retries included; some steps   *)
(* return an output, the others None.                                      *)
SettleLayer ==
    LET R == {s \in Steps : status[s] = "RUNNING"} IN
    /\ pc = "exec"
    /\ \E ok \in SUBSET R :
         /\ status' = [s \in Steps |->
                         IF s \notin R THEN status[s]
                         ELSE IF s \in ok THEN "COMPLETED" ELSE "FAILED"]
         /\ context' = context \cup ok \cup (R \ fatal)
         /\ pc' = IF R \cap fatal \subseteq ok THEN "save" ELSE "saveabort"
    /\ bound' = TRUE
    /\ UNCHANGED <<workflow, latest, layers, layer, result, interrupts>>

CheckpointAs(st) == [status |-> st, step_status |-> status, context |-> context]

(* The checkpoint of the settled layer, ACTIVE even if it aborts. *)
SaveLayer ==
    /\ pc \in {"save", "saveabort"}
    /\ latest' = CheckpointAs("ACTIVE")
    /\ \/ pc = "save" /\ pc' = "layer" /\ layer' = layer + 1
       \/ pc = "saveabort" /\ pc' = "abort" /\ UNCHANGED layer
    /\ UNCHANGED <<workflow, status, context, layers, bound, result, interrupts>>

(* The pending steps are skipped, and the same checkpoint, which does not  *)
(* say so, is saved again as FAILED.                                       *)
Abort ==
    /\ pc = "abort"
    /\ status' = [s \in Steps |->
                    IF status[s] = "PENDING" THEN "SKIPPED" ELSE status[s]]
    /\ latest' = [latest EXCEPT !.status = "FAILED"]
    /\ pc' = "return"
    /\ UNCHANGED <<workflow, context, layers, layer, bound, result, interrupts>>

(* The final checkpoint names last_step_id, which no loop body may have    *)
(* bound: UnboundLocalError.                                               *)
Finish ==
    /\ pc = "layer"
    /\ layer > Len(layers)
    /\ \/ /\ bound
          /\ latest' = CheckpointAs("COMPLETED")
          /\ pc' = "return"
          /\ UNCHANGED result
       \/ /\ ~bound
          /\ pc' = "done"
          /\ result' = "UnboundLocalError"
          /\ UNCHANGED latest
    /\ UNCHANGED <<workflow, locals, interrupts>>

Return ==
    /\ pc = "return"
    /\ pc' = "done"
    /\ result' = latest.status
    /\ UNCHANGED <<workflow, latest, locals, interrupts>>

(* The process dies, the task is cancelled, or a save raises: whatever is  *)
(* not in the store is forgotten.                                          *)
Interrupt ==
    /\ pc \notin {"idle", "done"}
    /\ interrupts < MaxInterrupts
    /\ interrupts' = interrupts + 1
    /\ pc' = "idle"
    /\ status' = AllPending
    /\ context' = {}
    /\ layers' = <<>> /\ layer' = 1
    /\ bound' = FALSE
    /\ UNCHANGED <<workflow, latest, result>>

(* The caller may ask for the result again. *)
AskAgain ==
    /\ pc = "done"
    /\ latest # NoCheckpoint
    /\ pc' = "idle"
    /\ UNCHANGED <<workflow, latest, locals, result, interrupts>>

Next ==
    \/ Run \/ ResumeFinished \/ Resume
    \/ StartLayer \/ SettleLayer \/ SaveLayer \/ Abort \/ Finish \/ Return
    \/ Interrupt \/ AskAgain

Spec == Init /\ [][Next]_vars
------------------------------------------------------------------------------
(* Properties *)

TypeOK ==
    /\ deps \in [Steps -> SUBSET Steps]
    /\ fatal \in SUBSET Steps
    /\ latest \in Checkpoint \cup {NoCheckpoint}
    /\ pc \in {"idle", "layer", "exec", "save", "saveabort", "abort", "return",
               "done"}
    /\ status \in [Steps -> StepStatus]
    /\ context \in SUBSET Steps
    /\ layers \in Seq(SUBSET Steps)
    /\ layer \in 1..(Len(layers) + 1)
    /\ bound \in BOOLEAN
    /\ result \in {"none", "COMPLETED", "FAILED", "ValueError",
                   "UnboundLocalError"}
    /\ interrupts \in 0..MaxInterrupts

(* topological_order rejects exactly the cyclic workflows (those with a    *)
(* set of steps that all wait for one of the set), and the layers of the   *)
(* others hold every step once, after all of its dependencies.             *)
LayersSound ==
    /\ HasCycle <=> \E S \in (SUBSET Steps) \ {{}} : \A s \in S : deps[s] \cap S # {}
    /\ layers # <<>> =>
         \A s \in Steps : \E i \in DOMAIN layers :
             /\ s \in layers[i]
             /\ \A j \in DOMAIN layers : s \in layers[j] => j = i
             /\ \A d \in deps[s] : \E j \in 1..(i - 1) : d \in layers[j]

(* A step runs only when its dependencies are settled in its favour, also  *)
(* after a resume from a layer of which only some steps had completed;     *)
(* _compute_runnable itself would let it run beside a pending dependency.  *)
OrderRespected ==
    \A s \in Steps : status[s] = "RUNNING" =>
        \A d \in deps[s] :
            status[d] = "COMPLETED" \/ (status[d] = "FAILED" /\ d \notin fatal)

(* The context a step is given has an entry of each of its dependencies,   *)
(* of this call or restored from the checkpoint.                           *)
InputsThere ==
    \A s \in Steps : status[s] = "RUNNING" => deps[s] \subseteq context

(* "Steps that already have a COMPLETED status are skipped": whatever was  *)
(* interrupted, a step that a checkpoint has as completed never runs again. *)
CompletedNotRerun ==
    \A s \in Steps :
        status[s] = "RUNNING" /\ latest # NoCheckpoint
            => latest.step_status[s] # "COMPLETED"

(* "Resume is the key new capability: resume [...] continues execution     *)
(* from the next pending layer": it never ends in an internal error.       *)
ResumeCompletes == result # "UnboundLocalError"

Done ==
    IF latest = NoCheckpoint THEN {}
    ELSE {s \in Steps : latest.step_status[s] = "COMPLETED"}

Verdict ==
    IF latest = NoCheckpoint \/ latest.status = "ACTIVE" THEN "open"
    ELSE latest.status

W == INSTANCE Workflow WITH done <- Done, verdict <- Verdict

(* What the checkpoints hold is a durable workflow: completed steps stay,  *)
(* in the order of the dependencies, and the verdict is final and right.   *)
IsDurable == W!Spec
==============================================================================
