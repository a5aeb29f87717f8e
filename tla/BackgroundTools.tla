--------------------------- MODULE BackgroundTools ---------------------------
(***************************************************************************)
(* Tool calls that outlive their reply: ToolOffloadMiddleware waits for a  *)
(* tool until a deadline, then leaves it running in the background, where  *)
(* BackgroundTaskManager keeps it for ToolStop, CancelDispatcher and       *)
(* SessionService to stop, and where a deliverer sends its result to the   *)
(* session's inbox.                                                        *)
(*                                                                         *)
(* Several processes share the bus: the registry of the background tasks,  *)
(* and the cancel channels that every process subscribes.  Replies appear  *)
(* only as who runs a session (ChatRun models them).  The tools are those  *)
(* that may be offloaded: state-injected and external ones bypass all of   *)
(* this (on_acting, line 155).                                             *)
(***************************************************************************)
EXTENDS Naturals

CONSTANTS
    Procs, Sessions, Calls,
    Session,        \* the session of a call
    NoProc,
    Deletable,      \* bound: the sessions that are ever deleted
    MaxFaults       \* bound on bus errors, shutdowns and crashes

ASSUME ToolAssumption ==
    /\ Session \in [Calls -> Sessions]
    /\ NoProc \notin Procs
    /\ MaxFaults \in Nat

VARIABLES
    runner,     \* the process whose reply runs the session
    home,       \* the process that runs on_acting of the call
    at,         \* where on_acting of the call is
    tool,       \* drain_task of the call
    requested,  \* calls whose drain_task has a cancel() coming
    deliver,    \* _deliver_when_done of the call
    tasks,      \* BackgroundTaskManager.tasks, of all processes
    cleanup,    \* _on_done of the call
    registry,   \* the tasks registered in Redis
    signals,    \* cancel broadcasts that have not been received
    deletion,   \* SessionService.delete_session
    stopped,    \* history: calls that were to be stopped
    faults

bus == <<registry, signals>>
vars == <<runner, home, at, tool, requested, deliver, tasks, cleanup, bus,
          deletion, stopped, faults>>

Acting == {"waiting", "registering", "registered"}
Ats == Acting \cup {"none", "answered", "offloaded", "raised", "cancelled"}
Ended == {"output", "error", "interrupted", "cancelled"}
Tools == Ended \cup {"none", "running", "killed"}
Delivers == {"none", "waiting", "wake", "done", "skipped", "failed"}

StopTask(c) == <<"task", c>>
StopSession(s) == <<"session", s>>
Broadcast(m) == {<<p, m>> : p \in Procs}

In(p) == {c \in Calls : home[c] = p}
Of(s) == {c \in Calls : Session[c] = s}

Init ==
    /\ runner = [s \in Sessions |-> NoProc]
    /\ home = [c \in Calls |-> NoProc]
    /\ at = [c \in Calls |-> "none"]
    /\ tool = [c \in Calls |-> "none"]
    /\ deliver = [c \in Calls |-> "none"]
    /\ cleanup = [c \in Calls |-> "none"]
    /\ deletion = [s \in Sessions |-> "none"]
    /\ requested = {} /\ tasks = {} /\ registry = {} /\ signals = {}
    /\ stopped = {}
    /\ faults = 0

------------------------------------------------------------------------------
(* Replies *)

BeginReply(s, p) ==
    /\ runner[s] = NoProc
    /\ deletion[s] # "purged"
    /\ runner' = [runner EXCEPT ![s] = p]
    /\ UNCHANGED <<home, at, tool, requested, deliver, tasks, cleanup, bus>>
    /\ UNCHANGED <<deletion, stopped, faults>>

EndReply(s) ==
    /\ runner[s] # NoProc
    /\ \A c \in Of(s) : at[c] \notin Acting
    /\ runner' = [runner EXCEPT ![s] = NoProc]
    /\ UNCHANGED <<home, at, tool, requested, deliver, tasks, cleanup, bus>>
    /\ UNCHANGED <<deletion, stopped, faults>>

------------------------------------------------------------------------------
(* on_acting *)

(* Mutant: the deliverer is started with the tool. *)
CallToolAndDeliverer(c) ==
    /\ at[c] = "none"
    /\ runner[Session[c]] # NoProc
    /\ home' = [home EXCEPT ![c] = runner[Session[c]]]
    /\ at' = [at EXCEPT ![c] = "waiting"]
    /\ tool' = [tool EXCEPT ![c] = "running"]
    /\ deliver' = [deliver EXCEPT ![c] = "waiting"]
    /\ UNCHANGED <<runner, requested, tasks, cleanup, bus>>
    /\ UNCHANGED <<deletion, stopped, faults>>

(* Mutant: a tool is started for a reply that has ended. *)
CallToolAnyway(c) ==
    /\ at[c] = "none"
    /\ home' = [home EXCEPT ![c] = runner[Session[c]]]
    /\ at' = [at EXCEPT ![c] = "waiting"]
    /\ tool' = [tool EXCEPT ![c] = "running"]
    /\ UNCHANGED <<runner, requested, deliver, tasks, cleanup, bus>>
    /\ UNCHANGED <<deletion, stopped, faults>>

(* drain_task is created and on_acting waits for the queue. *)
CallTool(c) ==
    /\ at[c] = "none"
    /\ runner[Session[c]] # NoProc
    /\ home' = [home EXCEPT ![c] = runner[Session[c]]]
    /\ at' = [at EXCEPT ![c] = "waiting"]
    /\ tool' = [tool EXCEPT ![c] = "running"]
    /\ UNCHANGED <<runner, requested, deliver, tasks, cleanup, bus>>
    /\ UNCHANGED <<deletion, stopped, faults>>

(* The queue has the ToolResponse, or the exception, before the deadline. *)
GetResult(c) ==
    /\ at[c] = "waiting"
    /\ tool[c] \in {"output", "error"}
    /\ at' = [at EXCEPT ![c] = IF tool[c] = "output" THEN "answered" ELSE "raised"]
    /\ UNCHANGED <<runner, home, tool, requested, deliver, tasks, cleanup, bus>>
    /\ UNCHANGED <<deletion, stopped, faults>>

(* The deadline passes first, even if the queue has filled meanwhile: the  *)
(* deliverer is created and register_task runs up to its await.            *)
Deadline(c) ==
    /\ at[c] = "waiting"
    /\ at' = [at EXCEPT ![c] = "registering"]
    /\ deliver' = [deliver EXCEPT ![c] = "waiting"]
    /\ tasks' = tasks \cup {c}
    /\ UNCHANGED <<runner, home, tool, requested, cleanup, bus>>
    /\ UNCHANGED <<deletion, stopped, faults>>

(* bg_task_register, in Redis. *)
RegisterInBus(c) ==
    /\ at[c] = "registering"
    /\ registry' = registry \cup {c}
    /\ at' = [at EXCEPT ![c] = "registered"]
    /\ UNCHANGED <<runner, home, tool, requested, deliver, tasks, cleanup>>
    /\ UNCHANGED <<signals, deletion, stopped, faults>>

(* Mutant: the callback is not called for a task that is already done. *)
OffloadUnlessDone(c) ==
    /\ at[c] = "registered"
    /\ cleanup' = IF tool[c] = "running" THEN [cleanup EXCEPT ![c] = "added"]
                  ELSE cleanup
    /\ at' = [at EXCEPT ![c] = "offloaded"]
    /\ UNCHANGED <<runner, home, tool, requested, deliver, tasks, bus>>
    /\ UNCHANGED <<deletion, stopped, faults>>

(* add_done_callback, and the placeholder is yielded. *)
Offload(c) ==
    /\ at[c] = "registered"
    /\ cleanup' = [cleanup EXCEPT ![c] = "added"]
    /\ at' = [at EXCEPT ![c] = "offloaded"]
    /\ UNCHANGED <<runner, home, tool, requested, deliver, tasks, bus>>
    /\ UNCHANGED <<deletion, stopped, faults>>

(* The bus raises in register_task, before or after it has executed the    *)
(* command.                                                                *)
RegisterRaises(c) ==
    /\ at[c] \in {"registering", "registered"}
    /\ faults < MaxFaults
    /\ faults' = faults + 1
    /\ at' = [at EXCEPT ![c] = "raised"]
    /\ UNCHANGED <<runner, home, tool, requested, deliver, tasks, cleanup, bus>>
    /\ UNCHANGED <<deletion, stopped>>

------------------------------------------------------------------------------
(* drain_task and the deliverer *)

(* The tool ends: with its ToolResponse (the toolkit makes one of its      *)
(* exceptions too), or because something around it raises.                 *)
ToolEnds(c) ==
    /\ tool[c] = "running"
    /\ tool' \in {[tool EXCEPT ![c] = o] : o \in {"output", "error"}}
    /\ UNCHANGED <<runner, home, at, requested, deliver, tasks, cleanup, bus>>
    /\ UNCHANGED <<deletion, stopped, faults>>

(* CancelledError reaches drain_task: inside the tool, where the toolkit   *)
(* makes a ToolResponse of it, or before, where it ends the task.          *)
ToolCancelled(c) ==
    /\ tool[c] = "running"
    /\ c \in requested
    /\ tool' \in {[tool EXCEPT ![c] = o] : o \in {"interrupted", "cancelled"}}
    /\ UNCHANGED <<runner, home, at, requested, deliver, tasks, cleanup, bus>>
    /\ UNCHANGED <<deletion, stopped, faults>>

(* Mutant: a failed tool has nothing to deliver. *)
PushOutput(c) ==
    /\ deliver[c] = "waiting"
    /\ tool[c] \in {"output", "interrupted"}
    /\ deliver' = [deliver EXCEPT ![c] = "wake"]
    /\ UNCHANGED <<runner, home, at, tool, requested, tasks, cleanup, bus>>
    /\ UNCHANGED <<deletion, stopped, faults>>

(* drain_task is over, without CancelledError: it has swallowed any other  *)
(* exception.  The hint goes to the inbox, ...                             *)
Push(c) ==
    /\ deliver[c] = "waiting"
    /\ tool[c] \in {"output", "error", "interrupted"}
    /\ deliver' = [deliver EXCEPT ![c] = "wake"]
    /\ UNCHANGED <<runner, home, at, tool, requested, tasks, cleanup, bus>>
    /\ UNCHANGED <<deletion, stopped, faults>>

(* ... then the session's wake-up is queued. *)
Wake(c) ==
    /\ deliver[c] = "wake"
    /\ deliver' = [deliver EXCEPT ![c] = "done"]
    /\ UNCHANGED <<runner, home, at, tool, requested, tasks, cleanup, bus>>
    /\ UNCHANGED <<deletion, stopped, faults>>

SkipDelivery(c) ==
    /\ deliver[c] = "waiting"
    /\ tool[c] = "cancelled"
    /\ deliver' = [deliver EXCEPT ![c] = "skipped"]
    /\ UNCHANGED <<runner, home, at, tool, requested, tasks, cleanup, bus>>
    /\ UNCHANGED <<deletion, stopped, faults>>

(* The bus raises in the deliverer, which nobody awaits. *)
DeliveryRaises(c) ==
    /\ \/ deliver[c] = "waiting" /\ tool[c] \in {"output", "error", "interrupted"}
       \/ deliver[c] = "wake"
    /\ faults < MaxFaults
    /\ faults' = faults + 1
    /\ deliver' = [deliver EXCEPT ![c] = "failed"]
    /\ UNCHANGED <<runner, home, at, tool, requested, tasks, cleanup, bus>>
    /\ UNCHANGED <<deletion, stopped>>

(* _on_done: the task leaves the local table, ... *)
OnDone(c) ==
    /\ cleanup[c] = "added"
    /\ tool[c] \in Ended
    /\ cleanup' = [cleanup EXCEPT ![c] = "unregister"]
    /\ tasks' = tasks \ {c}
    /\ UNCHANGED <<runner, home, at, tool, requested, deliver, bus>>
    /\ UNCHANGED <<deletion, stopped, faults>>

(* ... and then the registry, ... *)
Unregister(c) ==
    /\ cleanup[c] = "unregister"
    /\ cleanup' = [cleanup EXCEPT ![c] = "done"]
    /\ registry' = registry \ {c}
    /\ UNCHANGED <<runner, home, at, tool, requested, deliver, tasks, signals>>
    /\ UNCHANGED <<deletion, stopped, faults>>

(* ... unless the bus raises, which is logged. *)
UnregisterRaises(c) ==
    /\ cleanup[c] = "unregister"
    /\ faults < MaxFaults
    /\ faults' = faults + 1
    /\ cleanup' = [cleanup EXCEPT ![c] = "failed"]
    /\ UNCHANGED <<runner, home, at, tool, requested, deliver, tasks, bus>>
    /\ UNCHANGED <<deletion, stopped>>

------------------------------------------------------------------------------
(* Stopping *)

(* Mutant: the entry is taken out before its session is looked at. *)
StopHerePopFirst(s, c) ==
    /\ runner[s] # NoProc
    /\ c \in tasks /\ home[c] = runner[s]
    /\ at[c] = "offloaded"
    /\ tasks' = tasks \ {c}
    /\ IF Session[c] = s
       THEN requested' = requested \cup {c} /\ stopped' = stopped \cup {c}
       ELSE UNCHANGED <<requested, stopped>>
    /\ UNCHANGED <<runner, home, at, tool, deliver, cleanup, bus>>
    /\ UNCHANGED <<deletion, faults>>

(* ToolStop, called by a reply of session s with the id of task c: the     *)
(* task is in this process and of this session.                            *)
StopHere(s, c) ==
    /\ runner[s] # NoProc
    /\ c \in tasks /\ home[c] = runner[s] /\ Session[c] = s
    /\ at[c] = "offloaded"
    /\ tasks' = tasks \ {c}
    /\ requested' = requested \cup {c}
    /\ stopped' = stopped \cup {c}
    /\ UNCHANGED <<runner, home, at, tool, deliver, cleanup, bus>>
    /\ UNCHANGED <<deletion, faults>>

(* Any other task of this session that the registry knows: a broadcast. *)
StopElsewhere(s, c) ==
    /\ runner[s] # NoProc
    /\ ~(c \in tasks /\ home[c] = runner[s])
    /\ at[c] = "offloaded"
    /\ c \in registry /\ Session[c] = s
    /\ signals' = signals \cup Broadcast(StopTask(c))
    /\ stopped' = stopped \cup {c}
    /\ UNCHANGED <<runner, home, at, tool, requested, deliver, tasks, cleanup>>
    /\ UNCHANGED <<registry, deletion, faults>>

(* delete_session, first part: the cancel broadcast. *)
CancelRuns(s) ==
    /\ s \in Deletable
    /\ deletion[s] = "none"
    /\ deletion' = [deletion EXCEPT ![s] = "cancelling"]
    /\ signals' = signals \cup Broadcast(StopSession(s))
    /\ stopped' = stopped \cup (tasks \cap Of(s))
    /\ UNCHANGED <<runner, home, at, tool, requested, deliver, tasks, cleanup>>
    /\ UNCHANGED <<registry, faults>>

(* The rest of it, when the session's lock is free or ten seconds have     *)
(* passed: record and bus entries are deleted.                             *)
PurgeBus(s) ==
    /\ deletion[s] = "cancelling"
    /\ deletion' = [deletion EXCEPT ![s] = "purged"]
    /\ registry' = registry \ Of(s)
    /\ UNCHANGED <<runner, home, at, tool, requested, deliver, tasks, cleanup>>
    /\ UNCHANGED <<signals, stopped, faults>>

(* Mutant: the task is forgotten first, and then not found. *)
ForgetTask(p, c) ==
    /\ <<p, StopTask(c)>> \in signals
    /\ signals' = signals \ {<<p, StopTask(c)>>}
    /\ tasks' = IF home[c] = p THEN tasks \ {c} ELSE tasks
    /\ UNCHANGED <<runner, home, at, tool, requested, deliver, cleanup>>
    /\ UNCHANGED <<registry, deletion, stopped, faults>>

(* _task_cancel_loop *)
CancelTask(p, c) ==
    /\ <<p, StopTask(c)>> \in signals
    /\ signals' = signals \ {<<p, StopTask(c)>>}
    /\ requested' = requested \cup ({c} \cap tasks \cap In(p))
    /\ UNCHANGED <<runner, home, at, tool, deliver, tasks, cleanup>>
    /\ UNCHANGED <<registry, deletion, stopped, faults>>

(* The reply of s in p is cancelled where its calls await; a drain_task    *)
(* that is not in the table is left alone.                                 *)
AbandonReplies(p, S) ==
    /\ runner' = [s \in Sessions |->
                    IF s \in S /\ runner[s] = p THEN NoProc ELSE runner[s]]
    /\ at' = [c \in Calls |->
                IF Session[c] \in S /\ home[c] = p /\ at[c] \in Acting
                THEN "cancelled" ELSE at[c]]

(* _session_cancel_loop: the run and the background tasks of the session. *)
CancelSession(p, s) ==
    /\ <<p, StopSession(s)>> \in signals
    /\ signals' = signals \ {<<p, StopSession(s)>>}
    /\ AbandonReplies(p, {s})
    /\ requested' = requested \cup (tasks \cap In(p) \cap Of(s))
    /\ UNCHANGED <<home, tool, deliver, tasks, cleanup>>
    /\ UNCHANGED <<registry, deletion, stopped, faults>>

(* The lifespan ends: runs and background tasks are cancelled.  From here  *)
(* on p stands for the process and the one that is started in its place.   *)
Shutdown(p) ==
    /\ faults < MaxFaults
    /\ faults' = faults + 1
    /\ AbandonReplies(p, Sessions)
    /\ requested' = requested \cup (tasks \cap In(p))
    /\ stopped' = stopped \cup (tasks \cap In(p))
    /\ tasks' = tasks \ In(p)
    /\ UNCHANGED <<home, tool, deliver, cleanup, bus, deletion>>

(* The process is gone, with its tasks, deliverers and callbacks. *)
Crash(p) ==
    LET lost == In(p) IN
    /\ faults < MaxFaults
    /\ faults' = faults + 1
    /\ AbandonReplies(p, Sessions)
    /\ tool' = [c \in Calls |->
                  IF c \in lost /\ tool[c] = "running" THEN "killed" ELSE tool[c]]
    /\ deliver' = [c \in Calls |->
                     IF c \in lost /\ deliver[c] \in {"waiting", "wake"}
                     THEN "failed" ELSE deliver[c]]
    /\ cleanup' = [c \in Calls |->
                     IF c \in lost /\ cleanup[c] \in {"added", "unregister"}
                     THEN "failed" ELSE cleanup[c]]
    /\ tasks' = tasks \ lost
    /\ signals' = {x \in signals : x[1] # p}
    /\ UNCHANGED <<home, requested, registry, deletion, stopped>>

------------------------------------------------------------------------------

(* What the event loop of a call's process gets around to. *)
CallStep(c) ==
    \/ RegisterInBus(c) \/ Offload(c) \/ ToolCancelled(c)
    \/ Push(c) \/ Wake(c) \/ SkipDelivery(c) \/ OnDone(c) \/ Unregister(c)

Listen(p) ==
    \/ \E c \in Calls : CancelTask(p, c)
    \/ \E s \in Sessions : CancelSession(p, s)

Next ==
    \/ \E s \in Sessions : \/ \E p \in Procs : BeginReply(s, p)
                           \/ EndReply(s) \/ CancelRuns(s) \/ PurgeBus(s)
                           \/ \E c \in Calls : StopHere(s, c) \/ StopElsewhere(s, c)
    \/ \E c \in Calls : \/ CallTool(c) \/ GetResult(c) \/ Deadline(c)
                        \/ ToolEnds(c) \/ CallStep(c)
                        \/ RegisterRaises(c) \/ DeliveryRaises(c)
                        \/ UnregisterRaises(c)
    \/ \E p \in Procs : Listen(p) \/ Shutdown(p) \/ Crash(p)

Spec == Init /\ [][Next]_vars

(* The event loops run, Redis answers, and the dispatchers listen.  Nothing *)
(* is assumed of the tools: one may run for ever.                           *)
FairSpec ==
    /\ Spec
    /\ \A c \in Calls : WF_vars(CallStep(c))
    /\ \A p \in Procs : WF_vars(Listen(p))
------------------------------------------------------------------------------
(* Properties *)

TypeOK ==
    /\ runner \in [Sessions -> Procs \cup {NoProc}]
    /\ home \in [Calls -> Procs \cup {NoProc}]
    /\ at \in [Calls -> Ats]
    /\ tool \in [Calls -> Tools]
    /\ deliver \in [Calls -> Delivers]
    /\ cleanup \in [Calls -> {"none", "added", "unregister", "done", "failed"}]
    /\ deletion \in [Sessions -> {"none", "cancelling", "purged"}]
    /\ requested \subseteq Calls /\ tasks \subseteq Calls
    /\ registry \subseteq Calls /\ stopped \subseteq Calls
    /\ signals \subseteq Procs \X (({"task"} \X Calls) \cup ({"session"} \X Sessions))
    /\ faults \in 0..MaxFaults
    /\ \A c \in Calls : at[c] # "none" => home[c] \in Procs

(* What the placeholder says of a task that runs is true: its id can be    *)
(* given to ToolStop, in whatever process the session's next reply runs,   *)
(* until somebody has stopped it or the session is deleted.                *)
Stoppable ==
    \A c \in Calls :
        at[c] = "offloaded" /\ tool[c] = "running" /\ c \notin requested =>
            c \in tasks /\ (c \in registry \/ deletion[Session[c]] = "purged")

(* What the reply got for a call, and its session afterwards. *)
AnswerOf(c) ==
    CASE at[c] = "answered" -> "result"
      [] at[c] = "offloaded" -> "placeholder"
      [] at[c] \in {"raised", "cancelled"} -> "lost"
      [] OTHER -> "none"

HintOf(c) ==
    CASE deliver[c] = "wake" -> "pushed"
      [] deliver[c] = "done" -> "woken"
      [] deliver[c] \in {"skipped", "failed"} -> "broken"
      [] OTHER -> "none"

Promise == INSTANCE ToolPromise WITH
    answer <- [c \in Calls |-> AnswerOf(c)],
    hint <- [c \in Calls |-> HintOf(c)]

(* Each call keeps the promise of ToolPromise: its result is the answer,   *)
(* or comes once as a hint, and never both, however deadline, tool,        *)
(* deliverer and cancellation interleave.                                  *)
KeepsPromise == Promise!Spec

(* A task that ToolStop said it stops, or that was in a table when its     *)
(* session was deleted or its process shut down, stops running, in         *)
(* whatever process it is and whatever else happens to its table entry.    *)
StopTakesEffect ==
    \A c \in Calls : c \in stopped ~> tool[c] # "running"

(* Whatever an offloaded tool ends with, its session hears of it and is    *)
(* woken, unless the task was cancelled or the bus or the process failed.  *)
ResultArrives ==
    \A c \in Calls :
        at[c] = "offloaded" /\ tool[c] \in Ended ~>
            deliver[c] \in {"done", "skipped", "failed"}

(* No process and no registry keeps an offloaded task that is over, also   *)
(* when it ends while it is being registered.                              *)
RegistryForgets ==
    \A c \in Calls :
        at[c] = "offloaded" /\ tool[c] \in Ended ~>
            c \notin tasks /\ (c \notin registry \/ cleanup[c] = "failed")
==============================================================================
