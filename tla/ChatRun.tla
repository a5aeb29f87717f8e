------------------------------- MODULE ChatRun -------------------------------
(***************************************************************************)
(* The chat runs of agentscope/app: ChatService.run inside its process's   *)
(* ChatRunRegistry, the WakeupDispatcher of every process on the shared    *)
(* wake-up queue, the producers of inbox messages, and the deletion of a   *)
(* session by SessionService, all meeting in Redis (the message bus and    *)
(* the session storage).                                                   *)
(*                                                                         *)
(* The registry admits one run per process and session, so a run is a pair *)
(* <<process, session>>.  The session lock is LeaseLock seen as a mutex;   *)
(* a lease whose holder is gone is held by Orphan until it expires.        *)
(***************************************************************************)
EXTENDS Integers, FiniteSets, SequencesExt, Queues

CONSTANTS
    Procs,          \* server processes
    Sessions,       \* session ids
    UserMsgs,       \* user messages, each POSTed at most once
    Confirms,       \* user confirmations, each POSTed at most once
    Hints,          \* messages pushed to an inbox, each with its wake-up
    SessionOf,      \* the session of a message, confirmation or hint
    Wake,           \* input_msg = None
    Free, Orphan,   \* a lock nobody holds; a lease whose holder is gone
    MaxIters,       \* react_config.max_iters
    InboxBatch,     \* max_count of InboxMiddleware (100)
    QueueBatch,     \* max_count of dequeue_wakeups (64)
    Deletable,      \* bound: the sessions that are ever deleted
    MaxRestarts,    \* bound on crashes and shutdowns
    MaxFaults       \* bound on failing model, bus and producer calls

Inputs == UserMsgs \cup Confirms

ASSUME ChatAssumption ==
    /\ Free \notin Procs /\ Orphan \notin Procs /\ Free # Orphan
    /\ Wake \notin Inputs
    /\ UserMsgs \cap Confirms = {} /\ Inputs \cap Hints = {}
    /\ SessionOf \in [Inputs \cup Hints -> Sessions]
    /\ {MaxIters, InboxBatch, QueueBatch} \subseteq Nat \ {0}
    /\ Deletable \subseteq Sessions
    /\ {MaxRestarts, MaxFaults} \subseteq Nat

VARIABLES
    lock, exists, stored, msgs, logged, inbox, queue,   \* in Redis
    status, signals, disp, batch,                       \* of a process
    pc, run, cancelling,                                \* of a run
    deletion, cancels,                                  \* of SessionService
    overtaken,          \* history: sessions deleted during a run's write
    posted, stage,                                      \* of the clients
    replies, restarts, faults                           \* counters

redis == <<lock, exists, stored, msgs, logged, inbox, queue>>
procs == <<status, signals, disp, batch>>
runs == <<pc, run, cancelling>>
deleting == <<deletion, cancels, overtaken>>
clients == <<posted, stage, deleting>>
counters == <<replies, restarts, faults>>
vars == <<redis, procs, runs, clients, counters>>

Runs == Procs \X Sessions
Sess(r) == r[2]

(***************************************************************************)
(* AgentState: the messages and hints in the context, what the tool calls  *)
(* of the last message, if it is the agent's, wait for (nothing,           *)
(* execution, the user), cur_iter and reply_id (0: no reply yet).          *)
(***************************************************************************)
AgentState ==
    [context : Seq(UserMsgs \cup Hints), tools : {"none", "exec", "await"},
     iter : 0..MaxIters, reply : Nat]

NewState == [context |-> <<>>, tools |-> "none", iter |-> 0, reply |-> 0]

(* The locals of ChatService.run: its input, agent.state, reply_msg (its   *)
(* id, 0 for None) and the inbox entries read but not yet deleted.         *)
RunLocals ==
    [job : Inputs \cup {Wake}, mem : AgentState, reply : Nat,
     hints : Seq(Hints)]

NoLocals == [job |-> Wake, mem |-> NewState, reply |-> 0, hints |-> <<>>]

(* Inside session_run: from the acquired lock to its release. *)
BodyPCs == {"locked", "input", "loop", "ack", "think", "act",
            "save", "persist", "write"}
LockPCs == BodyPCs \cup {"trim", "release"}
PCs == LockPCs \cup {"none", "load", "loaded", "ending"}

Init ==
    /\ lock = [s \in Sessions |-> Free]
    /\ exists = [s \in Sessions |-> TRUE]
    /\ stored = [s \in Sessions |-> NewState]
    /\ msgs = [s \in Sessions |-> <<>>]
    /\ logged = [s \in Sessions |-> FALSE]
    /\ inbox = [s \in Sessions |-> <<>>]
    /\ queue = <<>>
    /\ status = [p \in Procs |-> "up"]
    /\ signals = [p \in Procs |-> 0]
    /\ disp = [p \in Procs |-> "idle"]
    /\ batch = [p \in Procs |-> <<>>]
    /\ pc = [r \in Runs |-> "none"]
    /\ run = [r \in Runs |-> NoLocals]
    /\ cancelling = {}
    /\ deletion = [s \in Sessions |-> "none"]
    /\ cancels = {} /\ overtaken = {}
    /\ posted = {}
    /\ stage = [h \in Hints |-> "new"]
    /\ replies = 0 /\ restarts = 0 /\ faults = 0

------------------------------------------------------------------------------
(* Helpers *)

At(r, l) == pc[r] = l /\ r \notin cancelling

Goto(r, l) == pc' = [pc EXCEPT ![r] = l] /\ UNCHANGED cancelling

(* ChatRunRegistry.spawn, and the end of the task, which unregisters it. *)
Spawn(r, x) ==
    /\ pc' = [pc EXCEPT ![r] = "load"]
    /\ run' = [run EXCEPT ![r].job = x]

Finish(r) == Goto(r, "none") /\ run' = [run EXCEPT ![r] = NoLocals]

(* Mutant: a failing body skips the trim and the release. *)
UnwindWithoutExit(r) ==
    Goto(r, "ending") /\ run' = [run EXCEPT ![r] = NoLocals]

(* Mutant: the trim is not in a finally, only the release is. *)
UnwindWithoutTrim(r) ==
    Goto(r, "release") /\ run' = [run EXCEPT ![r] = NoLocals]

(* An exception in the body: run() swallows it once the lock is released. *)
Unwind(r) == Goto(r, "trim") /\ run' = [run EXCEPT ![r] = NoLocals]

First(n, q) == SubSeq(q, 1, IF Len(q) < n THEN Len(q) ELSE n)

(* Mutant: DEL of the whole stream instead of XDEL of what was read. *)
WithoutAny(q, seen) == <<>>

(* Mutant: the entries read are never deleted. *)
WithAll(q, seen) == q

(* XDEL: the entries that another reader deleted already are ignored. *)
Without(q, seen) == Keep(q, ToSet(q) \ ToSet(seen))

(* upsert_message replaces the last message if it has the same id. *)
Upsert(list, id) ==
    IF list # <<>> /\ Last(list) = id THEN list ELSE Append(list, id)

Publish(s) == logged' = [logged EXCEPT ![s] = TRUE]

------------------------------------------------------------------------------
(* POST /chat: refused with 409 while the process has a run of the session *)

PostChat(p, x) ==
    LET r == <<p, SessionOf[x]>> IN
    /\ status[p] = "up"
    /\ x \in Inputs \ posted
    /\ pc[r] = "none"
    /\ Spawn(r, x)
    /\ posted' = posted \cup {x}
    /\ UNCHANGED <<redis, procs, cancelling, stage, deleting, counters>>

------------------------------------------------------------------------------
(* ChatService.run *)

(* The session record is read here; the lock is taken only later. *)
Load(r) ==
    /\ At(r, "load")
    /\ IF exists[Sess(r)]
       THEN Goto(r, "loaded") /\ run' = [run EXCEPT ![r].mem = stored[Sess(r)]]
       ELSE Finish(r)
    /\ UNCHANGED <<redis, procs, clients, counters>>

Parked(r) == run[r].job = Wake /\ run[r].mem.tools = "await"

SkipParked(r) ==
    /\ At(r, "loaded")
    /\ Parked(r)
    /\ Finish(r)
    /\ UNCHANGED <<redis, procs, clients, counters>>

AcquireSession(r) ==
    /\ At(r, "loaded")
    /\ ~Parked(r)
    /\ lock[Sess(r)] = Free
    /\ lock' = [lock EXCEPT ![Sess(r)] = r[1]]
    /\ Goto(r, "locked")
    /\ UNCHANGED <<exists, stored, msgs, logged, inbox, queue, run>>
    /\ UNCHANGED <<procs, clients, counters>>

(* Mutant: case A leaves the user message to the end of the run. *)
PrepareWithoutSave(r) ==
    /\ At(r, "locked")
    /\ run' = [run EXCEPT ![r].reply =
                  IF run[r].job \in Confirms THEN run[r].mem.reply ELSE 0]
    /\ Goto(r, "input")
    /\ UNCHANGED <<redis, procs, clients, counters>>

(* Case A persists the user message, case B fetches the reply to continue. *)
PrepareInput(r) ==
    LET s == Sess(r)  x == run[r].job  id == run[r].mem.reply IN
    /\ At(r, "locked")
    /\ \/ /\ x \in UserMsgs
          /\ msgs' = [msgs EXCEPT ![s] = Upsert(msgs[s], x)]
          /\ UNCHANGED run
       \/ /\ x \in Confirms
          /\ run' = [run EXCEPT ![r].reply =
                        IF id \in ToSet(msgs[s]) THEN id ELSE 0]
          /\ UNCHANGED msgs
       \/ /\ x = Wake
          /\ UNCHANGED <<msgs, run>>
    /\ Goto(r, "input")
    /\ UNCHANGED <<lock, exists, stored, logged, inbox, queue>>
    /\ UNCHANGED <<procs, clients, counters>>

(* _check_incoming_event: a confirmation nobody waits for (or of another   *)
(* tool call), or an input without the confirmation the agent waits for.   *)
RejectInput(r) ==
    /\ At(r, "input")
    /\ run[r].job \in Confirms \/ run[r].mem.tools = "await"
    /\ Unwind(r)
    /\ UNCHANGED <<redis, procs, clients, counters>>

(* The reply id begins, with the input that is not None in the context: it *)
(* is then the last message, and calls left in the one before stay there.  *)
Begun(mem, x, id) ==
    [mem EXCEPT !.context = IF x = Wake THEN @ ELSE Append(@, x),
                !.tools = IF x = Wake THEN @ ELSE "none",
                !.reply = id, !.iter = 0]

(* Mutant: a run without input starts from an empty context. *)
StartFresh(r) ==
    LET x == run[r].job IN
    /\ At(r, "input")
    /\ x \notin Confirms
    /\ run[r].mem.tools # "await"
    /\ replies' = replies + 1
    /\ run' = [run EXCEPT ![r].mem = Begun([@ EXCEPT !.context = <<>>], x, replies + 1),
                          ![r].reply = replies + 1]
    /\ Publish(Sess(r))
    /\ Goto(r, "loop")
    /\ UNCHANGED <<lock, exists, stored, msgs, inbox, queue>>
    /\ UNCHANGED <<procs, clients, restarts, faults>>

StartReply(r) ==
    LET x == run[r].job IN
    /\ At(r, "input")
    /\ x \notin Confirms
    /\ run[r].mem.tools # "await"
    /\ replies' = replies + 1
    /\ run' = [run EXCEPT ![r].mem = Begun(@, x, replies + 1),
                          ![r].reply = replies + 1]
    /\ Publish(Sess(r))
    /\ Goto(r, "loop")
    /\ UNCHANGED <<lock, exists, stored, msgs, inbox, queue>>
    /\ UNCHANGED <<procs, clients, restarts, faults>>

(* The confirmed tool calls become executable, the denied ones get their   *)
(* result at once; some may still wait for the user.                       *)
ResumeReply(r) ==
    /\ At(r, "input")
    /\ run[r].job \in Confirms
    /\ run[r].mem.tools = "await"
    /\ \E t \in {"none", "exec", "await"} :
         /\ run' = [run EXCEPT ![r].mem.tools = t]
         /\ IF t = "exec" THEN UNCHANGED logged ELSE Publish(Sess(r))
    /\ Goto(r, "loop")
    /\ UNCHANGED <<lock, exists, stored, msgs, inbox, queue>>
    /\ UNCHANGED <<procs, clients, counters>>

(* max_iters is reached, or tool calls still wait for the user. *)
LeaveLoop(r) ==
    /\ At(r, "loop")
    /\ run[r].mem.iter = MaxIters \/ run[r].mem.tools = "await"
    /\ IF run[r].mem.iter = MaxIters THEN Publish(Sess(r)) ELSE UNCHANGED logged
    /\ Goto(r, "save")
    /\ UNCHANGED <<lock, exists, stored, msgs, inbox, queue, run>>
    /\ UNCHANGED <<procs, clients, counters>>

(* Mutant: one iteration too many. *)
ReadInboxLate(r) ==
    LET new == First(InboxBatch, inbox[Sess(r)]) IN
    /\ At(r, "loop")
    /\ run[r].mem.iter <= MaxIters
    /\ run[r].mem.tools = "none"
    /\ run' = [run EXCEPT ![r].hints = new]
    /\ Goto(r, IF new = <<>> THEN "think" ELSE "ack")
    /\ UNCHANGED <<redis, procs, clients, counters>>

(* InboxMiddleware.on_reasoning drains the inbox: XRANGE ... *)
ReadInbox(r) ==
    LET new == First(InboxBatch, inbox[Sess(r)]) IN
    /\ At(r, "loop")
    /\ run[r].mem.iter < MaxIters
    /\ run[r].mem.tools = "none"
    /\ run' = [run EXCEPT ![r].hints = new]
    /\ Goto(r, IF new = <<>> THEN "think" ELSE "ack")
    /\ UNCHANGED <<redis, procs, clients, counters>>

(* ... then XDEL, and the hints go to the context and to the event stream. *)
AckInbox(r) ==
    LET s == Sess(r) IN
    /\ At(r, "ack")
    /\ inbox' = [inbox EXCEPT ![s] = Without(inbox[s], run[r].hints)]
    /\ run' = [run EXCEPT ![r].mem.context = @ \o run[r].hints,
                          ![r].hints = <<>>]
    /\ Publish(s)
    /\ Goto(r, "think")
    /\ UNCHANGED <<lock, exists, stored, msgs, queue>>
    /\ UNCHANGED <<procs, clients, counters>>

(* The model answers: the reply ends, or it asks for tool calls. *)
Think(r) ==
    /\ At(r, "think")
    /\ \/ Goto(r, "save") /\ UNCHANGED run
       \/ Goto(r, "act") /\ run' = [run EXCEPT ![r].mem.tools = "exec"]
    /\ Publish(Sess(r))
    /\ UNCHANGED <<lock, exists, stored, msgs, inbox, queue>>
    /\ UNCHANGED <<procs, clients, counters>>

(* The batches of tool calls have run: the next iteration. *)
Iterated(mem) == [mem EXCEPT !.tools = "none", !.iter = @ + 1]

(* The batches of tool calls run, or stop at one that asks the user.  A    *)
(* CancelledError in a tool that ToolOffloadMiddleware does not wrap is    *)
(* turned into the tool's result, and the run goes on.                     *)
Act(r) ==
    /\ \/ pc[r] = "act"
       \/ pc[r] = "loop" /\ run[r].mem.iter < MaxIters /\ run[r].mem.tools = "exec"
    /\ \/ /\ run' = [run EXCEPT ![r].mem = Iterated(@)]
          /\ pc' = [pc EXCEPT ![r] = "loop"]
       \/ /\ run' = [run EXCEPT ![r].mem.tools = "await"]
          /\ pc' = [pc EXCEPT ![r] = "save"]
    /\ cancelling' = cancelling \ {r}
    /\ Publish(Sess(r))
    /\ UNCHANGED <<lock, exists, stored, msgs, inbox, queue>>
    /\ UNCHANGED <<procs, clients, counters>>

(* Mutant: only a finished reply is saved, not one that asks the user. *)
SaveFinishedReply(r) ==
    LET s == Sess(r)  id == run[r].reply IN
    /\ At(r, "save")
    /\ msgs' = IF id = 0 \/ run[r].mem.tools = "await" THEN msgs
               ELSE [msgs EXCEPT ![s] = Upsert(msgs[s], id)]
    /\ Goto(r, "persist")
    /\ UNCHANGED <<lock, exists, stored, logged, inbox, queue, run>>
    /\ UNCHANGED <<procs, clients, counters>>

SaveReply(r) ==
    LET s == Sess(r)  id == run[r].reply IN
    /\ At(r, "save")
    /\ msgs' = IF id = 0 THEN msgs
               ELSE [msgs EXCEPT ![s] = Upsert(msgs[s], id)]
    /\ Goto(r, "persist")
    /\ UNCHANGED <<lock, exists, stored, logged, inbox, queue, run>>
    /\ UNCHANGED <<procs, clients, counters>>

(* Mutant: a missing record is not noticed. *)
GetRecordAnyway(r) ==
    /\ At(r, "persist")
    /\ Goto(r, "write")
    /\ UNCHANGED <<redis, procs, run, clients, counters>>

(* update_session_state: GET the record (KeyError if it is gone) ... *)
GetRecord(r) ==
    /\ At(r, "persist")
    /\ IF exists[Sess(r)] THEN Goto(r, "write") /\ UNCHANGED run ELSE Unwind(r)
    /\ UNCHANGED <<redis, procs, clients, counters>>

(* ... then SET it with the run's own state. *)
SetRecord(r) ==
    LET s == Sess(r) IN
    /\ At(r, "write")
    /\ stored' = [stored EXCEPT ![s] = run[r].mem]
    /\ exists' = [exists EXCEPT ![s] = TRUE]
    /\ Unwind(r)
    /\ UNCHANGED <<lock, msgs, logged, inbox, queue, procs, clients, counters>>

TrimLog(r) ==
    /\ At(r, "trim")
    /\ logged' = [logged EXCEPT ![Sess(r)] = FALSE]
    /\ Goto(r, "release")
    /\ UNCHANGED <<lock, exists, stored, msgs, inbox, queue, run>>
    /\ UNCHANGED <<procs, clients, counters>>

(* The compare-and-delete is executed by Redis ... *)
ReleaseSession(r) ==
    /\ At(r, "release")
    /\ lock' = [lock EXCEPT ![Sess(r)] = IF @ = r[1] THEN Free ELSE @]
    /\ Goto(r, "ending")
    /\ UNCHANGED <<exists, stored, msgs, logged, inbox, queue, run>>
    /\ UNCHANGED <<procs, clients, counters>>

(* ... and when its answer is in, the task is done. *)
EndRun(r) ==
    /\ At(r, "ending")
    /\ Finish(r)
    /\ UNCHANGED <<redis, procs, clients, counters>>

(***************************************************************************)
(* An exception reaches the await where the run is suspended.  The Redis   *)
(* command awaited there may or may not have been executed.  A SET that    *)
(* was, and a release that was not, leave the key to its lease.            *)
(***************************************************************************)
Interrupted(r) ==
    LET s == Sess(r)
        To(l) == /\ pc' = [pc EXCEPT ![r] = l]
                 /\ run' = [run EXCEPT ![r] = NoLocals]
                 /\ cancelling' = cancelling \ {r}
        Lock(l) == lock' = [lock EXCEPT ![s] = l]
    IN
    /\ \/ /\ pc[r] \in {"load", "loaded", "ending"}
          /\ To("none")
          /\ UNCHANGED <<lock, logged>>
       \/ /\ pc[r] = "loaded"
          /\ ~Parked(r)
          /\ lock[s] = Free
          /\ To("none") /\ Lock(Orphan)
          /\ UNCHANGED logged
       \/ /\ pc[r] \in BodyPCs
          /\ To("trim")
          /\ UNCHANGED <<lock, logged>>
       \/ /\ pc[r] = "trim"
          /\ To("release")
          /\ logged' \in {logged, [logged EXCEPT ![s] = FALSE]}
          /\ UNCHANGED lock
       \/ /\ pc[r] = "release"
          /\ To("none") /\ Lock(Orphan)
          /\ UNCHANGED logged
    /\ UNCHANGED <<exists, stored, msgs, inbox, queue>>
    /\ UNCHANGED <<procs, clients, replies, restarts>>

(* The CancelledError of a shutdown or of a deletion, unless a tool takes  *)
(* it (Act).                                                               *)
Cancelled(r) == r \in cancelling /\ Interrupted(r) /\ UNCHANGED faults

(* A model, storage or bus call raises. *)
RunFails(r) ==
    /\ r \notin cancelling
    /\ faults < MaxFaults
    /\ faults' = faults + 1
    /\ Interrupted(r)

------------------------------------------------------------------------------
(* Producers: inbox_push, then enqueue_wakeup (push, then signal) *)

PushInbox(h) ==
    /\ stage[h] = "new"
    /\ stage' = [stage EXCEPT ![h] = "pushed"]
    /\ inbox' = [inbox EXCEPT ![SessionOf[h]] = Append(@, h)]
    /\ UNCHANGED <<lock, exists, stored, msgs, logged, queue>>
    /\ UNCHANGED <<procs, runs, posted, deleting, counters>>

EnqueueWakeup(h) ==
    /\ stage[h] = "pushed"
    /\ stage' = [stage EXCEPT ![h] = "queued"]
    /\ queue' = Append(queue, h)
    /\ UNCHANGED <<lock, exists, stored, msgs, logged, inbox>>
    /\ UNCHANGED <<procs, runs, posted, deleting, counters>>

(* The signal is pub/sub: only the processes that listen receive it. *)
SignalWakeup(h) ==
    /\ stage[h] = "queued"
    /\ stage' = [stage EXCEPT ![h] = "sent"]
    /\ signals' = [p \in Procs |->
                     IF status[p] = "up" THEN signals[p] + 1 ELSE signals[p]]
    /\ UNCHANGED <<redis, status, disp, batch, runs, posted, deleting, counters>>

(* The producer dies, or its bus call raises, between two of its calls. *)
ProducerFails(h) ==
    /\ stage[h] \in {"pushed", "queued"}
    /\ faults < MaxFaults
    /\ faults' = faults + 1
    /\ stage' = [stage EXCEPT ![h] = "failed"]
    /\ UNCHANGED <<redis, procs, runs, posted, deleting, replies, restarts>>

------------------------------------------------------------------------------
(* WakeupDispatcher: one signal, one drain of the shared queue *)

Entry(p) == Head(batch[p])

NextEntry(p) ==
    /\ batch' = [batch EXCEPT ![p] = Tail(@)]
    /\ disp' = [disp EXCEPT ![p] = IF Len(batch[p]) = 1 THEN "idle" ELSE "check"]

ReadQueue(p) ==
    LET new == First(QueueBatch, queue) IN
    /\ disp[p] = "idle"
    /\ signals[p] > 0
    /\ signals' = [signals EXCEPT ![p] = @ - 1]
    /\ batch' = [batch EXCEPT ![p] = new]
    /\ disp' = [disp EXCEPT ![p] = IF new = <<>> THEN "idle" ELSE "ack"]
    /\ UNCHANGED <<redis, status, runs, clients, counters>>

AckQueue(p) ==
    /\ disp[p] = "ack"
    /\ queue' = Without(queue, batch[p])
    /\ disp' = [disp EXCEPT ![p] = "check"]
    /\ UNCHANGED <<lock, exists, stored, msgs, logged, inbox>>
    /\ UNCHANGED <<status, signals, batch, runs, clients, counters>>

(* session_is_running: the wake-up of a locked session is dropped. *)
CheckRunning(p) ==
    /\ disp[p] = "check"
    /\ IF lock[SessionOf[Entry(p)]] = Free
       THEN disp' = [disp EXCEPT ![p] = "spawn"] /\ UNCHANGED batch
       ELSE NextEntry(p)
    /\ UNCHANGED <<redis, status, signals, runs, clients, counters>>

(* The session still exists and this process has no run of it: spawn one.  *)
(* Otherwise the wake-up is dropped (orphan guard, RuntimeError).  A run   *)
(* of a session that is deleted after this look ends in Load.              *)
SpawnWakeup(p) ==
    LET r == <<p, SessionOf[Entry(p)]>> IN
    /\ disp[p] = "spawn"
    /\ IF exists[SessionOf[Entry(p)]] /\ pc[r] = "none"
       THEN Spawn(r, Wake)
       ELSE UNCHANGED <<pc, run>>
    /\ NextEntry(p)
    /\ UNCHANGED <<redis, status, signals, cancelling, clients, counters>>

(* A bus call raises: during the drain it is caught and the entries stay   *)
(* queued, between two entries the loop logs it and ends for good.         *)
DispatcherFails(p) ==
    /\ disp[p] \in {"ack", "check", "spawn"}
    /\ faults < MaxFaults
    /\ faults' = faults + 1
    /\ disp' = [disp EXCEPT ![p] = IF @ = "ack" THEN "idle" ELSE "dead"]
    /\ batch' = [batch EXCEPT ![p] = <<>>]
    /\ UNCHANGED <<redis, status, signals, runs, clients, replies, restarts>>

------------------------------------------------------------------------------
(* Processes *)

(* The wake-up dispatcher and the cancel dispatcher stop listening. *)
StopDispatchers(p) ==
    /\ disp' = [disp EXCEPT ![p] = "idle"]
    /\ batch' = [batch EXCEPT ![p] = <<>>]
    /\ signals' = [signals EXCEPT ![p] = 0]
    /\ cancels' = {x \in cancels : x[1] # p}

(* The lifespan ends: the dispatchers are cancelled, then every run. *)
Shutdown(p) ==
    /\ status[p] = "up"
    /\ restarts < MaxRestarts
    /\ restarts' = restarts + 1
    /\ status' = [status EXCEPT ![p] = "stopping"]
    /\ StopDispatchers(p)
    /\ cancelling' = cancelling \cup {r \in Runs : r[1] = p /\ pc[r] # "none"}
    /\ UNCHANGED <<redis, pc, run, posted, stage, deletion, overtaken>>
    /\ UNCHANGED <<replies, faults>>

(* ... and awaited. *)
Stopped(p) ==
    /\ status[p] = "stopping"
    /\ \A s \in Sessions : pc[<<p, s>>] = "none"
    /\ status' = [status EXCEPT ![p] = "down"]
    /\ UNCHANGED <<redis, signals, disp, batch, runs, clients, counters>>

Crash(p) ==
    /\ status[p] # "down"
    /\ restarts < MaxRestarts
    /\ restarts' = restarts + 1
    /\ status' = [status EXCEPT ![p] = "down"]
    /\ StopDispatchers(p)
    /\ pc' = [r \in Runs |-> IF r[1] = p THEN "none" ELSE pc[r]]
    /\ run' = [r \in Runs |-> IF r[1] = p THEN NoLocals ELSE run[r]]
    /\ cancelling' = {r \in cancelling : r[1] # p}
    /\ lock' = [s \in Sessions |-> IF lock[s] = p THEN Orphan ELSE lock[s]]
    /\ UNCHANGED <<exists, stored, msgs, logged, inbox, queue>>
    /\ UNCHANGED <<posted, stage, deletion, overtaken, replies, faults>>

(* Mutant: the dispatcher waits for its first signal. *)
RestartWithoutDrain(p) ==
    /\ status[p] = "down"
    /\ status' = [status EXCEPT ![p] = "up"]
    /\ UNCHANGED <<redis, signals, disp, batch, runs, clients, counters>>

(* WakeupDispatcher.__aenter__ drains once as soon as it is subscribed,    *)
(* beside its loop; here it is the first signal of the loop.  A crash of   *)
(* the loop itself is undone by a restart only.                            *)
Restart(p) ==
    /\ status[p] = "down"
    /\ status' = [status EXCEPT ![p] = "up"]
    /\ signals' = [signals EXCEPT ![p] = 1]
    /\ UNCHANGED <<redis, disp, batch, runs, clients, counters>>

(* Mutant: the key was set without a time to live. *)
NeverExpires(s) == lock[s] = Orphan /\ UNCHANGED vars

(* The heartbeat of an orphaned lease is gone: the key expires. *)
ExpireLease(s) ==
    /\ lock[s] = Orphan
    /\ lock' = [lock EXCEPT ![s] = Free]
    /\ UNCHANGED <<exists, stored, msgs, logged, inbox, queue>>
    /\ UNCHANGED <<procs, runs, clients, counters>>

------------------------------------------------------------------------------
(* SessionService.delete_session, and the CancelDispatcher of each process *)

(* The cancel broadcast reaches the processes that listen. *)
PublishCancel(s) ==
    /\ s \in Deletable
    /\ deletion[s] = "none"
    /\ deletion' = [deletion EXCEPT ![s] = "cancelling"]
    /\ cancels' = cancels \cup {<<p, s>> : p \in {q \in Procs : status[q] = "up"}}
    /\ UNCHANGED <<redis, procs, runs, posted, stage, overtaken, counters>>

CancelSession(r) ==
    /\ r \in cancels
    /\ cancels' = cancels \ {r}
    /\ cancelling' = IF pc[r] = "none" THEN cancelling ELSE cancelling \cup {r}
    /\ UNCHANGED <<redis, procs, pc, run, posted, stage, deletion, overtaken>>
    /\ UNCHANGED counters

(* The lock has been seen free, or ten seconds have passed: the record is  *)
(* deleted, ...                                                            *)
DeleteRecord(s) ==
    /\ deletion[s] = "cancelling"
    /\ deletion' = [deletion EXCEPT ![s] = "purging"]
    /\ exists' = [exists EXCEPT ![s] = FALSE]
    /\ stored' = [stored EXCEPT ![s] = NewState]
    /\ overtaken' = IF \E p \in Procs : pc[<<p, s>>] = "write"
                    THEN overtaken \cup {s} ELSE overtaken
    /\ UNCHANGED <<lock, msgs, logged, inbox, queue, procs, runs>>
    /\ UNCHANGED <<posted, stage, cancels, counters>>

(* ... then the messages and, in the bus, log and inbox; one step, because *)
(* nothing above tells the commands apart once the record is gone.         *)
PurgeSession(s) ==
    /\ deletion[s] = "purging"
    /\ deletion' = [deletion EXCEPT ![s] = "deleted"]
    /\ msgs' = [msgs EXCEPT ![s] = <<>>]
    /\ logged' = [logged EXCEPT ![s] = FALSE]
    /\ inbox' = [inbox EXCEPT ![s] = <<>>]
    /\ UNCHANGED <<lock, exists, stored, queue, procs, runs>>
    /\ UNCHANGED <<posted, stage, cancels, overtaken, counters>>

------------------------------------------------------------------------------

RunStep(r) ==
    \/ Load(r) \/ SkipParked(r) \/ AcquireSession(r)
    \/ PrepareInput(r) \/ RejectInput(r) \/ StartReply(r) \/ ResumeReply(r)
    \/ LeaveLoop(r) \/ ReadInbox(r) \/ AckInbox(r) \/ Think(r) \/ Act(r)
    \/ SaveReply(r) \/ GetRecord(r) \/ SetRecord(r)
    \/ TrimLog(r) \/ ReleaseSession(r) \/ EndRun(r) \/ Cancelled(r)
ProducerStep(h) == PushInbox(h) \/ EnqueueWakeup(h) \/ SignalWakeup(h)

DispatchStep(p) ==
    ReadQueue(p) \/ AckQueue(p) \/ CheckRunning(p) \/ SpawnWakeup(p)

DeleteStep(s) ==
    PublishCancel(s) \/ DeleteRecord(s) \/ PurgeSession(s)

Next ==
    \/ \E r \in Runs : RunStep(r) \/ RunFails(r) \/ CancelSession(r)
    \/ \E h \in Hints : ProducerStep(h) \/ ProducerFails(h)
    \/ \E p \in Procs :
         \/ \E x \in Inputs : PostChat(p, x)
         \/ DispatchStep(p) \/ DispatcherFails(p)
         \/ Shutdown(p) \/ Stopped(p) \/ Crash(p) \/ Restart(p)
    \/ \E s \in Sessions : ExpireLease(s) \/ DeleteStep(s)

Spec == Init /\ [][Next]_vars

(***************************************************************************)
(* The event loops run, Redis answers, the model answers or fails, tools   *)
(* end (ToolOffloadMiddleware bounds those it wraps), and leases expire;   *)
(* clients, users and operators owe nothing.  Polling for the lock is not  *)
(* queued, so only strong fairness lets a waiter get it.                   *)
(***************************************************************************)
Fairness ==
    /\ \A r \in Runs : WF_vars(RunStep(r)) /\ SF_vars(AcquireSession(r))
    /\ \A h \in Hints : WF_vars(EnqueueWakeup(h) \/ SignalWakeup(h))
    /\ \A p \in Procs : WF_vars(DispatchStep(p)) /\ WF_vars(Stopped(p))
                        /\ WF_vars(Restart(p))
    /\ \A s \in Sessions : WF_vars(ExpireLease(s))

FairSpec == Spec /\ Fairness
------------------------------------------------------------------------------
(* Properties *)

TypeOK ==
    /\ lock \in [Sessions -> Procs \cup {Free, Orphan}]
    /\ exists \in [Sessions -> BOOLEAN]
    /\ stored \in [Sessions -> AgentState]
    /\ msgs \in [Sessions -> Seq(UserMsgs \cup Nat)]
    /\ logged \in [Sessions -> BOOLEAN]
    /\ inbox \in [Sessions -> Seq(Hints)]
    /\ queue \in Seq(Hints)
    /\ status \in [Procs -> {"up", "stopping", "down"}]
    /\ signals \in [Procs -> Nat]
    /\ disp \in [Procs -> {"idle", "ack", "check", "spawn", "dead"}]
    /\ batch \in [Procs -> Seq(Hints)]
    /\ pc \in [Runs -> PCs]
    /\ run \in [Runs -> RunLocals]
    /\ cancelling \subseteq Runs
    /\ deletion \in [Sessions -> {"none", "cancelling", "purging", "deleted"}]
    /\ cancels \subseteq Runs
    /\ overtaken \subseteq Sessions
    /\ posted \subseteq Inputs
    /\ stage \in [Hints -> {"new", "pushed", "queued", "sent", "failed"}]
    /\ replies \in Nat
    /\ restarts \in 0..MaxRestarts
    /\ faults \in 0..MaxFaults

(* A session's lock belongs to a process exactly while its run is between  *)
(* acquisition and release, so "at most one chat run per session across    *)
(* all processes" (ChatService) is inside session_run, whatever crashes,   *)
(* shutdowns and cancellations interrupt.                                  *)
LockOwned ==
    \A r \in Runs : pc[r] \in LockPCs <=> lock[Sess(r)] = r[1]

(* What the agent remembers is in the transcript: a persisted state never  *)
(* names a reply, or holds a user message, that the session's message list *)
(* lacks (the run saves messages first and the state last), until the      *)
(* deletion of the session purges the list.                                *)
TranscriptCoversState ==
    \A s \in Sessions : deletion[s] # "deleted" =>
        /\ stored[s].reply # 0 => stored[s].reply \in ToSet(msgs[s])
        /\ ToSet(stored[s].context) \cap UserMsgs \subseteq ToSet(msgs[s])

(* A message enters the agent's memory at most once: no persisted context  *)
(* repeats an entry or holds one the inbox would still deliver, although   *)
(* the inbox is read and deleted in two steps and wake-ups may double.     *)
DeliveredOnce ==
    \A s \in Sessions :
        /\ IsInjective(stored[s].context)
        /\ ToSet(stored[s].context) \cap ToSet(inbox[s]) = {}

(* Case B of ChatService.run finds the reply it continues: the agent can   *)
(* be resumed by a confirmation only if that reply was persisted, and it   *)
(* is still there unless the session has been deleted.                     *)
ContinuedReplyFound ==
    \A r \in Runs :
        pc[r] \in {"loop", "ack", "think", "act", "save"} =>
            run[r].reply # 0 \/ deletion[Sess(r)] = "deleted"

(* The agent's memory only grows: what a run persisted is never lost by a  *)
(* later write (_chat.py:437, the state is written inside the lock so that *)
(* no other process loads "a stale state").                                *)
MemoryKept ==
    [][\A s \in Sessions :
         exists[s] /\ exists'[s] =>
            IsPrefix(stored[s].context, stored'[s].context)]_vars

(* A deleted session stays deleted, whatever runs, wake-ups and dispatchers *)
(* still are under way for it, in whatever process: only a run that had    *)
(* read the record and was about to write it when it was deleted (ten      *)
(* seconds after the cancel, or started after it) brings it back.  PATCH   *)
(* of a session, which also writes the record, is not modelled.            *)
DeletedForGood ==
    \A s \in Sessions :
        deletion[s] \notin {"none", "cancelling"} /\ exists[s] => s \in overtaken

(* A hint that reached the inbox is in the inbox, in the hands of a run or *)
(* in the persisted memory, until its session is to be deleted: draining   *)
(* does not lose it.                                                       *)
HintsKept ==
    \A h \in Hints :
        LET s == SessionOf[h] IN
        stage[h] # "new" /\ deletion[s] = "none" =>
        \/ h \in ToSet(inbox[s]) \cup ToSet(stored[s].context)
        \/ \E r \in Runs : Sess(r) = s /\ h \in ToSet(run[r].mem.context)

(* Nothing is left to do for a session, and nothing is on its way. *)
Quiescent(s) ==
    /\ \A r \in Runs : Sess(r) = s => pc[r] = "none"
    /\ \A h \in Hints : SessionOf[h] = s => stage[h] \notin {"pushed", "queued"}
    /\ \A h \in ToSet(queue) : SessionOf[h] # s
    /\ \A p \in Procs : \A h \in ToSet(batch[p]) : SessionOf[h] # s

(* _tool_offload_middleware.py:15 "WakeupDispatcher ensures an idle        *)
(* session is started by some process": once a session has come to rest,   *)
(* an agent that waits for no confirmation has no undelivered hint.        *)
NoStrandedHint ==
    \A s \in Sessions :
        Quiescent(s) /\ stored[s].tools # "await" => inbox[s] = <<>>

(* message_bus/_base.py:489 "any process which acquires the lock next sees *)
(* a clean log": the replay log is empty when a run enters the body, or    *)
(* the cancel of a deletion may have hit the trim of the run before.       *)
CleanSlate ==
    \A r \in Runs : pc[r] \in {"locked", "input"} =>
        ~logged[Sess(r)] \/ deletion[Sess(r)] # "none"

(* Every run ends, so a session is never blocked for good: not by a crash  *)
(* in the body, a cancellation in the release, or the polls of others.     *)
RunsEnd == \A r \in Runs : pc[r] # "none" ~> pc[r] = "none"

(* A queued wake-up is consumed by some dispatcher even if the processes   *)
(* that heard its signal die: the queue is durable and every start drains  *)
(* it, up to QueueBatch entries (_wakeup_dispatcher.py:74 "wake-ups        *)
(* produced while this process was down [...] are picked up immediately"). *)
WakeupsConsumed ==
    \A h \in Hints : stage[h] = "sent" ~>
        /\ h \notin ToSet(queue)
        /\ \A p \in Procs : h \notin ToSet(batch[p])
==============================================================================
