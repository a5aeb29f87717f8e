------------------------------ MODULE AgentLoop ------------------------------
(***************************************************************************)
(* Agent.reply of agentscope: one agent that reasons, runs the tool calls  *)
(* of the model's answers in batches, stops to ask the user or to have a   *)
(* call executed outside, continues when the answer comes, and compresses  *)
(* its context.                                                            *)
(*                                                                         *)
(* The host is ChatService: the state is persisted when a reply returns,   *)
(* and a reply that raises or is cancelled leaves what was persisted, from *)
(* which the next one starts (ChatRun models that host).  Only one reply   *)
(* runs at a time: that is the session lock.                               *)
(***************************************************************************)
EXTENDS Integers, SequencesExt

CONSTANTS
    Calls,          \* ids of tool calls, each proposed by the model once
    Safe,           \* those of tools with is_concurrency_safe (or unknown)
    External,       \* those of tools with is_external_tool
    NoCall,
    MaxIters,       \* react_config.max_iters
    Reserves,       \* blocks of the boundary message that fit the budget
    MaxTurns,       \* bound on replies that are not a continuation
    MaxResults,     \* bound on the results in one external event
    MaxFaults       \* bound on exceptions and cancellations

ASSUME AgentAssumption ==
    /\ Safe \subseteq Calls /\ External \subseteq Calls
    /\ NoCall \notin Calls
    /\ Reserves \subseteq Nat
    /\ {MaxIters, MaxTurns, MaxResults, MaxFaults} \subseteq Nat

VARIABLES
    context,    \* state.context
    state,      \* ToolCallBlock.state; "none": not proposed yet
    cur_iter,   \* state.cur_iter
    pc,         \* where _reply_impl is; "idle": no reply runs
    todo,       \* the calls of the batches not started yet
    task,       \* _execute_tool_call of the current batch
    broke,      \* break_execution: a call of this batch needs the outside
    consent,    \* history: what engine and user said of a call
    runs,       \* history: how often the tool of a call was started
    saved,      \* what the session record holds of the variables above
    turns, faults

memory == <<context, state, cur_iter, consent, runs>>
loop == <<pc, todo, task, broke>>
vars == <<memory, loop, saved, turns, faults>>

Block ==
    [type : {"text"}, id : {NoCall}] \cup [type : {"call", "result"}, id : Calls]
Message == [own : BOOLEAN, blocks : Seq(Block)]

ToolCallState ==
    {"none", "pending", "asking", "allowed", "submitted", "finished"}
Consent == {"none", "asked", "granted", "late", "refused"}

(* What a session record holds of the agent. *)
Memory ==
    [context : Seq(Message), state : [Calls -> ToolCallState],
     cur_iter : 0..MaxIters, consent : [Calls -> Consent], runs : [Calls -> Nat]]

Text == [type |-> "text", id |-> NoCall]
Call(c) == [type |-> "call", id |-> c]
Result(c) == [type |-> "result", id |-> c]
UserMsg == [own |-> FALSE, blocks |-> <<Text>>]

Snapshot ==
    [context |-> context, state |-> state, cur_iter |-> cur_iter,
     consent |-> consent, runs |-> runs]

NoTask == [c \in Calls |-> "none"]

Init ==
    /\ context = <<>>
    /\ state = [c \in Calls |-> "none"]
    /\ cur_iter = 0
    /\ pc = "idle"
    /\ todo = {}
    /\ task = NoTask
    /\ broke = FALSE
    /\ consent = [c \in Calls |-> "none"]
    /\ runs = [c \in Calls |-> 0]
    /\ saved = Snapshot
    /\ turns = 0 /\ faults = 0

------------------------------------------------------------------------------
(* The context *)

CallsIn(bs) == {bs[i].id : i \in {j \in DOMAIN bs : bs[j].type = "call"}}
ResultsIn(bs) == {bs[i].id : i \in {j \in DOMAIN bs : bs[j].type = "result"}}

(* _get_last_msg: the last message if it is the agent's own. *)
LastBlocks ==
    IF context # <<>> /\ context[Len(context)].own
    THEN context[Len(context)].blocks
    ELSE <<>>

(* _save_to_context merges into the last message if it is the agent's own. *)
SaveToContext(bs) ==
    context' = IF context # <<>> /\ context[Len(context)].own
               THEN [context EXCEPT ![Len(context)].blocks = @ \o bs]
               ELSE Append(context, [own |-> TRUE, blocks |-> bs])

(* _update_tool_call_state looks at the last message only. *)
SetState(c, s) ==
    state' = IF c \in CallsIn(LastBlocks) THEN [state EXCEPT ![c] = s]
             ELSE state

Unfinished == CallsIn(LastBlocks) \ ResultsIn(LastBlocks)
Executable == {c \in Unfinished : state[c] \in {"pending", "allowed"}}
Asking == {c \in CallsIn(LastBlocks) : state[c] = "asking"}
Submitted == {c \in Unfinished : state[c] = "submitted"}

(* The injective sequences over S. *)
Orders(S) ==
    {s \in UNION {[1..n -> S] : n \in 0..Cardinality(S)} : IsInjective(s)}

Position(c) ==
    CHOOSE i \in DOMAIN LastBlocks : LastBlocks[i] = Call(c)

Before(c, d) == Position(c) <= Position(d)

------------------------------------------------------------------------------
(* Ways a reply ends *)

(* The generator returns, and the host persists the agent's state. *)
Return(mem) == pc' = "idle" /\ saved' = mem

(* Mutant: the host persists what a failing reply had done. *)
KeepAfterFailure ==
    /\ pc' = "idle" /\ todo' = {} /\ task' = NoTask /\ broke' = FALSE
    /\ saved' = Snapshot
    /\ UNCHANGED memory

(* An exception or CancelledError: the agent object is gone. *)
Lose ==
    /\ pc' = "idle" /\ todo' = {} /\ task' = NoTask /\ broke' = FALSE
    /\ context' = saved.context /\ state' = saved.state
    /\ cur_iter' = saved.cur_iter
    /\ consent' = saved.consent /\ runs' = saved.runs
    /\ UNCHANGED saved

------------------------------------------------------------------------------
(* Inputs: _check_incoming_event and what it lets through *)

(* Mutant: a message is taken while the agent waits for an event. *)
StartReplyAnyway ==
    /\ pc = "idle"
    /\ turns < MaxTurns
    /\ turns' = turns + 1
    /\ context' \in {context, Append(context, UserMsg)}
    /\ cur_iter' = 0
    /\ pc' = "next"
    /\ UNCHANGED <<state, consent, runs, todo, task, broke, saved, faults>>

(* A message, or none (a wake-up): a new reply.  While the agent waits for *)
(* an event it raises ValueError instead.                                  *)
StartReply ==
    /\ pc = "idle"
    /\ Asking = {} /\ Submitted = {}
    /\ turns < MaxTurns
    /\ turns' = turns + 1
    /\ context' \in {context, Append(context, UserMsg)}
    /\ cur_iter' = 0
    /\ pc' = "next"
    /\ UNCHANGED <<state, consent, runs, todo, task, broke, saved, faults>>

(* Mutant: a denied call is answered but counts as allowed. *)
ConfirmBoth(yes, denied) ==
    LET no == Range(denied) IN
    /\ pc = "idle"
    /\ Asking # {}
    /\ SaveToContext([i \in DOMAIN denied |-> Text])
    /\ state' = [c \in Calls |->
                   IF c \in yes \cup no THEN "allowed" ELSE state[c]]
    /\ consent' = [c \in Calls |->
                     IF c \in yes
                     THEN IF cur_iter < MaxIters THEN "granted" ELSE "late"
                     ELSE IF c \in no THEN "refused" ELSE consent[c]]
    /\ pc' = "next"
    /\ UNCHANGED <<cur_iter, runs, todo, task, broke, saved, turns, faults>>

(* UserConfirmResultEvent: the confirmed calls become executable, the      *)
(* denied ones are answered in the order of the message, others may wait.  *)
ConfirmCalls(yes, denied) ==
    LET no == Range(denied) IN
    /\ pc = "idle"
    /\ Asking # {}
    /\ yes \cap no = {}
    /\ \A i, j \in DOMAIN denied : i < j => Before(denied[i], denied[j])
    /\ SaveToContext([i \in DOMAIN denied |-> Result(denied[i])])
    /\ state' = [c \in Calls |->
                   IF c \in yes THEN "allowed"
                   ELSE IF c \in no THEN "finished" ELSE state[c]]
    /\ consent' = [c \in Calls |->
                     IF c \in yes
                     THEN IF cur_iter < MaxIters THEN "granted" ELSE "late"
                     ELSE IF c \in no THEN "refused" ELSE consent[c]]
    /\ pc' = "next"
    /\ UNCHANGED <<cur_iter, runs, todo, task, broke, saved, turns, faults>>

(* ExternalExecutionResultEvent: results, in the order of the event.  The  *)
(* event is checked by the set of its ids, and every entry of its list is  *)
(* stored: a call that it names twice gets two results.                    *)
ExternalResults(s) ==
    /\ pc = "idle"
    /\ Submitted # {}
    /\ SaveToContext([i \in DOMAIN s |-> Result(s[i])])
    /\ state' = [c \in Calls |->
                   IF c \in Range(s) THEN "finished" ELSE state[c]]
    /\ pc' = "next"
    /\ UNCHANGED <<cur_iter, consent, runs, todo, task, broke>>
    /\ UNCHANGED <<saved, turns, faults>>

------------------------------------------------------------------------------
(* The reasoning-acting loop *)

(* Step 4 of _reply_impl. *)
ExceedMaxIters ==
    /\ pc = "next"
    /\ cur_iter >= MaxIters
    /\ Return(Snapshot)
    /\ UNCHANGED <<memory, todo, task, broke, turns, faults>>

(* _check_next_action = "exit": the outside is to answer first. *)
Wait ==
    /\ pc = "next"
    /\ cur_iter < MaxIters
    /\ Executable = {} /\ Asking \cup Submitted # {}
    /\ Return(Snapshot)
    /\ UNCHANGED <<memory, todo, task, broke, turns, faults>>

(* Mutant: awaiting calls do not keep the agent from reasoning. *)
ReasonWhileWaiting ==
    /\ pc = "next"
    /\ cur_iter < MaxIters
    /\ Executable = {}
    /\ pc' = "reason"
    /\ UNCHANGED <<memory, todo, task, broke, saved, turns, faults>>

(* Mutant: the loop does not count. *)
ReasonUnbounded ==
    /\ pc = "next"
    /\ Executable = {} /\ Asking \cup Submitted = {}
    /\ pc' = "reason"
    /\ UNCHANGED <<memory, todo, task, broke, saved, turns, faults>>

(* _check_next_action = "reasoning". *)
GoReason ==
    /\ pc = "next"
    /\ cur_iter < MaxIters
    /\ Executable = {} /\ Asking \cup Submitted = {}
    /\ pc' = "reason"
    /\ UNCHANGED <<memory, todo, task, broke, saved, turns, faults>>

(* _check_next_action = "acting". *)
GoAct ==
    /\ pc = "next"
    /\ cur_iter < MaxIters
    /\ Executable # {}
    /\ pc' = "act"
    /\ todo' = Executable
    /\ UNCHANGED <<memory, task, broke, saved, turns, faults>>

(***************************************************************************)
(* _split_context_for_compression: message m is the boundary and its last  *)
(* k blocks fit the budget.  If one of them is a result whose call is not  *)
(* among them, they are given up to the last such result.  The results     *)
(* that miss their call are kept by id, of several the first.              *)
(***************************************************************************)
Orphans(bs, first) ==
    {i \in first..Len(bs) :
        /\ bs[i].type = "result"
        /\ bs[i].id \notin CallsIn(SubSeq(bs, first, i))
        /\ bs[i].id \notin ResultsIn(SubSeq(bs, first, i - 1))}

(* Mutant: the boundary is not adjusted. *)
ReservedAsCounted(bs, k) == SubSeq(bs, Len(bs) - k + 1, Len(bs))

Reserved(bs, k) ==
    LET first == Len(bs) - k + 1
        orphans == Orphans(bs, first)
        last == IF orphans = {} THEN first - 1
                ELSE CHOOSE i \in orphans : \A j \in orphans : j <= i
    IN SubSeq(bs, last + 1, Len(bs))

(* compress_context before reasoning, if the token threshold is reached. *)
Compress(m, k) ==
    LET kept == Reserved(context[m].blocks, k)
        rest == SubSeq(context, m + 1, Len(context))
    IN
    /\ pc = "reason"
    /\ k <= Len(context[m].blocks)
    /\ context' = IF kept = <<>> THEN rest
                  ELSE <<[context[m] EXCEPT !.blocks = kept]>> \o rest
    /\ pc' = "think"
    /\ UNCHANGED <<state, cur_iter, consent, runs, todo, task, broke>>
    /\ UNCHANGED <<saved, turns, faults>>

SkipCompression ==
    /\ pc = "reason"
    /\ pc' = "think"
    /\ UNCHANGED <<memory, todo, task, broke, saved, turns, faults>>

(* _reasoning_impl: an answer without tool calls ends the reply. *)
Answer ==
    /\ pc = "think"
    /\ SaveToContext(<<Text>>)
    /\ Return([Snapshot EXCEPT !.context = context'])
    /\ UNCHANGED <<state, cur_iter, consent, runs, todo, task, broke>>
    /\ UNCHANGED <<turns, faults>>

Propose(s) ==
    /\ pc = "think"
    /\ s # <<>>
    /\ \A i \in DOMAIN s : state[s[i]] = "none"
    /\ SaveToContext([i \in DOMAIN s |-> Call(s[i])])
    /\ state' = [c \in Calls |->
                   IF c \in Range(s) THEN "pending" ELSE state[c]]
    /\ pc' = "act"
    /\ todo' = Range(s)
    /\ UNCHANGED <<cur_iter, consent, runs, task, broke, saved, turns, faults>>

------------------------------------------------------------------------------
(* Batches *)

(* Mutant: the calls are not told apart by is_concurrency_safe. *)
OneBatch == todo

(* The calls that run next: the first ones, up to the first that is not    *)
(* concurrency-safe, as one concurrent batch; else the first one alone.    *)
Group ==
    {c \in todo : \A d \in todo \ {c} : Before(d, c) => {c, d} \subseteq Safe}

(* Mutant: the sentinel is not put when a call of the batch has failed. *)
OverIfReturned(t) == t = "none"

Over(t) == t \in {"none", "failed"}
BatchOver == \A c \in Calls : Over(task[c])
Failed == \E c \in Calls : task[c] = "failed"

StartBatch ==
    /\ pc = "act"
    /\ BatchOver /\ ~Failed /\ ~broke
    /\ todo # {}
    /\ task' = [c \in Calls |-> IF c \in Group THEN "started" ELSE "none"]
    /\ todo' = todo \ Group
    /\ UNCHANGED <<memory, pc, broke, saved, turns, faults>>

(* A call of the batch needs the outside: the later batches wait. *)
StopForOutside ==
    /\ pc = "act"
    /\ BatchOver /\ ~Failed /\ broke
    /\ Return(Snapshot)
    /\ broke' = FALSE
    /\ todo' = {}
    /\ UNCHANGED <<memory, task, turns, faults>>

(* Mutant: the iteration is not counted. *)
NextIterationUncounted ==
    /\ pc = "act"
    /\ BatchOver /\ ~Failed /\ ~broke
    /\ todo = {}
    /\ pc' = "next"
    /\ UNCHANGED <<memory, todo, task, broke, saved, turns, faults>>

NextIteration ==
    /\ pc = "act"
    /\ BatchOver /\ ~Failed /\ ~broke
    /\ todo = {}
    /\ cur_iter' = cur_iter + 1
    /\ pc' = "next"
    /\ UNCHANGED <<context, state, consent, runs, todo, task, broke>>
    /\ UNCHANGED <<saved, turns, faults>>

(* The exceptions of a batch are raised when all of its calls are over. *)
BatchRaises ==
    /\ pc = "act"
    /\ BatchOver /\ Failed
    /\ Lose
    /\ UNCHANGED <<turns, faults>>

------------------------------------------------------------------------------
(* _execute_tool_call, of one call of the batch *)

Done(c) == task' = [task EXCEPT ![c] = "none"]

AnswerCall(c) ==
    /\ SaveToContext(<<Result(c)>>)
    /\ SetState(c, "finished")
    /\ Done(c)

(* Step 1: the tool is unknown or inactive, or its input is invalid. *)
RejectCall(c) ==
    /\ task[c] = "started"
    /\ AnswerCall(c)
    /\ UNCHANGED <<cur_iter, consent, runs, pc, todo, broke>>
    /\ UNCHANGED <<saved, turns, faults>>

(* Mutant: the call does not remember that the user was asked. *)
AskWithoutState(c) ==
    /\ task[c] = "started"
    /\ state[c] # "allowed"
    /\ consent' = [consent EXCEPT ![c] = "asked"]
    /\ broke' = TRUE
    /\ Done(c)
    /\ UNCHANGED <<context, state, cur_iter, runs, pc, todo>>
    /\ UNCHANGED <<saved, turns, faults>>

(* Mutant: a call that the user confirmed goes to the engine again. *)
AskAgain(c) ==
    /\ task[c] = "started"
    /\ SetState(c, "asking")
    /\ consent' = [consent EXCEPT ![c] = "asked"]
    /\ broke' = TRUE
    /\ Done(c)
    /\ UNCHANGED <<context, cur_iter, runs, pc, todo, saved, turns, faults>>

(* Steps 2 and 3: a call that is not yet allowed goes to the permission    *)
(* engine, which says ASK (or PASSTHROUGH), ...                            *)
AskUser(c) ==
    /\ task[c] = "started"
    /\ state[c] # "allowed"
    /\ SetState(c, "asking")
    /\ consent' = [consent EXCEPT ![c] = "asked"]
    /\ broke' = TRUE
    /\ Done(c)
    /\ UNCHANGED <<context, cur_iter, runs, pc, todo, saved, turns, faults>>

(* ... DENY, ... *)
DenyCall(c) ==
    /\ task[c] = "started"
    /\ state[c] # "allowed"
    /\ consent' = [consent EXCEPT ![c] = "refused"]
    /\ AnswerCall(c)
    /\ UNCHANGED <<cur_iter, runs, pc, todo, broke, saved, turns, faults>>

(* ... or ALLOW.  A call of an external tool is handed out, ... *)
SubmitCall(c) ==
    /\ task[c] = "started"
    /\ c \in External
    /\ SetState(c, "submitted")
    /\ broke' = TRUE
    /\ Done(c)
    /\ UNCHANGED <<context, cur_iter, consent, runs, pc, todo>>
    /\ UNCHANGED <<saved, turns, faults>>

(* ... any other is executed by _acting. *)
RunTool(c) ==
    /\ task[c] = "started"
    /\ c \notin External
    /\ SetState(c, "allowed")
    /\ task' = [task EXCEPT ![c] = "running"]
    /\ runs' = [runs EXCEPT ![c] = @ + 1]
    /\ UNCHANGED <<context, cur_iter, consent, pc, todo, broke>>
    /\ UNCHANGED <<saved, turns, faults>>

(* The ToolResponse: the toolkit turns an exception of the tool, and a     *)
(* cancellation that reaches it, into one too.                             *)
ToolReturns(c) ==
    /\ task[c] = "running"
    /\ AnswerCall(c)
    /\ UNCHANGED <<cur_iter, consent, runs, pc, todo, broke>>
    /\ UNCHANGED <<saved, turns, faults>>

(* The engine, the offloader or a middleware raises. *)
CallRaises(c) ==
    /\ task[c] \in {"started", "running"}
    /\ faults < MaxFaults
    /\ faults' = faults + 1
    /\ task' = [task EXCEPT ![c] = "failed"]
    /\ UNCHANGED <<memory, pc, todo, broke, saved, turns>>

(* The model raises, or the run is cancelled. *)
ReplyRaises ==
    /\ pc # "idle"
    /\ faults < MaxFaults
    /\ faults' = faults + 1
    /\ Lose
    /\ UNCHANGED turns

------------------------------------------------------------------------------

CallStep(c) ==
    \/ RejectCall(c) \/ AskUser(c) \/ DenyCall(c) \/ SubmitCall(c)
    \/ RunTool(c) \/ ToolReturns(c)

LoopStep ==
    \/ ExceedMaxIters \/ Wait \/ GoReason \/ GoAct
    \/ SkipCompression \/ \E m \in DOMAIN context, k \in Reserves : Compress(m, k)
    \/ Answer \/ \E s \in Orders(Calls) : Propose(s)
    \/ StartBatch \/ StopForOutside \/ NextIteration \/ BatchRaises
    \/ \E c \in Calls : CallStep(c)

Input ==
    \/ StartReply
    \/ \E yes \in SUBSET Asking, denied \in Orders(Asking) :
         ConfirmCalls(yes, denied)
    \/ \E s \in BoundedSeq(Submitted, MaxResults) : ExternalResults(s)

Next ==
    \/ Input
    \/ LoopStep
    \/ ReplyRaises \/ \E c \in Calls : CallRaises(c)

Spec == Init /\ [][Next]_vars
------------------------------------------------------------------------------
(* Properties *)

TypeOK ==
    /\ context \in Seq(Message)
    /\ state \in [Calls -> ToolCallState]
    /\ cur_iter \in 0..MaxIters
    /\ pc \in {"idle", "next", "reason", "think", "act"}
    /\ todo \subseteq Calls
    /\ task \in [Calls -> {"none", "started", "running", "failed"}]
    /\ broke \in BOOLEAN
    /\ consent \in [Calls -> Consent]
    /\ runs \in [Calls -> Nat]
    /\ saved \in Memory
    /\ turns \in 0..MaxTurns
    /\ faults \in 0..MaxFaults

Life == INSTANCE ToolCallLife WITH saved <- saved.state

(* Every call lives as ToolCallBlock documents it, whatever batches,       *)
(* events and iterations it passes through: it is asked about at most      *)
(* once, never after it was allowed, and a failing reply takes all of its  *)
(* calls back to where they were persisted, none of them half way.         *)
FollowsLife == Life!Spec

(* A tool is started, or a call handed out, only if the engine allowed it  *)
(* without asking or the user confirmed it; never after a denial and never *)
(* while the user is still being asked.                                    *)
ConsentGate ==
    [][pc' = "act" =>
         \A c \in Calls :
            \/ runs'[c] > runs[c]
            \/ state[c] # "submitted" /\ state'[c] = "submitted"
            => consent[c] \in {"none", "granted", "late"}]_vars

(* The tool of a call is started at most once, over all confirmations,     *)
(* iterations and replies, unless the reply that ran it was lost before it *)
(* was persisted.                                                          *)
RunOnce == \A c \in Calls : runs[c] <= 1

(* A result of one of the calls C comes once, and after its call.          *)
Paired(C, bs) ==
    \A i \in DOMAIN bs : bs[i].type = "result" /\ bs[i].id \in C =>
        /\ bs[i].id \in CallsIn(SubSeq(bs, 1, i))
        /\ bs[i].id \notin ResultsIn(SubSeq(bs, 1, i - 1))

PairsOf(C) == \A m \in DOMAIN context : Paired(C, context[m].blocks)

(* No call that the agent executes itself has two results, and none of its *)
(* results stands in a message without its call before it: these calls and *)
(* their results stay pairs, whatever the order in which concurrent calls  *)
(* end and wherever the context is cut (_agent.py:1772 "avoid splitting    *)
(* tool call and result pairs").  It does not speak of the calls of        *)
(* external tools, whose results are the outside's: it may send one twice. *)
PairsKept == PairsOf(Calls \ External)

(* The model is not called on a context with an unanswered tool call,      *)
(* except for a call that the user confirmed when no iteration was left.   *)
AnsweredBeforeModel ==
    pc = "think" =>
        \A m \in DOMAIN context :
            \A c \in CallsIn(context[m].blocks)
                     \ ResultsIn(context[m].blocks) : consent[c] = "late"

(* While a tool that is not concurrency-safe runs, no other call of the    *)
(* agent does, and every earlier call of the same message has its result   *)
(* or waits for the outside.                                               *)
SequentialInOrder ==
    \A c \in Calls \ Safe : task[c] = "running" =>
        /\ \A d \in Calls \ {c} : task[d] = "none"
        /\ \A d \in CallsIn(LastBlocks) \ {c} :
              Before(d, c) => d \notin Executable

(* A reply does not return with calls that could run, unless others wait   *)
(* for the outside (whose event continues it) or its iterations are used   *)
(* up.                                                                     *)
NothingForgotten ==
    pc = "idle" /\ Executable # {} =>
        Asking \cup Submitted # {} \/ cur_iter = MaxIters

(* Whatever the user has been asked can still be answered: the call is in  *)
(* the last message, where a confirmation looks for it.                    *)
AskedCanBeAnswered ==
    pc = "idle" => \A c \in Calls : consent[c] = "asked" => c \in Asking

(* A reply never hangs: as long as it is under way some step of its own    *)
(* changes something; no call that fails leaves its batch waiting, and no  *)
(* batch is put together that holds no call.                               *)
NeverStuck == pc # "idle" => ENABLED <<LoopStep>>_vars

Phase == [next |-> 3, reason |-> 2, think |-> 1, act |-> 0]

Tasks(t) == {c \in Calls : task[c] = t}

StrictSubset(S, T) == S \subseteq T /\ S # T

(* A batch comes nearer to its end: calls leave todo, then they are run,   *)
(* handed out or refused, then their tools return.                         *)
BatchAdvances ==
    \/ StrictSubset(todo', todo)
    \/ /\ todo' = todo
       /\ \/ StrictSubset(Tasks("started")', Tasks("started"))
          \/ /\ Tasks("started")' = Tasks("started")
             /\ StrictSubset(Tasks("running")', Tasks("running"))

(* A reply never goes round in circles (_agent.py:597 "while cur_iter <    *)
(* max_iters"): every step ends it, counts an iteration, or advances       *)
(* within the iteration; so with NeverStuck a reply whose tools and model  *)
(* answer ends, however its batches are confirmed, refused or fail.        *)
ReplyAdvances ==
    [][pc # "idle" =>
         \/ pc' = "idle"
         \/ cur_iter' > cur_iter
         \/ /\ cur_iter' = cur_iter
            /\ \/ Phase[pc'] < Phase[pc]
               \/ pc' = pc /\ BatchAdvances]_vars
==============================================================================
