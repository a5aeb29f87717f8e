# A verification project for xin-agent-runtime

`xin-agent-runtime` is a multi-tenant service that runs LLM agents: a gateway
translates client protocols and enforces policy, and an embedded AgentScope
application keeps sessions in Redis, runs agents, and lets any of several
server processes continue any session. This directory models the parts where
several processes, tasks and crashes meet, checks them with TLC and proves the
central facts with TLAPS.

The repository holds two trees. The nested one,
`src/xin-agent-runtime/src/{agentscope,xruntime,xruntime_sdk}`, is the newer
superset and is the one modelled; `src/src/*` is an older snapshot of it. Paths
below are relative to the nested `src`.

## 1. Inventory

```
clients -- protocol adapters -- gateway (auth, rate limit, plan, policy)
                                    |
                     ChatService.run -- Agent -- middleware -- model, tools
                         |                         |
   ChatRunRegistry, WakeupDispatcher,      Workspace, ToolOffload
   CancelDispatcher, Scheduler  (per process)
                         |
        MessageBus + Storage (Redis, shared by all processes)
```

| component | state it keeps | operations | what makes it hard | what makes it correct |
|---|---|---|---|---|
| message bus (`app/message_bus`) | Redis keys: locks with TTL, streams (inbox, wake-up queue), replay lists, pub/sub, task registry | acquire_lock, queue_push/drain, log_append/trim, publish/subscribe | leases, heartbeats, read-then-delete in two commands, signals nobody hears | mutual exclusion; an entry is neither lost nor delivered twice |
| chat service (`app/_service/_chat.py`) and agent loop (`agent/_agent.py`) | locals of a run: input, `agent.state`, `reply_msg` | load, acquire the session, reply or resume, save reply, save state, trim, release | the state is read before the lock; exceptions and cancellations at every await | one run per session; the transcript covers the memory; memory only grows |
| run registry (`app/_manager/_chat_run_registry.py`) | session id -> task, per process | spawn (refused while one runs), cancel, shutdown | tasks in `finally` while being cancelled | a run is cancelled and awaited before the process ends |
| wake-up dispatcher (`app/_manager/_wakeup_dispatcher.py`) | subscription, batch of entries | drain on signal and on start, skip if running, spawn | several dispatchers on one queue; check and act are separate | every wake-up is consumed; an idle session with a hint is started |
| inbox middleware, producers (tool offload, team_say, scheduler) | inbox stream | push, enqueue, signal; drain at each reasoning step | three separate calls; delivery races the last drain | a hint enters the memory once |
| session service, cancel dispatcher (`app/_service/_session.py`, `_manager/_cancel_dispatcher.py`) | - | cancel, poll, delete, purge | ten-second timeout; runs and producers still alive | a deleted session stays deleted |
| event stream (`app/_router/_session.py`) | replay list, pub/sub | read replay, subscribe, heartbeat | the gap between replay and subscription | every event of the run arrives once |
| tool offload, background tasks | queue of a tool, task registry | race a tool with a deadline, deliver later, stop | timeout against last item; cancellation while waiting | the result arrives once, in the reply or by the inbox |
| scheduler | APScheduler jobs | fire, register, remove | closure over an old record | a disabled schedule does not fire |
| workspace managers | cache with last access | get, create, sweep, close | sweeper against users | no workspace is closed in use |
| durable workflows (`xruntime/_runtime/_workflow`) | checkpoints | run, resume | crash between any two saves | completed steps run once and in order; the verdict is final |
| approvals, pools, limits, cache of workflows | semaphores, buckets, LRU | acquire, release, expire | cancellation between two acquisitions | counters return to their start; limits hold |
| credential broker | LRU cache, index, revocations | issue, validate, revoke, rotate | rotation, expiry and eviction interleave | a revoked credential is never valid again |
| runtime middleware | circuit state, quota counters | call, retry, open, probe | retries and concurrent calls | the circuit counts calls |
| permission engine | rules | decide | precedence | a deny rule wins |
| gateway, adapters, tenancy, memory, knowledge, models, formatters, tools, evaluation, SDK | mostly none | conversions, I/O, one call at a time | - | not candidates for model checking |

**Interactions.** All cross-process communication goes through Redis. A
producer pushes a hint to a session's inbox, pushes a wake-up onto one shared
queue and publishes a signal; the dispatcher of every process that hears the
signal drains the queue and spawns a chat run unless the session's lock is
taken. A run reads its session record, waits for the session lock, runs the
agent, whose middleware drains the inbox before each model call, writes the
reply and the state, trims the replay log and releases the lock. The lifespan
(`app/_lifespan.py`) starts bus, workspace manager, background tasks, registry,
scheduler, wake-up and cancel dispatchers, and stops them in reverse order.

`PROJECT.json` lists every component with its status and the hazards of the
code at their lines, covered or not.

## 2. Plan

Done:

1. `Mutex`, `LeaseLock` (the lock everything else rests on) and their proofs.
2. `ChatRun` (the core): runs, dispatchers, producers, crashes, and the deletion
   of a session under way; `ChatRunProofs` (lock and deletion), `ChatTypeProofs`,
   `ChatMemoryProofs` (what a session remembers), with `Queues`, `QueuesProofs`
   for what a queue holds after some of its entries are taken out.
3. `Workflow`, `CheckpointedWorkflow` and their proofs.
4. `ToolCallLife`, `AgentLoop`: the reply that is one step of `ChatRun`'s run,
   with tool calls, batches, consent and compression; `AgentLoopProofs`.
5. `ToolPromise`, `BackgroundTools`: a tool call that outlives its reply, and
   everything that stops it; `BackgroundToolsProofs`.

Each concrete module refines its abstract one: `LeaseLock` `Mutex`,
`CheckpointedWorkflow` `Workflow`, `AgentLoop` `ToolCallLife`, `BackgroundTools`
`ToolPromise`. `ChatRun` composes the lock (as the mutex it is shown to be), the
replies (as the few steps that touch Redis), the producers and the deletion.

What could come next, each small beside the above: PATCH of a session as one more
writer of the record in `ChatRun`; the credential broker's rotation, the circuit
breaker and the concurrency pool as modules of their own (single-process
counters); the event stream, once the gap between replay and subscription is
closed in the code.

## 3. The lock: `Mutex`, `LeaseLock`

`LeaseLock` is `RedisMessageBus.acquire_lock` for one key. `key` and `lease` are
Redis' value and time to live, `pc`, `hb` and `age` a coroutine's place, its
heartbeat task and the seconds since that last set the TTL.

| action | code (`message_bus/_redis_message_bus.py`) |
|---|---|
| Request, Acquire | `SET key token NX EX ttl` in the polling loop |
| Renew, RenewFails | `_heartbeat`: `EXPIRE key ttl`, which compares no token and is outside any `try` |
| Exit, ExitWithoutRelease | cancelling and awaiting the heartbeat; a heartbeat that died of an error re-raises it here and the release is skipped |
| Release, ReleaseFails | the compare-and-delete script, whose failure is swallowed |
| Crash, Tick | the process dies; a second passes |

`LeaseAssumption` is the margin the code has: the renewal period plus the
longest delay of a due heartbeat (`Lag`) is below the TTL. For a chat run
(TTL 600 s) it allows the event loop to stall for 299 s.

A client stands for its token: it draws a fresh one per attempt and an old one
can never be stored again, so equality of clients is equality of tokens.

`Mutex` is the promise of `_base.py`; `IsMutex` maps its holders to the clients
whose heartbeat is alive. A client whose heartbeat failed is still in its body,
but its lease runs out; that is why `MutualExclusion` allows two bodies together
only if one of them has a failed heartbeat, and why the stronger sentence of the
docstring (`_base.py:333`, the lease "only expires if the holding process
actually crashes") is refuted.

| run | bounds | shows |
|---|---|---|
| `lease_lock` | 3 clients, TTL 6, Lag 2 (every age, and a late heartbeat, are reached; a third client takes over while two are stale) | type invariant, `HeartbeatKeepsLease`, `MutualExclusion`, `OnlyOwnerDeletes`, refinement of `Mutex`, and that nobody waits for ever |
| `lease_lock_expiry` | 2 clients | violation: one failed EXPIRE and the lease expires under a live holder |

`WaiterGetsIn` assumes that bodies end, Redis answers and time passes (WF), and
strong fairness of `Acquire`: polling has no queue, so a waiter can be overtaken
at every poll and no weaker assumption gets it in. Without it, starvation is
what the code allows.

**Proved** (`LeaseLockProofs`, any number of clients, any TTL and Lag within
`LeaseAssumption`): `TypeCorrect`, `LeaseKept`, `Exclusive`, `OwnerDeletes`,
`ImplementsMutex`. The inductive invariant is `TypeOK`, `HeartbeatInBody` (the
heartbeat task exists exactly while its client is in the body) and
`HeartbeatKeepsLease` (a live heartbeat owns the key, and the lease is the TTL
minus its age). The last is what makes the blind EXPIRE harmless; the second
keeps late releases away from it. Everything else follows from the three:

- `OnlyFailedRenewalsLoseTheKey` is what is left of the refuted docstring: a client in
  its body loses the key only in the last second of a lease whose renewal failed.
- `NoAdoption`: the EXPIRE of a heartbeat compares no token, yet no client prolongs
  the lease of one that crashed or lost its heartbeat. Such a lease only runs down.
- `NoKeyWithoutEnd`, the part of `WaiterGetsIn` that needs no fairness: a taken key
  belongs to a body with a live heartbeat, or its lease is running out.

## 4. Chat runs: `ChatRun`

A run is a pair of process and session, because the registry admits one run per
session and process. Redis holds `lock`, `exists`, `stored` (the session record's
`AgentState`), `msgs` (the transcript), `logged` (whether the replay log is
non-empty), `inbox` and `queue`. `deletion` is how far `delete_session` is,
`cancels` the cancel broadcasts that have not been received. A process has a
`status`, unread `signals`, the state and batch of its dispatcher; a run its `pc`,
its locals (`run`) and whether it is being cancelled.

| actions | code |
|---|---|
| PostChat | `_router/_chat.py` (409 while this process runs the session) |
| Load, SkipParked, AcquireSession | `_service/_chat.py` up to `session_run` (the record is read, then the lock awaited) |
| PrepareInput, RejectInput, StartReply, ResumeReply | cases A, B, C of `run`; `Agent._check_incoming_event`, `_reply_impl` |
| ReadInbox, AckInbox | `InboxMiddleware.on_reasoning`: XRANGE, then XDEL |
| Think, Act, LeaveLoop | model call, tool batches, max_iters and waiting confirmations; a tool may take the CancelledError of its run, which then goes on (`tool/_toolkit.py:370`, for tools the offload middleware does not wrap) |
| SaveReply, GetRecord, SetRecord | `upsert_message`; `update_session_state`, which reads the record and writes it back |
| TrimLog, ReleaseSession, EndRun | the two `finally` blocks of `session_run` and `acquire_lock` |
| Cancelled, RunFails | an exception, or a CancelledError that no tool takes, at whichever await the run is suspended |
| PushInbox, EnqueueWakeup, SignalWakeup, ProducerFails | `inbox_push`, `enqueue_wakeup` |
| ReadQueue, AckQueue, CheckRunning, SpawnWakeup, DispatcherFails | `WakeupDispatcher._drain_and_dispatch` |
| Shutdown, Stopped, Crash, Restart, ExpireLease | lifespan, death of a process, TTL |
| PublishCancel, CancelSession | `cancel_session_run`; `CancelDispatcher._session_cancel_loop` in every process |
| DeleteRecord, PurgeSession | `storage.delete_session` and `session_purge`; the poll before them ends after ten seconds whatever it saw, so DeleteRecord waits for nothing |

Abstractions, each deliberate:

- The session lock is seen as the mutex that section 3 establishes; a lease
  whose holder is gone is held by `Orphan` until `ExpireLease`. Failing
  heartbeats are the business of `LeaseLock`.
- A Redis command is atomic. An exception at an await may find the command
  executed or not: `Interrupted` has both outcomes (a SET that was executed
  leaves an orphaned lease).
- A message, a confirmation or a hint is a model value; a reply is a number.
  The agent's memory is the sequence of user messages and hints, whether the
  last message is the agent's and has tool calls to execute or waiting for the
  user, `cur_iter` and `reply_id`.
- The drain of a starting dispatcher is its loop's first signal. In the code
  the two may overlap once; both are then dispatch steps of one process.
- Sessions share nothing but the wake-up queue and the processes, so runs use
  one session.
- The agent's reply is what it does to Redis and to the session's state here;
  `AgentLoop` opens it.
- The commands that purge messages, log and inbox are one step: once the record
  is gone nothing in the model tells them apart.

Bounds: `MaxRestarts` crashes and shutdowns, `MaxFaults` failing calls, each
message posted at most once, `MaxIters` iterations, and `Deletable`, the sessions
that are ever deleted: the one session of `chat_single`, none in the other runs,
whose properties are of what a session's memory holds and which would grow
several times over. Batches are 1 or 2 so that
a batch smaller than the queue happens.

| run | bounds | shows |
|---|---|---|
| `chat_safety` | 2 processes, a user message, a confirmation and a hint on one session, 2 iterations, a crash or shutdown and one failing call anywhere (2.7 million states with the processes as symmetric, which is sound because nothing tells them apart and the run checks no liveness) | types; `LockOwned`; `TranscriptCoversState`; `DeliveredOnce`; `ContinuedReplyFound` |
| `chat_single` | 1 process, a message, a confirmation, two hints, inbox batch 1, no faults, and the session may be deleted at any time (5.5 million states) | `DeletedForGood`; `HintsKept`, `CleanSlate`, `MemoryKept` where the code keeps them: the violations below show why not elsewhere |
| `chat_live` | 2 processes, a hint, two crashes or shutdowns | `RunsEnd`, `WakeupsConsumed` |
| `chat_stale_load` | 2 processes, two user messages | violation of `MemoryKept`: the second run loads its state before it waits for the lock, and writes it back over the first run's |
| `chat_stranded` | 1 process, two hints | violation of `NoStrandedHint`: a wake-up found the session locked and was dropped, but the run had drained its inbox for the last time |

Two processes, one crash and one hint are enough for the races in question: each
is between one run and one other actor (another run, a dispatcher, a producer,
a failure), and `chat_safety` has one of each at once.

**Fairness** (`Fairness`): the event loops run (WF of every run step and dispatch
step), the model and tools answer or fail (the offload middleware bounds the tools
it wraps by a deadline), producers finish their calls, stopped processes are
restarted, leases expire; clients and users owe nothing. `AcquireSession` is
strongly fair for the reason given for the lock. Fairness is on the disjunction of
the steps of a run, so that it never decides between the model's answers.

**Proved** (`ChatRunProofs`): `LockAlwaysOwned`, that is `LockOwned`: for any
processes, sessions and messages, and whatever crashes, cancellations and
failures happen, a process owns the lock of a session exactly while its run is
between acquisition and release. The inductive invariant `LockInv` is that
property with the types of `lock` and `pc` (nothing about cancellation is
needed: wherever an interrupted run stands, its way out gives the lock back or
orphans it). The proof groups the actions by what they do to program counter
and lock, one lemma per group: moves within or outside the locked part
(`Moves`), taking the lock (`Takes`), giving it up (`Leaves`), and a lease that
changes while no run is inside (`Vacant`).

`SessionsExclude`, stated by `SessionsAreMutexes` in the same module: for each
session the processes whose run is inside `session_run` are the holders of a
`Mutex`. `LeaseLock` is proved to implement that module and `ChatRun` to use it as
such, which is what putting the one in place of the other rests on. Besides
`LockInv` the proof needs that no lock goes from one process to another in a single
step (`LockPasses`).

`DeletionKept`, that is `DeletedForGood`, for any number of processes and with
crashes and failing calls that `chat_single` does not have: a run that had read
the record and was about to write it when it was deleted brings it back, and
no other step of a run, a wake-up or a dispatcher does (PATCH is not modelled, section 8).
The inductive invariant `DeletionInv` says of a session past
its deletion that neither the record is there nor a run about to write it,
unless a run was overtaken.

**Proved** (`ChatTypeProofs`, `ChatMemoryProofs`), again for everything in any number:

- `TypesKept` (`TypeOK`). The invariant `TypeInv` adds `LocalsSound`: a run has
  locals only while it is at work, thinks only with an iteration left, and a
  dispatcher at work has a batch.
- `TranscriptKept` (`TranscriptCoversState`) and `RepliesFound`
  (`ContinuedReplyFound`). The invariant `Transcript` says of the stored state,
  and of what each run holds as far as it has come, that the message list has
  its user messages and, where a reply is to be continued, that reply. A state
  in a run's hands gets ahead of the list only between `StartReply` and
  `SaveReply`, and only `SetRecord`, which comes later, writes it back; since the
  list only grows, two runs that overwrite each other's state do no harm here.
  Both properties are stated of a session until its list is purged.
- `NothingTwice` (`DeliveredOnce`). The invariant `Delivery` says that inboxes,
  contexts and the hints in hand hold only what was sent, each once; that nothing
  in a context is still in the inbox or in hand, because `AckInbox` takes the hints
  out of the inbox in the step that puts them into the context; and that a user
  message its run has not taken in yet is in no context and is no other run's.
  Nothing about the lock is needed.

What remains of an inbox or the wake-up queue when entries are taken out is
`Keep`, a recursive function; `QueuesProofs` proves what it computes by induction
(the least natural of a set, induction and recursion over sets are derived
there from the library's facts on finite sets).

`MemoryKept`, `HintsKept` and `CleanSlate` are not kept by every behaviour of the
code. For each, one theorem names the steps that can break it, and a second one
derives from it the promise where the code keeps it, at the bounds of
`chat_single` and for everything else in any number:

| theorem | the property fails only through | second theorem |
|---|---|---|
| `OnlyStaleLoadsForget` (`MemoryKept`) | a run that takes the lock with a state older than the record (`NoStaleLoad` excludes it; `chat_stale_load` shows it) | `OneProcessRemembers`: one process, with any crashes, restarts, failures and deletions |
| `OnlyLostRunsLoseHints` (`HintsKept`) | the same, or a run interrupted before its state is in the record (`Uninterrupted`) | `OneProcessKeepsHints`: one process, no crashes and no failing calls |
| `OnlyCutTrimsLeaveLogs` (`CleanSlate`) | a crash inside the body, or an exception or cancellation inside the trim (`TrimsComplete`) | `UndisturbedLogsClean`: any number of processes, no crashes and no failing calls |

Deletions may come at any time in all of them; what they break, the properties
exempt. The hypotheses are conditions on steps, so each first theorem says of
every behaviour, also of one with several processes and failures: up to the first
step of that kind the property holds. The second theorems prove that with
those constants no such step exists.

All of them rest on `NextShape`, a list (`MemoryShape`) of what a step can do to
the states in records and in the hands of runs, proved once by going through the
actions. The inductive invariants are `GrowInv` (what a run inside the lock
remembers extends the record), `LoadedInv` (with one process, a loaded state is
that of the record), `HintInv` (until a reply begins, a run remembers only what
the record has), `CancelInv` (only runs of a session under deletion are cancelled)
and `LogInv` (where there is something to replay, a run publishes or trims). TLC
checked each as an invariant under its hypothesis on instances of the runs' size
before it was proved. Contexts are compared with `IsPrefix`, whose facts are in
`QueuesProofs` (`PrefixMeans`, `PrefixFacts`).

`NoStrandedHint` fails in `chat_stranded`, with one process and no failure. What can
make it fail is a finite list, and `OnlyGivenUpStrand` proves the list complete:
it holds as long as each of these steps (`GivenUp`) finds the inbox of its session
empty, for any number of everything and whatever else is lost, stops or fails.

| step | code |
|---|---|
| the producer fails between push and enqueue | `message_bus/_base.py:790` |
| the dispatcher finds the session locked (`chat_stranded`) | `_wakeup_dispatcher.py:145` |
| it finds the session gone | `_wakeup_dispatcher.py:155` |
| it finds a run of its own process, which "will drain the inbox" unless it has done so for the last time | `_wakeup_dispatcher.py:184` |
| it fails, is shut down or dies with the wake-up in hand | `_wakeup_dispatcher.py:120` |
| a run reaches `max_iters` | `LeaveLoop` |
| a run finds more entries than it reads at once | `_inbox_middleware.py:83`, `max_count` |
| a run that has the hint to serve is interrupted | `Interrupted`, `Crash` |
| the session is deleted | `DeleteRecord` |

Not on the list are two dispatchers reading the same entries, hints that arrive
between reading and deleting, a parked wake-up with a stale state, a refused
input, and a record missing at load or at the end. The inductive
invariant `WaitInv` says two things of a hint in an inbox. Until its wake-up has
been checked it may be behind the back of a run; afterwards every run of the
session at work serves it, because the check saw the lock free and later
runs read the inbox. And it always has a wake-up on its way, a run that serves it,
or an agent that waits for a confirmation, whose run reads the inbox. The first
part is needed for the second: it is why a run that writes an agent which no
longer waits leaves nothing behind, and why a wake-up that was skipped for a stale
"waiting" is not missed. TLC checked `WaitInv` under the hypothesis on instances of
the runs' size first.

The liveness of chat runs (`RunsEnd`, `WakeupsConsumed`) is model-checked only: it needs
fairness. What it needs besides fairness is proved, at the end of `ChatMemoryProofs`:

- `RunsGoForward`: a run has at most 4 max_iters + 11 steps ahead of it
  (`StepsAhead`), and whatever happens to it, its own steps, a failing call, a
  cancellation or a crash, lowers that number. It may wait, but not go round.
- `NobodyWaitsInVain`: a run that polls for the lock waits for a run inside it, in a
  process that is not down, or for a lease that expires. So there is no cycle of
  waiters.
- `ProcessesStopClean`: the order in which the lifespan stops its parts is right.
  Once the dispatchers are stopped and the runs told to end, the process hears
  nothing, has nothing in hand that would start a run, and what still runs has begun
  its reply or is on its way out: it enters no session and takes no input, although
  a tool may take its CancelledError and let it finish the reply. When it is down
  nothing is left. The invariant `StopsClean` is inductive with the types: a process
  at rest has no signal, no batch and no cancel to receive, so none of the actions
  that spawn a run is open to it.
- `OnlyPartialDrainsForget`: a wake-up that was queued and signalled stays in the
  queue only while every listening dispatcher has a signal left to answer or that
  wake-up in hand (`WakeupsOwed`), as long as the last drain a dispatcher owes finds
  at most a batch and does not fail (`DrainsWhole`). The hypothesis names exactly
  the two ways in which a wake-up is left behind for a later signal: a backlog of
  more than `QueueBatch` (64) entries and a bus call that raises during the drain.

TLC checked the invariants and the variant on instances of the size of `chat_safety`,
`chat_single` and `chat_live` before they were proved, `WakeupsOwed` under its hypothesis.

## 5. The agent loop: `ToolCallLife`, `AgentLoop`

`AgentLoop` is one agent over all its replies: `Agent.reply` with the message,
confirmation or external result that starts it, the ReAct iterations, the
batches of tool calls, and `ChatService`'s persistence after each reply. A message is a
sequence of blocks (text, call, result), which is what compression cuts and
where calls are looked up. `saved` is the memory that was persisted last.

| actions | code (`agent/_agent.py`) |
|---|---|
| StartReply, ConfirmCalls, ExternalResults | `_check_incoming_event`, `_handle_incoming_event`: refused while calls wait, confirmed calls become allowed, denied ones get their result, external results finish theirs; the results of an event are a sequence, which may name a call twice (the check compares sets) |
| ExceedMaxIters, Wait, GoReason, GoAct | `_reply_impl` and `_check_next_action` |
| Compress, SkipCompression (Reserved, Orphans) | `_split_context_for_compression`: any split of the context at any message, `k` blocks of it reserved |
| Answer, Propose | `_reasoning_impl`: the model ends the reply or proposes calls |
| Group, StartBatch, NextIteration, StopForOutside, BatchRaises | `_batch_tool_calls` and the two executors |
| RejectCall, AskUser, DenyCall, SubmitCall, RunTool, ToolReturns, CallRaises | `_execute_tool_call`: unknown or malformed, ASK, DENY, external, ALLOW and `_acting` |
| ReplyRaises; Return and Lose inside the others | `ChatService.run`: state and messages are written when the reply ends, not when it raises |

The permission engine, the model and the tools are choices. A call that is not
concurrency-safe is a batch of its own, as in `_batch_tool_calls`. `consent` and
`runs` are history: what the engine and the user said, and how often the tool was
started. Hints are one more text block; their delivery is `ChatRun`'s.

`ToolCallLife` is the life of a call as the docstring of `ToolCallBlock.state`
draws it, inside replies that are transactions: a reply advances its calls, a
lost one takes them all back.

| run | bounds | shows |
|---|---|---|
| `agent_loop` | 3 calls (two concurrency-safe, one of them external), 2 iterations, 2 messages from the user, one failure anywhere, up to 2 reserved blocks, up to 2 results in one external event, of one call too (3.73 million states) | `RunOnce`, `ConsentGate`, `PairsKept`, `AnsweredBeforeModel`, `SequentialInOrder`, `NothingForgotten`, `AskedCanBeAnswered`, `NeverStuck`, `ReplyAdvances`, refinement of `ToolCallLife` |
| `agent_compression` | up to 3 reserved blocks, no failure | violation of `PairsKept`: when the reserved blocks begin between two results, `_agent.py:1787` counts from the wrong end and a result is kept whose call is compressed away |

Three calls give a concurrent batch of two beside a sequential call, in each
order; two iterations a call that is confirmed when no iteration is left, the
one exception ("late") in `AnsweredBeforeModel`. Turns run out, so deadlock is
not checked; `NeverStuck` says what matters of it, that a reply under way can always
take a step that changes something. `ReplyAdvances` adds that every step ends the
reply, counts an iteration or advances within it, so replies end as soon as the
model and the tools answer. It is stated as an action property, because a variant
says more about a step than liveness under fairness does, and can be proved.

**Proved** (`AgentLoopProofs`, any calls and bounds): `TypeCorrect`,
`ToolsRunOnce`, `QuestionsStay` (`AskedCanBeAnswered`), `ConsentRespected`,
`LifeFollowed` (the refinement), and `NeverReopened` of `ToolCallLife` itself (a
call whose end was persisted stays finished). The inductive invariant `Inv` has the
types; `Coherent`, of the memory in use and of what was saved: a call the user
was asked about is asking and in the last message, a refused one is over, no
tool ran twice; `Settled`, of what is saved: a tool that ran has finished its
call; and `BatchSound`, `LoopSound`, which tie the tasks of a batch to the states
of their calls and the batch to where the loop is. Keeping both for `saved` is
what makes a lost reply harmless.

A second invariant on top of it, `TidyInv`, gives `RestIsExplained`
(`NothingForgotten`), `BatchesInOrder` (`SequentialInOrder`) and
`ModelSeesAnswers` (`AnsweredBeforeModel`). It says that the states of the last
message's calls tell which have a result (`Accounted`), that what earlier
messages leave unanswered was confirmed when no iteration was left
(`EarlierAnswered`), that nothing else could still run once the iterations are
used up (`UsedUp`), again of both memories; and that every call that could run is
in a batch, a call that is not concurrency-safe in one of its own
(`BatchesOrdered`). `EarlierAnswered` also has every call before its results, so
that cutting a message anywhere (`SuffixOfBlocks`) leaves nothing newly unanswered.

`PairsKept` speaks of the calls the agent executes itself, `Own`. Of an external call
two results are stored when one event brings them (section 8), and compression,
which counts results by id, may then keep the second without the call. The
theorems have both halves: `Own` without a condition on events, all calls
(`PairsOf(Calls)`) if no event names one twice (`NamedOnce(Calls)`). The first half
says that no event from outside disturbs the pairs of other calls.

`PairsKept` fails with three reserved blocks (run `agent_compression`). Proved is
how far it holds. `NoSecondResult`: no call has two results
(invariant `OnceInv`, of both memories). `OnlyCutsBreakPairs`: a result
loses its call only by a compression whose cut is not clean, that is, which keeps a
result and compresses its call (`CleanCut`, invariant `CalledInv`).
`ShortReservesKeepPairs`: with at most two reserved blocks, the bound of
`agent_loop`, every cut is clean, so the three of `agent_compression` are the
fewest. `CallsOneByOneKeepPairs`: so is every cut, with any number of blocks, if
the model proposes one call at a time (`OneCallEach`, which
`parallel_tool_calls = False` asks of it), because the calls and results of a
message then alternate (invariant `TurnInv`). That a confirmation may rename the
tool of its call (`_agent.py:1026`) is not modelled.

`RepliesAdvance` is `ReplyAdvances`; there are at most `MaxIters` iterations by
`TypeCorrect`. `NeverStuck` itself is out of reach, because it is about ENABLED.
What it needs beyond the types is proved: `EveryBatchStarts`, a batch is never empty,
because of the calls left the first one is always in it (`GroupNonempty`).

## 6. Background tools: `ToolPromise`, `BackgroundTools`

A tool that has not answered by its deadline keeps running while the reply goes
on with a placeholder. `BackgroundTools` is `ToolOffloadMiddleware.on_acting`, its
`drain_task` and deliverer, `BackgroundTaskManager` and the cleanup callback, for
several processes on one bus; and whoever may stop the task: ToolStop in this
process or in another, the deletion of the session, a shutdown, a crash.

| actions | code |
|---|---|
| BeginReply, EndReply | who runs a session (`ChatRun`) |
| CallTool, GetResult, Deadline, RegisterInBus, Offload, RegisterRaises | `on_acting` of `_tool_offload_middleware.py`; `register_task`, await by await |
| ToolEnds, ToolCancelled | `drain_task`; the toolkit makes a response of an exception, and of a cancellation inside the tool |
| Push, Wake, SkipDelivery, DeliveryRaises | `_deliver_when_done` |
| OnDone, Unregister, UnregisterRaises | `_on_done` of `_background_task_manager.py` |
| StopHere, StopElsewhere, CancelTask | `ToolStop`; `stop_task` by broadcast; `_task_cancel_loop` |
| CancelRuns, PurgeBus, CancelSession | `delete_session`; `_session_cancel_loop` |
| Shutdown, Crash | the manager's `aclose`; a process dies |

`ToolPromise` is what a session may rely on: each call is answered once, with
the result or a placeholder, and only in the second case a hint follows, once,
with the wake-up behind it.

| run | bounds | shows |
|---|---|---|
| `background_tools` | 1 call, 2 sessions (one of them may be deleted), 2 processes, 2 failures (287,535 states) | `Stoppable`, refinement of `ToolPromise`; `StopTakesEffect`, `ResultArrives`, `RegistryForgets` |

Calls share nothing but the processes and the registry, a set, so one call with
every actor that can meet it is the interesting instance; the second session
owns nothing and tries to stop the task of the first.

**Fairness**: the event loops run and Redis answers (WF of the steps of each
call's tasks), the dispatchers listen (WF). Nothing is assumed of the tools, which
may run for ever, nor of clients: `StopTakesEffect` holds because a cancellation
ends any tool that awaits.

**Proved** (`BackgroundToolsProofs`, any processes, sessions, calls, faults):
`TypeCorrect`, `OffloadedStoppable` (`Stoppable`) and `Refinement` of
`ToolPromise`. The inductive invariant is the types, `DeliverSound` (a deliverer
exists only from the deadline on, so a call that is answered has none),
`CleanupSound` (the callback runs only for a tool that ended) and `Listed`
(an offloaded task that runs and was not told to stop is in its table).

`StopTakesEffect`, `ResultArrives` and `RegistryForgets` need fairness and are
model-checked; what they need besides is proved, from one more invariant, `StopInv`,
on top of those:

- `NoStopLost`: once ToolStop, a deletion or a shutdown has asked for it, a task that
  still runs has its CancelledError coming, or a broadcast is on its way that will
  find it in its process.
- `OnlyTheStoppedAreCut`: the converse. A tool that was cancelled, and a result that was
  skipped, belong to a call somebody stopped or to a session that is deleted; one
  session's stop never cuts another's task, although all share one table.
- `NoResultMislaid` and `NoEntryMislaid`: the result of an offloaded tool has its
  deliverer at every moment until it is pushed, or was unwanted, or a fault hit it;
  the same for the entry in the registry and its callback.
- `CallsFinish`: a call has at most twelve steps before it, and deadline, tool,
  deliverer, callback, cancellation and crash each bring it forward.

`StopInv` has four parts, each of which the others need: why a task is being
cancelled (`Caused`), that a requested stop is on its way (`StopUnderway`), how an ended
tool came to its end (`EndExplained`), and that the deliverer and the callback follow
the tool (`Followed`).

## 7. Durable workflows: `Workflow`, `CheckpointedWorkflow`

`CheckpointedOrchestrator` runs a graph of steps layer by layer and saves a
checkpoint after each; `resume` continues from the latest. `Init` picks every
dependency graph over `StepList`, cycles and self-loops included, and which
steps abort the workflow when they fail, so one run covers all workflows of its
size.

| definitions | code (`_workflow/_orchestrator.py`, `_orchestrator.py`) |
|---|---|
| topological_order (Queued, Pop), HasCycle | Kahn's algorithm with its queue |
| GroupIntoLayers (Place) | the layer after the last one that holds a dependency |
| Run, Resume, ResumeFinished, DoneLayers | entry of `run` and `resume`; the restored status and context; layers to skip |
| StartLayer, Runnable, DepsFailed | `_compute_runnable` |
| SettleLayer, SaveLayer, Abort, Finish, Return | the loop body, the abort branch, the final checkpoint |
| Interrupt, AskAgain | the process dies or a save raises; the caller asks again |

Retries are inside `SettleLayer`: a step ends with an output or None. Two
conditions of the environment are assumed: one call of run or resume at a time,
and a clock that does not step back (the latest checkpoint is the one with the
greatest `created_at`). `checkpoint_ttl_seconds` is None.

`Workflow` is the promise: the completed steps grow, in the order of the fatal
dependencies, and the verdict is final and right (COMPLETED only with every
fatal step completed, FAILED only with a fatal step that could run and did
not complete). A dependency that is not fatal may have failed for good, so it
is not required. `IsDurable` states it of what is in the checkpoint store, the
only thing that survives.

| run | bounds | shows |
|---|---|---|
| `workflow` | 3 steps, all 512 graphs with all 8 choices of on_failure, 2 interruptions (64,504 states) | `LayersSound`, `OrderRespected`, `InputsThere`, `CompletedNotRerun`, refinement of `Workflow` |
| `workflow_resume` | the same | violation of `ResumeCompletes`: after a crash between the last layer's checkpoint and the final one, resume reads a local that no loop body bound |

Three steps have chains, forks, joins, cycles of length one to three and layers
of up to three steps; two interruptions let a resumed call be interrupted again.
The system stops when a cyclic workflow is rejected, so deadlock is not checked.

**Proved** (`CheckpointedWorkflowProofs`, any list of steps, graph and number of
interruptions): every property of the run `workflow`.

- The algorithms, by induction over the steps they take. `PopSound`: after n steps
  order and queue are free of repetitions, the order is topological, and the two
  together hold exactly the steps whose dependencies are in the order, which
  has n steps unless the queue ran out. So an order that is too short leaves steps
  that wait for each other, and a full one leaves none (`OrderFacts`).
  `LayersHold`: the layers hold each step placed so far once, after its
  dependencies. With them `LayersAlwaysSound`.
- The store: `NeverRerun` (`CompletedNotRerun`) and `DurableProgress` (completed steps
  are never lost, and after the verdict neither it nor they change) from
  `DurableInv`: a call under way remembers as completed whatever the latest
  checkpoint does, and a verdict is in the store only when the call is about to
  return or over. Nothing about layers is needed.
- The calls: `TypesKept`, `OrderKept`, `InputsKept` and `ImplementsWorkflow` (`IsDurable`)
  from `CallInv`: the layers before the current one are settled (completed, or failed
  without being fatal), a settled step is in the context, a checkpoint never has a
  running or skipped step, and what is completed in memory but not in the store is
  of the layer that is just being saved. The last part makes a save a step of
  `Workflow`: what it adds depends on what the store already has. A resumed call
  starts behind layers that are completed throughout, so it finds the invariant
  although statuses of later layers are those of an earlier call.
- The checkpoints: `CheckpointsTellTheTruth`. A checkpoint in the store is closed under
  dependencies; one that says COMPLETED has every step completed or failed without
  being fatal, one that says FAILED has a fatal step that failed. The invariant
  `Right` says it of the store (`StoreRight`) and of the call's memory (`MemoryRight`).
- `LayersSkipNothing`, from the same invariant: `_compute_runnable` never skips a step,
  since a fatal step that fails ends the call with its layer. Steps are skipped by the
  abort branch only; the other branch is dead code.
- The deviation of `workflow_resume`, exactly: `OnlyFullCheckpointsFail` (the exception
  needs a store in which every step is durably completed, so no work is lost) and
  `NeverFinished` (but such a workflow never gets its verdict, however often it is
  resumed).
- `CallsEnd`: a call takes at most three steps for each layer and six more, whatever its
  steps return; it never goes back to a layer.

## 8. Known deviations without a run

Found while modelling, each read off the code and none needing a search:

- After a crash inside the body, the replay log of the dead run is still there
  for the next holder (`message_bus/_base.py:488` promises "a clean log");
  `CleanSlate` is therefore checked without crashes.
- The renewal period of a session lock is at least a second (`_redis_message_bus.py:607`): with
  a TTL of one second, or an event loop that stalls for the rest of the lease, the
  key expires under a live holder. `LeaseAssumption` excludes both.
- An external event that names a call twice passes the check, which compares sets of
  ids (`_agent.py:963`), and both results are appended (`_agent.py:1052`).
  `_split_context_for_compression` keeps the results it has seen by id
  (`_agent.py:1772`), so it can then cut between the call and its second result.
- A run cancelled inside a tool that the offload middleware does not wrap
  (`_tool_offload_middleware.py:155`) goes on: `tool/_toolkit.py:370` makes a tool
  result of the CancelledError. A shutdown, which waits for its runs, waits for it too.
- PATCH of a session (`_router/_session.py:354`) reads the record and upserts what it
  made of it without the session lock: it undoes a state written in between, and
  creates a record deleted in between.
- `upsert_message` compares with the last message only (`_redis_storage.py:919`):
  a reply continued after a user message was stored behind it becomes a second
  entry of the transcript, while `_chat.py:428` says "overwrite if same id".
- A dispatcher drains 64 entries per signal and once at the start; a longer
  backlog waits for later signals (`_wakeup_dispatcher.py:74`, :128).
- A bus error between two entries ends the dispatcher's loop for the life of
  the process, and the entries it had read are gone.
- A wake-up dropped because this process has a run of the session
  (`_wakeup_dispatcher.py:185` "the existing run will drain the inbox") may meet
  a run that rejects its input and drains nothing.
- A run that fails after a drain has lost the drained hints.
- `CheckpointedOrchestrator.run` of a workflow without steps raises
  UnboundLocalError (line 186), for the reason of `workflow_resume`.
- After an abort the checkpoint keeps the statuses of before the skip, so a
  later `resume` reports PENDING where `run` reported SKIPPED.
- A tool stopped inside its body still delivers a hint: `tool/_toolkit.py:370`
  turns the CancelledError into an INTERRUPTED response, so the deliverer sees a
  task that ended well, while `_tool_offload_middleware.py:242` says that a
  cancelled task is not delivered. A tool that raises is delivered as "completed"
  with no output.
- A reply cancelled while it waits for a tool (`_tool_offload_middleware.py:194`)
  leaves the tool running and registered nowhere; deletion and ToolStop cannot
  find it (`_service/_session.py:105`).
- A cancel that hits `register_task` at its await leaves a table entry without
  the callback that would remove it (`_background_task_manager.py:293`).
- The loops of `CancelDispatcher` end on the first error of their subscription
  (lines 115, 171) and are not restarted.
- Deletion goes on after ten seconds. A run still in `update_session_state` then
  writes a record that no index lists (the `overtaken` of `DeletedForGood`), and one that
  upserts its reply later leaves messages of a session that is gone.
- A call confirmed when no iteration is left stays unanswered in the context
  (the "late" of `AnsweredBeforeModel`).
- `Agent.observe` appends without the check that `reply` makes for waiting
  calls; nothing in the application calls it.
- The `gather` of a concurrent batch outlives a cancelled reply (`_agent.py:1260`).
- `_gather_strict` takes a step that ends in CancelledError for a success
  (`_orchestrator.py:406`).
- The latest checkpoint is the greatest `created_at`; a tie or a clock stepping
  back makes `resume` read an older one (`_checkpoint.py:245`).
- An approval step never pauses a workflow (`_orchestrator.py:876` refers to an
  override in `CheckpointedOrchestrator` that does not exist).

## 9. What TLAPS cannot show here

Liveness (`WaiterGetsIn`, `RunsEnd`, `WakeupsConsumed`, `StopTakesEffect`,
`ResultArrives`, `RegistryForgets`) and ENABLED (`NeverStuck`) stay with TLC. For
each of the six a theorem proves what fairness does not have to do: that nothing a
process waits for is lost (`NoKeyWithoutEnd`, `NobodyWaitsInVain`,
`OnlyPartialDrainsForget`, `NoStopLost`, `NoResultMislaid`, `NoEntryMislaid`), and
for runs, calls of a tool and calls of a workflow that their steps are bounded
(`RunsGoForward`, `CallsFinish`, `CallsEnd`). The step from these to the liveness
property is the one TLC takes on small instances. The library's induction theorems,
whose hypothesis is an operator, are out of reach too. Induction over a recursive
function is possible with a set in place of the operator; the lemmas for it are in
`QueuesProofs` (`Induction`, `Recursion`), and what `Keep`, `topological_order` and
`GroupIntoLayers` compute is proved with them.

## 10. Not modelled

`PROJECT.json` gives the reason for each component. In short:

- Conversions and I/O (formatters, models, adapters, built-in tools, workspaces,
  retrieval), the evaluation driver and the SDK have no protocol of their own.
- The event stream and the workspace managers do have one, but the property
  worth stating is not one the code has (a gap between replay and subscription;
  no count of users): their hazards are listed.
- Rate limits, pools, circuit breaker, quota and credential cache are counters
  and dictionaries of one process, each guarded by one asyncio lock or by not
  awaiting.
- Scheduler and team tools are, to everything else, producers of wake-ups
  (`ChatRun`).

Most of the repository's lines are of these kinds, and twice over because of the
older snapshot; what is modelled is where processes, tasks and failures meet.

## 11. Running

```
tlc -config LeaseLock.cfg MCLeaseLock.tla
tlc -config ChatSafety.cfg MCChatRun.tla        # about a minute with two workers
tlc -config ChatSingle.cfg MCChatRun.tla
tlc -config AgentLoop.cfg MCAgentLoop.tla
tlc -config AgentCompression.cfg MCAgentLoop.tla    # the violation
tlc -config BackgroundTools.cfg MCBackgroundTools.tla
tlc -config Workflow.cfg MCCheckpointedWorkflow.tla
tlapm LeaseLockProofs.tla
tlapm QueuesProofs.tla
tlapm ChatRunProofs.tla
tlapm ChatTypeProofs.tla
tlapm ChatMemoryProofs.tla
tlapm AgentLoopProofs.tla
tlapm BackgroundToolsProofs.tla
tlapm CheckpointedWorkflowProofs.tla
```

Every property of a passing run has a mutant, an operator marked "Mutant" beside
the definition it replaces, that a plausible slip in the code would produce and
that violates the property under the same configuration.
