--------------------------- MODULE ChatMemoryProofs ---------------------------
(***************************************************************************)
(* What the sessions of ChatRun remember: the transcript covers the memory *)
(* of the agent, and nothing enters that memory twice; what can make a     *)
(* session forget, leave the replay of a finished run in its log, or come  *)
(* to rest with a hint in its inbox; and that processes stop clean, runs   *)
(* end, and no wake-up that is owed is forgotten.                          *)
(***************************************************************************)
EXTENDS ChatTypeProofs

ReplyPCs == {"loop", "ack", "think", "act", "save"}
KnownPCs == {"loaded", "locked", "input", "persist", "write"}

(* Locals that only a step of their own run changes. *)
Only(r) == \A q \in Runs \ {r} : pc'[q] = pc[q] /\ run'[q] = run[q]

LEMMA RunStepsOwn ==
    ASSUME TypeInv, NEW r \in Runs, RunStep(r) \/ RunFails(r)
    PROVE  Only(r) /\ deletion' = deletion /\ posted' = posted /\ stage' = stage
<1> USE DEF TypeInv, TypeOK, Only, Goto, clients, deleting
<1>1. CASE Load(r) \/ SkipParked(r) \/ AcquireSession(r) \/ EndRun(r)
  BY <1>1 DEF Load, SkipParked, AcquireSession, EndRun, Finish
<1>2. CASE PrepareInput(r) \/ RejectInput(r) \/ StartReply(r) \/ ResumeReply(r)
  BY <1>2 DEF PrepareInput, RejectInput, StartReply, ResumeReply, Unwind
<1>3. CASE LeaveLoop(r) \/ ReadInbox(r) \/ AckInbox(r) \/ Think(r) \/ Act(r)
  BY <1>3 DEF LeaveLoop, ReadInbox, AckInbox, Think, Act
<1>4. CASE SaveReply(r) \/ GetRecord(r) \/ SetRecord(r) \/ TrimLog(r) \/ ReleaseSession(r)
  BY <1>4 DEF SaveReply, GetRecord, SetRecord, TrimLog, ReleaseSession, Unwind
<1>5. CASE Interrupted(r)
  BY <1>5 DEF Interrupted
<1> QED
  BY <1>1, <1>2, <1>3, <1>4, <1>5 DEF RunStep, RunFails, Cancelled

(* Locals in which one part of the agent's state has changed. *)
LEMMA MemFields ==
    ASSUME NEW l \in RunLocals, NEW m \in AgentState
    PROVE  /\ [l EXCEPT !.mem = m].mem = m /\ [l EXCEPT !.mem = m].reply = l.reply
           /\ [l EXCEPT !.mem = m].job = l.job /\ [l EXCEPT !.mem = m].hints = l.hints
BY DEF RunLocals

LEMMA ToolsFields ==
    ASSUME NEW m \in AgentState, NEW t \in {"none", "exec", "await"}
    PROVE  /\ [m EXCEPT !.tools = t] \in AgentState
           /\ [m EXCEPT !.tools = t].reply = m.reply
           /\ [m EXCEPT !.tools = t].context = m.context
BY DEF AgentState

(* The reasoning steps that read no inbox change the tool calls only. *)
LEMMA ToolSteps ==
    ASSUME ChatAssumption, TypeInv, NEW r \in Runs,
           LeaveLoop(r) \/ Think(r) \/ Act(r)
    PROVE  /\ pc[r] \in ReplyPCs /\ pc'[r] \in ReplyPCs
           /\ run'[r].job = run[r].job /\ run'[r].reply = run[r].reply
           /\ run'[r].hints = run[r].hints
           /\ run'[r].mem.reply = run[r].mem.reply
           /\ run'[r].mem.context = run[r].mem.context
<1>0. run \in [Runs -> RunLocals] /\ run[r].mem \in AgentState /\ pc \in [Runs -> PCs]
  BY DEF TypeInv, TypeOK, RunLocals
<1>1. pc[r] \in ReplyPCs /\ pc'[r] \in ReplyPCs
  BY <1>0 DEF LeaveLoop, Think, Act, At, Goto, ReplyPCs
<1>2. \/ run' = run
      \/ \E t \in {"none", "exec", "await"} :
           run' = [run EXCEPT ![r] = [@ EXCEPT !.mem = [run[r].mem EXCEPT !.tools = t]]]
      \/ run' = [run EXCEPT ![r] = [@ EXCEPT !.mem = Iterated(run[r].mem)]]
  BY DEF LeaveLoop, Think, Act
<1>3. CASE run' = run
  BY <1>1, <1>3
<1>4. ASSUME NEW t \in {"none", "exec", "await"},
             run' = [run EXCEPT ![r] = [@ EXCEPT !.mem = [run[r].mem EXCEPT !.tools = t]]]
      PROVE  /\ run'[r].job = run[r].job /\ run'[r].reply = run[r].reply
             /\ run'[r].hints = run[r].hints
             /\ run'[r].mem.reply = run[r].mem.reply
             /\ run'[r].mem.context = run[r].mem.context
  <2> DEFINE m == [run[r].mem EXCEPT !.tools = t]
  <2>1. m \in AgentState /\ m.reply = run[r].mem.reply /\ m.context = run[r].mem.context
    BY <1>0, ToolsFields
  <2>2. run'[r] = [run[r] EXCEPT !.mem = m]
    BY <1>0, <1>4
  <2> HIDE DEF m
  <2> QED
    BY <1>0, <2>1, <2>2, MemFields
<1>5. CASE run' = [run EXCEPT ![r] = [@ EXCEPT !.mem = Iterated(run[r].mem)]]
  <2> DEFINE m == Iterated(run[r].mem)
  <2>1. pc[r] # "ack" /\ run[r].mem.iter \in 0..MaxIters
    BY <1>0 DEF LeaveLoop, Think, Act, At, AgentState
  <2>2. m.reply = run[r].mem.reply /\ m.context = run[r].mem.context
    BY <1>0 DEF Iterated, AgentState
  <2>3. run'[r] = [run[r] EXCEPT !.mem = m]
    BY <1>0, <1>5
  <2> HIDE DEF m
  <2>4. /\ run'[r].mem = m /\ run'[r].reply = run[r].reply
        /\ run'[r].job = run[r].job /\ run'[r].hints = run[r].hints
    BY <1>0, <2>3 DEF RunLocals
  <2> QED
    BY <1>1, <2>2, <2>4
<1> QED
  BY <1>1, <1>2, <1>3, <1>4, <1>5

------------------------------------------------------------------------------
(* The transcript *)

Users(mem) == ToSet(mem.context) \cap UserMsgs

Covered(mem, seen) ==
    /\ mem.reply # 0 => mem.reply \in seen
    /\ Users(mem) \subseteq seen

(* Only a reply that has begun can wait for the user. *)
Resumable(mem) == mem.tools = "await" => mem.reply # 0

RunCovered(l, loc, seen) ==
    /\ Resumable(loc.mem)
    /\ l \in KnownPCs => Covered(loc.mem, seen)
    /\ l = "input" /\ loc.job \in UserMsgs => loc.job \in seen
    /\ l = "input" /\ loc.job \in Confirms => loc.reply = loc.mem.reply
    /\ l \in ReplyPCs =>
         /\ Users(loc.mem) \subseteq seen
         /\ loc.reply = loc.mem.reply /\ loc.reply # 0

Transcript ==
    /\ \A s \in Sessions : deletion[s] # "deleted" =>
         Resumable(stored[s]) /\ Covered(stored[s], ToSet(msgs[s]))
    /\ \A r \in Runs : deletion[Sess(r)] # "deleted" =>
         RunCovered(pc[r], run[r], ToSet(msgs[Sess(r)]))

LEMMA InitTranscript == ASSUME Init PROVE Transcript
BY DEF Init, Transcript, RunCovered, Covered, Users, Resumable, NewState, NoLocals,
   KnownPCs, ReplyPCs, Runs, Sess, ToSet

(* The locals that a run starts and ends with. *)
LEMMA NothingCovered ==
    /\ Resumable(NewState) /\ \A seen : Covered(NewState, seen)
    /\ \A l \in IdlePCs : \A seen : RunCovered(l, NoLocals, seen)
<1>1. Users(NewState) = {}
  BY DEF NewState, Users, ToSet
<1> QED
  BY <1>1 DEF RunCovered, Covered, Resumable, NewState, NoLocals,
     KnownPCs, ReplyPCs, IdlePCs

(* Messages are only added, what is stored is covered, and so is every run *)
(* that the step changes.                                                  *)
LEMMA TranscriptStep ==
    ASSUME TypeInv, Transcript,
           \A s \in Sessions : deletion'[s] # "deleted" =>
               /\ deletion[s] # "deleted" /\ ToSet(msgs[s]) \subseteq ToSet(msgs'[s])
               /\ \/ stored'[s] = stored[s]
                  \/ Resumable(stored'[s]) /\ Covered(stored'[s], ToSet(msgs'[s])),
           \A r \in Runs : deletion'[Sess(r)] # "deleted" =>
               \/ pc'[r] = pc[r] /\ run'[r] = run[r]
               \/ RunCovered(pc'[r], run'[r], ToSet(msgs'[Sess(r)]))
    PROVE  Transcript'
<1>1. ASSUME NEW s \in Sessions, deletion'[s] # "deleted"
      PROVE  Resumable(stored'[s]) /\ Covered(stored'[s], ToSet(msgs'[s]))
  BY <1>1 DEF Transcript, Covered
<1>2. ASSUME NEW r \in Runs, deletion'[Sess(r)] # "deleted"
      PROVE  RunCovered(pc'[r], run'[r], ToSet(msgs'[Sess(r)]))
  <2>1. Sess(r) \in Sessions
    BY DEF Runs, Sess
  <2>2. CASE pc'[r] = pc[r] /\ run'[r] = run[r]
    BY <1>2, <2>1, <2>2 DEF Transcript, RunCovered, Covered
  <2> QED
    BY <1>2, <2>2
<1> QED
  BY <1>1, <1>2 DEF Transcript

(* A run does its step; it writes neither a message nor the record. *)
LEMMA RunTranscript ==
    ASSUME TypeInv, Transcript, NEW r \in Runs, Only(r), deletion' = deletion,
           stored' = stored, \A s \in Sessions : ToSet(msgs[s]) \subseteq ToSet(msgs'[s]),
           deletion[Sess(r)] # "deleted" =>
               RunCovered(pc'[r], run'[r], ToSet(msgs'[Sess(r)]))
    PROVE  Transcript'
BY TranscriptStep DEF Only

LEMMA EntryTranscript ==
    ASSUME ChatAssumption, TypeInv, Transcript, NEW r \in Runs,
           Load(r) \/ SkipParked(r) \/ AcquireSession(r) \/ PrepareInput(r)
    PROVE  Transcript'
<1> DEFINE seen == ToSet(msgs[Sess(r)])
           live == deletion[Sess(r)] # "deleted"
           Own(l, loc) == pc' = [pc EXCEPT ![r] = l] /\ run' = [run EXCEPT ![r] = loc]
<1> USE RunTypes
<1>0. /\ Sess(r) \in Sessions /\ pc[r] \in PCs /\ run[r] \in RunLocals
      /\ run[r].mem \in AgentState /\ run[r].mem.reply \in Nat
      /\ msgs[Sess(r)] \in Seq(UserMsgs \cup Nat)
      /\ live => /\ RunCovered(pc[r], run[r], seen)
                 /\ Resumable(stored[Sess(r)]) /\ Covered(stored[Sess(r)], seen)
  BY DEF TypeInv, TypeOK, RunLocals, AgentState, Transcript
<1>1. Only(r) /\ deletion' = deletion
  BY RunStepsOwn DEF RunStep
<1>2. CASE Load(r)
  <2>1. /\ msgs' = msgs /\ stored' = stored
        /\ \/ pc'[r] = "none" /\ run'[r] = NoLocals
           \/ pc'[r] = "loaded" /\ run'[r].mem = stored[Sess(r)]
    BY <1>0, <1>2 DEF Load, Finish, Goto, redis, TypeInv, TypeOK, RunLocals
  <2>2. live => RunCovered(pc'[r], run'[r], seen)
    BY <1>0, <2>1, NothingCovered DEF RunCovered, IdlePCs, ReplyPCs
  <2> QED
    BY <1>1, <2>1, <2>2, RunTranscript
<1>3. CASE SkipParked(r)
  <2>1. msgs' = msgs /\ stored' = stored /\ pc'[r] = "none" /\ run'[r] = NoLocals
    BY <1>3 DEF SkipParked, Finish, Goto, redis, TypeInv, TypeOK
  <2> QED
    BY <1>1, <2>1, NothingCovered, RunTranscript DEF IdlePCs
<1>4. CASE AcquireSession(r)
  <2>1. /\ msgs' = msgs /\ stored' = stored
        /\ pc[r] = "loaded" /\ pc'[r] = "locked" /\ run'[r] = run[r]
    BY <1>4 DEF AcquireSession, At, Goto, TypeInv, TypeOK
  <2>2. live => RunCovered(pc'[r], run'[r], seen)
    BY <1>0, <2>1 DEF RunCovered, KnownPCs, ReplyPCs
  <2> QED
    BY <1>1, <2>1, <2>2, RunTranscript
<1>5. CASE PrepareInput(r)
  <2>1. /\ stored' = stored /\ pc[r] = "locked" /\ pc'[r] = "input"
        /\ run'[r].mem = run[r].mem /\ run'[r].job = run[r].job
    <3>1. \/ run' = run
          \/ \E n : run' = [run EXCEPT ![r].reply = n]
      BY <1>5 DEF PrepareInput
    <3>2. run'[r].mem = run[r].mem /\ run'[r].job = run[r].job
      <4>1. ASSUME NEW n, run' = [run EXCEPT ![r].reply = n]
            PROVE  run'[r].mem = run[r].mem /\ run'[r].job = run[r].job
        <5>1. run'[r] = [run[r] EXCEPT !.reply = n]
          BY <4>1, Types
        <5> QED
          BY <1>0, <5>1 DEF RunLocals
      <4> QED
        BY <3>1, <4>1
    <3>3. stored' = stored /\ pc[r] = "locked" /\ pc'[r] = "input"
      BY <1>0, <1>5 DEF PrepareInput, At, Goto, TypeInv, TypeOK
    <3> QED
      BY <3>2, <3>3
  <2>2. live => Covered(run[r].mem, seen) /\ Resumable(run[r].mem)
    BY <1>0, <2>1 DEF RunCovered, KnownPCs
  <2>3. CASE run[r].job \in UserMsgs
    <3>1. msgs' = [msgs EXCEPT ![Sess(r)] = Upsert(@, run[r].job)] /\ run' = run
      BY <1>5, <2>3 DEF PrepareInput, ChatAssumption, Inputs
    <3>2. /\ run[r].job \in ToSet(msgs'[Sess(r)]) /\ seen \subseteq ToSet(msgs'[Sess(r)])
          /\ \A s \in Sessions : ToSet(msgs[s]) \subseteq ToSet(msgs'[s])
      <4> DEFINE new == Upsert(msgs[Sess(r)], run[r].job)
      <4>1. run[r].job \in ToSet(new) /\ seen \subseteq ToSet(new)
        BY <1>0, <2>3, UpsertFacts
      <4>2. msgs' = [msgs EXCEPT ![Sess(r)] = new] /\ msgs \in [Sessions -> Seq(UserMsgs \cup Nat)]
        BY <3>1, Types
      <4> HIDE DEF new
      <4> QED
        BY <1>0, <4>1, <4>2
    <3>3. run[r].job \notin Confirms
      BY <2>3 DEF ChatAssumption
    <3>4. live => RunCovered(pc'[r], run'[r], ToSet(msgs'[Sess(r)]))
      BY <2>1, <2>2, <3>1, <3>2, <3>3 DEF RunCovered, Covered, ReplyPCs
    <3> QED
      BY <1>1, <2>1, <3>2, <3>4, RunTranscript
  <2>4. CASE run[r].job \in Confirms
    <3>1. /\ msgs' = msgs
          /\ run'[r].reply = IF run[r].mem.reply \in seen THEN run[r].mem.reply ELSE 0
      <4>1. /\ msgs' = msgs
            /\ run' = [run EXCEPT ![r].reply =
                          IF run[r].mem.reply \in seen THEN run[r].mem.reply ELSE 0]
        BY <1>5, <2>4 DEF PrepareInput, ChatAssumption, Inputs
      <4> QED
        BY <1>0, <4>1 DEF TypeInv, TypeOK, RunLocals
    <3>2. live => run'[r].reply = run'[r].mem.reply
      BY <2>1, <2>2, <3>1 DEF Covered
    <3>3. run'[r].job \notin UserMsgs
      BY <2>1, <2>4 DEF ChatAssumption
    <3>4. live => RunCovered(pc'[r], run'[r], seen)
      BY <2>1, <2>2, <3>2, <3>3 DEF RunCovered, ReplyPCs
    <3> QED
      BY <1>1, <2>1, <3>1, <3>4, RunTranscript
  <2>5. CASE run[r].job = Wake
    <3>1. msgs' = msgs /\ run' = run
      BY <1>5, <2>5 DEF PrepareInput, ChatAssumption, Inputs
    <3>2. run[r].job \notin UserMsgs /\ run[r].job \notin Confirms
      BY <2>5 DEF ChatAssumption, Inputs
    <3>3. live => RunCovered(pc'[r], run'[r], seen)
      BY <2>1, <2>2, <3>1, <3>2 DEF RunCovered, ReplyPCs
    <3> QED
      BY <1>1, <2>1, <3>1, <3>3, RunTranscript
  <2> QED
    BY <1>5, <2>3, <2>4, <2>5 DEF PrepareInput
<1> QED
  BY <1>2, <1>3, <1>4, <1>5

LEMMA ReplyTranscript ==
    ASSUME ChatAssumption, TypeInv, Transcript, NEW r \in Runs,
           RejectInput(r) \/ StartReply(r) \/ ResumeReply(r) \/ LeaveLoop(r)
             \/ ReadInbox(r) \/ AckInbox(r) \/ Think(r) \/ Act(r)
    PROVE  Transcript'
<1> DEFINE seen == ToSet(msgs[Sess(r)])
           live == deletion[Sess(r)] # "deleted"
<1> USE RunTypes
<1>0. /\ Sess(r) \in Sessions /\ pc[r] \in PCs /\ run[r] \in RunLocals
      /\ run[r].mem \in AgentState /\ run[r].mem.reply \in Nat /\ replies \in Nat
      /\ run[r].mem.context \in Seq(UserMsgs \cup Hints) /\ run[r].hints \in Seq(Hints)
      /\ run[r].job \in Inputs \cup {Wake}
      /\ live => RunCovered(pc[r], run[r], seen)
  BY DEF TypeInv, TypeOK, RunLocals, AgentState, Transcript
<1>1. Only(r) /\ deletion' = deletion
  BY RunStepsOwn DEF RunStep
<1>2. msgs' = msgs /\ stored' = stored
  <2>1. CASE RejectInput(r) \/ ReadInbox(r)
    BY <2>1 DEF RejectInput, ReadInbox, redis
  <2>2. CASE StartReply(r) \/ ResumeReply(r) \/ LeaveLoop(r)
    BY <2>2 DEF StartReply, ResumeReply, LeaveLoop
  <2>3. CASE AckInbox(r) \/ Think(r) \/ Act(r)
    BY <2>3 DEF AckInbox, Think, Act
  <2> QED
    BY <2>1, <2>2, <2>3
<1>3. ASSUME live => RunCovered(pc'[r], run'[r], seen)
      PROVE  Transcript'
  BY <1>1, <1>2, <1>3, RunTranscript
<1>4. CASE RejectInput(r)
  <2>1. pc'[r] = "trim" /\ run'[r] = NoLocals
    BY <1>4 DEF RejectInput, Unwind, Goto, TypeInv, TypeOK
  <2> QED
    BY <1>3, <2>1, NothingCovered DEF IdlePCs
<1>5. CASE StartReply(r)
  <2> DEFINE mem == Begun(run[r].mem, run[r].job, replies + 1)
             added == IF run[r].job = Wake THEN {} ELSE {run[r].job}
  <2>1. /\ pc[r] = "input" /\ pc'[r] = "loop"
        /\ run'[r].mem = mem /\ run'[r].reply = replies + 1
        /\ run[r].job \in UserMsgs \cup {Wake} /\ run[r].mem.tools # "await"
    BY <1>0, <1>5 DEF StartReply, At, Goto, TypeInv, TypeOK, RunLocals, Inputs
  <2>2. /\ mem.reply = replies + 1
        /\ mem.tools = IF run[r].job = Wake THEN run[r].mem.tools ELSE "none"
        /\ mem.context = IF run[r].job = Wake THEN run[r].mem.context
                         ELSE Append(run[r].mem.context, run[r].job)
    BY <1>0 DEF Begun, AgentState
  <2>3. ToSet(mem.context) \subseteq ToSet(run[r].mem.context) \cup added
    <3>1. CASE run[r].job = Wake
      BY <2>2, <3>1
    <3>2. CASE run[r].job \in UserMsgs /\ run[r].job # Wake
      <4>1. run[r].job \in UserMsgs \cup Hints
        BY <3>2
      <4>2. \A e : e \in ToSet(Append(run[r].mem.context, run[r].job))
                    <=> e \in ToSet(run[r].mem.context) \/ e = run[r].job
        BY <1>0, <4>1, AppendFacts
      <4> QED
        BY <2>2, <3>2, <4>2
    <3> QED
      BY <2>1, <3>1, <3>2
  <2> HIDE DEF mem
  <2>4. live => /\ Covered(run[r].mem, seen)
                /\ run[r].job \in UserMsgs => run[r].job \in seen
    BY <1>0, <2>1 DEF RunCovered, KnownPCs
  <2>5. live => Users(mem) \subseteq seen
    BY <2>1, <2>3, <2>4 DEF Covered, Users
  <2>6. mem.reply = replies + 1 /\ replies + 1 # 0 /\ mem.tools # "await"
    BY <1>0, <2>1, <2>2
  <2>7. live => RunCovered(pc'[r], run'[r], seen)
    BY <2>1, <2>5, <2>6 DEF RunCovered, Resumable, KnownPCs, ReplyPCs
  <2> QED
    BY <1>3, <2>7
<1>6. CASE ResumeReply(r)
  <2>1. /\ pc[r] = "input" /\ run[r].job \in Confirms /\ run[r].mem.tools = "await"
        /\ pc'[r] = "loop" /\ run'[r].reply = run[r].reply
        /\ run'[r].mem.reply = run[r].mem.reply
        /\ run'[r].mem.context = run[r].mem.context
    BY <1>0, <1>6 DEF ResumeReply, At, Goto, TypeInv, TypeOK, RunLocals, AgentState
  <2>2. live => /\ run[r].reply = run[r].mem.reply /\ run[r].mem.reply # 0
                /\ Users(run[r].mem) \subseteq seen
    BY <1>0, <2>1 DEF RunCovered, Covered, Resumable, KnownPCs
  <2>3. live => RunCovered(pc'[r], run'[r], seen)
    BY <2>1, <2>2 DEF RunCovered, Resumable, Users, KnownPCs, ReplyPCs
  <2> QED
    BY <1>3, <2>3
<1>7. CASE LeaveLoop(r) \/ ReadInbox(r) \/ AckInbox(r) \/ Think(r) \/ Act(r)
  <2>1. /\ pc[r] \in ReplyPCs /\ pc'[r] \in ReplyPCs
        /\ run'[r].reply = run[r].reply /\ run'[r].mem.reply = run[r].mem.reply
        /\ Users(run'[r].mem) = Users(run[r].mem)
    <3>1. CASE LeaveLoop(r) \/ Think(r) \/ Act(r)
      BY <3>1, ToolSteps DEF Users
    <3>2. CASE ReadInbox(r)
      BY <1>0, <3>2 DEF ReadInbox, At, Goto, TypeInv, TypeOK, RunLocals, ReplyPCs, Users
    <3>3. CASE AckInbox(r)
      <4> DEFINE c == run[r].mem.context \o run[r].hints
      <4>1. /\ pc[r] \in ReplyPCs /\ pc'[r] \in ReplyPCs
            /\ run'[r].reply = run[r].reply /\ run'[r].mem.reply = run[r].mem.reply
            /\ run'[r].mem.context = c
        BY <1>0, <3>3 DEF AckInbox, At, Goto, TypeInv, TypeOK, RunLocals, AgentState, ReplyPCs
      <4>2. run[r].hints \in Seq(UserMsgs \cup Hints)
        <5>1. Seq(Hints) \subseteq Seq(UserMsgs \cup Hints)
          OBVIOUS
        <5> QED
          BY <1>0, <5>1
      <4>3. ToSet(c) = ToSet(run[r].mem.context) \cup ToSet(run[r].hints)
        BY <1>0, <4>2, ConcatFacts
      <4>4. ToSet(run[r].hints) \cap UserMsgs = {}
        BY <1>0 DEF ToSet, ChatAssumption, Inputs
      <4> HIDE DEF c
      <4> QED
        BY <4>1, <4>3, <4>4 DEF Users
    <3> QED
      BY <1>7, <3>1, <3>2, <3>3
  <2>2. live => RunCovered(pc'[r], run'[r], seen)
    BY <1>0, <2>1 DEF RunCovered, Resumable, Users, KnownPCs, ReplyPCs
  <2> QED
    BY <1>3, <2>2
<1> QED
  BY <1>4, <1>5, <1>6, <1>7

(* The steps after which a run has no locals any more. *)
LEMMA EndSteps ==
    ASSUME TypeInv, NEW r \in Runs,
           TrimLog(r) \/ ReleaseSession(r) \/ EndRun(r) \/ Interrupted(r)
    PROVE  /\ pc'[r] \in IdlePCs /\ run'[r] = NoLocals
           /\ msgs' = msgs /\ stored' = stored /\ inbox' = inbox
<1> USE Types DEF At, Goto, IdlePCs
<1>1. CASE TrimLog(r)
  BY <1>1 DEF TrimLog, TypeInv, LocalsSound
<1>2. CASE ReleaseSession(r)
  BY <1>2 DEF ReleaseSession, TypeInv, LocalsSound
<1>3. CASE EndRun(r)
  BY <1>3 DEF EndRun, Finish, redis
<1>4. CASE Interrupted(r)
  BY <1>4 DEF Interrupted
<1> QED
  BY <1>1, <1>2, <1>3, <1>4

LEMMA ExitTranscript ==
    ASSUME ChatAssumption, TypeInv, Transcript, NEW r \in Runs,
           SaveReply(r) \/ GetRecord(r) \/ SetRecord(r) \/ TrimLog(r)
             \/ ReleaseSession(r) \/ EndRun(r) \/ Cancelled(r) \/ RunFails(r)
    PROVE  Transcript'
<1> DEFINE seen == ToSet(msgs[Sess(r)])
           live == deletion[Sess(r)] # "deleted"
<1> USE RunTypes
<1>0. /\ Sess(r) \in Sessions /\ pc \in [Runs -> PCs] /\ run \in [Runs -> RunLocals]
      /\ run[r].mem \in AgentState /\ run[r].reply \in Nat
      /\ msgs \in [Sessions -> Seq(UserMsgs \cup Nat)]
      /\ live => RunCovered(pc[r], run[r], seen)
  BY DEF TypeInv, TypeOK, RunLocals, Transcript
<1>1. Only(r) /\ deletion' = deletion
  BY RunStepsOwn DEF RunStep
<1>2. CASE SaveReply(r)
  <2> DEFINE new == Upsert(msgs[Sess(r)], run[r].reply)
  <2>1. /\ stored' = stored /\ pc[r] = "save" /\ pc'[r] = "persist" /\ run'[r] = run[r]
        /\ msgs' = IF run[r].reply = 0 THEN msgs ELSE [msgs EXCEPT ![Sess(r)] = new]
    BY <1>0, <1>2 DEF SaveReply, At, Goto
  <2>2. run[r].reply \in ToSet(new) /\ seen \subseteq ToSet(new)
    BY <1>0, UpsertFacts
  <2> HIDE DEF new
  <2>3. /\ \A s \in Sessions : ToSet(msgs[s]) \subseteq ToSet(msgs'[s])
        /\ run[r].reply # 0 => run[r].reply \in ToSet(msgs'[Sess(r)])
    BY <1>0, <2>1, <2>2
  <2>4. live => RunCovered(pc'[r], run'[r], ToSet(msgs'[Sess(r)]))
    BY <1>0, <2>1, <2>3 DEF RunCovered, Covered, KnownPCs, ReplyPCs
  <2> QED
    BY <1>1, <2>1, <2>3, <2>4, RunTranscript
<1>3. CASE GetRecord(r)
  <2>1. /\ msgs' = msgs /\ stored' = stored /\ pc[r] = "persist"
        /\ \/ pc'[r] = "write" /\ run'[r] = run[r]
           \/ pc'[r] = "trim" /\ run'[r] = NoLocals
    BY <1>0, <1>3 DEF GetRecord, Unwind, At, Goto, redis
  <2>2. live => RunCovered(pc'[r], run'[r], seen)
    BY <1>0, <2>1, NothingCovered DEF RunCovered, KnownPCs, ReplyPCs, IdlePCs
  <2> QED
    BY <1>1, <2>1, <2>2, RunTranscript
<1>4. CASE SetRecord(r)
  <2>1. /\ msgs' = msgs /\ pc[r] = "write" /\ pc'[r] = "trim" /\ run'[r] = NoLocals
        /\ stored' = [stored EXCEPT ![Sess(r)] = run[r].mem]
    BY <1>0, <1>4 DEF SetRecord, Unwind, At, Goto
  <2>2. live => Resumable(run[r].mem) /\ Covered(run[r].mem, seen)
    BY <1>0, <2>1 DEF RunCovered, KnownPCs
  <2>3. RunCovered(pc'[r], run'[r], seen)
    BY <2>1, NothingCovered DEF IdlePCs
  <2>4. \A s \in Sessions : deletion[s] # "deleted" =>
          \/ stored'[s] = stored[s]
          \/ Resumable(stored'[s]) /\ Covered(stored'[s], ToSet(msgs[s]))
    BY <2>1, <2>2, Types
  <2>5. \A q \in Runs : \/ pc'[q] = pc[q] /\ run'[q] = run[q]
                        \/ RunCovered(pc'[q], run'[q], ToSet(msgs[Sess(q)]))
    BY <1>1, <2>3 DEF Only
  <2> QED
    BY <1>1, <2>1, <2>4, <2>5, TranscriptStep
<1>5. CASE TrimLog(r) \/ ReleaseSession(r) \/ EndRun(r) \/ Interrupted(r)
  BY <1>1, <1>5, EndSteps, NothingCovered, RunTranscript
<1> QED
  BY <1>2, <1>3, <1>4, <1>5 DEF Cancelled, RunFails

(* A run is started with an input, on a state that remembers nothing. *)
LEMMA SpawnStep ==
    ASSUME TypeInv, NEW r \in Runs, NEW x, pc[r] = "none", Spawn(r, x)
    PROVE  /\ Only(r) /\ pc'[r] = "load"
           /\ run'[r].mem = NewState /\ run'[r].hints = <<>> /\ run'[r].job = x
<1>1. run[r] = NoLocals /\ run \in [Runs -> RunLocals] /\ pc \in [Runs -> PCs]
  BY DEF TypeInv, TypeOK, LocalsSound, IdlePCs
<1>2. /\ run' = [run EXCEPT ![r] = [run[r] EXCEPT !.job = x]]
      /\ pc' = [pc EXCEPT ![r] = "load"]
  BY DEF Spawn
<1> QED
  BY <1>1, <1>2 DEF Only, NoLocals

LEMMA SpawnTranscript ==
    ASSUME TypeInv, Transcript, NEW r \in Runs, NEW x, pc[r] = "none", Spawn(r, x),
           deletion' = deletion, UNCHANGED redis
    PROVE  Transcript'
<1>1. \A seen : RunCovered(pc'[r], run'[r], seen)
  BY SpawnStep, NothingCovered DEF RunCovered, KnownPCs, ReplyPCs
<1> QED
  BY <1>1, SpawnStep, RunTranscript DEF redis

LEMMA NextTranscript ==
    ASSUME ChatAssumption, TypeInv, Transcript, [Next]_vars
    PROVE  Transcript'
<1> USE DEF deleting
<1>1. ASSUME UNCHANGED <<stored, msgs, pc, run, deletion>>
      PROVE  Transcript'
  BY <1>1, TranscriptStep
<1>2. ASSUME NEW r \in Runs, RunStep(r) \/ RunFails(r)
      PROVE  Transcript'
  BY <1>2, EntryTranscript, ReplyTranscript, ExitTranscript DEF RunStep
<1>3. ASSUME NEW r \in Runs, CancelSession(r)
      PROVE  Transcript'
  BY <1>1, <1>3 DEF CancelSession, redis
<1>4. ASSUME NEW h \in Hints, ProducerStep(h) \/ ProducerFails(h)
      PROVE  Transcript'
  BY <1>1, <1>4 DEF ProducerStep, PushInbox, EnqueueWakeup, SignalWakeup,
     ProducerFails, redis, runs
<1>5. ASSUME NEW p \in Procs, NEW x \in Inputs, PostChat(p, x)
      PROVE  Transcript'
  BY <1>5, RunTypes, SpawnTranscript DEF PostChat
<1>6. ASSUME NEW p \in Procs,
             ReadQueue(p) \/ AckQueue(p) \/ CheckRunning(p) \/ DispatcherFails(p)
      PROVE  Transcript'
  BY <1>1, <1>6 DEF ReadQueue, AckQueue, CheckRunning, DispatcherFails, redis, runs, clients
<1>7. ASSUME NEW p \in Procs, SpawnWakeup(p)
      PROVE  Transcript'
  <2> DEFINE r == <<p, SessionOf[Entry(p)]>>
  <2>1. r \in Runs /\ deletion' = deletion /\ UNCHANGED redis
    BY <1>7, NextEntryTypes, RunTypes DEF SpawnWakeup, clients
  <2>2. CASE pc[r] = "none" /\ Spawn(r, Wake)
    BY <2>1, <2>2, SpawnTranscript
  <2>3. CASE UNCHANGED <<pc, run>>
    BY <1>1, <2>1, <2>3 DEF redis
  <2> QED
    BY <1>7, <2>2, <2>3 DEF SpawnWakeup
<1>8. ASSUME NEW p \in Procs, Shutdown(p) \/ Stopped(p) \/ Restart(p)
      PROVE  Transcript'
  BY <1>1, <1>8 DEF Shutdown, Stopped, Restart, redis, runs, clients
<1>9. ASSUME NEW p \in Procs, Crash(p)
      PROVE  Transcript'
  <2>1. /\ pc' = [r \in Runs |-> IF r[1] = p THEN "none" ELSE pc[r]]
        /\ run' = [r \in Runs |-> IF r[1] = p THEN NoLocals ELSE run[r]]
        /\ UNCHANGED <<stored, msgs, deletion>>
    BY <1>9 DEF Crash
  <2>2. \A r \in Runs : \/ pc'[r] = pc[r] /\ run'[r] = run[r]
                        \/ RunCovered(pc'[r], run'[r], ToSet(msgs'[Sess(r)]))
    BY <2>1, NothingCovered DEF IdlePCs
  <2> QED
    BY <2>1, <2>2, TranscriptStep
<1>10. ASSUME NEW s \in Sessions, ExpireLease(s) \/ PublishCancel(s)
       PROVE  Transcript'
  <2>1. /\ UNCHANGED <<stored, msgs, pc, run>>
        /\ \A t \in Sessions : deletion'[t] # "deleted" => deletion[t] # "deleted"
    BY <1>10 DEF ExpireLease, PublishCancel, redis, runs, clients, TypeInv, TypeOK
  <2> QED
    BY <2>1, TranscriptStep
<1>11. ASSUME NEW s \in Sessions, DeleteRecord(s)
       PROVE  Transcript'
  <2>1. /\ UNCHANGED <<msgs, pc, run>> /\ stored' = [stored EXCEPT ![s] = NewState]
        /\ \A t \in Sessions : deletion'[t] # "deleted" => deletion[t] # "deleted"
    BY <1>11 DEF DeleteRecord, runs, TypeInv, TypeOK
  <2>2. \A t \in Sessions : \/ stored'[t] = stored[t]
                            \/ /\ Resumable(stored'[t])
                               /\ Covered(stored'[t], ToSet(msgs'[t]))
    BY <2>1, NothingCovered, Types
  <2> QED
    BY <2>1, <2>2, TranscriptStep
<1>12. ASSUME NEW s \in Sessions, PurgeSession(s)
       PROVE  Transcript'
  <2>1. /\ UNCHANGED <<stored, pc, run>> /\ msgs' = [msgs EXCEPT ![s] = <<>>]
        /\ deletion' = [deletion EXCEPT ![s] = "deleted"]
    BY <1>12 DEF PurgeSession, runs
  <2>2. \A t \in Sessions : deletion'[t] # "deleted" =>
          deletion[t] # "deleted" /\ msgs'[t] = msgs[t]
    BY <2>1 DEF TypeInv, TypeOK
  <2> QED
    BY <2>1, <2>2, TranscriptStep
<1>13. CASE UNCHANGED vars
  BY <1>1, <1>13 DEF vars, redis, runs, clients
<1> QED
  BY <1>2, <1>3, <1>4, <1>5, <1>6, <1>7, <1>8, <1>9, <1>10, <1>11, <1>12, <1>13
  DEF Next, DispatchStep, DeleteStep

(* Messages are saved first and the state last, whatever interrupts a run  *)
(* between the two: until its list is purged, a session remembers no user  *)
(* message and no reply that the list lacks.                               *)
THEOREM TranscriptKept == Spec => []TranscriptCoversState
<1>1. Init => TypeInv /\ Transcript
  BY ChatAssumption, InitTypes, InitTranscript
<1>2. TypeInv /\ Transcript /\ [Next]_vars => TypeInv' /\ Transcript'
  BY ChatAssumption, NextTypes, NextTranscript
<1>3. TypeInv /\ Transcript => TranscriptCoversState
  BY DEF Transcript, Covered, Users, TranscriptCoversState
<1> QED
  BY <1>1, <1>2, <1>3, PTL DEF Spec

(* A run that is resumed by a confirmation always finds the reply it       *)
(* continues.                                                              *)
THEOREM RepliesFound == Spec => []ContinuedReplyFound
<1>1. Init => TypeInv /\ Transcript
  BY ChatAssumption, InitTypes, InitTranscript
<1>2. TypeInv /\ Transcript /\ [Next]_vars => TypeInv' /\ Transcript'
  BY ChatAssumption, NextTypes, NextTranscript
<1>3. TypeInv /\ Transcript => ContinuedReplyFound
  <2>1. ASSUME TypeInv, Transcript, NEW r \in Runs, pc[r] \in ReplyPCs
        PROVE  run[r].reply # 0 \/ deletion[Sess(r)] = "deleted"
    BY <2>1 DEF Transcript, RunCovered
  <2> QED
    BY <2>1 DEF ReplyPCs, ContinuedReplyFound
<1> QED
  BY <1>1, <1>2, <1>3, PTL DEF Spec

------------------------------------------------------------------------------
(* Delivery *)

EntryPCs == {"load", "loaded", "locked", "input"}

(* What clients have sent: nothing else is in an inbox or a context. *)
Sent == posted \cup {h \in Hints : stage[h] # "new"}

(* Entries that were sent, each once, and that the box does not hold. *)
Clean(entries, sent, box) ==
    /\ IsInjective(entries) /\ ToSet(entries) \subseteq sent
    /\ ToSet(entries) \cap ToSet(box) = {}

(* A run about to add its user message to the context. *)
Fresh(r) == pc[r] \in EntryPCs /\ run[r].job \in UserMsgs

Delivery ==
    /\ \A s \in Sessions :
          /\ IsInjective(inbox[s]) /\ ToSet(inbox[s]) \subseteq Sent
          /\ Clean(stored[s].context, Sent, inbox[s])
    /\ \A r \in Runs :
          /\ Clean(run[r].mem.context, Sent, inbox[Sess(r)])
          /\ IsInjective(run[r].hints) /\ ToSet(run[r].hints) \subseteq Sent
          /\ ToSet(run[r].hints) \cap ToSet(run[r].mem.context) = {}
          /\ run[r].job \in UserMsgs => run[r].job \in posted
    /\ \A r \in Runs : Fresh(r) =>
          /\ \A s \in Sessions : run[r].job \notin ToSet(stored[s].context)
          /\ \A q \in Runs : /\ run[r].job \notin ToSet(run[q].mem.context)
                             /\ q # r => run[q].job # run[r].job

LEMMA EmptyFacts ==
    /\ ToSet(<<>>) = {} /\ IsInjective(<<>>)
    /\ NewState.context = <<>> /\ NoLocals.mem = NewState /\ NoLocals.hints = <<>>
    /\ NoLocals.job = Wake /\ (ChatAssumption => Wake \notin UserMsgs)
BY DEF ToSet, IsInjective, NewState, NoLocals, ChatAssumption, Inputs

LEMMA InitDelivery == ASSUME ChatAssumption, Init PROVE Delivery
BY EmptyFacts, RunTypes DEF Init, Delivery, Clean, Fresh

(* No context, no hands and no inbox gain anything: a run may take over    *)
(* what is stored, the store what a run remembers, both may forget.        *)
LEMMA DeliveryStep ==
    ASSUME ChatAssumption, TypeInv, Delivery, Sent \subseteq Sent', posted \subseteq posted',
           \A s \in Sessions :
               /\ IsInjective(inbox'[s]) /\ ToSet(inbox'[s]) \subseteq ToSet(inbox[s])
               /\ \/ stored'[s].context \in {stored[s].context, <<>>}
                  \/ \E r \in Runs : Sess(r) = s /\ stored'[s].context = run[r].mem.context,
           \A r \in Runs :
               /\ \/ /\ run'[r].mem.context = run[r].mem.context
                     /\ run'[r].hints \in {run[r].hints, <<>>}
                  \/ /\ run'[r].mem.context \in {stored[Sess(r)].context, <<>>}
                     /\ run'[r].hints = <<>>
               /\ run'[r].job \in {run[r].job, Wake}
               /\ pc'[r] \in EntryPCs => pc[r] \in EntryPCs \/ run'[r].job = Wake
    PROVE  Delivery'
<1> USE EmptyFacts, RunTypes
<1>1. ASSUME NEW s \in Sessions
      PROVE  /\ IsInjective(inbox'[s]) /\ ToSet(inbox'[s]) \subseteq Sent'
             /\ Clean(stored'[s].context, Sent', inbox'[s])
  <2>1. /\ Clean(stored[s].context, Sent, inbox[s]) /\ ToSet(inbox[s]) \subseteq Sent
        /\ \A r \in Runs : Clean(run[r].mem.context, Sent, inbox[Sess(r)])
    BY DEF Delivery
  <2> QED
    BY <2>1 DEF Clean
<1>2. ASSUME NEW r \in Runs
      PROVE  /\ Clean(run'[r].mem.context, Sent', inbox'[Sess(r)])
             /\ IsInjective(run'[r].hints) /\ ToSet(run'[r].hints) \subseteq Sent'
             /\ ToSet(run'[r].hints) \cap ToSet(run'[r].mem.context) = {}
             /\ run'[r].job \in UserMsgs => run'[r].job \in posted'
  <2>1. /\ Clean(run[r].mem.context, Sent, inbox[Sess(r)])
        /\ Clean(stored[Sess(r)].context, Sent, inbox[Sess(r)])
        /\ IsInjective(run[r].hints) /\ ToSet(run[r].hints) \subseteq Sent
        /\ ToSet(run[r].hints) \cap ToSet(run[r].mem.context) = {}
        /\ run[r].job \in UserMsgs => run[r].job \in posted
        /\ Sess(r) \in Sessions
    BY DEF Delivery
  <2>2. Clean(run'[r].mem.context, Sent', inbox'[Sess(r)])
    BY <2>1 DEF Clean
  <2> QED
    BY <2>1, <2>2
<1>3. ASSUME NEW r \in Runs, Fresh(r)'
      PROVE  /\ \A s \in Sessions : run'[r].job \notin ToSet(stored'[s].context)
             /\ \A q \in Runs : /\ run'[r].job \notin ToSet(run'[q].mem.context)
                                /\ q # r => run'[q].job # run'[r].job
  <2>1. Fresh(r) /\ run'[r].job = run[r].job /\ run[r].job # Wake
    BY <1>3 DEF Fresh
  <2>2. \A s \in Sessions : run[r].job \notin ToSet(stored[s].context)
    BY <2>1 DEF Delivery
  <2>3. \A q \in Runs : /\ run[r].job \notin ToSet(run[q].mem.context)
                        /\ q # r => run[q].job # run[r].job
    BY <2>1 DEF Delivery
  <2>4. ASSUME NEW s \in Sessions PROVE run'[r].job \notin ToSet(stored'[s].context)
    BY <2>1, <2>2, <2>3
  <2>5. ASSUME NEW q \in Runs
        PROVE  /\ run'[r].job \notin ToSet(run'[q].mem.context)
               /\ q # r => run'[q].job # run'[r].job
    BY <2>1, <2>2, <2>3
  <2> QED
    BY <2>4, <2>5
<1> QED
  BY <1>1, <1>2, <1>3 DEF Delivery

(* ... in a step of one run, which reads no inbox and starts no reply. *)
LEMMA RunDelivery ==
    ASSUME ChatAssumption, TypeInv, Delivery, NEW r \in Runs, Only(r),
           posted' = posted, stage' = stage, inbox' = inbox,
           stored' = stored \/ stored' = [stored EXCEPT ![Sess(r)] = run[r].mem],
           \/ /\ run'[r].mem.context = run[r].mem.context
              /\ run'[r].hints \in {run[r].hints, <<>>}
           \/ /\ run'[r].mem.context \in {stored[Sess(r)].context, <<>>}
              /\ run'[r].hints = <<>>,
           run'[r].job \in {run[r].job, Wake},
           pc'[r] \in EntryPCs => pc[r] \in EntryPCs \/ run'[r].job = Wake
    PROVE  Delivery'
<1>1. Sent' = Sent
  BY DEF Sent
<1>2. \A s \in Sessions : IsInjective(inbox[s])
  BY DEF Delivery
<1>3. \A s \in Sessions :
        \/ stored'[s].context \in {stored[s].context, <<>>}
        \/ \E q \in Runs : Sess(q) = s /\ stored'[s].context = run[q].mem.context
  <2>1. ASSUME NEW s \in Sessions, s # Sess(r)
        PROVE  stored'[s].context = stored[s].context
    BY <2>1, Types
  <2>2. stored'[Sess(r)].context \in {stored[Sess(r)].context, run[r].mem.context}
    BY RunTypes, Types
  <2> QED
    BY <2>1, <2>2
<1>4. ASSUME NEW q \in Runs
      PROVE  /\ \/ /\ run'[q].mem.context = run[q].mem.context
                   /\ run'[q].hints \in {run[q].hints, <<>>}
                \/ /\ run'[q].mem.context \in {stored[Sess(q)].context, <<>>}
                   /\ run'[q].hints = <<>>
             /\ run'[q].job \in {run[q].job, Wake}
             /\ pc'[q] \in EntryPCs => pc[q] \in EntryPCs \/ run'[q].job = Wake
  <2>1. CASE q = r
    BY <2>1
  <2>2. CASE q # r
    BY <2>2 DEF Only
  <2> QED
    BY <2>1, <2>2
<1> QED
  BY <1>1, <1>2, <1>3, <1>4, DeliveryStep

(* The steps that leave the inboxes and the context alone. *)
LEMMA QuietSteps ==
    ASSUME ChatAssumption, TypeInv, Delivery, NEW r \in Runs,
           RunStep(r) \/ RunFails(r), ~StartReply(r), ~ReadInbox(r), ~AckInbox(r)
    PROVE  Delivery'
<1>0. /\ Sess(r) \in Sessions /\ pc \in [Runs -> PCs] /\ run \in [Runs -> RunLocals]
      /\ run[r].mem \in AgentState /\ stored[Sess(r)] \in AgentState
  BY RunTypes DEF TypeInv, TypeOK, RunLocals
<1>1. Only(r) /\ posted' = posted /\ stage' = stage
  BY RunStepsOwn
<1>2. CASE Load(r)
  <2>1. /\ UNCHANGED redis /\ pc[r] = "load" /\ run[r].hints = <<>>
        /\ \/ run'[r] = NoLocals
           \/ run'[r] = [run[r] EXCEPT !.mem = stored[Sess(r)]]
    BY <1>0, <1>2 DEF Load, Finish, At, Goto, TypeInv, LocalsSound
  <2>2. CASE run'[r] = NoLocals
    BY <1>1, <2>1, <2>2, EmptyFacts, RunDelivery DEF redis
  <2>3. CASE run'[r] = [run[r] EXCEPT !.mem = stored[Sess(r)]]
    <3>1. /\ run'[r].mem = stored[Sess(r)] /\ run'[r].hints = <<>>
          /\ run'[r].job = run[r].job /\ pc[r] \in EntryPCs
      BY <1>0, <2>1, <2>3, MemFields DEF EntryPCs
    <3> QED
      BY <1>1, <2>1, <3>1, RunDelivery DEF redis
  <2> QED
    BY <2>1, <2>2, <2>3
<1>3. CASE SkipParked(r) \/ RejectInput(r)
  <2>1. run'[r] = NoLocals /\ UNCHANGED redis
    BY <1>0, <1>3 DEF SkipParked, RejectInput, Finish, Unwind
  <2> QED
    BY <1>1, <2>1, EmptyFacts, RunDelivery DEF redis
<1>4. CASE AcquireSession(r)
  <2>1. /\ run' = run /\ stored' = stored /\ inbox' = inbox
        /\ pc[r] \in EntryPCs
    BY <1>4 DEF AcquireSession, At, EntryPCs
  <2> QED
    BY <1>1, <2>1, RunDelivery
<1>5. CASE PrepareInput(r)
  <2>1. /\ stored' = stored /\ inbox' = inbox /\ pc[r] \in EntryPCs
        /\ \/ run' = run
           \/ run' = [run EXCEPT ![r] = [run[r] EXCEPT !.reply =
                        IF run[r].mem.reply \in ToSet(msgs[Sess(r)])
                        THEN run[r].mem.reply ELSE 0]]
    BY <1>5 DEF PrepareInput, At, EntryPCs
  <2>2. ASSUME NEW n, run' = [run EXCEPT ![r] = [run[r] EXCEPT !.reply = n]]
        PROVE  run'[r].mem = run[r].mem /\ run'[r].job = run[r].job /\ run'[r].hints = run[r].hints
    <3>1. run'[r] = [run[r] EXCEPT !.reply = n]
      BY <1>0, <2>2
    <3> QED
      BY <1>0, <3>1 DEF RunLocals
  <2>3. run'[r].mem = run[r].mem /\ run'[r].job = run[r].job /\ run'[r].hints = run[r].hints
    BY <2>1, <2>2
  <2> QED
    BY <1>1, <2>1, <2>3, RunDelivery
<1>6. CASE ResumeReply(r)
  <2>1. PICK t \in {"none", "exec", "await"} :
          run' = [run EXCEPT ![r] = [run[r] EXCEPT !.mem = [run[r].mem EXCEPT !.tools = t]]]
    BY <1>6 DEF ResumeReply
  <2> DEFINE m == [run[r].mem EXCEPT !.tools = t]
  <2>2. m \in AgentState /\ m.context = run[r].mem.context
    BY <1>0, ToolsFields
  <2>3. run'[r] = [run[r] EXCEPT !.mem = m]
    BY <1>0, <2>1
  <2> HIDE DEF m
  <2>4. /\ run'[r].mem.context = run[r].mem.context
        /\ run'[r].job = run[r].job /\ run'[r].hints = run[r].hints
    BY <1>0, <2>2, <2>3, MemFields
  <2>5. stored' = stored /\ inbox' = inbox /\ pc[r] \in EntryPCs
    BY <1>6 DEF ResumeReply, At, EntryPCs
  <2> QED
    BY <1>1, <2>4, <2>5, RunDelivery
<1>7. CASE LeaveLoop(r) \/ Think(r) \/ Act(r)
  <2>1. stored' = stored /\ inbox' = inbox
    BY <1>7 DEF LeaveLoop, Think, Act
  <2>2. pc'[r] \notin EntryPCs
    BY <1>7, ToolSteps DEF ReplyPCs, EntryPCs
  <2> QED
    BY <1>1, <1>7, <2>1, <2>2, ToolSteps, RunDelivery
<1>8. CASE SaveReply(r)
  <2>1. run' = run /\ stored' = stored /\ inbox' = inbox /\ pc'[r] \notin EntryPCs
    BY <1>0, <1>8 DEF SaveReply, Goto, EntryPCs
  <2> QED
    BY <1>1, <2>1, RunDelivery
<1>9. CASE GetRecord(r)
  <2>1. /\ UNCHANGED redis /\ pc'[r] \notin EntryPCs
        /\ run'[r] = run[r] \/ run'[r] = NoLocals
    BY <1>0, <1>9 DEF GetRecord, Unwind, Goto, EntryPCs
  <2> QED
    BY <1>1, <2>1, EmptyFacts, RunDelivery DEF redis
<1>10. CASE SetRecord(r)
  <2>1. /\ inbox' = inbox /\ run'[r] = NoLocals
        /\ stored' = [stored EXCEPT ![Sess(r)] = run[r].mem]
    BY <1>0, <1>10 DEF SetRecord, Unwind
  <2> QED
    BY <1>1, <2>1, EmptyFacts, RunDelivery
<1>11. CASE TrimLog(r) \/ ReleaseSession(r) \/ EndRun(r) \/ Interrupted(r)
  BY <1>1, <1>11, EndSteps, EmptyFacts, RunDelivery
<1> QED
  BY <1>2, <1>3, <1>4, <1>5, <1>6, <1>7, <1>8, <1>9, <1>10, <1>11
  DEF RunStep, RunFails, Cancelled

(* The three steps of a run that add to its context or its hands. *)
LEMMA StartDelivery ==
    ASSUME ChatAssumption, TypeInv, Delivery, NEW r \in Runs, StartReply(r)
    PROVE  Delivery'
<1> DEFINE x == run[r].job
           mem == Begun(run[r].mem, x, replies + 1)
<1>0. /\ pc \in [Runs -> PCs] /\ run \in [Runs -> RunLocals]
      /\ run[r].mem \in AgentState /\ run[r].mem.context \in Seq(UserMsgs \cup Hints)
      /\ x \in Inputs \cup {Wake} /\ Sess(r) \in Sessions
  BY RunTypes DEF TypeInv, TypeOK, RunLocals, AgentState
<1>1. Only(r) /\ posted' = posted /\ stage' = stage /\ Sent' = Sent
  BY RunStepsOwn DEF RunStep, Sent
<1>2. /\ pc[r] = "input" /\ run[r].hints = <<>> /\ pc'[r] = "loop"
      /\ x \in UserMsgs \cup {Wake} /\ inbox' = inbox /\ stored' = stored
      /\ run' = [run EXCEPT ![r] = [[run[r] EXCEPT !.mem = mem] EXCEPT !.reply = replies + 1]]
  BY <1>0 DEF StartReply, At, Goto, TypeInv, LocalsSound, Inputs
<1>3. mem.context = IF x = Wake THEN run[r].mem.context ELSE Append(run[r].mem.context, x)
  BY <1>0 DEF Begun, AgentState
<1> HIDE DEF mem
<1>4. run'[r].mem = mem /\ run'[r].job = x /\ run'[r].hints = run[r].hints
  BY <1>0, <1>2 DEF RunLocals
<1>5. CASE x = Wake
  BY <1>1, <1>2, <1>3, <1>4, <1>5, RunDelivery DEF EntryPCs
<1>6. CASE x \in UserMsgs /\ x # Wake
  <2>1. /\ Fresh(r) /\ x \in posted /\ x \in Sent
        /\ Clean(run[r].mem.context, Sent, inbox[Sess(r)])
    BY <1>2, <1>6 DEF Fresh, EntryPCs, Delivery, Sent
  <2>2. /\ \A s \in Sessions : x \notin ToSet(stored[s].context)
        /\ \A q \in Runs : /\ x \notin ToSet(run[q].mem.context)
                           /\ q # r => run[q].job # x
    BY <2>1 DEF Delivery
  <2>3. x \notin ToSet(inbox[Sess(r)])
    BY <1>0, <1>6, Types DEF ToSet, ChatAssumption, Inputs
  <2>4. /\ IsInjective(mem.context)
        /\ \A e : e \in ToSet(mem.context) <=> e \in ToSet(run[r].mem.context) \/ e = x
    <3>1. x \in UserMsgs \cup Hints
      BY <1>6
    <3> QED
      BY <1>0, <1>3, <1>6, <2>1, <2>2, <3>1, AppendFacts DEF Clean
  <2>5. Clean(mem.context, Sent, inbox[Sess(r)])
    BY <2>1, <2>3, <2>4 DEF Clean
  <2>6. \A q \in Runs : Fresh(q)' => q # r /\ Fresh(q) /\ run'[q] = run[q]
    BY <1>1, <1>2 DEF Fresh, Only, EntryPCs
  <2>7. ASSUME NEW q \in Runs, Fresh(q)'
        PROVE  /\ \A s \in Sessions : run'[q].job \notin ToSet(stored'[s].context)
               /\ \A t \in Runs : /\ run'[q].job \notin ToSet(run'[t].mem.context)
                                  /\ t # q => run'[t].job # run'[q].job
    <3>1. q # r /\ Fresh(q) /\ run'[q] = run[q] /\ run[q].job # x
      BY <2>2, <2>6, <2>7
    <3>2. /\ \A s \in Sessions : run[q].job \notin ToSet(stored[s].context)
          /\ \A t \in Runs : /\ run[q].job \notin ToSet(run[t].mem.context)
                             /\ t # q => run[t].job # run[q].job
      BY <3>1 DEF Delivery
    <3>3. ASSUME NEW t \in Runs
          PROVE  /\ run'[q].job \notin ToSet(run'[t].mem.context)
                 /\ t # q => run'[t].job # run'[q].job
      <4>1. CASE t = r
        BY <1>4, <2>4, <3>1, <3>2, <4>1
      <4>2. CASE t # r
        BY <1>1, <3>1, <3>2, <4>2 DEF Only
      <4> QED
        BY <4>1, <4>2
    <3> QED
      BY <1>2, <3>1, <3>2, <3>3
  <2>8. ASSUME NEW q \in Runs
        PROVE  /\ Clean(run'[q].mem.context, Sent', inbox'[Sess(q)])
               /\ IsInjective(run'[q].hints) /\ ToSet(run'[q].hints) \subseteq Sent'
               /\ ToSet(run'[q].hints) \cap ToSet(run'[q].mem.context) = {}
               /\ run'[q].job \in UserMsgs => run'[q].job \in posted'
    <3>1. CASE q = r
      BY <1>1, <1>2, <1>4, <2>1, <2>5, <3>1, EmptyFacts
    <3>2. CASE q # r
      <4>1. run'[q] = run[q] /\ inbox' = inbox /\ Sent' = Sent /\ posted' = posted
        BY <1>1, <1>2, <3>2 DEF Only
      <4> QED
        BY <4>1 DEF Delivery
    <3> QED
      BY <3>1, <3>2
  <2>9. \A s \in Sessions : /\ IsInjective(inbox'[s]) /\ ToSet(inbox'[s]) \subseteq Sent'
                            /\ Clean(stored'[s].context, Sent', inbox'[s])
    BY <1>1, <1>2 DEF Delivery
  <2> QED
    BY <2>7, <2>8, <2>9 DEF Delivery
<1> QED
  BY <1>2, <1>5, <1>6

(* What a run that has no fresh input gets into its hands or its context   *)
(* comes from the inbox of its session, which only loses entries.          *)
LEMMA InboxDelivery ==
    ASSUME ChatAssumption, TypeInv, Delivery, NEW r \in Runs, Only(r),
           posted' = posted, stage' = stage, stored' = stored,
           pc'[r] \notin EntryPCs, run'[r].job = run[r].job,
           \A s \in Sessions :
               IsInjective(inbox'[s]) /\ ToSet(inbox'[s]) \subseteq ToSet(inbox[s]),
           Clean(run'[r].mem.context, Sent, inbox'[Sess(r)]),
           IsInjective(run'[r].hints), ToSet(run'[r].hints) \subseteq Sent,
           ToSet(run'[r].hints) \cap ToSet(run'[r].mem.context) = {},
           ToSet(run'[r].mem.context) \subseteq ToSet(run[r].mem.context) \cup Hints
    PROVE  Delivery'
<1>1. Sent' = Sent
  BY DEF Sent
<1>2. ASSUME NEW s \in Sessions
      PROVE  /\ IsInjective(inbox'[s]) /\ ToSet(inbox'[s]) \subseteq Sent'
             /\ Clean(stored'[s].context, Sent', inbox'[s])
  BY <1>1 DEF Delivery, Clean
<1>3. ASSUME NEW q \in Runs
      PROVE  /\ Clean(run'[q].mem.context, Sent', inbox'[Sess(q)])
             /\ IsInjective(run'[q].hints) /\ ToSet(run'[q].hints) \subseteq Sent'
             /\ ToSet(run'[q].hints) \cap ToSet(run'[q].mem.context) = {}
             /\ run'[q].job \in UserMsgs => run'[q].job \in posted'
  <2>1. CASE q = r
    BY <1>1, <2>1 DEF Delivery
  <2>2. CASE q # r
    <3>1. run'[q] = run[q] /\ Sess(q) \in Sessions
      BY <2>2, RunTypes DEF Only
    <3>2. /\ Clean(run[q].mem.context, Sent, inbox[Sess(q)])
          /\ IsInjective(run[q].hints) /\ ToSet(run[q].hints) \subseteq Sent
          /\ ToSet(run[q].hints) \cap ToSet(run[q].mem.context) = {}
          /\ run[q].job \in UserMsgs => run[q].job \in posted
      BY DEF Delivery
    <3>3. Clean(run[q].mem.context, Sent, inbox'[Sess(q)])
      BY <3>1, <3>2 DEF Clean
    <3> QED
      BY <1>1, <3>1, <3>2, <3>3
  <2> QED
    BY <2>1, <2>2
<1>4. ASSUME NEW q \in Runs, Fresh(q)'
      PROVE  /\ \A s \in Sessions : run'[q].job \notin ToSet(stored'[s].context)
             /\ \A t \in Runs : /\ run'[q].job \notin ToSet(run'[t].mem.context)
                                /\ t # q => run'[t].job # run'[q].job
  <2>1. q # r /\ run'[q] = run[q] /\ Fresh(q) /\ run[q].job \notin Hints
    BY <1>4 DEF Fresh, Only, ChatAssumption, Inputs
  <2>2. /\ \A s \in Sessions : run[q].job \notin ToSet(stored[s].context)
        /\ \A t \in Runs : /\ run[q].job \notin ToSet(run[t].mem.context)
                           /\ t # q => run[t].job # run[q].job
    BY <2>1 DEF Delivery
  <2>3. ASSUME NEW t \in Runs
        PROVE  /\ run'[q].job \notin ToSet(run'[t].mem.context)
               /\ t # q => run'[t].job # run'[q].job
    <3>1. CASE t = r
      BY <2>1, <2>2, <3>1
    <3>2. CASE t # r
      BY <2>1, <2>2, <3>2 DEF Only
    <3> QED
      BY <3>1, <3>2
  <2> QED
    BY <2>1, <2>2, <2>3
<1> QED
  BY <1>2, <1>3, <1>4 DEF Delivery

LEMMA ReadDelivery ==
    ASSUME ChatAssumption, TypeInv, Delivery, NEW r \in Runs, ReadInbox(r)
    PROVE  Delivery'
<1> DEFINE new == First(InboxBatch, inbox[Sess(r)])
<1>0. /\ pc \in [Runs -> PCs] /\ run \in [Runs -> RunLocals]
      /\ inbox[Sess(r)] \in Seq(Hints) /\ Sess(r) \in Sessions
  BY RunTypes DEF TypeInv, TypeOK
<1>1. Only(r) /\ posted' = posted /\ stage' = stage
  BY RunStepsOwn DEF RunStep
<1>2. /\ ToSet(new) \subseteq ToSet(inbox[Sess(r)])
      /\ IsInjective(inbox[Sess(r)]) => IsInjective(new)
  BY <1>0, RunTypes, FirstFacts
<1>3. /\ UNCHANGED redis /\ run' = [run EXCEPT ![r] = [run[r] EXCEPT !.hints = new]]
      /\ pc'[r] \in {"think", "ack"}
  BY <1>0 DEF ReadInbox, Goto
<1> HIDE DEF new
<1>4. run'[r].hints = new /\ run'[r].mem = run[r].mem /\ run'[r].job = run[r].job
  BY <1>0, <1>3 DEF RunLocals
<1>5. /\ \A s \in Sessions : IsInjective(inbox[s])
      /\ ToSet(inbox[Sess(r)]) \subseteq Sent
      /\ Clean(run[r].mem.context, Sent, inbox[Sess(r)])
  BY <1>0 DEF Delivery
<1>6. ToSet(new) \cap ToSet(run[r].mem.context) = {}
  BY <1>2, <1>5 DEF Clean
<1> QED
  BY <1>0, <1>1, <1>2, <1>3, <1>4, <1>5, <1>6, InboxDelivery DEF redis, EntryPCs

LEMMA AckDelivery ==
    ASSUME ChatAssumption, TypeInv, Delivery, NEW r \in Runs, AckInbox(r)
    PROVE  Delivery'
<1> DEFINE c == run[r].mem.context
           c2 == c \o run[r].hints
           box == Without(inbox[Sess(r)], run[r].hints)
<1>0. /\ pc \in [Runs -> PCs] /\ run \in [Runs -> RunLocals]
      /\ inbox \in [Sessions -> Seq(Hints)] /\ Sess(r) \in Sessions
      /\ run[r].mem \in AgentState /\ c \in Seq(UserMsgs \cup Hints)
      /\ run[r].hints \in Seq(Hints)
  BY RunTypes DEF TypeInv, TypeOK, RunLocals, AgentState
<1>1. Only(r) /\ posted' = posted /\ stage' = stage
  BY RunStepsOwn DEF RunStep
<1>2. /\ stored' = stored /\ pc'[r] = "think" /\ inbox' = [inbox EXCEPT ![Sess(r)] = box]
      /\ run' = [run EXCEPT ![r] =
                   [[run[r] EXCEPT !.mem = [run[r].mem EXCEPT !.context = c2]]
                      EXCEPT !.hints = <<>>]]
  BY <1>0 DEF AckInbox, Goto
<1>3. /\ run'[r].mem.context = c2 /\ run'[r].hints = <<>> /\ run'[r].job = run[r].job
  <2> DEFINE m == [run[r].mem EXCEPT !.context = c2]
  <2>1. m.context = c2
    BY <1>0 DEF AgentState
  <2>2. run'[r] = [[run[r] EXCEPT !.mem = m] EXCEPT !.hints = <<>>]
    BY <1>0, <1>2
  <2> HIDE DEF m, c2
  <2>3. run'[r].mem = m /\ run'[r].hints = <<>> /\ run'[r].job = run[r].job
    BY <1>0, <2>2 DEF RunLocals
  <2> QED
    BY <2>1, <2>3
<1>4. /\ Clean(c, Sent, inbox[Sess(r)]) /\ \A s \in Sessions : IsInjective(inbox[s])
      /\ IsInjective(run[r].hints) /\ ToSet(run[r].hints) \subseteq Sent
      /\ ToSet(run[r].hints) \cap ToSet(c) = {}
  BY DEF Delivery
<1>5. /\ ToSet(box) = ToSet(inbox[Sess(r)]) \ ToSet(run[r].hints)
      /\ IsInjective(box)
  BY <1>0, <1>4, WithoutFacts
<1>6. ToSet(c2) = ToSet(c) \cup ToSet(run[r].hints) /\ IsInjective(c2)
  <2>1. Seq(Hints) \subseteq Seq(UserMsgs \cup Hints)
    OBVIOUS
  <2>2. run[r].hints \in Seq(UserMsgs \cup Hints)
    BY <1>0, <2>1
  <2> QED
    BY <1>0, <1>4, <2>2, ConcatFacts DEF Clean
<1>7. ToSet(run[r].hints) \subseteq Hints
  BY <1>0 DEF ToSet
<1> HIDE DEF c, c2, box
<1>8. Clean(c2, Sent, box)
  BY <1>4, <1>5, <1>6 DEF Clean
<1>9. \A s \in Sessions :
        IsInjective(inbox'[s]) /\ ToSet(inbox'[s]) \subseteq ToSet(inbox[s])
  BY <1>0, <1>2, <1>4, <1>5
<1>10. inbox'[Sess(r)] = box /\ ToSet(c2) \subseteq ToSet(run[r].mem.context) \cup Hints
  BY <1>0, <1>2, <1>6, <1>7 DEF c
<1> QED
  BY <1>1, <1>2, <1>3, <1>8, <1>9, <1>10, EmptyFacts, InboxDelivery DEF EntryPCs

LEMMA PushDelivery ==
    ASSUME ChatAssumption, TypeInv, Delivery, NEW h \in Hints, PushInbox(h)
    PROVE  Delivery'
<1> DEFINE b == SessionOf[h]
           box == Append(inbox[b], h)
<1>0. b \in Sessions /\ inbox \in [Sessions -> Seq(Hints)] /\ h \notin Inputs
  BY RunTypes, Types DEF ChatAssumption
<1>1. /\ UNCHANGED <<stored, pc, run, posted>> /\ inbox' = [inbox EXCEPT ![b] = box]
      /\ stage[h] = "new" /\ stage' = [stage EXCEPT ![h] = "pushed"]
  BY DEF PushInbox, runs
<1>2. h \notin Sent /\ h \in Sent' /\ Sent \subseteq Sent'
  BY <1>0, <1>1 DEF Sent, TypeInv, TypeOK
<1>3. /\ \A e : e \in ToSet(box) <=> e \in ToSet(inbox[b]) \/ e = h
      /\ IsInjective(inbox[b]) /\ h \notin ToSet(inbox[b]) => IsInjective(box)
  BY <1>0, AppendFacts
<1> HIDE DEF box, b
<1>4. \A s \in Sessions : IsInjective(inbox[s]) /\ ToSet(inbox[s]) \subseteq Sent
  BY DEF Delivery
<1>5. ASSUME NEW s \in Sessions
      PROVE  /\ IsInjective(inbox'[s]) /\ ToSet(inbox'[s]) \subseteq Sent'
             /\ \A entries : Clean(entries, Sent, inbox[s])
                               => Clean(entries, Sent', inbox'[s])
  <2>1. IsInjective(inbox[s]) /\ ToSet(inbox[s]) \subseteq Sent /\ h \notin ToSet(inbox[s])
    BY <1>2, <1>4
  <2>2. CASE s = b
    <3>1. inbox'[s] = box
      BY <1>0, <1>1, <2>2
    <3> QED
      BY <1>2, <1>3, <2>1, <2>2, <3>1 DEF Clean
  <2>3. CASE s # b
    <3>1. inbox'[s] = inbox[s]
      BY <1>0, <1>1, <2>3
    <3> QED
      BY <1>2, <2>1, <3>1 DEF Clean
  <2> QED
    BY <2>2, <2>3
<1>6. ASSUME NEW q \in Runs
      PROVE  /\ Clean(run'[q].mem.context, Sent', inbox'[Sess(q)])
             /\ IsInjective(run'[q].hints) /\ ToSet(run'[q].hints) \subseteq Sent'
             /\ ToSet(run'[q].hints) \cap ToSet(run'[q].mem.context) = {}
             /\ run'[q].job \in UserMsgs => run'[q].job \in posted'
  <2>1. /\ Clean(run[q].mem.context, Sent, inbox[Sess(q)]) /\ Sess(q) \in Sessions
        /\ IsInjective(run[q].hints) /\ ToSet(run[q].hints) \subseteq Sent
        /\ ToSet(run[q].hints) \cap ToSet(run[q].mem.context) = {}
        /\ run[q].job \in UserMsgs => run[q].job \in posted
    BY RunTypes DEF Delivery
  <2> QED
    BY <1>1, <1>2, <1>5, <2>1
<1>7. \A s \in Sessions : Clean(stored'[s].context, Sent', inbox'[s])
  BY <1>1, <1>5 DEF Delivery
<1>8. ASSUME NEW q \in Runs, Fresh(q)'
      PROVE  /\ \A s \in Sessions : run'[q].job \notin ToSet(stored'[s].context)
             /\ \A t \in Runs : /\ run'[q].job \notin ToSet(run'[t].mem.context)
                                /\ t # q => run'[t].job # run'[q].job
  BY <1>1, <1>8 DEF Fresh, Delivery
<1> QED
  BY <1>5, <1>6, <1>7, <1>8 DEF Delivery

(* A message is POSTed once, so nothing has seen it yet. *)
LEMMA PostDelivery ==
    ASSUME ChatAssumption, TypeInv, Delivery, NEW p \in Procs, NEW x \in Inputs,
           PostChat(p, x)
    PROVE  Delivery'
<1> DEFINE r == <<p, SessionOf[x]>>
<1>1. /\ r \in Runs /\ x \notin posted /\ posted' = posted \cup {x}
      /\ stage' = stage /\ stored' = stored /\ inbox' = inbox
      /\ pc[r] = "none" /\ Spawn(r, x)
  BY RunTypes DEF PostChat, redis
<1>2. /\ Only(r) /\ pc'[r] = "load" /\ run'[r].mem = NewState /\ run'[r].hints = <<>>
      /\ run'[r].job = x
  BY <1>1, SpawnStep
<1> HIDE DEF r
<1>3. x \notin Sent /\ x \notin Hints /\ Sent \subseteq Sent'
  BY <1>1 DEF Sent, ChatAssumption
<1>4. \A s \in Sessions : /\ IsInjective(inbox'[s]) /\ ToSet(inbox'[s]) \subseteq Sent'
                          /\ Clean(stored'[s].context, Sent', inbox'[s])
  BY <1>1, <1>3 DEF Delivery, Clean
<1>5. ASSUME NEW q \in Runs
      PROVE  /\ Clean(run'[q].mem.context, Sent', inbox'[Sess(q)])
             /\ IsInjective(run'[q].hints) /\ ToSet(run'[q].hints) \subseteq Sent'
             /\ ToSet(run'[q].hints) \cap ToSet(run'[q].mem.context) = {}
             /\ run'[q].job \in UserMsgs => run'[q].job \in posted'
  <2>1. CASE q = r
    BY <1>1, <1>2, <2>1, EmptyFacts DEF Clean
  <2>2. CASE q # r
    <3>1. /\ Clean(run[q].mem.context, Sent, inbox[Sess(q)])
          /\ IsInjective(run[q].hints) /\ ToSet(run[q].hints) \subseteq Sent
          /\ ToSet(run[q].hints) \cap ToSet(run[q].mem.context) = {}
          /\ run[q].job \in UserMsgs => run[q].job \in posted
          /\ run'[q] = run[q]
      BY <1>2, <2>2 DEF Delivery, Only
    <3> QED
      BY <1>1, <1>3, <3>1 DEF Clean
  <2> QED
    BY <2>1, <2>2
<1>6. /\ \A s \in Sessions : x \notin ToSet(stored[s].context)
      /\ \A q \in Runs : x \notin ToSet(run[q].mem.context)
      /\ x \in UserMsgs => \A q \in Runs : run[q].job # x
  BY <1>1, <1>3 DEF Delivery, Clean
<1>7. ASSUME NEW q \in Runs, Fresh(q)'
      PROVE  /\ \A s \in Sessions : run'[q].job \notin ToSet(stored'[s].context)
             /\ \A t \in Runs : /\ run'[q].job \notin ToSet(run'[t].mem.context)
                                /\ t # q => run'[t].job # run'[q].job
  <2>1. CASE q = r
    <3>1. run'[q].job = x /\ x \in UserMsgs
      BY <1>2, <1>7, <2>1 DEF Fresh
    <3>2. ASSUME NEW t \in Runs
          PROVE  x \notin ToSet(run'[t].mem.context) /\ (t # q => run'[t].job # x)
      <4>1. CASE t = r
        BY <1>2, <2>1, <4>1, EmptyFacts
      <4>2. CASE t # r
        BY <1>2, <1>6, <3>1, <4>2 DEF Only
      <4> QED
        BY <4>1, <4>2
    <3> QED
      BY <1>1, <1>6, <3>1, <3>2
  <2>2. CASE q # r
    <3>1. Fresh(q) /\ run'[q] = run[q]
      BY <1>2, <1>7, <2>2 DEF Fresh, Only
    <3>2. /\ \A s \in Sessions : run[q].job \notin ToSet(stored[s].context)
          /\ \A t \in Runs : /\ run[q].job \notin ToSet(run[t].mem.context)
                             /\ t # q => run[t].job # run[q].job
          /\ run[q].job \in UserMsgs
      BY <3>1 DEF Delivery, Fresh
    <3>3. ASSUME NEW t \in Runs
          PROVE  /\ run[q].job \notin ToSet(run'[t].mem.context)
                 /\ t # q => run'[t].job # run[q].job
      <4>1. CASE t = r
        BY <1>2, <1>6, <3>2, <4>1, EmptyFacts
      <4>2. CASE t # r
        BY <1>2, <3>2, <4>2 DEF Only
      <4> QED
        BY <4>1, <4>2
    <3> QED
      BY <1>1, <3>1, <3>2, <3>3
  <2> QED
    BY <2>1, <2>2
<1> QED
  BY <1>4, <1>5, <1>7 DEF Delivery

LEMMA NextDelivery ==
    ASSUME ChatAssumption, TypeInv, Delivery, [Next]_vars
    PROVE  Delivery'
<1> USE DEF deleting
<1>0. \A s \in Sessions : IsInjective(inbox[s])
  BY DEF Delivery
<1>1. ASSUME UNCHANGED <<stored, inbox, pc, run, posted>>, Sent \subseteq Sent'
      PROVE  Delivery'
  BY <1>0, <1>1, DeliveryStep
<1>2. ASSUME stage' = stage, posted' = posted
      PROVE  Sent' = Sent
  BY <1>2 DEF Sent
<1>3. ASSUME NEW r \in Runs, RunStep(r) \/ RunFails(r)
      PROVE  Delivery'
  BY <1>3, QuietSteps, StartDelivery, ReadDelivery, AckDelivery
<1>4. ASSUME NEW r \in Runs, CancelSession(r)
      PROVE  Delivery'
  BY <1>1, <1>2, <1>4 DEF CancelSession, redis
<1>5. ASSUME NEW h \in Hints, EnqueueWakeup(h) \/ SignalWakeup(h) \/ ProducerFails(h)
      PROVE  Delivery'
  <2>1. UNCHANGED <<stored, inbox, pc, run, posted>>
    BY <1>5 DEF EnqueueWakeup, SignalWakeup, ProducerFails, redis, runs
  <2>2. \A g \in Hints : stage[g] # "new" => stage'[g] # "new"
    BY <1>5 DEF EnqueueWakeup, SignalWakeup, ProducerFails, TypeInv, TypeOK
  <2> QED
    BY <1>1, <2>1, <2>2 DEF Sent
<1>6. ASSUME NEW p \in Procs,
             ReadQueue(p) \/ AckQueue(p) \/ CheckRunning(p) \/ DispatcherFails(p)
      PROVE  Delivery'
  BY <1>1, <1>2, <1>6 DEF ReadQueue, AckQueue, CheckRunning, DispatcherFails,
     redis, runs, clients
<1>7. ASSUME NEW p \in Procs, SpawnWakeup(p)
      PROVE  Delivery'
  <2> DEFINE r == <<p, SessionOf[Entry(p)]>>
  <2>1. r \in Runs /\ posted' = posted /\ stage' = stage /\ UNCHANGED redis
    BY <1>7, NextEntryTypes, RunTypes DEF SpawnWakeup, clients
  <2>2. CASE pc[r] = "none" /\ Spawn(r, Wake)
    <3>1. /\ Only(r) /\ run'[r].mem = NewState /\ run'[r].hints = <<>>
          /\ run'[r].job = Wake
      BY <2>1, <2>2, SpawnStep
    <3> QED
      BY <2>1, <3>1, EmptyFacts, RunDelivery DEF redis
  <2>3. CASE UNCHANGED <<pc, run>>
    BY <1>1, <1>2, <2>1, <2>3 DEF redis
  <2> QED
    BY <1>7, <2>2, <2>3 DEF SpawnWakeup
<1>8. ASSUME NEW p \in Procs, Shutdown(p) \/ Stopped(p) \/ Restart(p)
      PROVE  Delivery'
  BY <1>1, <1>2, <1>8 DEF Shutdown, Stopped, Restart, redis, runs, clients
<1>9. ASSUME NEW p \in Procs, Crash(p)
      PROVE  Delivery'
  <2>1. /\ pc' = [r \in Runs |-> IF r[1] = p THEN "none" ELSE pc[r]]
        /\ run' = [r \in Runs |-> IF r[1] = p THEN NoLocals ELSE run[r]]
        /\ UNCHANGED <<stored, inbox, posted, stage>>
    BY <1>9 DEF Crash
  <2>2. ASSUME NEW r \in Runs
        PROVE  /\ run'[r] = run[r] \/ run'[r] = NoLocals
               /\ pc'[r] \in EntryPCs => pc[r] \in EntryPCs
    BY <2>1 DEF EntryPCs
  <2> QED
    BY <1>0, <1>2, <2>1, <2>2, EmptyFacts, DeliveryStep
<1>10. ASSUME NEW s \in Sessions, ExpireLease(s) \/ PublishCancel(s)
       PROVE  Delivery'
  BY <1>1, <1>2, <1>10 DEF ExpireLease, PublishCancel, redis, runs, clients
<1>11. ASSUME NEW s \in Sessions, DeleteRecord(s)
       PROVE  Delivery'
  <2>1. /\ UNCHANGED <<inbox, pc, run, posted, stage>>
        /\ stored' = [stored EXCEPT ![s] = NewState]
    BY <1>11 DEF DeleteRecord, runs
  <2>2. \A t \in Sessions : stored'[t].context \in {stored[t].context, <<>>}
    BY <2>1, Types, EmptyFacts
  <2> QED
    BY <1>0, <1>2, <2>1, <2>2, DeliveryStep
<1>12. ASSUME NEW s \in Sessions, PurgeSession(s)
       PROVE  Delivery'
  <2>1. /\ UNCHANGED <<stored, pc, run, posted, stage>>
        /\ inbox' = [inbox EXCEPT ![s] = <<>>]
    BY <1>12 DEF PurgeSession, runs
  <2>2. \A t \in Sessions :
          IsInjective(inbox'[t]) /\ ToSet(inbox'[t]) \subseteq ToSet(inbox[t])
    BY <1>0, <2>1, Types, EmptyFacts
  <2> QED
    BY <1>2, <2>1, <2>2, DeliveryStep
<1>13. CASE UNCHANGED vars
  BY <1>1, <1>2, <1>13 DEF vars, redis, runs, clients
<1> QED
  BY <1>3, <1>4, <1>5, <1>6, <1>7, <1>8, <1>9, <1>10, <1>11, <1>12, <1>13,
     PushDelivery, PostDelivery
  DEF Next, ProducerStep, DispatchStep, DeleteStep

(* Nothing enters an agent's memory twice, and what it remembers its inbox *)
(* does not deliver again, although the inbox is read and deleted in two   *)
(* steps: the proof uses no fact about the session lock, so neither a lost *)
(* lease nor a second run of the session could break it.                   *)
THEOREM NothingTwice == Spec => []DeliveredOnce
<1>1. Init => TypeInv /\ Delivery
  BY ChatAssumption, InitTypes, InitDelivery
<1>2. TypeInv /\ Delivery /\ [Next]_vars => TypeInv' /\ Delivery'
  BY ChatAssumption, NextTypes, NextDelivery
<1>3. TypeInv /\ Delivery => DeliveredOnce
  BY DEF Delivery, Clean, DeliveredOnce
<1> QED
  BY <1>1, <1>2, <1>3, PTL DEF Spec

------------------------------------------------------------------------------
(* The memory: what a step does to the agent states of runs and records *)

WorkPCs == ReplyPCs \cup {"persist", "write"}

(* An exception, a cancellation or a crash takes the run's state away. *)
Lost(r) == Cancelled(r) \/ RunFails(r) \/ Crash(r[1])

Grows(r) == IsPrefix(run[r].mem.context, run'[r].mem.context)

(* The life of a run's copy of the state. *)
RunShape(r) ==
    \/ pc'[r] = pc[r] /\ run'[r] = run[r]
    \/ pc[r] = "load" /\ pc'[r] = "loaded" /\ run'[r].mem = stored[Sess(r)]
    \/ AcquireSession(r) /\ pc[r] = "loaded" /\ pc'[r] = "locked" /\ run'[r] = run[r]
    \/ pc[r] = "locked" /\ pc'[r] = "input" /\ run'[r].mem = run[r].mem
    \/ pc[r] \in {"input"} \cup WorkPCs /\ pc'[r] \in WorkPCs /\ Grows(r)
    \/ /\ run'[r].mem = NewState /\ pc'[r] \in IdlePCs \cup {"load"}
       /\ pc[r] \in WorkPCs =>
            ~exists[Sess(r)] \/ Lost(r) \/ stored'[Sess(r)] = run[r].mem

(* The record: only a run of the session, which has it from the lock, and  *)
(* the deletion write it.                                                  *)
RecordShape(s) ==
    \/ stored'[s] = stored[s]
    \/ stored'[s] = NewState /\ ~exists'[s] /\ deletion'[s] # "none"
    \/ \E r \in Runs : /\ Sess(r) = s /\ pc[r] = "write" /\ pc'[r] = "trim"
                       /\ stored'[s] = run[r].mem

(* The inbox: what leaves it is in the context of a run. *)
InboxShape(s) ==
    deletion'[s] = "none" =>
        \A h \in ToSet(inbox[s]) :
            \/ h \in ToSet(inbox'[s])
            \/ \E r \in Runs : Sess(r) = s /\ h \in ToSet(run'[r].mem.context)

(* The deletion only advances, and the record exists until it is reached. *)
DeletionShape(s) ==
    /\ deletion'[s] = "none" => deletion[s] = "none"
    /\ deletion'[s] \in {"none", "cancelling"} =>
         deletion[s] \in {"none", "cancelling"} /\ (exists[s] => exists'[s])

HintShape(h) ==
    stage'[h] # "new" => stage[h] # "new" \/ h \in ToSet(inbox'[SessionOf[h]])

MemoryShape ==
    /\ \A r \in Runs : RunShape(r)
    /\ \A s \in Sessions : RecordShape(s) /\ InboxShape(s) /\ DeletionShape(s)
    /\ \A h \in Hints : HintShape(h)

(* A step of one run: the others keep their state. *)
LEMMA RunStepShape ==
    ASSUME ChatAssumption, TypeInv, NEW r \in Runs, RunStep(r) \/ RunFails(r),
           RunShape(r), RecordShape(Sess(r)), InboxShape(Sess(r)),
           \A s \in Sessions \ {Sess(r)} : stored'[s] = stored[s] /\ inbox'[s] = inbox[s],
           exists' = exists \/ exists' = [exists EXCEPT ![Sess(r)] = TRUE]
    PROVE  MemoryShape
<1>1. Only(r) /\ deletion' = deletion /\ stage' = stage
  BY RunStepsOwn
<1>2. \A q \in Runs : RunShape(q)
  BY <1>1 DEF Only, RunShape
<1>3. ASSUME NEW s \in Sessions
      PROVE  RecordShape(s) /\ InboxShape(s) /\ DeletionShape(s)
  <2>1. RecordShape(s) /\ InboxShape(s)
    <3>1. CASE s = Sess(r)
      BY <3>1
    <3>2. CASE s # Sess(r)
      BY <3>2 DEF RecordShape, InboxShape
    <3> QED
      BY <3>1, <3>2
  <2>2. DeletionShape(s)
    <3>1. exists \in [Sessions -> BOOLEAN]
      BY Types
    <3>2. CASE exists' = exists
      BY <1>1, <3>2 DEF DeletionShape
    <3>3. CASE exists' = [exists EXCEPT ![Sess(r)] = TRUE]
      <4>1. exists'[s] = IF s = Sess(r) THEN TRUE ELSE exists[s]
        BY <3>1, <3>3
      <4>2. exists[s] => exists'[s]
        BY <4>1
      <4> QED
        BY <1>1, <4>2 DEF DeletionShape
    <3> QED
      BY <3>2, <3>3
  <2> QED
    BY <2>1, <2>2
<1> QED
  BY <1>1, <1>2, <1>3 DEF MemoryShape, HintShape

LEMMA EntryShape ==
    ASSUME ChatAssumption, TypeInv, NEW r \in Runs,
           Load(r) \/ SkipParked(r) \/ AcquireSession(r) \/ PrepareInput(r) \/ RejectInput(r)
    PROVE  MemoryShape
<1>0. /\ Sess(r) \in Sessions /\ pc \in [Runs -> PCs] /\ run \in [Runs -> RunLocals]
      /\ stored[Sess(r)] \in AgentState
  BY RunTypes DEF TypeInv, TypeOK
<1>1. stored' = stored /\ inbox' = inbox /\ exists' = exists
  BY DEF Load, SkipParked, AcquireSession, PrepareInput, RejectInput, redis
<1>2. RecordShape(Sess(r)) /\ InboxShape(Sess(r))
  BY <1>1 DEF RecordShape, InboxShape
<1>3. RunStep(r)
  BY DEF RunStep
<1>4. ASSUME RunShape(r)
      PROVE  MemoryShape
  BY <1>0, <1>1, <1>2, <1>3, <1>4, RunStepShape
<1>5. CASE Load(r)
  <2>1. /\ pc[r] = "load"
        /\ \/ /\ pc'[r] = "loaded"
              /\ run'[r] = [run[r] EXCEPT !.mem = stored[Sess(r)]]
           \/ pc'[r] = "none" /\ run'[r] = NoLocals
    BY <1>0, <1>5 DEF Load, Finish, At, Goto
  <2>2. CASE pc'[r] = "none" /\ run'[r] = NoLocals
    BY <1>4, <2>1, <2>2, EmptyFacts DEF RunShape, IdlePCs, WorkPCs, ReplyPCs
  <2>3. CASE pc'[r] = "loaded" /\ run'[r] = [run[r] EXCEPT !.mem = stored[Sess(r)]]
    <3>1. run'[r].mem = stored[Sess(r)]
      BY <1>0, <2>3, MemFields
    <3> QED
      BY <1>4, <2>1, <2>3, <3>1 DEF RunShape
  <2> QED
    BY <2>1, <2>2, <2>3
<1>6. CASE SkipParked(r) \/ RejectInput(r)
  <2>1. /\ pc[r] \in {"loaded", "input"} /\ pc'[r] \in {"none", "trim"}
        /\ run'[r] = NoLocals
    BY <1>0, <1>6 DEF SkipParked, RejectInput, Finish, Unwind, At, Goto
  <2> QED
    BY <1>4, <2>1, EmptyFacts DEF RunShape, IdlePCs, WorkPCs, ReplyPCs
<1>7. CASE AcquireSession(r)
  <2>1. pc[r] = "loaded" /\ pc'[r] = "locked" /\ run'[r] = run[r]
    BY <1>0, <1>7 DEF AcquireSession, At, Goto
  <2> QED
    BY <1>4, <1>7, <2>1 DEF RunShape
<1>8. CASE PrepareInput(r)
  <2>1. /\ pc[r] = "locked" /\ pc'[r] = "input"
        /\ run' = run \/ \E n : run' = [run EXCEPT ![r] = [run[r] EXCEPT !.reply = n]]
    BY <1>0, <1>8 DEF PrepareInput, At, Goto
  <2>2. ASSUME NEW n, run' = [run EXCEPT ![r] = [run[r] EXCEPT !.reply = n]]
        PROVE  run'[r].mem = run[r].mem
    <3>1. run'[r] = [run[r] EXCEPT !.reply = n]
      BY <1>0, <2>2
    <3> QED
      BY <1>0, <3>1 DEF RunLocals
  <2> QED
    BY <1>4, <2>1, <2>2 DEF RunShape
<1> QED
  BY <1>5, <1>6, <1>7, <1>8

LEMMA ReplyShape ==
    ASSUME ChatAssumption, TypeInv, NEW r \in Runs,
           StartReply(r) \/ ResumeReply(r) \/ LeaveLoop(r) \/ ReadInbox(r)
             \/ AckInbox(r) \/ Think(r) \/ Act(r)
    PROVE  MemoryShape
<1> DEFINE T == UserMsgs \cup Hints
           c == run[r].mem.context
<1>0. /\ Sess(r) \in Sessions /\ pc \in [Runs -> PCs] /\ run \in [Runs -> RunLocals]
      /\ run[r].mem \in AgentState /\ c \in Seq(T) /\ run[r].hints \in Seq(Hints)
      /\ run[r].job \in Inputs \cup {Wake}
      /\ inbox \in [Sessions -> Seq(Hints)]
  BY RunTypes DEF TypeInv, TypeOK, RunLocals, AgentState
<1>1. stored' = stored /\ exists' = exists
  BY DEF StartReply, ResumeReply, LeaveLoop, ReadInbox, AckInbox, Think, Act, redis
<1>2. RunStep(r) /\ RecordShape(Sess(r))
  BY <1>1 DEF RunStep, RecordShape
<1>3. ASSUME RunShape(r), inbox' = inbox
      PROVE  MemoryShape
  <2>1. InboxShape(Sess(r))
    BY <1>3 DEF InboxShape
  <2> QED
    BY <1>1, <1>2, <1>3, <2>1, RunStepShape
<1>4. IsPrefix(c, c)
  BY <1>0, PrefixFacts
<1>5. CASE StartReply(r)
  <2> DEFINE x == run[r].job
             mem == Begun(run[r].mem, x, replies + 1)
  <2>1. /\ pc[r] = "input" /\ pc'[r] = "loop" /\ x \in UserMsgs \cup {Wake}
        /\ run' = [run EXCEPT ![r] = [[run[r] EXCEPT !.mem = mem] EXCEPT !.reply = replies + 1]]
        /\ inbox' = inbox
    BY <1>0, <1>5 DEF StartReply, At, Goto, Inputs
  <2>2. mem.context = IF x = Wake THEN c ELSE Append(c, x)
    BY <1>0 DEF Begun, AgentState
  <2>3. IsPrefix(c, mem.context)
    <3>1. CASE x = Wake
      BY <1>4, <2>2, <3>1
    <3>2. CASE x # Wake
      <4>1. x \in T
        BY <2>1, <3>2
      <4> HIDE DEF mem, c, x, T
      <4> QED
        BY <1>0, <2>2, <3>2, <4>1, PrefixFacts
    <3> QED
      BY <3>1, <3>2
  <2> HIDE DEF mem
  <2>4. run'[r].mem = mem
    BY <1>0, <2>1 DEF RunLocals
  <2> QED
    BY <1>3, <2>1, <2>3, <2>4 DEF RunShape, Grows, WorkPCs, ReplyPCs
<1>6. CASE ResumeReply(r)
  <2>1. PICK t \in {"none", "exec", "await"} :
          run' = [run EXCEPT ![r] = [run[r] EXCEPT !.mem = [run[r].mem EXCEPT !.tools = t]]]
    BY <1>6 DEF ResumeReply
  <2> DEFINE m == [run[r].mem EXCEPT !.tools = t]
  <2>2. m \in AgentState /\ m.context = c
    BY <1>0, ToolsFields
  <2>3. run'[r] = [run[r] EXCEPT !.mem = m]
    BY <1>0, <2>1
  <2> HIDE DEF m
  <2>4. run'[r].mem = m
    BY <1>0, <2>2, <2>3, MemFields
  <2>5. pc[r] = "input" /\ pc'[r] = "loop" /\ inbox' = inbox
    BY <1>0, <1>6 DEF ResumeReply, At, Goto
  <2> QED
    BY <1>3, <1>4, <2>2, <2>4, <2>5 DEF RunShape, Grows, WorkPCs, ReplyPCs
<1>7. CASE LeaveLoop(r) \/ Think(r) \/ Act(r)
  <2>1. inbox' = inbox
    BY <1>7 DEF LeaveLoop, Think, Act
  <2> QED
    BY <1>3, <1>4, <1>7, <2>1, ToolSteps DEF RunShape, Grows, WorkPCs
<1>8. CASE ReadInbox(r)
  <2>1. /\ inbox' = inbox /\ pc[r] = "loop" /\ pc'[r] \in {"think", "ack"}
        /\ run'[r].mem = run[r].mem
    BY <1>0, <1>8 DEF ReadInbox, At, Goto, redis, RunLocals
  <2> QED
    BY <1>3, <1>4, <2>1 DEF RunShape, Grows, WorkPCs, ReplyPCs
<1>9. CASE AckInbox(r)
  <2> DEFINE c2 == c \o run[r].hints
             box == Without(inbox[Sess(r)], run[r].hints)
  <2>1. run[r].hints \in Seq(T)
    <3>1. Seq(Hints) \subseteq Seq(T)
      OBVIOUS
    <3> QED
      BY <1>0, <3>1
  <2>2. /\ pc[r] = "ack" /\ pc'[r] = "think" /\ inbox' = [inbox EXCEPT ![Sess(r)] = box]
        /\ run' = [run EXCEPT ![r] =
                     [[run[r] EXCEPT !.mem = [run[r].mem EXCEPT !.context = c2]]
                        EXCEPT !.hints = <<>>]]
    BY <1>0, <1>9 DEF AckInbox, At, Goto
  <2>3. run'[r].mem.context = c2
    <3> DEFINE m == [run[r].mem EXCEPT !.context = c2]
    <3>1. m.context = c2
      BY <1>0 DEF AgentState
    <3>2. run'[r] = [[run[r] EXCEPT !.mem = m] EXCEPT !.hints = <<>>]
      BY <1>0, <2>2
    <3> HIDE DEF m, c2
    <3>3. run'[r].mem = m
      BY <1>0, <3>2 DEF RunLocals
    <3> QED
      BY <3>1, <3>3
  <2>4. /\ IsPrefix(c, c2) /\ ToSet(c2) = ToSet(c) \cup ToSet(run[r].hints)
        /\ ToSet(box) = ToSet(inbox[Sess(r)]) \ ToSet(run[r].hints)
    BY <1>0, <2>1, PrefixFacts, ConcatFacts, WithoutFacts
  <2> HIDE DEF c2, box
  <2>5. RunShape(r)
    BY <2>2, <2>3, <2>4 DEF RunShape, Grows, WorkPCs, ReplyPCs
  <2>6. InboxShape(Sess(r))
    BY <1>0, <2>2, <2>3, <2>4 DEF InboxShape
  <2>7. \A s \in Sessions \ {Sess(r)} : stored'[s] = stored[s] /\ inbox'[s] = inbox[s]
    BY <1>0, <1>1, <2>2
  <2> QED
    BY <1>1, <1>2, <2>5, <2>6, <2>7, RunStepShape
<1> QED
  BY <1>5, <1>6, <1>7, <1>8, <1>9

LEMMA ExitShape ==
    ASSUME ChatAssumption, TypeInv, NEW r \in Runs,
           SaveReply(r) \/ GetRecord(r) \/ SetRecord(r) \/ TrimLog(r)
             \/ ReleaseSession(r) \/ EndRun(r) \/ Cancelled(r) \/ RunFails(r)
    PROVE  MemoryShape
<1>0. /\ Sess(r) \in Sessions /\ pc \in [Runs -> PCs] /\ run \in [Runs -> RunLocals]
      /\ run[r].mem \in AgentState /\ run[r].mem.context \in Seq(UserMsgs \cup Hints)
      /\ stored \in [Sessions -> AgentState]
  BY RunTypes DEF TypeInv, TypeOK, RunLocals, AgentState
<1>1. RunStep(r) \/ RunFails(r)
  BY DEF RunStep
<1>2. IsPrefix(run[r].mem.context, run[r].mem.context)
  BY <1>0, PrefixFacts
<1>3. ASSUME RunShape(r), stored' = stored, inbox' = inbox, exists' = exists
      PROVE  MemoryShape
  <2>1. RecordShape(Sess(r)) /\ InboxShape(Sess(r))
    BY <1>3 DEF RecordShape, InboxShape
  <2> QED
    BY <1>1, <1>3, <2>1, RunStepShape
<1>4. CASE SaveReply(r)
  <2>1. /\ pc[r] = "save" /\ pc'[r] = "persist" /\ run'[r] = run[r]
        /\ stored' = stored /\ inbox' = inbox /\ exists' = exists
    BY <1>0, <1>4 DEF SaveReply, At, Goto
  <2> QED
    BY <1>2, <1>3, <2>1 DEF RunShape, Grows, WorkPCs, ReplyPCs
<1>5. CASE GetRecord(r)
  <2>1. /\ pc[r] = "persist" /\ stored' = stored /\ inbox' = inbox /\ exists' = exists
        /\ \/ pc'[r] = "write" /\ run'[r] = run[r]
           \/ pc'[r] = "trim" /\ run'[r] = NoLocals /\ ~exists[Sess(r)]
    BY <1>0, <1>5 DEF GetRecord, Unwind, At, Goto, redis
  <2> QED
    BY <1>2, <1>3, <2>1, EmptyFacts DEF RunShape, Grows, WorkPCs, IdlePCs
<1>6. CASE SetRecord(r)
  <2>1. /\ pc[r] = "write" /\ pc'[r] = "trim" /\ run'[r] = NoLocals /\ inbox' = inbox
        /\ stored' = [stored EXCEPT ![Sess(r)] = run[r].mem]
        /\ exists' = [exists EXCEPT ![Sess(r)] = TRUE]
    BY <1>0, <1>6 DEF SetRecord, Unwind, At, Goto
  <2>2. /\ stored'[Sess(r)] = run[r].mem
        /\ \A s \in Sessions \ {Sess(r)} : stored'[s] = stored[s] /\ inbox'[s] = inbox[s]
    BY <1>0, <2>1
  <2>3. RunShape(r) /\ RecordShape(Sess(r)) /\ InboxShape(Sess(r))
    BY <2>1, <2>2, EmptyFacts DEF RunShape, RecordShape, InboxShape, IdlePCs
  <2> QED
    BY <1>1, <2>1, <2>2, <2>3, RunStepShape
<1>7. CASE TrimLog(r) \/ ReleaseSession(r) \/ EndRun(r)
  <2>1. pc[r] \notin WorkPCs /\ exists' = exists
    BY <1>7 DEF TrimLog, ReleaseSession, EndRun, At, redis, WorkPCs, ReplyPCs
  <2> QED
    BY <1>3, <1>7, <2>1, EndSteps, EmptyFacts DEF RunShape
<1>8. CASE Cancelled(r) \/ RunFails(r)
  <2>1. Interrupted(r) /\ exists' = exists
    BY <1>8 DEF Cancelled, RunFails, Interrupted
  <2> QED
    BY <1>3, <1>8, <2>1, EndSteps, EmptyFacts DEF RunShape, Lost
<1> QED
  BY <1>4, <1>5, <1>6, <1>7, <1>8

LEMMA NextShape ==
    ASSUME ChatAssumption, TypeInv, [Next]_vars
    PROVE  MemoryShape
<1> USE DEF deleting
<1>1. ASSUME UNCHANGED <<stored, exists, inbox, deletion, stage>>,
             \A r \in Runs : RunShape(r)
      PROVE  MemoryShape
  BY <1>1 DEF MemoryShape, RecordShape, InboxShape, DeletionShape, HintShape
<1>2. ASSUME UNCHANGED <<stored, exists, inbox, deletion, stage, pc, run>>
      PROVE  MemoryShape
  BY <1>1, <1>2 DEF RunShape
<1>3. ASSUME NEW r \in Runs, NEW x, pc[r] = "none", Spawn(r, x),
             UNCHANGED <<stored, exists, inbox, deletion, stage>>
      PROVE  MemoryShape
  BY <1>1, <1>3, SpawnStep DEF Only, RunShape, WorkPCs, ReplyPCs
<1>4. ASSUME UNCHANGED <<pc, run, stage>>, \A h \in Hints : HintShape(h),
             \A s \in Sessions : RecordShape(s) /\ InboxShape(s) /\ DeletionShape(s)
      PROVE  MemoryShape
  BY <1>4 DEF MemoryShape, RunShape
<1>5. ASSUME NEW r \in Runs, RunStep(r) \/ RunFails(r)
      PROVE  MemoryShape
  BY <1>5, EntryShape, ReplyShape, ExitShape DEF RunStep
<1>6. ASSUME NEW r \in Runs, CancelSession(r)
      PROVE  MemoryShape
  BY <1>2, <1>6 DEF CancelSession, redis
<1>7. ASSUME NEW h \in Hints, PushInbox(h)
      PROVE  MemoryShape
  <2> DEFINE b == SessionOf[h]
  <2>1. /\ UNCHANGED <<stored, exists, deletion, pc, run>>
        /\ inbox' = [inbox EXCEPT ![b] = Append(inbox[b], h)]
        /\ stage' = [stage EXCEPT ![h] = "pushed"]
    BY <1>7 DEF PushInbox, runs
  <2>2. b \in Sessions /\ inbox \in [Sessions -> Seq(Hints)]
    BY RunTypes, Types
  <2>3. \A e : e \in ToSet(Append(inbox[b], h)) <=> e \in ToSet(inbox[b]) \/ e = h
    BY <2>2, AppendFacts
  <2>4. \A g \in Hints : HintShape(g)
    <3>1. HintShape(h)
      BY <2>1, <2>2, <2>3 DEF HintShape
    <3>2. \A g \in Hints \ {h} : stage'[g] = stage[g]
      BY <2>1 DEF TypeInv, TypeOK
    <3> QED
      BY <3>1, <3>2 DEF HintShape
  <2>5. ASSUME NEW s \in Sessions
        PROVE  RecordShape(s) /\ InboxShape(s) /\ DeletionShape(s)
    <3>1. ToSet(inbox[s]) \subseteq ToSet(inbox'[s])
      <4>1. CASE s = b
        BY <2>1, <2>2, <2>3, <4>1
      <4>2. CASE s # b
        BY <2>1, <2>2, <4>2
      <4> QED
        BY <4>1, <4>2
    <3> QED
      BY <2>1, <3>1 DEF RecordShape, InboxShape, DeletionShape
  <2>6. \A r \in Runs : RunShape(r)
    BY <2>1 DEF RunShape
  <2> QED
    BY <2>4, <2>5, <2>6 DEF MemoryShape
<1>8. ASSUME NEW h \in Hints, EnqueueWakeup(h) \/ SignalWakeup(h) \/ ProducerFails(h)
      PROVE  MemoryShape
  <2>1. UNCHANGED <<stored, exists, inbox, deletion, pc, run>>
    BY <1>8 DEF EnqueueWakeup, SignalWakeup, ProducerFails, redis, runs
  <2>2. \A g \in Hints : stage'[g] # "new" => stage[g] # "new"
    BY <1>8 DEF EnqueueWakeup, SignalWakeup, ProducerFails, TypeInv, TypeOK
  <2> QED
    BY <2>1, <2>2
    DEF MemoryShape, RunShape, RecordShape, InboxShape, DeletionShape, HintShape
<1>9. ASSUME NEW p \in Procs, NEW x \in Inputs, PostChat(p, x)
      PROVE  MemoryShape
  BY <1>3, <1>9, RunTypes DEF PostChat, redis
<1>10. ASSUME NEW p \in Procs,
              ReadQueue(p) \/ AckQueue(p) \/ CheckRunning(p) \/ DispatcherFails(p)
       PROVE  MemoryShape
  BY <1>2, <1>10 DEF ReadQueue, AckQueue, CheckRunning, DispatcherFails, redis, runs, clients
<1>11. ASSUME NEW p \in Procs, SpawnWakeup(p)
       PROVE  MemoryShape
  <2> DEFINE r == <<p, SessionOf[Entry(p)]>>
  <2>1. r \in Runs /\ UNCHANGED redis /\ UNCHANGED clients
    BY <1>11, NextEntryTypes, RunTypes DEF SpawnWakeup
  <2>2. CASE pc[r] = "none" /\ Spawn(r, Wake)
    BY <1>3, <2>1, <2>2 DEF redis, clients
  <2>3. CASE UNCHANGED <<pc, run>>
    BY <1>2, <2>1, <2>3 DEF redis, clients
  <2> QED
    BY <1>11, <2>2, <2>3 DEF SpawnWakeup
<1>12. ASSUME NEW p \in Procs, Shutdown(p) \/ Stopped(p) \/ Restart(p)
       PROVE  MemoryShape
  BY <1>2, <1>12 DEF Shutdown, Stopped, Restart, redis, runs, clients
<1>13. ASSUME NEW p \in Procs, Crash(p)
       PROVE  MemoryShape
  <2>1. /\ pc' = [r \in Runs |-> IF r[1] = p THEN "none" ELSE pc[r]]
        /\ run' = [r \in Runs |-> IF r[1] = p THEN NoLocals ELSE run[r]]
        /\ UNCHANGED <<stored, exists, inbox, deletion, stage>>
    BY <1>13 DEF Crash
  <2>2. \A r \in Runs : RunShape(r)
    BY <1>13, <2>1, EmptyFacts DEF RunShape, Lost, IdlePCs
  <2> QED
    BY <1>1, <2>1, <2>2
<1>14. ASSUME NEW s \in Sessions, ExpireLease(s)
       PROVE  MemoryShape
  BY <1>2, <1>14 DEF ExpireLease, runs, clients
<1>15. ASSUME NEW s \in Sessions, DeleteStep(s)
       PROVE  MemoryShape
  <2>1. UNCHANGED <<pc, run, stage>>
    BY <1>15 DEF DeleteStep, PublishCancel, DeleteRecord, PurgeSession, runs
  <2>2. \A h \in Hints : HintShape(h)
    BY <2>1 DEF HintShape
  <2>3. ASSUME NEW t \in Sessions
        PROVE  RecordShape(t) /\ InboxShape(t) /\ DeletionShape(t)
    <3>1. CASE PublishCancel(s)
      BY <3>1 DEF PublishCancel, redis, TypeInv, TypeOK,
         RecordShape, InboxShape, DeletionShape
    <3>2. CASE DeleteRecord(s)
      BY <3>2 DEF DeleteRecord, TypeInv, TypeOK, RecordShape, InboxShape, DeletionShape
    <3>3. CASE PurgeSession(s)
      BY <3>3 DEF PurgeSession, TypeInv, TypeOK, RecordShape, InboxShape, DeletionShape
    <3> QED
      BY <1>15, <3>1, <3>2, <3>3 DEF DeleteStep
  <2> QED
    BY <1>4, <2>1, <2>2, <2>3
<1>16. CASE UNCHANGED vars
  BY <1>2, <1>16 DEF vars, redis, runs, clients
<1> QED
  BY <1>5, <1>6, <1>7, <1>8, <1>9, <1>10, <1>11, <1>12, <1>13, <1>14, <1>15, <1>16
  DEF Next, ProducerStep, DispatchStep

------------------------------------------------------------------------------
(* Growing memory *)

(* What the run remembers goes on from what the record holds. *)
UpToDate(r) == IsPrefix(stored[Sess(r)].context, run[r].mem.context)

(* No run enters the lock with a state older than the record. *)
NoStaleLoad == \A r \in Runs : AcquireSession(r) => UpToDate(r)

GrowInv == \A r \in Runs : pc[r] \in BodyPCs => UpToDate(r)

LEMMA Contexts ==
    ASSUME ChatAssumption, TypeInv
    PROVE  /\ \A s \in Sessions : stored[s].context \in Seq(UserMsgs \cup Hints)
           /\ \A r \in Runs : run[r].mem.context \in Seq(UserMsgs \cup Hints)
BY DEF TypeInv, TypeOK, RunLocals, AgentState

(* Inside the lock a run is alone with the record of its session. *)
LEMMA Alone ==
    ASSUME LockInv, NEW q \in Runs, NEW r \in Runs, Sess(q) = Sess(r),
           pc[q] \in LockPCs, pc[r] \in LockPCs
    PROVE  q = r
<1>1. q[1] = r[1]
  BY DEF LockInv, LockOwned
<1> QED
  BY <1>1 DEF Runs, Sess

LEMMA NextGrow ==
    ASSUME ChatAssumption, TypeInv, TypeInv', LockInv, LockInv', GrowInv, MemoryShape,
           NoStaleLoad
    PROVE  GrowInv'
<1> SUFFICES ASSUME NEW r \in Runs, pc'[r] \in BodyPCs
             PROVE  IsPrefix(stored'[Sess(r)].context, run'[r].mem.context)
  BY DEF GrowInv, UpToDate
<1>0. Sess(r) \in Sessions /\ RunShape(r) /\ RecordShape(Sess(r))
  BY RunTypes DEF MemoryShape
<1>1. /\ stored[Sess(r)].context \in Seq(UserMsgs \cup Hints)
      /\ run[r].mem.context \in Seq(UserMsgs \cup Hints)
      /\ run'[r].mem.context \in Seq(UserMsgs \cup Hints)
  BY <1>0, Contexts DEF TypeInv, TypeOK, RunLocals, AgentState
<1>2. UpToDate(r) /\ Grows(r)
  <2>1. pc'[r] \notin IdlePCs \cup {"load", "loaded"}
    BY DEF BodyPCs, IdlePCs
  <2>2. CASE AcquireSession(r) /\ run'[r] = run[r]
    BY <1>1, <2>2, PrefixFacts DEF NoStaleLoad, Grows
  <2>3. CASE pc[r] \in BodyPCs /\ (run'[r].mem = run[r].mem \/ Grows(r))
    BY <1>1, <2>3, PrefixFacts DEF GrowInv, Grows
  <2> QED
    BY <1>0, <2>1, <2>2, <2>3 DEF RunShape, BodyPCs, WorkPCs, ReplyPCs
<1>3. IsPrefix(stored[Sess(r)].context, run'[r].mem.context)
  BY <1>1, <1>2, PrefixFacts DEF UpToDate, Grows
<1>4. CASE stored'[Sess(r)] = stored[Sess(r)]
  BY <1>3, <1>4
<1>5. CASE stored'[Sess(r)] = NewState
  BY <1>1, <1>5, EmptyFacts, PrefixFacts
<1>6. ASSUME NEW q \in Runs, Sess(q) = Sess(r), pc[q] = "write", pc'[q] = "trim",
             stored'[Sess(r)] = run[q].mem
      PROVE  FALSE
  <2>1. pc'[q] \in LockPCs /\ pc'[r] \in LockPCs /\ q # r
    BY <1>6, Locations DEF BodyPCs
  <2>2. q[1] = r[1]
    BY <1>6, <2>1 DEF LockInv, LockOwned
  <2> QED
    BY <1>6, <2>1, <2>2 DEF Runs, Sess
<1> QED
  BY <1>0, <1>4, <1>5, <1>6 DEF RecordShape


(* A record that is still there goes on from what it held. *)
LEMMA GrowStep ==
    ASSUME ChatAssumption, TypeInv, GrowInv, MemoryShape,
           NEW s \in Sessions, exists'[s]
    PROVE  IsPrefix(stored[s].context, stored'[s].context)
<1>1. RecordShape(s) /\ IsPrefix(stored[s].context, stored[s].context)
  BY Contexts, PrefixFacts DEF MemoryShape
<1>2. ASSUME NEW r \in Runs, Sess(r) = s, pc[r] = "write"
      PROVE  IsPrefix(stored[s].context, run[r].mem.context)
  BY <1>2 DEF GrowInv, UpToDate, BodyPCs
<1> QED
  BY <1>1, <1>2 DEF RecordShape

LEMMA Always == Spec => [](TypeInv /\ LockInv)
<1>1. Init => TypeInv /\ LockInv
  BY ChatAssumption, InitTypes, InitLockInv
<1>2. TypeInv /\ LockInv /\ [Next]_vars => TypeInv' /\ LockInv'
  BY ChatAssumption, NextTypes, NextLockInv
<1> QED
  BY <1>1, <1>2, PTL DEF Spec

LEMMA GrowKept ==
    ASSUME TypeInv, TypeInv', LockInv, LockInv', GrowInv, [Next]_vars, [NoStaleLoad]_vars
    PROVE  GrowInv'
<1>1. CASE NoStaleLoad
  BY <1>1, ChatAssumption, NextShape, NextGrow
<1>2. CASE UNCHANGED vars
  BY <1>2 DEF vars, redis, runs, GrowInv, UpToDate
<1> QED
  BY <1>1, <1>2

LEMMA InitGrow == ASSUME Init PROVE GrowInv
BY DEF Init, GrowInv, BodyPCs

(* A stale load is the only way to forget: if no run takes the lock with a *)
(* state older than the record (ChatService.run reads the record before it *)
(* enters session_run), the memory of every session only grows, whatever   *)
(* processes, crashes, failures, cancellations and deletions interleave.   *)
THEOREM OnlyStaleLoadsForget == Spec /\ [][NoStaleLoad]_vars => MemoryKept
<1>1. Init => GrowInv
  BY InitGrow
<1>2. TypeInv /\ TypeInv' /\ LockInv /\ LockInv' /\ GrowInv
        /\ [Next]_vars /\ [NoStaleLoad]_vars => GrowInv'
  BY GrowKept
<1>3. TypeInv /\ GrowInv /\ [Next]_vars =>
        [\A s \in Sessions :
            exists[s] /\ exists'[s] =>
               IsPrefix(stored[s].context, stored'[s].context)]_vars
  BY ChatAssumption, NextShape, GrowStep
<1> QED
  BY <1>1, <1>2, <1>3, Always, PTL DEF Spec, MemoryKept

(* With one process the record cannot change between the read and the      *)
(* lock: the registry admits one run per session.                          *)
LoadedInv == \A r \in Runs : pc[r] = "loaded" => UpToDate(r)

LEMMA NextLoaded ==
    ASSUME ChatAssumption, NEW p, Procs = {p}, TypeInv, LoadedInv, MemoryShape
    PROVE  LoadedInv'
<1> SUFFICES ASSUME NEW r \in Runs, pc'[r] = "loaded"
             PROVE  IsPrefix(stored'[Sess(r)].context, run'[r].mem.context)
  BY DEF LoadedInv, UpToDate
<1>0. Sess(r) \in Sessions /\ RunShape(r) /\ RecordShape(Sess(r))
  BY RunTypes DEF MemoryShape
<1>1. /\ stored[Sess(r)].context \in Seq(UserMsgs \cup Hints)
      /\ run[r].mem.context \in Seq(UserMsgs \cup Hints)
  BY <1>0, Contexts
<1>2. /\ pc[r] \in {"load", "loaded"}
      /\ IsPrefix(stored[Sess(r)].context, run'[r].mem.context)
      /\ run'[r].mem.context \in Seq(UserMsgs \cup Hints)
  <2>1. CASE pc[r] = "load" /\ run'[r].mem = stored[Sess(r)]
    BY <1>1, <2>1, PrefixFacts
  <2>2. CASE pc[r] = "loaded" /\ run'[r] = run[r]
    BY <1>1, <2>2 DEF LoadedInv, UpToDate
  <2> QED
    BY <1>0, <2>1, <2>2 DEF RunShape, WorkPCs, ReplyPCs, IdlePCs
<1>3. \A q \in Runs : Sess(q) = Sess(r) => q = r
  BY DEF Runs, Sess
<1>4. stored'[Sess(r)] \in {stored[Sess(r)], NewState}
  BY <1>0, <1>2, <1>3 DEF RecordShape
<1> QED
  BY <1>2, <1>4, EmptyFacts, PrefixFacts

LEMMA OneProcessLoads ==
    ASSUME NEW CONSTANT p, Procs = {p} PROVE Spec => [][NoStaleLoad]_vars
<1>1. Init => LoadedInv
  BY DEF Init, LoadedInv
<1>2. TypeInv /\ LoadedInv /\ [Next]_vars => LoadedInv'
  BY ChatAssumption, NextShape, NextLoaded
<1>3. LoadedInv => [NoStaleLoad]_vars
  BY DEF LoadedInv, NoStaleLoad, AcquireSession, At
<1> QED
  BY <1>1, <1>2, <1>3, Always, PTL DEF Spec

(* One process never loses what it remembered, even if it crashes, fails   *)
(* and is restarted: this is the bound of the run that checks MemoryKept.  *)
THEOREM OneProcessRemembers ==
    ASSUME NEW CONSTANT p, Procs = {p} PROVE Spec => MemoryKept
BY OneProcessLoads, OnlyStaleLoadsForget, PTL

------------------------------------------------------------------------------
(* Hints *)

(* No exception, cancellation or crash hits a reply under way before its   *)
(* state is in the record, unless the session is being deleted.            *)
Uninterrupted ==
    \A r \in Runs : pc[r] \in WorkPCs /\ deletion[Sess(r)] = "none" => ~Lost(r)

(* Until the reply begins, the record holds all the run remembers; and the *)
(* record exists until the deletion reaches it.                            *)
HintInv ==
    /\ \A s \in Sessions : deletion[s] \in {"none", "cancelling"} => exists[s]
    /\ \A r \in Runs : pc[r] \in EntryPCs /\ deletion[Sess(r)] = "none" =>
         ToSet(run[r].mem.context) \subseteq ToSet(stored[Sess(r)].context)
    /\ HintsKept

LEMMA InitHints == ASSUME ChatAssumption, Init PROVE HintInv
BY EmptyFacts, RunTypes DEF Init, HintInv, HintsKept

(* What the record holds stays in it. *)
LEMMA StoredGrows ==
    ASSUME ChatAssumption, TypeInv, TypeInv', GrowInv, HintInv, MemoryShape,
           NEW s \in Sessions, deletion'[s] = "none"
    PROVE  /\ deletion[s] = "none" /\ exists[s] /\ exists'[s]
           /\ ToSet(stored[s].context) \subseteq ToSet(stored'[s].context)
<1>1. deletion[s] = "none" /\ exists[s] /\ exists'[s]
  BY DEF MemoryShape, DeletionShape, HintInv
<1>2. IsPrefix(stored[s].context, stored'[s].context)
  BY <1>1, GrowStep
<1>3. /\ stored[s].context \in Seq(UserMsgs \cup Hints)
      /\ stored'[s].context \in Seq(UserMsgs \cup Hints)
  BY DEF TypeInv, TypeOK, AgentState
<1> QED
  BY <1>1, <1>2, <1>3, PrefixFacts

LEMMA NextHints ==
    ASSUME ChatAssumption, TypeInv, TypeInv', GrowInv, HintInv, MemoryShape,
           Uninterrupted
    PROVE  HintInv'
<1>1. ASSUME NEW s \in Sessions, deletion'[s] \in {"none", "cancelling"}
      PROVE  exists'[s]
  BY <1>1 DEF MemoryShape, DeletionShape, HintInv
<1>2. ASSUME NEW r \in Runs, pc'[r] \in EntryPCs, deletion'[Sess(r)] = "none"
      PROVE  ToSet(run'[r].mem.context) \subseteq ToSet(stored'[Sess(r)].context)
  <2>1. /\ deletion[Sess(r)] = "none" /\ RunShape(r)
        /\ ToSet(stored[Sess(r)].context) \subseteq ToSet(stored'[Sess(r)].context)
    BY <1>2, RunTypes, StoredGrows DEF MemoryShape
  <2>2. CASE run'[r].mem = NewState
    BY <2>2, EmptyFacts
  <2>3. CASE run'[r].mem = stored[Sess(r)]
    BY <2>1, <2>3
  <2>4. CASE pc[r] \in EntryPCs /\ run'[r].mem = run[r].mem
    BY <2>1, <2>4 DEF HintInv
  <2> QED
    BY <1>2, <2>1, <2>2, <2>3, <2>4 DEF RunShape, EntryPCs, WorkPCs, ReplyPCs
<1>3. ASSUME NEW h \in Hints, stage'[h] # "new", deletion'[SessionOf[h]] = "none"
      PROVE  \/ h \in ToSet(inbox'[SessionOf[h]]) \cup ToSet(stored'[SessionOf[h]].context)
             \/ \E r \in Runs : /\ Sess(r) = SessionOf[h]
                                /\ h \in ToSet(run'[r].mem.context)
  <2> DEFINE s == SessionOf[h]
  <2>1. s \in Sessions
    BY RunTypes
  <2> HIDE DEF s
  <2>2. /\ deletion[s] = "none" /\ exists[s]
        /\ ToSet(stored[s].context) \subseteq ToSet(stored'[s].context)
    BY <1>3, <2>1, StoredGrows DEF s
  <2>3. InboxShape(s)
    BY <2>1 DEF MemoryShape
  <2>4. CASE h \in ToSet(inbox[s])
    BY <1>3, <2>3, <2>4 DEF InboxShape, s
  <2>5. CASE h \in ToSet(stored[s].context)
    BY <2>2, <2>5 DEF s
  <2>6. ASSUME NEW r \in Runs, Sess(r) = s, h \in ToSet(run[r].mem.context)
        PROVE  h \in ToSet(stored'[s].context) \/ h \in ToSet(run'[r].mem.context)
    <3>1. RunShape(r)
      BY DEF MemoryShape
    <3>2. CASE pc[r] \in EntryPCs
      BY <2>2, <2>6, <3>2 DEF HintInv
    <3>3. CASE run'[r].mem = run[r].mem
      BY <2>6, <3>3
    <3>4. CASE Grows(r)
      <4>1. /\ run[r].mem.context \in Seq(UserMsgs \cup Hints)
            /\ run'[r].mem.context \in Seq(UserMsgs \cup Hints)
        BY DEF TypeInv, TypeOK, RunLocals, AgentState
      <4> QED
        BY <2>6, <3>4, <4>1, PrefixFacts DEF Grows
    <3>5. CASE pc[r] \in WorkPCs /\ stored'[s] = run[r].mem
      BY <2>6, <3>5
    <3>6. CASE pc[r] \in WorkPCs /\ Lost(r)
      BY <2>2, <2>6, <3>6 DEF Uninterrupted
    <3>7. CASE pc[r] \notin EntryPCs \cup WorkPCs
      <4>1. pc[r] \in IdlePCs /\ run[r] = NoLocals
        BY <3>7, Locations DEF TypeInv, TypeOK, LocalsSound, IdlePCs, EntryPCs,
           WorkPCs, ReplyPCs
      <4> QED
        BY <2>6, <4>1, EmptyFacts
    <3> QED
      BY <2>2, <2>6, <3>1, <3>2, <3>3, <3>4, <3>5, <3>6, <3>7 DEF RunShape, EntryPCs
  <2>7. \/ h \in ToSet(inbox[s]) \cup ToSet(stored[s].context)
        \/ \E r \in Runs : Sess(r) = s /\ h \in ToSet(run[r].mem.context)
        \/ stage[h] = "new"
    BY <2>2 DEF HintInv, HintsKept, s
  <2>8. CASE stage[h] = "new"
    BY <1>3, <2>8 DEF MemoryShape, HintShape
  <2> QED
    BY <2>4, <2>5, <2>6, <2>7, <2>8 DEF s
<1> QED
  BY <1>1, <1>2, <1>3 DEF HintInv, HintsKept

LEMMA HintsStay ==
    ASSUME TypeInv, TypeInv', GrowInv, HintInv, [Next]_vars, [Uninterrupted]_vars
    PROVE  HintInv'
<1>1. CASE Uninterrupted
  BY <1>1, ChatAssumption, NextShape, NextHints
<1>2. CASE UNCHANGED vars
  BY <1>2 DEF vars, redis, runs, clients, deleting, HintInv, HintsKept
<1> QED
  BY <1>1, <1>2

(* A drained hint is lost in no other way than these two: the run that has *)
(* it is interrupted before it writes its state, or a run that loaded the  *)
(* state too early overwrites it.                                          *)
THEOREM OnlyLostRunsLoseHints ==
    Spec /\ [][NoStaleLoad]_vars /\ [][Uninterrupted]_vars => []HintsKept
<1>1. Init => GrowInv /\ HintInv
  BY ChatAssumption, InitGrow, InitHints
<1>2. TypeInv /\ TypeInv' /\ LockInv /\ LockInv' /\ GrowInv
        /\ [Next]_vars /\ [NoStaleLoad]_vars => GrowInv'
  BY GrowKept
<1>3. TypeInv /\ TypeInv' /\ GrowInv /\ HintInv
        /\ [Next]_vars /\ [Uninterrupted]_vars => HintInv'
  BY HintsStay
<1>4. HintInv => HintsKept
  BY DEF HintInv
<1> QED
  BY <1>1, <1>2, <1>3, <1>4, Always, PTL DEF Spec

(* Where no process is stopped and no call fails, only a deletion cancels. *)
CancelInv == \A r \in cancelling \cup cancels : deletion[Sess(r)] # "none"

(* ... or the dispatchers and the deletion, which only advances. *)
LEMMA CancelMoves ==
    ASSUME CancelInv, cancelling' \cup cancels' \subseteq cancelling \cup cancels,
           deletion' = deletion
    PROVE  CancelInv'
BY DEF CancelInv

LEMMA NextCancel ==
    ASSUME ChatAssumption, MaxRestarts = 0, TypeInv, CancelInv, [Next]_vars
    PROVE  CancelInv'
<1> USE CancelMoves DEF deleting
<1>1. ASSUME NEW r \in Runs, RunStep(r) \/ RunFails(r)
      PROVE  CancelInv'
  <2>1. deletion' = deletion
    BY <1>1, RunStepsOwn
  <2>2. cancels' = cancels /\ cancelling' \subseteq cancelling
    <3>1. CASE Load(r) \/ SkipParked(r) \/ AcquireSession(r) \/ EndRun(r)
      BY <3>1 DEF Load, SkipParked, AcquireSession, EndRun, Finish, Goto, clients
    <3>2. CASE PrepareInput(r) \/ RejectInput(r) \/ StartReply(r) \/ ResumeReply(r)
      BY <3>2 DEF PrepareInput, RejectInput, StartReply, ResumeReply, Unwind, Goto, clients
    <3>3. CASE LeaveLoop(r) \/ ReadInbox(r) \/ AckInbox(r) \/ Think(r) \/ Act(r)
      BY <3>3 DEF LeaveLoop, ReadInbox, AckInbox, Think, Act, Goto, clients
    <3>4. CASE SaveReply(r) \/ GetRecord(r) \/ SetRecord(r) \/ TrimLog(r) \/ ReleaseSession(r)
      BY <3>4 DEF SaveReply, GetRecord, SetRecord, TrimLog, ReleaseSession, Unwind, Goto, clients
    <3>5. CASE Interrupted(r)
      BY <3>5 DEF Interrupted, clients
    <3> QED
      BY <1>1, <3>1, <3>2, <3>3, <3>4, <3>5 DEF RunStep, RunFails, Cancelled
  <2> QED
    BY <2>1, <2>2
<1>2. ASSUME NEW r \in Runs, CancelSession(r)
      PROVE  CancelInv'
  <2>1. /\ r \in cancels /\ cancels' = cancels \ {r} /\ deletion' = deletion
        /\ cancelling' \subseteq cancelling \cup {r}
    BY <1>2 DEF CancelSession
  <2> QED
    BY <2>1
<1>3. ASSUME NEW h \in Hints, ProducerStep(h) \/ ProducerFails(h)
      PROVE  CancelInv'
  BY <1>3 DEF ProducerStep, PushInbox, EnqueueWakeup, SignalWakeup, ProducerFails, runs
<1>4. ASSUME NEW p \in Procs, NEW x \in Inputs, PostChat(p, x)
      PROVE  CancelInv'
  BY <1>4 DEF PostChat
<1>5. ASSUME NEW p \in Procs, DispatchStep(p) \/ DispatcherFails(p)
      PROVE  CancelInv'
  BY <1>5 DEF DispatchStep, ReadQueue, AckQueue, CheckRunning, SpawnWakeup,
     DispatcherFails, runs, clients
<1>6. ASSUME NEW p \in Procs, Shutdown(p) \/ Crash(p)
      PROVE  FALSE
  BY <1>6 DEF Shutdown, Crash, TypeInv, TypeOK
<1>7. ASSUME NEW p \in Procs, Stopped(p) \/ Restart(p)
      PROVE  CancelInv'
  BY <1>7 DEF Stopped, Restart, runs, clients
<1>8. ASSUME NEW s \in Sessions, ExpireLease(s)
      PROVE  CancelInv'
  BY <1>8 DEF ExpireLease, runs, clients
<1>9. ASSUME NEW s \in Sessions, PublishCancel(s)
      PROVE  CancelInv'
  <2>1. /\ deletion' = [deletion EXCEPT ![s] = "cancelling"] /\ cancelling' = cancelling
        /\ cancels' \subseteq cancels \cup {<<p, s>> : p \in Procs}
    BY <1>9 DEF PublishCancel, runs
  <2>2. \A r \in cancelling \cup cancels : r \in Runs /\ deletion[Sess(r)] # "none"
    BY DEF TypeInv, TypeOK, CancelInv
  <2>3. ASSUME NEW r \in cancelling' \cup cancels'
        PROVE  deletion'[Sess(r)] # "none"
    <3>1. Sess(r) \in Sessions /\ (deletion[Sess(r)] # "none" \/ Sess(r) = s)
      BY <2>1, <2>2, RunTypes
    <3> QED
      BY <2>1, <3>1 DEF TypeInv, TypeOK
  <2> QED
    BY <2>3 DEF CancelInv
<1>10. ASSUME NEW s \in Sessions, DeleteRecord(s) \/ PurgeSession(s)
       PROVE  CancelInv'
  <2>1. /\ cancelling' = cancelling /\ cancels' = cancels
        /\ \A t \in Sessions : deletion[t] # "none" => deletion'[t] # "none"
    BY <1>10 DEF DeleteRecord, PurgeSession, runs, TypeInv, TypeOK
  <2> QED
    BY <2>1, RunTypes DEF CancelInv, TypeInv, TypeOK
<1>11. CASE UNCHANGED vars
  BY <1>11 DEF vars, runs, clients
<1> QED
  BY <1>1, <1>2, <1>3, <1>4, <1>5, <1>6, <1>7, <1>8, <1>9, <1>10, <1>11
  DEF Next, DeleteStep

LEMMA Undisturbed ==
    ASSUME MaxRestarts = 0, MaxFaults = 0
    PROVE  Spec => [][\A r \in Runs : Lost(r) => deletion[Sess(r)] # "none"]_vars
<1>1. Init => CancelInv
  BY DEF Init, CancelInv
<1>2. TypeInv /\ CancelInv /\ [Next]_vars => CancelInv'
  BY ChatAssumption, NextCancel
<1>3. TypeInv /\ CancelInv => [\A r \in Runs : Lost(r) => deletion[Sess(r)] # "none"]_vars
  <2> SUFFICES ASSUME TypeInv, CancelInv, NEW r \in Runs, Lost(r)
               PROVE  deletion[Sess(r)] # "none"
    OBVIOUS
  <2>1. ~RunFails(r) /\ ~Crash(r[1])
    BY DEF RunFails, Crash, TypeInv, TypeOK
  <2> QED
    BY <2>1 DEF Lost, Cancelled, CancelInv
<1> QED
  BY <1>1, <1>2, <1>3, Always, PTL DEF Spec

(* One process, stopped by nobody, whose calls all succeed: this is the    *)
(* bound of the run that checks HintsKept.                                 *)
THEOREM OneProcessKeepsHints ==
    ASSUME NEW CONSTANT p, Procs = {p}, MaxRestarts = 0, MaxFaults = 0
    PROVE  Spec => []HintsKept
<1>1. [\A r \in Runs : Lost(r) => deletion[Sess(r)] # "none"]_vars => [Uninterrupted]_vars
  BY DEF Uninterrupted
<1> QED
  BY <1>1, OneProcessLoads, Undisturbed, OnlyLostRunsLoseHints, PTL

------------------------------------------------------------------------------
(* The replay log *)

LogPCs == WorkPCs \cup {"trim"}

(* The trim of the log runs to its end, unless the session is deleted.     *)
TrimsComplete ==
    \A r \in Runs : deletion[Sess(r)] = "none" =>
        /\ pc[r] = "trim" => ~(Cancelled(r) \/ RunFails(r))
        /\ pc[r] \in LogPCs => ~Crash(r[1])

(* Where there is something to replay, a run publishes or trims. *)
LogInv ==
    \A s \in Sessions : logged[s] /\ deletion[s] = "none" =>
        \E r \in Runs : Sess(r) = s /\ pc[r] \in LogPCs

(* A run publishes inside its reply only, and trims before it goes on. *)
LogShape(r) ==
    /\ logged' = logged
         \/ /\ pc'[r] \in LogPCs
            /\ \A s \in Sessions \ {Sess(r)} : logged'[s] = logged[s]
         \/ logged' = [logged EXCEPT ![Sess(r)] = FALSE]
    /\ pc[r] \in LogPCs =>
         \/ pc'[r] \in LogPCs
         \/ ~logged'[Sess(r)]
         \/ pc[r] = "trim" /\ (Cancelled(r) \/ RunFails(r))

LEMMA RunLog ==
    ASSUME ChatAssumption, TypeInv, NEW r \in Runs, RunStep(r) \/ RunFails(r)
    PROVE  LogShape(r)
<1> USE DEF At, Goto, LogShape, LogPCs, WorkPCs, ReplyPCs
<1>0. /\ pc \in [Runs -> PCs] /\ logged \in [Sessions -> BOOLEAN] /\ Sess(r) \in Sessions
  BY RunTypes, Types
<1>1. CASE Load(r) \/ SkipParked(r) \/ AcquireSession(r)
  BY <1>0, <1>1 DEF Load, SkipParked, AcquireSession, Finish, redis
<1>2. CASE PrepareInput(r) \/ RejectInput(r) \/ EndRun(r)
  BY <1>0, <1>2 DEF PrepareInput, RejectInput, EndRun, Unwind, Finish, redis
<1>3. CASE StartReply(r) \/ ResumeReply(r)
  BY <1>0, <1>3 DEF StartReply, ResumeReply, Publish
<1>4. CASE LeaveLoop(r) \/ ReadInbox(r) \/ AckInbox(r)
  BY <1>0, <1>4 DEF LeaveLoop, ReadInbox, AckInbox, Publish, redis
<1>5. CASE Think(r) \/ Act(r)
  BY <1>0, <1>5 DEF Think, Act, Publish
<1>6. CASE SaveReply(r) \/ GetRecord(r) \/ SetRecord(r)
  BY <1>0, <1>6 DEF SaveReply, GetRecord, SetRecord, Unwind, redis
<1>7. CASE TrimLog(r) \/ ReleaseSession(r)
  BY <1>0, <1>7 DEF TrimLog, ReleaseSession
<1>8. CASE Cancelled(r) \/ RunFails(r)
  BY <1>0, <1>8, Locations DEF Cancelled, RunFails, Interrupted, BodyPCs
<1> QED
  BY <1>1, <1>2, <1>3, <1>4, <1>5, <1>6, <1>7, <1>8 DEF RunStep

(* What is logged, and who publishes, stays as it is. *)
LEMMA LogStays ==
    ASSUME TypeInv, LogInv,
           \A s \in Sessions : logged'[s] /\ deletion'[s] = "none" =>
               logged[s] /\ deletion[s] = "none",
           \A r \in Runs : pc[r] \in LogPCs /\ deletion[Sess(r)] = "none" => pc'[r] \in LogPCs
    PROVE  LogInv'
BY DEF LogInv

LEMMA NextLog ==
    ASSUME ChatAssumption, TypeInv, LogInv, [Next]_vars, [TrimsComplete]_vars
    PROVE  LogInv'
<1> USE DEF deleting
<1>1. ASSUME UNCHANGED <<logged, deletion, pc>>
      PROVE  LogInv'
  BY <1>1 DEF LogInv
<1>2. ASSUME NEW r \in Runs, RunStep(r) \/ RunFails(r)
      PROVE  LogInv'
  <2>1. Only(r) /\ deletion' = deletion /\ LogShape(r)
    BY <1>2, RunStepsOwn, RunLog
  <2>2. CASE UNCHANGED vars
    BY <1>1, <2>2 DEF vars, redis, runs, clients
  <2>3. CASE TrimsComplete
    <3> SUFFICES ASSUME NEW s \in Sessions, logged'[s], deletion[s] = "none"
                 PROVE  \E q \in Runs : Sess(q) = s /\ pc'[q] \in LogPCs
      BY <2>1 DEF LogInv
    <3>1. CASE s = Sess(r) /\ pc'[r] \in LogPCs
      BY <3>1
    <3>2. CASE s # Sess(r) \/ pc'[r] \notin LogPCs
      <4>1. logged[s]
        BY <2>1, <3>2, Types DEF LogShape
      <4>2. PICK q \in Runs : Sess(q) = s /\ pc[q] \in LogPCs
        BY <4>1 DEF LogInv
      <4>3. CASE q = r
        BY <2>1, <2>3, <3>2, <4>2, <4>3 DEF LogShape, TrimsComplete
      <4>4. CASE q # r
        BY <2>1, <4>2, <4>4 DEF Only
      <4> QED
        BY <4>3, <4>4
    <3> QED
      BY <3>1, <3>2
  <2> QED
    BY <2>2, <2>3
<1>3. ASSUME NEW r \in Runs, CancelSession(r)
      PROVE  LogInv'
  BY <1>1, <1>3 DEF CancelSession, redis
<1>4. ASSUME NEW h \in Hints, ProducerStep(h) \/ ProducerFails(h)
      PROVE  LogInv'
  BY <1>1, <1>4 DEF ProducerStep, PushInbox, EnqueueWakeup, SignalWakeup,
     ProducerFails, redis, runs
<1>5. ASSUME NEW r \in Runs, NEW x, pc[r] = "none", Spawn(r, x), UNCHANGED <<logged, deletion>>
      PROVE  LogInv'
  BY <1>5, LogStays, SpawnStep DEF Only, LogPCs, WorkPCs, ReplyPCs
<1>6. ASSUME NEW p \in Procs, NEW x \in Inputs, PostChat(p, x)
      PROVE  LogInv'
  BY <1>5, <1>6, RunTypes DEF PostChat, redis
<1>7. ASSUME NEW p \in Procs,
             ReadQueue(p) \/ AckQueue(p) \/ CheckRunning(p) \/ DispatcherFails(p)
      PROVE  LogInv'
  BY <1>1, <1>7 DEF ReadQueue, AckQueue, CheckRunning, DispatcherFails, redis, runs, clients
<1>8. ASSUME NEW p \in Procs, SpawnWakeup(p)
      PROVE  LogInv'
  <2> DEFINE r == <<p, SessionOf[Entry(p)]>>
  <2>1. r \in Runs /\ UNCHANGED redis /\ UNCHANGED clients
    BY <1>8, NextEntryTypes, RunTypes DEF SpawnWakeup
  <2>2. CASE pc[r] = "none" /\ Spawn(r, Wake)
    BY <1>5, <2>1, <2>2 DEF redis, clients
  <2>3. CASE UNCHANGED <<pc, run>>
    BY <1>1, <2>1, <2>3 DEF redis, clients
  <2> QED
    BY <1>8, <2>2, <2>3 DEF SpawnWakeup
<1>9. ASSUME NEW p \in Procs, Shutdown(p) \/ Stopped(p) \/ Restart(p)
      PROVE  LogInv'
  BY <1>1, <1>9 DEF Shutdown, Stopped, Restart, redis, runs, clients
<1>10. ASSUME NEW p \in Procs, Crash(p)
       PROVE  LogInv'
  <2>1. /\ pc' = [r \in Runs |-> IF r[1] = p THEN "none" ELSE pc[r]]
        /\ UNCHANGED <<logged, deletion>>
    BY <1>10 DEF Crash
  <2>2. CASE UNCHANGED vars
    BY <1>1, <2>2 DEF vars, redis, runs, clients
  <2>3. CASE TrimsComplete
    <3>1. \A r \in Runs : pc[r] \in LogPCs /\ deletion[Sess(r)] = "none" => pc'[r] \in LogPCs
      BY <1>10, <2>1, <2>3 DEF TrimsComplete
    <3> QED
      BY <2>1, <3>1, LogStays
  <2> QED
    BY <2>2, <2>3
<1>11. ASSUME NEW s \in Sessions, ExpireLease(s)
       PROVE  LogInv'
  BY <1>1, <1>11 DEF ExpireLease, runs, clients
<1>12. ASSUME NEW s \in Sessions, DeleteStep(s)
       PROVE  LogInv'
  <2>1. /\ pc' = pc
        /\ \A t \in Sessions : logged'[t] /\ deletion'[t] = "none" =>
             logged[t] /\ deletion[t] = "none"
    BY <1>12 DEF DeleteStep, PublishCancel, DeleteRecord, PurgeSession, redis, runs,
       TypeInv, TypeOK
  <2> QED
    BY <2>1, LogStays
<1>13. CASE UNCHANGED vars
  BY <1>1, <1>13 DEF vars, redis, runs, clients
<1> QED
  BY <1>2, <1>3, <1>4, <1>6, <1>7, <1>8, <1>9, <1>10, <1>11, <1>12, <1>13
  DEF Next, DispatchStep

(* message_bus/_base.py:489, "a clean log": the next run in the lock finds *)
(* one whenever the trim of the run before was not itself cut short, or    *)
(* skipped by a crash, in any number of processes.                         *)
THEOREM OnlyCutTrimsLeaveLogs == Spec /\ [][TrimsComplete]_vars => []CleanSlate
<1>1. Init => LogInv
  BY DEF Init, LogInv
<1>2. TypeInv /\ LogInv /\ [Next]_vars /\ [TrimsComplete]_vars => LogInv'
  BY ChatAssumption, NextLog
<1>3. TypeInv /\ LockInv /\ LogInv => CleanSlate
  <2> SUFFICES ASSUME TypeInv, LockInv, LogInv, NEW r \in Runs, pc[r] \in {"locked", "input"},
                      logged[Sess(r)], deletion[Sess(r)] = "none"
               PROVE  FALSE
    BY DEF CleanSlate
  <2>1. PICK q \in Runs : Sess(q) = Sess(r) /\ pc[q] \in LogPCs
    BY ChatAssumption, RunTypes DEF LogInv
  <2>2. q = r
    BY <2>1, Alone, Locations DEF LogPCs, WorkPCs, ReplyPCs
  <2> QED
    BY <2>1, <2>2 DEF LogPCs, WorkPCs, ReplyPCs
<1> QED
  BY <1>1, <1>2, <1>3, Always, PTL DEF Spec

(* Any number of processes, stopped by nobody, whose calls all succeed.    *)
THEOREM UndisturbedLogsClean ==
    ASSUME MaxRestarts = 0, MaxFaults = 0 PROVE Spec => []CleanSlate
<1>1. [\A r \in Runs : Lost(r) => deletion[Sess(r)] # "none"]_vars => [TrimsComplete]_vars
  BY DEF TrimsComplete, Lost
<1> QED
  BY <1>1, Undisturbed, OnlyCutTrimsLeaveLogs, PTL
------------------------------------------------------------------------------
(* Waiting hints *)

(* The wake-up of the hint is still to be checked by a dispatcher ... *)
Unseen(h) ==
    \/ stage[h] = "pushed"
    \/ h \in ToSet(queue)
    \/ \E p \in Procs : \/ disp[p] = "check" /\ h \in ToSet(batch[p])
                        \/ disp[p] = "spawn" /\ h \in ToSet(Tail(batch[p]))

(* ... or has been checked, and is about to start a run. *)
OnItsWay(h) == Unseen(h) \/ \E p \in Procs : disp[p] = "spawn" /\ h = Entry(p)

(* The run has the hint in hand, or the reading of the inbox before it, or *)
(* leaves an agent behind that waits for a confirmation.  Of the runs that *)
(* have not begun only a wake-up is sure to begin, unless it is parked.    *)
Serves(r, h) ==
    \/ /\ run[r].job = Wake
       /\ \/ pc[r] = "load"
          \/ /\ pc[r] = "loaded"
             /\ run[r].mem.tools = "await" => stored[Sess(r)].tools = "await"
          \/ pc[r] \in {"locked", "input"} /\ run[r].mem.tools # "await"
    \/ pc[r] \in {"loop", "act"}
    \/ pc[r] = "ack" /\ h \in ToSet(run[r].hints)
    \/ pc[r] \in {"save", "persist", "write"} /\ run[r].mem.tools = "await"

(* A wake-up of the session goes to waste: its producer fails before it is *)
(* queued; a dispatcher finds the session locked, gone, or with a run of   *)
(* its own process; or a dispatcher ends with the wake-up in its hands.    *)
WakeupWasted(s) ==
    \/ \E h \in Hints : SessionOf[h] = s /\ stage[h] = "pushed" /\ ProducerFails(h)
    \/ \E p \in Procs :
         \/ CheckRunning(p) /\ SessionOf[Entry(p)] = s /\ lock[s] # Free
         \/ /\ SpawnWakeup(p) /\ SessionOf[Entry(p)] = s
            /\ ~exists[s] \/ pc[<<p, s>>] # "none"
         \/ /\ DispatcherFails(p) \/ Shutdown(p) \/ Crash(p)
            /\ disp[p] \in {"check", "spawn"}
            /\ \E h \in ToSet(batch[p]) : SessionOf[h] = s

(* A run that still had the inbox to read stops short of its last entry:   *)
(* max_iters is reached, the inbox is longer than a batch, or the run is   *)
(* interrupted.                                                            *)
StopsShort(r) ==
    \/ LeaveLoop(r) /\ run[r].mem.tools # "await"
    \/ ReadInbox(r) /\ InboxBatch < Len(inbox[Sess(r)])
    \/ Lost(r) /\ \E h \in ToSet(inbox[Sess(r)]) : Serves(r, h)

GivenUp(s) ==
    \/ WakeupWasted(s)
    \/ \E r \in Runs : Sess(r) = s /\ StopsShort(r)
    \/ DeleteRecord(s)

NoneGivenUp == \A s \in Sessions : GivenUp(s) => inbox[s] = <<>>

(* Once its wake-up has been checked, no run is past the hint; and it has  *)
(* a wake-up on its way, a run that serves it, or an agent that waits for  *)
(* a confirmation.                                                         *)
Waits(s, h) ==
    /\ Unseen(h) \/ \A r \in Runs : Sess(r) = s /\ pc[r] \in WorkPCs => Serves(r, h)
    /\ \/ OnItsWay(h)
       \/ /\ exists[s]
          /\ stored[s].tools = "await" \/ \E r \in Runs : Sess(r) = s /\ Serves(r, h)

WaitInv == \A s \in Sessions : \A h \in ToSet(inbox[s]) : SessionOf[h] = s /\ Waits(s, h)

Mail == <<stage, queue, disp, batch>>

LEMMA MailSame ==
    ASSUME UNCHANGED Mail, NEW h
    PROVE  Unseen(h)' = Unseen(h) /\ OnItsWay(h)' = OnItsWay(h)
BY DEF Mail, Unseen, OnItsWay, Entry

LEMMA ServesSame ==
    ASSUME NEW r, NEW h, pc'[r] = pc[r], run'[r] = run[r],
           pc[r] = "loaded" => stored'[Sess(r)] = stored[Sess(r)]
    PROVE  Serves(r, h)' = Serves(r, h)
BY DEF Serves

(* What a step of a run may do to a hint in the inbox of its session. *)
Handled(r, h) ==
    /\ pc'[r] \in WorkPCs => Serves(r, h)' \/ (pc[r] \in WorkPCs /\ ~Serves(r, h))
    /\ Serves(r, h) =>
         Serves(r, h)' \/ stored'[Sess(r)].tools = "await" \/ ~exists[Sess(r)]
    /\ \/ stored'[Sess(r)] = stored[Sess(r)] /\ exists'[Sess(r)] = exists[Sess(r)]
       \/ pc[r] = "write" /\ exists'[Sess(r)] /\ stored'[Sess(r)] = run[r].mem

(* The runs of a session at work; the rest of the session is left alone.   *)
LEMMA RunWaits ==
    ASSUME ChatAssumption, WaitInv, NEW r \in Runs, Only(r), UNCHANGED Mail,
           \A s \in Sessions \ {Sess(r)} :
               inbox'[s] = inbox[s] /\ stored'[s] = stored[s] /\ exists'[s] = exists[s],
           ToSet(inbox'[Sess(r)]) \subseteq ToSet(inbox[Sess(r)]),
           \A h \in ToSet(inbox'[Sess(r)]) : Handled(r, h)
    PROVE  WaitInv'
<1> SUFFICES ASSUME NEW s \in Sessions, NEW h \in ToSet(inbox'[s])
             PROVE  SessionOf[h] = s /\ Waits(s, h)'
  BY DEF WaitInv
<1>0. \A q \in Runs : Sess(q) \in Sessions
  BY RunTypes
<1>1. h \in ToSet(inbox[s]) /\ SessionOf[h] = s /\ Waits(s, h)
  BY DEF WaitInv
<1>2. Unseen(h)' = Unseen(h) /\ OnItsWay(h)' = OnItsWay(h)
  BY MailSame
<1>3. CASE s # Sess(r)
  <2>1. \A q \in Runs : Sess(q) = s => pc'[q] = pc[q] /\ Serves(q, h)' = Serves(q, h)
    BY <1>3, ServesSame DEF Only
  <2>2. stored'[s] = stored[s] /\ exists'[s] = exists[s]
    BY <1>3
  <2> QED
    BY <1>1, <1>2, <2>1, <2>2 DEF Waits
<1>4. CASE s = Sess(r)
  <2>1. Handled(r, h)
    BY <1>4
  <2>2. \A q \in Runs \ {r} :
          /\ pc'[q] = pc[q]
          /\ Sess(q) = s /\ (pc[q] # "loaded" \/ stored'[s] = stored[s])
               => Serves(q, h)' = Serves(q, h)
    BY ServesSame DEF Only
  <2>3. ASSUME ~Unseen(h), NEW q \in Runs, Sess(q) = s, pc'[q] \in WorkPCs
        PROVE  Serves(q, h)'
    <3>1. CASE q = r
      BY <1>1, <1>4, <2>1, <2>3, <3>1 DEF Handled, Waits
    <3>2. CASE q # r
      <4>1. pc[q] \in WorkPCs /\ pc[q] # "loaded"
        BY <2>2, <2>3, <3>2 DEF WorkPCs, ReplyPCs
      <4> QED
        BY <1>1, <2>2, <2>3, <3>2, <4>1 DEF Waits
    <3> QED
      BY <3>1, <3>2
  <2>4. ASSUME ~OnItsWay(h)
        PROVE  /\ exists'[s]
               /\ stored'[s].tools = "await" \/ \E q \in Runs : Sess(q) = s /\ Serves(q, h)'
    <3>1. /\ exists[s] /\ ~Unseen(h)
          /\ stored[s].tools = "await" \/ \E q \in Runs : Sess(q) = s /\ Serves(q, h)
      BY <1>1, <2>4 DEF Waits, OnItsWay
    <3>2. CASE pc[r] = "write" /\ exists'[s] /\ stored'[s] = run[r].mem
      <4>1. Serves(r, h)
        BY <1>1, <1>4, <3>1, <3>2 DEF Waits, WorkPCs
      <4> QED
        BY <3>2, <4>1 DEF Serves
    <3>3. CASE stored'[s] = stored[s] /\ exists'[s] = exists[s]
      <4>1. ASSUME NEW q \in Runs, Sess(q) = s, Serves(q, h)
            PROVE  stored'[s].tools = "await" \/ Serves(q, h)'
        BY <1>4, <2>1, <2>2, <3>1, <3>3, <4>1 DEF Handled
      <4> QED
        BY <3>1, <3>3, <4>1
    <3> QED
      BY <1>4, <2>1, <3>2, <3>3 DEF Handled
  <2> QED
    BY <1>1, <1>2, <2>3, <2>4 DEF Waits
<1> QED
  BY <1>3, <1>4

LEMMA RunMail ==
    ASSUME TypeInv, NEW r \in Runs, RunStep(r) \/ RunFails(r)
    PROVE  UNCHANGED Mail
<1> USE DEF Mail, redis, procs, clients
<1>0. stage' = stage
  BY RunStepsOwn
<1>1. CASE Load(r) \/ SkipParked(r) \/ AcquireSession(r) \/ EndRun(r)
  BY <1>0, <1>1 DEF Load, SkipParked, AcquireSession, EndRun
<1>2. CASE PrepareInput(r) \/ RejectInput(r) \/ StartReply(r) \/ ResumeReply(r)
  BY <1>0, <1>2 DEF PrepareInput, RejectInput, StartReply, ResumeReply
<1>3. CASE LeaveLoop(r) \/ ReadInbox(r) \/ AckInbox(r) \/ Think(r) \/ Act(r)
  BY <1>0, <1>3 DEF LeaveLoop, ReadInbox, AckInbox, Think, Act
<1>4. CASE SaveReply(r) \/ GetRecord(r) \/ SetRecord(r) \/ TrimLog(r) \/ ReleaseSession(r)
  BY <1>0, <1>4 DEF SaveReply, GetRecord, SetRecord, TrimLog, ReleaseSession
<1>5. CASE Interrupted(r)
  BY <1>0, <1>5 DEF Interrupted
<1> QED
  BY <1>1, <1>2, <1>3, <1>4, <1>5 DEF RunStep, RunFails, Cancelled

(* Steps that leave record and inbox alone. *)
LEMMA QuietWaits ==
    ASSUME ChatAssumption, TypeInv, WaitInv, NEW r \in Runs, RunStep(r) \/ RunFails(r),
           UNCHANGED <<inbox, stored, exists>>,
           \A h \in ToSet(inbox[Sess(r)]) :
               /\ pc'[r] \in WorkPCs => Serves(r, h)' \/ (pc[r] \in WorkPCs /\ ~Serves(r, h))
               /\ Serves(r, h) => \/ Serves(r, h)'
                                  \/ stored[Sess(r)].tools = "await"
                                  \/ ~exists[Sess(r)]
    PROVE  WaitInv'
BY RunMail, RunStepsOwn, RunWaits DEF Handled

LEMMA EntryWaits ==
    ASSUME ChatAssumption, TypeInv, WaitInv, NEW r \in Runs,
           Load(r) \/ SkipParked(r) \/ AcquireSession(r) \/ PrepareInput(r) \/ RejectInput(r)
    PROVE  WaitInv'
<1>0. /\ Sess(r) \in Sessions /\ pc \in [Runs -> PCs] /\ run \in [Runs -> RunLocals]
      /\ stored[Sess(r)] \in AgentState /\ run[r] \in RunLocals
  BY RunTypes DEF TypeInv, TypeOK
<1>1. stored' = stored /\ inbox' = inbox /\ exists' = exists /\ RunStep(r)
  BY DEF Load, SkipParked, AcquireSession, PrepareInput, RejectInput, redis, RunStep
<1>2. ASSUME pc'[r] \notin WorkPCs,
             \A h : Serves(r, h) => \/ Serves(r, h)'
                                    \/ stored[Sess(r)].tools = "await"
                                    \/ ~exists[Sess(r)]
      PROVE  WaitInv'
  BY <1>1, <1>2, QuietWaits
<1>3. CASE Load(r)
  <2>1. CASE exists[Sess(r)]
    <3>1. /\ pc'[r] = "loaded" /\ pc[r] = "load"
          /\ run'[r] = [run[r] EXCEPT !.mem = stored[Sess(r)]]
      BY <1>0, <1>3, <2>1 DEF Load, At, Goto
    <3>2. run'[r].mem = stored[Sess(r)] /\ run'[r].job = run[r].job
      BY <1>0, <3>1, MemFields
    <3> QED
      BY <1>1, <1>2, <3>1, <3>2 DEF Serves, WorkPCs, ReplyPCs
  <2>2. CASE ~exists[Sess(r)]
    <3>1. pc'[r] = "none"
      BY <1>0, <1>3, <2>2 DEF Load, Finish, Goto
    <3> QED
      BY <1>2, <2>2, <3>1 DEF WorkPCs, ReplyPCs
  <2> QED
    BY <2>1, <2>2
<1>4. CASE SkipParked(r)
  <2>1. pc'[r] = "none" /\ pc[r] = "loaded" /\ run[r].mem.tools = "await"
    BY <1>0, <1>4 DEF SkipParked, Parked, Finish, At, Goto
  <2> QED
    BY <1>2, <2>1 DEF Serves, WorkPCs, ReplyPCs
<1>5. CASE AcquireSession(r)
  <2>1. /\ pc[r] = "loaded" /\ pc'[r] = "locked" /\ run' = run
        /\ run[r].job = Wake => run[r].mem.tools # "await"
    BY <1>0, <1>5 DEF AcquireSession, Parked, At, Goto
  <2> QED
    BY <1>2, <2>1 DEF Serves, WorkPCs, ReplyPCs
<1>6. CASE PrepareInput(r)
  <2>1. /\ pc[r] = "locked" /\ pc'[r] = "input"
        /\ run' = run \/ \E n : run' = [run EXCEPT ![r] = [run[r] EXCEPT !.reply = n]]
    BY <1>0, <1>6 DEF PrepareInput, At, Goto
  <2>2. ASSUME NEW n, run' = [run EXCEPT ![r] = [run[r] EXCEPT !.reply = n]]
        PROVE  run'[r].mem = run[r].mem /\ run'[r].job = run[r].job
    <3>1. run'[r] = [run[r] EXCEPT !.reply = n]
      BY <1>0, <2>2
    <3> QED
      BY <1>0, <3>1 DEF RunLocals
  <2>3. run'[r].mem = run[r].mem /\ run'[r].job = run[r].job
    BY <2>1, <2>2
  <2> QED
    BY <1>2, <2>1, <2>3 DEF Serves, WorkPCs, ReplyPCs
<1>7. CASE RejectInput(r)
  <2>1. /\ pc[r] = "input" /\ pc'[r] = "trim"
        /\ run[r].job = Wake => run[r].mem.tools = "await"
    BY <1>0, <1>7 DEF RejectInput, Unwind, At, Goto, ChatAssumption, Inputs
  <2> QED
    BY <1>2, <2>1 DEF Serves, WorkPCs, ReplyPCs
<1> QED
  BY <1>3, <1>4, <1>5, <1>6, <1>7

(* A batch that is longer than the inbox holds all of it. *)
LEMMA FirstIsAll ==
    ASSUME NEW T, NEW q \in Seq(T), NEW n \in Nat, Len(q) <= n
    PROVE  First(n, q) = q
BY DEF First

LEMMA ReplyWaits ==
    ASSUME ChatAssumption, TypeInv, WaitInv, NoneGivenUp, NEW r \in Runs,
           StartReply(r) \/ ResumeReply(r) \/ LeaveLoop(r) \/ ReadInbox(r)
             \/ Think(r) \/ Act(r)
    PROVE  WaitInv'
<1>0. /\ Sess(r) \in Sessions /\ pc \in [Runs -> PCs] /\ run \in [Runs -> RunLocals]
      /\ run[r] \in RunLocals /\ inbox[Sess(r)] \in Seq(Hints)
  BY RunTypes DEF TypeInv, TypeOK
<1>1. UNCHANGED <<inbox, stored, exists>> /\ RunStep(r)
  BY DEF StartReply, ResumeReply, LeaveLoop, ReadInbox, Think, Act, redis, RunStep
<1>2. CASE StartReply(r) \/ ResumeReply(r)
  <2>1. pc'[r] = "loop" /\ \A h : Serves(r, h)'
    BY <1>0, <1>2 DEF StartReply, ResumeReply, Goto, Serves
  <2> QED
    BY <1>1, <2>1, QuietWaits
<1>3. CASE LeaveLoop(r)
  <2>1. pc[r] = "loop" /\ pc'[r] = "save" /\ run' = run
    BY <1>0, <1>3 DEF LeaveLoop, At, Goto
  <2>2. ASSUME NEW h \in ToSet(inbox[Sess(r)])
        PROVE  Serves(r, h)'
    <3>1. inbox[Sess(r)] # <<>>
      BY EmptyFacts
    <3>2. run[r].mem.tools = "await"
      BY <1>0, <1>3, <3>1 DEF NoneGivenUp, GivenUp, StopsShort
    <3> QED
      BY <2>1, <3>2 DEF Serves
  <2> QED
    BY <1>1, <2>2, QuietWaits
<1>4. CASE ReadInbox(r)
  <2> DEFINE new == First(InboxBatch, inbox[Sess(r)])
  <2>1. /\ pc[r] = "loop" /\ pc'[r] = IF new = <<>> THEN "think" ELSE "ack"
        /\ run'[r].hints = new
    BY <1>0, <1>4 DEF ReadInbox, At, Goto, RunLocals
  <2>2. ASSUME NEW h \in ToSet(inbox[Sess(r)])
        PROVE  Serves(r, h)'
    <3>1. inbox[Sess(r)] # <<>> /\ Len(inbox[Sess(r)]) \in Nat /\ InboxBatch \in Nat
      BY <1>0, EmptyFacts, RunTypes
    <3>2. ~(InboxBatch < Len(inbox[Sess(r)]))
      BY <1>0, <1>4, <3>1 DEF NoneGivenUp, GivenUp, StopsShort
    <3>3. new = inbox[Sess(r)]
      BY <1>0, <3>1, <3>2, FirstIsAll
    <3> QED
      BY <2>1, <3>1, <3>3 DEF Serves
  <2> QED
    BY <1>1, <2>2, QuietWaits
<1>5. CASE Think(r)
  <2>1. pc[r] = "think"
    BY <1>5 DEF Think, At
  <2> QED
    BY <1>1, <2>1, QuietWaits DEF Serves, WorkPCs, ReplyPCs
<1>6. CASE Act(r)
  <2>1. \/ pc'[r] = "loop"
        \/ /\ pc'[r] = "save"
           /\ run'[r] = [run[r] EXCEPT !.mem = [run[r].mem EXCEPT !.tools = "await"]]
    BY <1>0, <1>6 DEF Act, Goto
  <2>2. CASE pc'[r] = "loop"
    BY <1>1, <2>2, QuietWaits DEF Serves
  <2>3. CASE /\ pc'[r] = "save"
             /\ run'[r] = [run[r] EXCEPT !.mem = [run[r].mem EXCEPT !.tools = "await"]]
    <3>1. run'[r].mem.tools = "await"
      BY <1>0, <2>3 DEF RunLocals, AgentState
    <3> QED
      BY <1>1, <2>3, <3>1, QuietWaits DEF Serves
  <2> QED
    BY <2>1, <2>2, <2>3
<1> QED
  BY <1>2, <1>3, <1>4, <1>5, <1>6

(* What the run has read leaves the inbox; what came later is unseen. *)
LEMMA AckWaits ==
    ASSUME ChatAssumption, TypeInv, WaitInv, NEW r \in Runs, AckInbox(r)
    PROVE  WaitInv'
<1>0. /\ Sess(r) \in Sessions /\ pc \in [Runs -> PCs]
      /\ inbox \in [Sessions -> Seq(Hints)]
  BY RunTypes DEF TypeInv, TypeOK
<1>1. /\ UNCHANGED <<stored, exists>> /\ RunStep(r) /\ pc[r] = "ack"
      /\ inbox' = [inbox EXCEPT ![Sess(r)] = Without(inbox[Sess(r)], run[r].hints)]
  BY DEF AckInbox, At, RunStep
<1>2. ToSet(Without(inbox[Sess(r)], run[r].hints)) =
        ToSet(inbox[Sess(r)]) \ ToSet(run[r].hints)
  BY <1>0, WithoutFacts
<1>3. ToSet(inbox'[Sess(r)]) = ToSet(inbox[Sess(r)]) \ ToSet(run[r].hints)
  BY <1>0, <1>1, <1>2
<1>4. \A h \in ToSet(inbox'[Sess(r)]) : ~Serves(r, h)
  BY <1>1, <1>3 DEF Serves
<1>5. \A h \in ToSet(inbox'[Sess(r)]) : Handled(r, h)
  BY <1>1, <1>4 DEF Handled, WorkPCs, ReplyPCs
<1>6. \A s \in Sessions \ {Sess(r)} :
        inbox'[s] = inbox[s] /\ stored'[s] = stored[s] /\ exists'[s] = exists[s]
  BY <1>0, <1>1
<1> QED
  BY <1>1, <1>3, <1>5, <1>6, RunMail, RunStepsOwn, RunWaits

LEMMA ExitWaits ==
    ASSUME ChatAssumption, TypeInv, WaitInv, NoneGivenUp, NEW r \in Runs,
           SaveReply(r) \/ GetRecord(r) \/ SetRecord(r) \/ TrimLog(r)
             \/ ReleaseSession(r) \/ EndRun(r) \/ Cancelled(r) \/ RunFails(r)
    PROVE  WaitInv'
<1>0. /\ Sess(r) \in Sessions /\ pc \in [Runs -> PCs] /\ run \in [Runs -> RunLocals]
      /\ stored \in [Sessions -> AgentState] /\ exists \in [Sessions -> BOOLEAN]
  BY RunTypes DEF TypeInv, TypeOK
<1>1. RunStep(r) \/ RunFails(r)
  BY DEF RunStep
<1>2. CASE SaveReply(r)
  <2>1. /\ pc[r] = "save" /\ pc'[r] = "persist" /\ run' = run
        /\ UNCHANGED <<inbox, stored, exists>>
    BY <1>0, <1>2 DEF SaveReply, At, Goto
  <2> QED
    BY <1>1, <2>1, QuietWaits DEF Serves, WorkPCs, ReplyPCs
<1>3. CASE GetRecord(r)
  <2>1. /\ pc[r] = "persist" /\ UNCHANGED <<inbox, stored, exists>>
        /\ \/ pc'[r] = "write" /\ run' = run
           \/ pc'[r] = "trim" /\ ~exists[Sess(r)]
    BY <1>0, <1>3 DEF GetRecord, Unwind, At, Goto, redis
  <2> QED
    BY <1>1, <2>1, QuietWaits DEF Serves, WorkPCs, ReplyPCs
<1>4. CASE SetRecord(r)
  <2>1. /\ pc[r] = "write" /\ pc'[r] = "trim" /\ inbox' = inbox
        /\ stored' = [stored EXCEPT ![Sess(r)] = run[r].mem]
        /\ exists' = [exists EXCEPT ![Sess(r)] = TRUE]
    BY <1>0, <1>4 DEF SetRecord, Unwind, At, Goto
  <2>2. \A s \in Sessions \ {Sess(r)} :
          inbox'[s] = inbox[s] /\ stored'[s] = stored[s] /\ exists'[s] = exists[s]
    BY <1>0, <2>1
  <2>3. stored'[Sess(r)] = run[r].mem /\ exists'[Sess(r)]
    BY <1>0, <2>1
  <2>4. \A h : Handled(r, h)
    BY <2>1, <2>3 DEF Handled, Serves, WorkPCs, ReplyPCs
  <2> QED
    BY <1>1, <2>1, <2>2, <2>4, RunMail, RunStepsOwn, RunWaits
<1>5. CASE TrimLog(r) \/ ReleaseSession(r) \/ EndRun(r)
  <2>1. /\ pc[r] \in {"trim", "release", "ending"} /\ pc'[r] \in {"release", "ending", "none"}
        /\ UNCHANGED <<inbox, stored, exists>>
    BY <1>0, <1>5 DEF TrimLog, ReleaseSession, EndRun, Finish, At, Goto, redis
  <2> QED
    BY <1>1, <2>1, QuietWaits DEF Serves, WorkPCs, ReplyPCs
<1>6. CASE Cancelled(r) \/ RunFails(r)
  <2>1. pc'[r] \in IdlePCs /\ UNCHANGED <<inbox, stored, exists>>
    BY <1>0, <1>6 DEF Cancelled, RunFails, Interrupted, IdlePCs
  <2>2. \A h \in ToSet(inbox[Sess(r)]) : ~Serves(r, h)
    BY <1>0, <1>6, EmptyFacts DEF NoneGivenUp, GivenUp, StopsShort, Lost
  <2> QED
    BY <1>1, <2>1, <2>2, QuietWaits DEF IdlePCs, WorkPCs, ReplyPCs
<1> QED
  BY <1>2, <1>3, <1>4, <1>5, <1>6

(* The wake-ups move; runs, records and inboxes stay. *)
LEMMA MailWaits ==
    ASSUME WaitInv, UNCHANGED <<inbox, stored, exists, pc, run>>,
           \A s \in Sessions : \A h \in ToSet(inbox[s]) : SessionOf[h] = s =>
               /\ Unseen(h) =>
                    Unseen(h)' \/ \A r \in Runs : Sess(r) = s => pc[r] \notin WorkPCs
               /\ OnItsWay(h) => OnItsWay(h)'
    PROVE  WaitInv'
<1>1. \A r, h : Serves(r, h)' = Serves(r, h)
  BY ServesSame
<1> QED
  BY <1>1 DEF WaitInv, Waits

LEMMA HeadTail ==
    ASSUME NEW T, NEW q \in Seq(T), q # <<>>
    PROVE  /\ ToSet(q) = {Head(q)} \cup ToSet(Tail(q))
           /\ Tail(q) # <<>> => Len(q) # 1
<1>1. /\ Len(q) \in Nat /\ Len(q) >= 1 /\ DOMAIN q = 1..Len(q) /\ Head(q) = q[1]
      /\ Len(Tail(q)) = Len(q) - 1 /\ DOMAIN Tail(q) = 1..(Len(q) - 1)
      /\ \A i \in 1..(Len(q) - 1) : Tail(q)[i] = q[i + 1]
  OBVIOUS
<1>2. ASSUME NEW i \in 1..Len(q)
      PROVE  q[i] = Head(q) \/ q[i] \in ToSet(Tail(q))
  <2>1. CASE i = 1
    BY <1>1, <2>1
  <2>2. CASE i # 1
    <3>1. i - 1 \in 1..(Len(q) - 1) /\ Tail(q)[i - 1] = q[i]
      BY <1>1, <2>2
    <3> QED
      BY <1>1, <3>1 DEF ToSet
  <2> QED
    BY <2>1, <2>2
<1>3. ASSUME NEW i \in 1..(Len(q) - 1)
      PROVE  Tail(q)[i] \in ToSet(q)
  <2>1. i + 1 \in 1..Len(q) /\ Tail(q)[i] = q[i + 1]
    BY <1>1
  <2> QED
    BY <1>1, <2>1 DEF ToSet
<1>4. Head(q) \in ToSet(q)
  BY <1>1 DEF ToSet
<1>5. Tail(q) # <<>> => Len(q) # 1
  <2>1. Tail(q) \in Seq(T)
    OBVIOUS
  <2> QED
    BY <1>1, <2>1
<1> QED
  BY <1>1, <1>2, <1>3, <1>4, <1>5 DEF ToSet

LEMMA BatchFacts ==
    ASSUME TypeInv, NEW p \in Procs, disp[p] \in {"check", "spawn"}
    PROVE  /\ ToSet(batch[p]) = {Entry(p)} \cup ToSet(Tail(batch[p]))
           /\ Tail(batch[p]) # <<>> => Len(batch[p]) # 1
<1>1. batch[p] \in Seq(Hints) /\ batch[p] # <<>>
  BY DEF TypeInv, TypeOK, LocalsSound
<1> QED
  BY <1>1, HeadTail DEF Entry

(* A dispatcher forgets its batch, in which the hint is not. *)
LEMMA DropBatch ==
    ASSUME TypeInv, NEW p \in Procs, UNCHANGED <<stage, queue>>,
           \A q \in Procs \ {p} : disp'[q] = disp[q] /\ batch'[q] = batch[q],
           NEW h, disp[p] \in {"check", "spawn"} => h \notin ToSet(batch[p])
    PROVE  (Unseen(h) => Unseen(h)') /\ (OnItsWay(h) => OnItsWay(h)')
<1>1. disp[p] \in {"check", "spawn"} => h # Entry(p) /\ h \notin ToSet(Tail(batch[p]))
  BY BatchFacts
<1> QED
  BY <1>1 DEF Unseen, OnItsWay, Entry

(* A dispatcher goes on to the next entry of its batch. *)
LEMMA NextInBatch ==
    ASSUME TypeInv, NEW p \in Procs, disp[p] \in {"check", "spawn"}, NextEntry(p),
           UNCHANGED <<stage, queue>>, NEW h
    PROVE  /\ h # Entry(p) \/ disp[p] = "spawn" => (Unseen(h) => Unseen(h)')
           /\ h # Entry(p) => (OnItsWay(h) => OnItsWay(h)')
<1>1. /\ ToSet(batch[p]) = {Entry(p)} \cup ToSet(Tail(batch[p]))
      /\ h \in ToSet(Tail(batch[p])) => Len(batch[p]) # 1
  BY BatchFacts, EmptyFacts
<1>2. /\ batch' = [batch EXCEPT ![p] = Tail(batch[p])]
      /\ disp' = [disp EXCEPT ![p] = IF Len(batch[p]) = 1 THEN "idle" ELSE "check"]
      /\ batch \in [Procs -> Seq(Hints)] /\ DOMAIN disp = Procs
  BY DEF NextEntry, TypeInv, TypeOK
<1>3. ASSUME h \in ToSet(Tail(batch[p]))
      PROVE  Unseen(h)'
  BY <1>1, <1>2, <1>3 DEF Unseen
<1>4. \A q \in Procs \ {p} : disp'[q] = disp[q] /\ batch'[q] = batch[q]
  BY <1>2
<1>5. ASSUME Unseen(h), h # Entry(p) \/ disp[p] = "spawn"
      PROVE  Unseen(h)'
  BY <1>1, <1>3, <1>4, <1>5 DEF Unseen
<1>6. ASSUME h # Entry(p), NEW q \in Procs, disp[q] = "spawn", h = Entry(q)
      PROVE  OnItsWay(h)'
  BY <1>4, <1>6 DEF OnItsWay, Entry
<1> QED
  BY <1>5, <1>6 DEF OnItsWay

LEMMA DispatchWaits ==
    ASSUME ChatAssumption, TypeInv, LockInv, WaitInv, NoneGivenUp, NEW p \in Procs,
           ReadQueue(p) \/ AckQueue(p) \/ CheckRunning(p) \/ DispatcherFails(p)
    PROVE  WaitInv'
<1>0. /\ UNCHANGED <<inbox, stored, exists, pc, run>> /\ stage' = stage
      /\ batch \in [Procs -> Seq(Hints)] /\ queue \in Seq(Hints) /\ DOMAIN disp = Procs
  BY DEF ReadQueue, AckQueue, CheckRunning, DispatcherFails, redis, runs, clients,
     TypeInv, TypeOK
<1>1. CASE ReadQueue(p)
  <2>1. /\ disp[p] = "idle" /\ queue' = queue
        /\ \A q \in Procs \ {p} : disp'[q] = disp[q] /\ batch'[q] = batch[q]
    BY <1>0, <1>1 DEF ReadQueue, redis
  <2> QED
    BY <1>0, <2>1, DropBatch, MailWaits
<1>2. CASE AckQueue(p)
  <2>1. /\ disp[p] = "ack" /\ disp' = [disp EXCEPT ![p] = "check"] /\ batch' = batch
        /\ ToSet(queue') = ToSet(queue) \ ToSet(batch[p])
    BY <1>0, <1>2, WithoutFacts DEF AckQueue
  <2>2. \A h : (Unseen(h) => Unseen(h)') /\ (OnItsWay(h) => OnItsWay(h)')
    BY <1>0, <2>1 DEF Unseen, OnItsWay, Entry
  <2> QED
    BY <1>0, <2>2, MailWaits
<1>3. CASE CheckRunning(p) /\ lock[SessionOf[Entry(p)]] = Free
  <2>1. /\ disp[p] = "check" /\ disp' = [disp EXCEPT ![p] = "spawn"]
        /\ batch' = batch /\ queue' = queue
        /\ ToSet(batch[p]) = {Entry(p)} \cup ToSet(Tail(batch[p]))
    BY <1>3, BatchFacts DEF CheckRunning, redis
  <2>2. \A r \in Runs : Sess(r) = SessionOf[Entry(p)] => pc[r] \notin WorkPCs
    BY <1>3, Locations, RunTypes DEF LockInv, LockOwned, WorkPCs, ReplyPCs, ChatAssumption
  <2>3. ASSUME NEW h
        PROVE  /\ Unseen(h) => Unseen(h)' \/ h = Entry(p)
               /\ OnItsWay(h) => OnItsWay(h)'
    BY <1>0, <2>1 DEF Unseen, OnItsWay, Entry
  <2> QED
    BY <1>0, <2>2, <2>3, MailWaits
<1>4. CASE CheckRunning(p) /\ lock[SessionOf[Entry(p)]] # Free
  <2>1. disp[p] = "check" /\ NextEntry(p) /\ queue' = queue
    BY <1>4 DEF CheckRunning, redis
  <2>2. ASSUME NEW s \in Sessions, NEW h \in ToSet(inbox[s]), SessionOf[h] = s
        PROVE  h # Entry(p)
    BY <1>4, <2>2, EmptyFacts DEF NoneGivenUp, GivenUp, WakeupWasted
  <2> QED
    BY <1>0, <2>1, <2>2, NextInBatch, MailWaits
<1>5. CASE DispatcherFails(p)
  <2>1. /\ queue' = queue
        /\ \A q \in Procs \ {p} : disp'[q] = disp[q] /\ batch'[q] = batch[q]
    BY <1>0, <1>5 DEF DispatcherFails, redis
  <2>2. ASSUME NEW s \in Sessions, NEW h \in ToSet(inbox[s]), SessionOf[h] = s,
               disp[p] \in {"check", "spawn"}
        PROVE  h \notin ToSet(batch[p])
    BY <1>5, <2>2, EmptyFacts DEF NoneGivenUp, GivenUp, WakeupWasted
  <2> QED
    BY <1>0, <2>1, <2>2, DropBatch, MailWaits
<1> QED
  BY <1>1, <1>2, <1>3, <1>4, <1>5

(* A wake-up that starts its run hands the hint over to it. *)
LEMMA SpawnWaits ==
    ASSUME ChatAssumption, TypeInv, WaitInv, NoneGivenUp, NEW p \in Procs, SpawnWakeup(p)
    PROVE  WaitInv'
<1>0. /\ disp[p] = "spawn" /\ NextEntry(p)
      /\ UNCHANGED <<inbox, stored, exists, stage, queue>>
  BY DEF SpawnWakeup, redis, clients
<1>1. PICK r \in Runs : /\ r = <<p, SessionOf[Entry(p)]>> /\ Sess(r) = SessionOf[Entry(p)]
                       /\ IF exists[Sess(r)] /\ pc[r] = "none"
                          THEN Spawn(r, Wake) ELSE UNCHANGED <<pc, run>>
  BY <1>0, NextEntryTypes, RunTypes DEF SpawnWakeup
<1>2. ASSUME NEW q \in Runs, NEW h
      PROVE  /\ pc'[q] \in WorkPCs => pc[q] \in WorkPCs
             /\ Serves(q, h) => Serves(q, h)'
  <2>1. CASE pc'[q] = pc[q] /\ run'[q] = run[q]
    BY <1>0, <2>1, ServesSame
  <2>2. CASE q = r /\ pc[r] = "none" /\ Spawn(r, Wake)
    BY <2>2, SpawnStep DEF Serves, WorkPCs, ReplyPCs
  <2> QED
    BY <1>1, <2>1, <2>2, SpawnStep DEF Only
<1>3. ASSUME NEW s \in Sessions, NEW h \in ToSet(inbox[s])
      PROVE  SessionOf[h] = s /\ Waits(s, h)'
  <2>1. SessionOf[h] = s /\ Waits(s, h)
    BY DEF WaitInv
  <2>2. /\ Unseen(h) => Unseen(h)'
        /\ h # Entry(p) => (OnItsWay(h) => OnItsWay(h)')
    BY <1>0, NextInBatch
  <2>3. CASE h = Entry(p)
    <3>1. s = Sess(r) /\ inbox[s] # <<>>
      BY <1>1, <2>1, <2>3, EmptyFacts
    <3>2. exists[s] /\ pc[r] = "none"
      BY <1>1, <3>1 DEF NoneGivenUp, GivenUp, WakeupWasted
    <3>3. Serves(r, h)'
      BY <1>1, <3>1, <3>2, SpawnStep DEF Serves
    <3>4. ASSUME ~Unseen(h)', NEW q \in Runs, Sess(q) = s, pc'[q] \in WorkPCs
          PROVE  Serves(q, h)'
      <4>1. pc[q] \in WorkPCs /\ ~Unseen(h)
        BY <1>2, <2>2, <3>4
      <4>2. Serves(q, h)
        BY <2>1, <3>4, <4>1 DEF Waits
      <4> QED
        BY <1>2, <4>2
    <3>5. exists'[s] /\ \E q \in Runs : Sess(q) = s /\ Serves(q, h)'
      BY <1>0, <3>1, <3>2, <3>3
    <3> QED
      BY <2>1, <3>4, <3>5 DEF Waits
  <2>4. CASE h # Entry(p)
    BY <1>0, <1>2, <2>1, <2>2, <2>4 DEF Waits
  <2> QED
    BY <2>3, <2>4
<1> QED
  BY <1>0, <1>3 DEF WaitInv

LEMMA ProducerWaits ==
    ASSUME ChatAssumption, TypeInv, WaitInv, NoneGivenUp, NEW k \in Hints,
           ProducerStep(k) \/ ProducerFails(k)
    PROVE  WaitInv'
<1>0. /\ UNCHANGED <<stored, exists, pc, run, disp, batch>>
      /\ queue \in Seq(Hints) /\ inbox \in [Sessions -> Seq(Hints)] /\ DOMAIN stage = Hints
  BY DEF ProducerStep, PushInbox, EnqueueWakeup, SignalWakeup, ProducerFails,
     redis, procs, runs, TypeInv, TypeOK
<1>1. CASE PushInbox(k)
  <2> DEFINE b == SessionOf[k]
             box == Append(inbox[b], k)
  <2>1. /\ b \in Sessions /\ inbox' = [inbox EXCEPT ![b] = box]
        /\ stage' = [stage EXCEPT ![k] = "pushed"] /\ queue' = queue
    BY <1>1, RunTypes DEF PushInbox
  <2>2. \A e : e \in ToSet(box) <=> e \in ToSet(inbox[b]) \/ e = k
    BY <1>0, <2>1, AppendFacts
  <2> HIDE DEF box
  <2>3. ASSUME NEW s \in Sessions, NEW h \in ToSet(inbox'[s])
        PROVE  SessionOf[h] = s /\ Waits(s, h)'
    <3>1. CASE h = k
      <4>1. OnItsWay(h)' /\ Unseen(h)'
        BY <1>0, <2>1, <3>1 DEF OnItsWay, Unseen
      <4>2. SessionOf[h] = s
        <5>1. CASE s = b
          BY <3>1, <5>1
        <5>2. CASE s # b
          BY <1>0, <2>1, <5>2 DEF WaitInv
        <5> QED
          BY <5>1, <5>2
      <4> QED
        BY <4>1, <4>2 DEF Waits
    <3>2. CASE h # k
      <4>1. h \in ToSet(inbox[s])
        <5>1. CASE s = b
          BY <1>0, <2>1, <2>2, <3>2, <5>1
        <5>2. CASE s # b
          BY <1>0, <2>1, <5>2
        <5> QED
          BY <5>1, <5>2
      <4>2. SessionOf[h] = s /\ Waits(s, h)
        BY <4>1 DEF WaitInv
      <4>3. Unseen(h)' = Unseen(h) /\ OnItsWay(h)' = OnItsWay(h)
        BY <1>0, <2>1, <3>2 DEF Unseen, OnItsWay, Entry
      <4>4. \A r : Serves(r, h)' = Serves(r, h)
        BY <1>0, ServesSame
      <4> QED
        BY <1>0, <4>2, <4>3, <4>4 DEF Waits
    <3> QED
      BY <3>1, <3>2
  <2> QED
    BY <2>3 DEF WaitInv
<1>2. CASE EnqueueWakeup(k)
  <2>1. /\ inbox' = inbox /\ stage' = [stage EXCEPT ![k] = "queued"]
        /\ queue' = Append(queue, k)
    BY <1>2 DEF EnqueueWakeup
  <2>2. \A h : h \in ToSet(queue') <=> h \in ToSet(queue) \/ h = k
    BY <1>0, <2>1, AppendFacts
  <2>3. \A h : (Unseen(h) => Unseen(h)') /\ (OnItsWay(h) => OnItsWay(h)')
    BY <1>0, <2>1, <2>2 DEF Unseen, OnItsWay, Entry
  <2> QED
    BY <1>0, <2>1, <2>3, MailWaits
<1>3. CASE SignalWakeup(k)
  <2>1. /\ inbox' = inbox /\ queue' = queue
        /\ stage[k] = "queued" /\ stage' = [stage EXCEPT ![k] = "sent"]
    BY <1>3 DEF SignalWakeup, redis
  <2>2. \A h : (Unseen(h) => Unseen(h)') /\ (OnItsWay(h) => OnItsWay(h)')
    BY <1>0, <2>1 DEF Unseen, OnItsWay, Entry
  <2> QED
    BY <1>0, <2>1, <2>2, MailWaits
<1>4. CASE ProducerFails(k)
  <2>1. inbox' = inbox /\ queue' = queue /\ stage' = [stage EXCEPT ![k] = "failed"]
    BY <1>4 DEF ProducerFails, redis
  <2>2. ASSUME NEW s \in Sessions, NEW h \in ToSet(inbox[s]), SessionOf[h] = s
        PROVE  (Unseen(h) => Unseen(h)') /\ (OnItsWay(h) => OnItsWay(h)')
    <3>1. h # k \/ stage[k] # "pushed"
      BY <1>4, <2>2, EmptyFacts DEF NoneGivenUp, GivenUp, WakeupWasted
    <3> QED
      BY <1>0, <2>1, <3>1 DEF Unseen, OnItsWay, Entry
  <2> QED
    BY <1>0, <2>1, <2>2, MailWaits
<1> QED
  BY <1>1, <1>2, <1>3, <1>4 DEF ProducerStep

(* A process that stops takes along what it had in hand. *)
LEMMA StopWaits ==
    ASSUME ChatAssumption, TypeInv, WaitInv, NoneGivenUp, NEW p \in Procs,
           Shutdown(p) \/ Crash(p)
    PROVE  WaitInv'
<1>1. /\ UNCHANGED <<inbox, stored, exists, stage, queue>>
      /\ \A q \in Procs \ {p} : disp'[q] = disp[q] /\ batch'[q] = batch[q]
  BY DEF Shutdown, Crash, StopDispatchers, redis, TypeInv, TypeOK
<1>2. ASSUME NEW s \in Sessions, NEW h \in ToSet(inbox[s]), SessionOf[h] = s
      PROVE  (Unseen(h) => Unseen(h)') /\ (OnItsWay(h) => OnItsWay(h)')
  <2>1. disp[p] \in {"check", "spawn"} => h \notin ToSet(batch[p])
    BY <1>2, EmptyFacts DEF NoneGivenUp, GivenUp, WakeupWasted
  <2> QED
    BY <1>1, <2>1, DropBatch
<1>3. ASSUME NEW s \in Sessions, NEW h \in ToSet(inbox[s]), NEW r \in Runs, Sess(r) = s
      PROVE  /\ pc'[r] \in WorkPCs => pc[r] \in WorkPCs
             /\ Serves(r, h) => Serves(r, h)'
  <2>1. CASE pc'[r] = pc[r] /\ run'[r] = run[r]
    BY <1>1, <2>1, ServesSame
  <2>2. CASE r[1] = p /\ Crash(p)
    <3>1. pc'[r] = "none"
      BY <2>2 DEF Crash
    <3>2. ~Serves(r, h)
      BY <1>3, <2>2, EmptyFacts DEF NoneGivenUp, GivenUp, StopsShort, Lost
    <3> QED
      BY <3>1, <3>2 DEF WorkPCs, ReplyPCs
  <2> QED
    BY <2>1, <2>2 DEF Shutdown, Crash
<1> QED
  BY <1>1, <1>2, <1>3 DEF WaitInv, Waits

(* The deletion of a session gives up on its inbox, and on no other. *)
LEMMA DeleteWaits ==
    ASSUME ChatAssumption, TypeInv, WaitInv, NoneGivenUp, NEW t \in Sessions,
           DeleteRecord(t) \/ PurgeSession(t)
    PROVE  WaitInv'
<1>1. /\ UNCHANGED <<pc, run>> /\ UNCHANGED Mail
      /\ \A s \in Sessions \ {t} :
           inbox'[s] = inbox[s] /\ stored'[s] = stored[s] /\ exists'[s] = exists[s]
  BY DEF DeleteRecord, PurgeSession, runs, procs, Mail, TypeInv, TypeOK
<1>2. inbox'[t] = <<>>
  BY DEF DeleteRecord, PurgeSession, NoneGivenUp, GivenUp, TypeInv, TypeOK
<1>3. ASSUME NEW s \in Sessions, NEW h \in ToSet(inbox'[s])
      PROVE  SessionOf[h] = s /\ Waits(s, h)'
  <2>1. s # t
    BY <1>2, EmptyFacts
  <2>2. SessionOf[h] = s /\ Waits(s, h)
    BY <1>1, <2>1 DEF WaitInv
  <2>3. Unseen(h)' = Unseen(h) /\ OnItsWay(h)' = OnItsWay(h)
    BY <1>1, MailSame
  <2>4. \A r \in Runs : Sess(r) = s => Serves(r, h)' = Serves(r, h)
    BY <1>1, <2>1, ServesSame
  <2> QED
    BY <1>1, <2>1, <2>2, <2>3, <2>4 DEF Waits
<1> QED
  BY <1>3 DEF WaitInv

LEMMA NextWaits ==
    ASSUME ChatAssumption, TypeInv, LockInv, WaitInv, [Next]_vars, [NoneGivenUp]_vars
    PROVE  WaitInv'
<1>1. ASSUME UNCHANGED <<inbox, stored, exists, pc, run>>, UNCHANGED Mail
      PROVE  WaitInv'
  BY <1>1, MailSame, MailWaits
<1>2. CASE UNCHANGED vars
  BY <1>1, <1>2 DEF vars, redis, procs, runs, clients, Mail
<1>3. ASSUME NoneGivenUp, NEW r \in Runs, RunStep(r) \/ RunFails(r)
      PROVE  WaitInv'
  BY <1>3, EntryWaits, ReplyWaits, AckWaits, ExitWaits DEF RunStep
<1>4. ASSUME NEW r \in Runs, CancelSession(r)
      PROVE  WaitInv'
  BY <1>1, <1>4 DEF CancelSession, redis, procs, Mail
<1>5. ASSUME NoneGivenUp, NEW h \in Hints, ProducerStep(h) \/ ProducerFails(h)
      PROVE  WaitInv'
  BY <1>5, ProducerWaits
<1>6. ASSUME NEW p \in Procs, NEW x \in Inputs, PostChat(p, x)
      PROVE  WaitInv'
  <2>1. PICK r \in Runs : pc[r] = "none" /\ Spawn(r, x)
    BY <1>6, RunTypes DEF PostChat
  <2>2. /\ Only(r) /\ pc'[r] = "load" /\ UNCHANGED <<inbox, stored, exists>>
        /\ UNCHANGED Mail
    BY <1>6, <2>1, SpawnStep DEF PostChat, redis, procs, Mail
  <2>3. \A h : Handled(r, h)
    BY <2>1, <2>2 DEF Handled, Serves, WorkPCs, ReplyPCs
  <2> QED
    BY <2>2, <2>3, RunWaits
<1>7. ASSUME NoneGivenUp, NEW p \in Procs, DispatchStep(p) \/ DispatcherFails(p)
      PROVE  WaitInv'
  BY <1>7, DispatchWaits, SpawnWaits DEF DispatchStep
<1>8. ASSUME NoneGivenUp, NEW p \in Procs, Shutdown(p) \/ Crash(p)
      PROVE  WaitInv'
  BY <1>8, StopWaits
<1>9. ASSUME NEW p \in Procs, Stopped(p) \/ Restart(p)
      PROVE  WaitInv'
  BY <1>1, <1>9 DEF Stopped, Restart, redis, runs, clients, Mail
<1>10. ASSUME NEW s \in Sessions, ExpireLease(s) \/ PublishCancel(s)
       PROVE  WaitInv'
  BY <1>1, <1>10 DEF ExpireLease, PublishCancel, redis, procs, runs, clients, Mail
<1>11. ASSUME NoneGivenUp, NEW s \in Sessions, DeleteRecord(s) \/ PurgeSession(s)
       PROVE  WaitInv'
  BY <1>11, DeleteWaits
<1> QED
  BY <1>2, <1>3, <1>4, <1>5, <1>6, <1>7, <1>8, <1>9, <1>10, <1>11 DEF Next, DeleteStep

(* _tool_offload_middleware.py:15, "an idle session is started by some     *)
(* process", holds but for these ways to give up on an inbox: as long as   *)
(* every wake-up that is lost, every run that stops short and every        *)
(* deletion finds the inbox of its session empty, a session comes to rest  *)
(* with an empty inbox or an agent that waits for a confirmation, for any  *)
(* processes and with whatever else fails, stops or interleaves.           *)
THEOREM OnlyGivenUpStrand == Spec /\ [][NoneGivenUp]_vars => []NoStrandedHint
<1>1. Init => WaitInv
  BY EmptyFacts DEF Init, WaitInv
<1>2. TypeInv /\ LockInv /\ WaitInv /\ [Next]_vars /\ [NoneGivenUp]_vars => WaitInv'
  BY ChatAssumption, NextWaits
<1>3. TypeInv /\ WaitInv => NoStrandedHint
  <2> SUFFICES ASSUME TypeInv, WaitInv, NEW s \in Sessions, Quiescent(s),
                      stored[s].tools # "await", inbox[s] # <<>>
               PROVE  FALSE
    BY DEF NoStrandedHint
  <2>1. PICK h \in ToSet(inbox[s]) : h \in Hints
    <3>1. inbox[s] \in Seq(Hints) /\ Len(inbox[s]) >= 1
      BY Types
    <3>2. inbox[s][1] \in Hints /\ inbox[s][1] \in ToSet(inbox[s])
      BY <3>1 DEF ToSet
    <3> QED
      BY <3>2
  <2>2. SessionOf[h] = s /\ Waits(s, h)
    BY DEF WaitInv
  <2>3. \A r \in Runs : Sess(r) = s => ~Serves(r, h)
    BY DEF Quiescent, Serves
  <2>4. ~OnItsWay(h)
    BY <2>1, <2>2, BatchFacts DEF Quiescent, OnItsWay, Unseen
  <2> QED
    BY <2>2, <2>3, <2>4 DEF Waits
<1> QED
  BY <1>1, <1>2, <1>3, Always, PTL DEF Spec
------------------------------------------------------------------------------
(* Processes that stop, and runs that wait *)

(* The places of a run that has its lock and its input, or is beyond.      *)
StartedPCs == {"loop", "ack", "think", "act", "save", "persist", "write",
               "trim", "release", "ending"}

(* A run that is to be cancelled, or has begun its reply: a tool may have  *)
(* taken the CancelledError.                                               *)
Leaving(r) == r \in cancelling \/ pc[r] \in StartedPCs

(* A process that stops or is down hears nothing any more, and has nothing *)
(* in hand that would start a run; what still runs has begun its reply, or *)
(* is on its way out.                                                      *)
AtRest(p) ==
    /\ disp[p] = "idle" /\ batch[p] = <<>> /\ signals[p] = 0
    /\ \A r \in Runs : r[1] = p =>
          /\ r \notin cancels
          /\ pc[r] # "none" => status[p] = "stopping" /\ Leaving(r)

StopsClean ==
    /\ \A r \in cancelling : pc[r] # "none"
    /\ \A p \in Procs : status[p] # "up" => AtRest(p)

LEMMA InitStopsClean == ASSUME Init PROVE StopsClean
BY DEF Init, StopsClean

LEMMA RunLeaves ==
    ASSUME TypeInv, NEW r \in Runs, RunStep(r) \/ RunFails(r)
    PROVE  /\ pc[r] # "none" /\ cancelling' = cancelling \ {r}
           /\ Leaving(r) => pc'[r] \in StartedPCs \cup {"none"}
           /\ UNCHANGED <<status, signals, disp, batch, cancels>>
<1> USE Types DEF At, Goto, Leaving, StartedPCs, procs, clients, deleting
<1>1. CASE Load(r) \/ SkipParked(r) \/ AcquireSession(r) \/ EndRun(r)
  BY <1>1 DEF Load, SkipParked, AcquireSession, EndRun, Finish
<1>2. CASE PrepareInput(r) \/ RejectInput(r) \/ StartReply(r) \/ ResumeReply(r)
  BY <1>2 DEF PrepareInput, RejectInput, StartReply, ResumeReply, Unwind
<1>3. CASE LeaveLoop(r) \/ ReadInbox(r) \/ AckInbox(r) \/ Think(r) \/ Act(r)
  BY <1>3 DEF LeaveLoop, ReadInbox, AckInbox, Think, Act
<1>4. CASE SaveReply(r) \/ GetRecord(r) \/ SetRecord(r) \/ TrimLog(r) \/ ReleaseSession(r)
  BY <1>4 DEF SaveReply, GetRecord, SetRecord, TrimLog, ReleaseSession, Unwind
<1>5. CASE Interrupted(r)
  BY <1>5 DEF Interrupted, BodyPCs
<1> QED
  BY <1>1, <1>2, <1>3, <1>4, <1>5 DEF RunStep, RunFails, Cancelled

(* What neither runs nor stops leaves a process at rest. *)
LEMMA RestStays ==
    ASSUME StopsClean, UNCHANGED <<pc, cancelling, status, signals, disp, batch>>,
           \A r \in cancels' \ cancels : status[r[1]] = "up"
    PROVE  StopsClean'
BY DEF StopsClean, AtRest, Leaving

(* Whoever listens is not at rest. *)
LEMMA BusyStays ==
    ASSUME StopsClean, NEW p \in Procs, status[p] = "up", status' = status,
           UNCHANGED <<pc, cancelling, cancels>>,
           \A q \in Procs \ {p} : /\ disp'[q] = disp[q] /\ batch'[q] = batch[q]
                                  /\ signals'[q] = signals[q]
    PROVE  StopsClean'
BY DEF StopsClean, AtRest, Leaving

LEMMA SpawnClean ==
    ASSUME ChatAssumption, TypeInv, StopsClean, NEW r \in Runs, NEW x,
           pc[r] = "none", Spawn(r, x), status[r[1]] = "up",
           UNCHANGED <<cancelling, status, signals, cancels>>,
           \A q \in Procs \ {r[1]} : disp'[q] = disp[q] /\ batch'[q] = batch[q]
    PROVE  StopsClean'
<1>1. Only(r) /\ r \notin cancelling /\ r[1] \in Procs
  BY SpawnStep, RunTypes DEF StopsClean
<1>2. \A q \in cancelling' : pc'[q] # "none"
  BY <1>1, Types DEF StopsClean, Only
<1>3. ASSUME NEW p \in Procs, status'[p] # "up"
      PROVE  AtRest(p)'
  BY <1>1, <1>3 DEF StopsClean, AtRest, Leaving, Only
<1> QED
  BY <1>2, <1>3 DEF StopsClean

LEMMA ProcessClean ==
    ASSUME ChatAssumption, TypeInv, StopsClean, NEW p \in Procs,
           Shutdown(p) \/ Stopped(p) \/ Crash(p) \/ Restart(p)
    PROVE  StopsClean'
<1> USE DEF runs, clients, deleting
<1>0. /\ status \in [Procs -> {"up", "stopping", "down"}] /\ cancelling \subseteq Runs
      /\ DOMAIN disp = Procs /\ DOMAIN batch = Procs /\ DOMAIN signals = Procs
  BY DEF TypeInv, TypeOK
<1>1. CASE Shutdown(p)
  BY <1>0, <1>1 DEF Shutdown, StopDispatchers, StopsClean, AtRest, Leaving
<1>2. CASE Stopped(p)
  <2>1. \A r \in Runs : r[1] = p => pc[r] = "none"
    BY <1>2, RunTypes DEF Stopped
  <2> QED
    BY <1>0, <1>2, <2>1 DEF Stopped, StopsClean, AtRest, Leaving
<1>3. CASE Crash(p)
  BY <1>0, <1>3 DEF Crash, StopDispatchers, StopsClean, AtRest, Leaving
<1>4. CASE Restart(p)
  BY <1>0, <1>4 DEF Restart, StopsClean, AtRest, Leaving
<1> QED
  BY <1>1, <1>2, <1>3, <1>4

LEMMA NextClean ==
    ASSUME ChatAssumption, TypeInv, StopsClean, [Next]_vars
    PROVE  StopsClean'
<1> USE DEF runs, procs, clients, deleting
<1>1. CASE UNCHANGED vars
  BY <1>1, RestStays DEF vars
<1>2. ASSUME NEW r \in Runs, RunStep(r) \/ RunFails(r)
      PROVE  StopsClean'
  <2>1. /\ Only(r) /\ cancelling' = cancelling \ {r}
        /\ pc[r] # "none" /\ Leaving(r) => pc'[r] \in StartedPCs \cup {"none"}
        /\ UNCHANGED <<status, signals, disp, batch, cancels>>
    BY <1>2, RunStepsOwn, RunLeaves
  <2>2. \A q \in cancelling' : pc'[q] # "none"
    BY <2>1, Types DEF StopsClean, Only
  <2>3. ASSUME NEW p \in Procs, status'[p] # "up", NEW q \in Runs, q[1] = p, pc'[q] # "none"
        PROVE  status'[p] = "stopping" /\ Leaving(q)'
    <3>1. CASE q = r
      BY <1>2, <2>1, <2>3, <3>1, RunLeaves DEF StopsClean, AtRest, Leaving
    <3>2. CASE q # r
      BY <2>1, <2>3, <3>2 DEF StopsClean, AtRest, Leaving, Only
    <3> QED
      BY <3>1, <3>2
  <2> QED
    BY <2>1, <2>2, <2>3 DEF StopsClean, AtRest
<1>3. ASSUME NEW r \in Runs, CancelSession(r)
      PROVE  StopsClean'
  BY <1>3 DEF CancelSession, StopsClean, AtRest, Leaving
<1>4. ASSUME NEW h \in Hints, ProducerStep(h) \/ ProducerFails(h)
      PROVE  StopsClean'
  <2>1. CASE SignalWakeup(h)
    <3>1. \A p \in Procs : status[p] # "up" => signals'[p] = signals[p]
      BY <2>1 DEF SignalWakeup
    <3> QED
      BY <2>1, <3>1 DEF SignalWakeup, StopsClean, AtRest, Leaving
  <2>2. CASE PushInbox(h) \/ EnqueueWakeup(h) \/ ProducerFails(h)
    BY <2>2, RestStays DEF PushInbox, EnqueueWakeup, ProducerFails
  <2> QED
    BY <1>4, <2>1, <2>2 DEF ProducerStep
<1>5. ASSUME NEW p \in Procs, NEW x \in Inputs, PostChat(p, x)
      PROVE  StopsClean'
  <2>1. PICK r \in Runs : r[1] = p /\ pc[r] = "none" /\ Spawn(r, x)
    BY <1>5, RunTypes DEF PostChat
  <2> QED
    BY <1>5, <2>1, SpawnClean DEF PostChat
<1>6. ASSUME NEW p \in Procs, DispatchStep(p) \/ DispatcherFails(p)
      PROVE  StopsClean'
  <2>0. /\ DOMAIN disp = Procs /\ DOMAIN batch = Procs /\ DOMAIN signals = Procs
        /\ signals \in [Procs -> Nat]
    BY DEF TypeInv, TypeOK
  <2>1. status[p] = "up" /\ status' = status
    BY <1>6 DEF StopsClean, AtRest, DispatchStep, ReadQueue, AckQueue, CheckRunning,
       SpawnWakeup, DispatcherFails
  <2>2. CASE ReadQueue(p) \/ AckQueue(p) \/ CheckRunning(p) \/ DispatcherFails(p)
    <3>1. UNCHANGED <<pc, cancelling, cancels>>
      BY <2>2 DEF ReadQueue, AckQueue, CheckRunning, DispatcherFails
    <3>2. \A q \in Procs \ {p} : /\ disp'[q] = disp[q] /\ batch'[q] = batch[q]
                                 /\ signals'[q] = signals[q]
      BY <2>0, <2>2 DEF ReadQueue, AckQueue, CheckRunning, NextEntry, DispatcherFails
    <3> QED
      BY <2>1, <3>1, <3>2, BusyStays
  <2>3. CASE SpawnWakeup(p)
    <3>1. /\ \A q \in Procs \ {p} : disp'[q] = disp[q] /\ batch'[q] = batch[q]
          /\ UNCHANGED <<signals, cancelling, cancels>>
      BY <2>0, <2>3 DEF SpawnWakeup, NextEntry
    <3>2. PICK r \in Runs : /\ r[1] = p
                           /\ \/ pc[r] = "none" /\ Spawn(r, Wake)
                              \/ UNCHANGED <<pc, run>>
      BY <2>3, NextEntryTypes, RunTypes DEF SpawnWakeup
    <3>3. CASE pc[r] = "none" /\ Spawn(r, Wake)
      BY <2>1, <3>1, <3>2, <3>3, SpawnClean
    <3>4. CASE UNCHANGED <<pc, run>>
      BY <2>1, <3>1, <3>4, BusyStays
    <3> QED
      BY <3>2, <3>3, <3>4
  <2> QED
    BY <1>6, <2>2, <2>3 DEF DispatchStep
<1>7. ASSUME NEW p \in Procs, Shutdown(p) \/ Stopped(p) \/ Crash(p) \/ Restart(p)
      PROVE  StopsClean'
  BY <1>7, ProcessClean
<1>8. ASSUME NEW s \in Sessions, ExpireLease(s) \/ DeleteStep(s)
      PROVE  StopsClean'
  BY <1>8, RestStays DEF ExpireLease, DeleteStep, PublishCancel, DeleteRecord, PurgeSession
<1> QED
  BY <1>1, <1>2, <1>3, <1>4, <1>5, <1>6, <1>7, <1>8 DEF Next

(* The lifespan stops the dispatchers before it cancels the runs and waits *)
(* for them: a process that stops starts no run after its last look at the *)
(* registry, whatever it had in hand, and none of its runs enters its      *)
(* session or takes its input any more, although a tool may take the       *)
(* CancelledError and let the run go on; one that is down has left none.   *)
THEOREM ProcessesStopClean == Spec => []StopsClean
<1>1. Init => StopsClean
  BY InitStopsClean
<1>2. TypeInv /\ StopsClean /\ [Next]_vars => StopsClean'
  BY ChatAssumption, NextClean
<1> QED
  BY <1>1, <1>2, Always, PTL DEF Spec

(* The run polls for the lock of its session. *)
Polling(r) == At(r, "loaded") /\ ~Parked(r)

WaitExplained ==
    \A r \in Runs : Polling(r) =>
        \/ lock[Sess(r)] \in {Free, Orphan}
        \/ \E q \in Runs \ {r} : /\ Sess(q) = Sess(r) /\ pc[q] \in LockPCs
                                 /\ status[q[1]] # "down"

(* A run waits for another run, which is inside the lock in a process that *)
(* lives, or for a lease that expires: nobody waits for himself or for a   *)
(* process that is gone, and no two runs wait for each other.              *)
THEOREM NobodyWaitsInVain == Spec => []WaitExplained
<1>1. Init => StopsClean
  BY InitStopsClean
<1>2. TypeInv /\ StopsClean /\ [Next]_vars => StopsClean'
  BY ChatAssumption, NextClean
<1>3. TypeInv /\ LockInv /\ StopsClean => WaitExplained
  <2> SUFFICES ASSUME TypeInv, LockInv, StopsClean, NEW r \in Runs, Polling(r),
                      lock[Sess(r)] \notin {Free, Orphan}
               PROVE  \E q \in Runs \ {r} : /\ Sess(q) = Sess(r) /\ pc[q] \in LockPCs
                                            /\ status[q[1]] # "down"
    BY DEF WaitExplained
  <2> DEFINE q == <<lock[Sess(r)], Sess(r)>>
  <2>1. lock[Sess(r)] \in Procs
    BY ChatAssumption, RunTypes, Types
  <2>2. q \in Runs /\ Sess(q) = Sess(r) /\ q[1] = lock[Sess(r)]
    BY <2>1, ChatAssumption, RunTypes
  <2>3. pc[q] \in LockPCs /\ pc[r] = "loaded"
    BY <2>2 DEF LockInv, LockOwned, Polling, At
  <2>4. status[q[1]] # "down"
    BY <2>1, <2>2, <2>3, Locations DEF StopsClean, AtRest
  <2> QED
    BY <2>2, <2>3, <2>4, Locations
<1> QED
  BY <1>1, <1>2, <1>3, Always, PTL DEF Spec
------------------------------------------------------------------------------
(* Runs that end *)

(* The steps ahead of a run at l with i iterations left: at most four in   *)
(* each (read, acknowledge, think, act), and those before and after them.  *)
Ahead(l, i) ==
    CASE l = "load" -> 4 * MaxIters + 11
      [] l = "loaded" -> 4 * MaxIters + 10
      [] l = "locked" -> 4 * MaxIters + 9
      [] l = "input" -> 4 * MaxIters + 8
      [] l = "loop" -> 4 * i + 7
      [] l = "ack" -> 4 * i + 6
      [] l = "think" -> 4 * i + 5
      [] l = "act" -> 4 * i + 4
      [] l = "save" -> 6
      [] l = "persist" -> 5
      [] l = "write" -> 4
      [] l = "trim" -> 3
      [] l = "release" -> 2
      [] l = "ending" -> 1
      [] l = "none" -> 0

StepsAhead(r) == Ahead(pc[r], MaxIters - run[r].mem.iter)

(* The run is spawned, is left alone, or comes closer to its end. *)
Closer(r) ==
    \/ pc[r] = "none"
    \/ pc'[r] = pc[r] /\ run'[r] = run[r]
    \/ StepsAhead(r)' < StepsAhead(r)

RunsAdvance == [][\A r \in Runs : Closer(r)]_vars

LEMMA Iterations ==
    ASSUME ChatAssumption, TypeInv, NEW r \in Runs
    PROVE  /\ run[r].mem.iter \in 0..MaxIters /\ run[r].mem \in AgentState
           /\ run[r] \in RunLocals /\ MaxIters \in Nat
BY RunTypes, Types DEF RunLocals, AgentState

LEMMA NextIterations ==
    ASSUME TypeInv', NEW r \in Runs
    PROVE  run'[r].mem.iter \in 0..MaxIters
<1>1. run'[r] \in RunLocals
  BY DEF TypeInv, TypeOK
<1>2. run'[r].mem \in AgentState
  BY <1>1 DEF RunLocals
<1> QED
  BY <1>2 DEF AgentState

AheadOf(i) ==
    /\ Ahead("load", i) = 4 * MaxIters + 11 /\ Ahead("loaded", i) = 4 * MaxIters + 10
    /\ Ahead("locked", i) = 4 * MaxIters + 9 /\ Ahead("input", i) = 4 * MaxIters + 8
    /\ Ahead("loop", i) = 4 * i + 7 /\ Ahead("ack", i) = 4 * i + 6
    /\ Ahead("think", i) = 4 * i + 5 /\ Ahead("act", i) = 4 * i + 4
    /\ Ahead("save", i) = 6 /\ Ahead("persist", i) = 5 /\ Ahead("write", i) = 4
    /\ Ahead("trim", i) = 3 /\ Ahead("release", i) = 2 /\ Ahead("ending", i) = 1
    /\ Ahead("none", i) = 0

LEMMA AheadValues == \A i : AheadOf(i)
BY DEF AheadOf, Ahead

LEMMA AheadBounded ==
    ASSUME ChatAssumption, TypeInv, NEW r \in Runs
    PROVE  /\ StepsAhead(r) \in 0..(4 * MaxIters + 11)
           /\ pc[r] # "none" => StepsAhead(r) >= 1
<1> DEFINE i == MaxIters - run[r].mem.iter
           l == pc[r]
<1>1. i \in Nat /\ i <= MaxIters /\ MaxIters \in Nat
  BY Iterations
<1>2. l \in {"locked", "input", "loop", "ack", "think", "act", "save", "persist", "write",
             "trim", "release", "none", "load", "loaded", "ending"}
  BY Types, Locations
<1>3. StepsAhead(r) = Ahead(l, i) /\ AheadOf(i)
  BY AheadValues DEF StepsAhead
<1> HIDE DEF i, l
<1>4. Ahead(l, i) \in 0..(4 * MaxIters + 11) /\ (l # "none" => Ahead(l, i) >= 1)
  BY <1>1, <1>2, <1>3 DEF AheadOf
<1> QED
  BY <1>3, <1>4 DEF l

(* The moves of a run bring it closer to its end. *)
Move(k, i, l, j) ==
    \/ k = "load" /\ l = "loaded"
    \/ k = "loaded" /\ l = "locked"
    \/ k = "locked" /\ l = "input"
    \/ k = "input" /\ l = "loop"
    \/ k = "loop" /\ l \in {"think", "ack"} /\ j = i
    \/ k = "ack" /\ l = "think" /\ j = i
    \/ k = "think" /\ l = "act" /\ j = i
    \/ k \in {"loop", "act"} /\ l = "loop" /\ j = i - 1
    \/ k = "loop" /\ l = "save"
    \/ k \in {"think", "act"} /\ l = "save" /\ i >= 1
    \/ k = "save" /\ l = "persist"
    \/ k = "persist" /\ l = "write"
    \/ k \in BodyPCs /\ l = "trim"
    \/ k = "trim" /\ l = "release"
    \/ k = "release" /\ l = "ending"
    \/ k \in {"load", "loaded", "release", "ending"} /\ l = "none"

LEMMA MoveDrops ==
    ASSUME ChatAssumption, NEW i \in 0..MaxIters, NEW j \in 0..MaxIters,
           NEW k, NEW l, Move(k, i, l, j)
    PROVE  Ahead(l, j) < Ahead(k, i)
<1>1. i \in Nat /\ j \in Nat /\ i <= MaxIters /\ j <= MaxIters /\ MaxIters \in Nat
  BY RunTypes
<1>2. AheadOf(i) /\ AheadOf(j)
  BY AheadValues
<1>3. CASE k \in {"loop", "ack", "think", "act"}
  BY <1>1, <1>2, <1>3 DEF Move, BodyPCs, AheadOf
<1>4. CASE k \notin {"loop", "ack", "think", "act"}
  BY <1>1, <1>2, <1>4 DEF Move, BodyPCs, AheadOf
<1> QED
  BY <1>3, <1>4

LEMMA MoveCloser ==
    ASSUME ChatAssumption, TypeInv, TypeInv', NEW r \in Runs,
           Move(pc[r], MaxIters - run[r].mem.iter, pc'[r], MaxIters - run'[r].mem.iter)
    PROVE  StepsAhead(r)' < StepsAhead(r)
<1> DEFINE i == MaxIters - run[r].mem.iter
           j == MaxIters - run'[r].mem.iter
<1>1. i \in 0..MaxIters /\ j \in 0..MaxIters
  BY Iterations, NextIterations
<1> HIDE DEF i, j
<1>2. Ahead(pc'[r], j) < Ahead(pc[r], i)
  BY <1>1, MoveDrops DEF i, j
<1> QED
  BY <1>2 DEF StepsAhead, i, j

(* Only that run moves. *)
LEMMA OnlyCloser ==
    ASSUME TypeInv, NEW r \in Runs, Only(r), Closer(r)
    PROVE  \A q \in Runs : Closer(q)
BY DEF Only, Closer

LEMMA ThinkCloser ==
    ASSUME ChatAssumption, TypeInv, TypeInv', NEW r \in Runs,
           ReadInbox(r) \/ AckInbox(r) \/ Think(r) \/ Act(r)
    PROVE  StepsAhead(r)' < StepsAhead(r)
<1> DEFINE i == run[r].mem.iter
           j == run'[r].mem.iter
<1>0. /\ i \in 0..MaxIters /\ j \in 0..MaxIters /\ MaxIters \in Nat
      /\ run[r].mem \in AgentState /\ run[r] \in RunLocals
      /\ pc \in [Runs -> PCs] /\ run \in [Runs -> RunLocals]
      /\ pc[r] \in ThinkPCs => i < MaxIters
  BY Iterations, NextIterations, Types DEF TypeInv, LocalsSound
<1>1. CASE ReadInbox(r)
  <2>1. pc[r] = "loop" /\ pc'[r] \in {"think", "ack"} /\ j = i
    BY <1>0, <1>1 DEF ReadInbox, At, Goto, RunLocals
  <2> QED
    BY <2>1, MoveCloser DEF Move
<1>2. CASE AckInbox(r)
  <2> DEFINE m == [run[r].mem EXCEPT !.context = @ \o run[r].hints]
  <2>1. pc[r] = "ack" /\ pc'[r] = "think" /\ m.iter = i
    BY <1>0, <1>2 DEF AckInbox, At, Goto, AgentState
  <2>2. run'[r] = [[run[r] EXCEPT !.mem = m] EXCEPT !.hints = <<>>]
    BY <1>0, <1>2 DEF AckInbox
  <2> HIDE DEF m
  <2>3. j = i
    BY <1>0, <2>1, <2>2 DEF RunLocals
  <2> QED
    BY <2>1, <2>3, MoveCloser DEF Move
<1>3. CASE Think(r) /\ pc'[r] = "act"
  <2> DEFINE m == [run[r].mem EXCEPT !.tools = "exec"]
  <2>1. pc[r] = "think" /\ run'[r] = [run[r] EXCEPT !.mem = m]
    BY <1>0, <1>3 DEF Think, At, Goto
  <2>2. m \in AgentState /\ m.iter = i
    BY <1>0 DEF AgentState
  <2> HIDE DEF m
  <2>3. j = i
    BY <1>0, <2>1, <2>2, MemFields
  <2> QED
    BY <1>3, <2>1, <2>3, MoveCloser DEF Move
<1>4. CASE Act(r) /\ pc'[r] = "loop"
  <2> DEFINE m == Iterated(run[r].mem)
  <2>1. pc[r] \in {"loop", "act"} /\ run'[r] = [run[r] EXCEPT !.mem = m]
    BY <1>0, <1>4 DEF Act, At, Goto
  <2>2. m.iter = i + 1
    BY <1>0 DEF Iterated, AgentState
  <2> HIDE DEF m
  <2>3. j = i + 1
    BY <1>0, <2>1, <2>2 DEF RunLocals
  <2>4. MaxIters - j = (MaxIters - i) - 1
    BY <1>0, <2>3
  <2> QED
    BY <1>4, <2>1, <2>4, MoveCloser DEF Move
<1>5. CASE (Think(r) \/ Act(r)) /\ pc'[r] = "save"
  <2>1. pc[r] \in {"loop", "think", "act"} /\ i < MaxIters
    BY <1>0, <1>5 DEF Think, Act, At, ThinkPCs
  <2>2. MaxIters - i >= 1
    BY <1>0, <2>1
  <2> QED
    BY <1>5, <2>1, <2>2, MoveCloser DEF Move
<1>6. /\ Think(r) => pc'[r] \in {"save", "act"}
      /\ Act(r) => pc'[r] \in {"save", "loop"}
  BY <1>0 DEF Think, Act, Goto
<1> QED
  BY <1>1, <1>2, <1>3, <1>4, <1>5, <1>6

LEMMA RunCloser ==
    ASSUME ChatAssumption, TypeInv, TypeInv', NEW r \in Runs, RunStep(r) \/ RunFails(r)
    PROVE  StepsAhead(r)' < StepsAhead(r)
<1> USE Types DEF At, Goto
<1>1. CASE Load(r) \/ SkipParked(r) \/ AcquireSession(r) \/ EndRun(r)
  BY <1>1, MoveCloser DEF Load, SkipParked, AcquireSession, EndRun, Finish, Move
<1>2. CASE PrepareInput(r) \/ RejectInput(r) \/ StartReply(r) \/ ResumeReply(r)
           \/ LeaveLoop(r)
  BY <1>2, MoveCloser
     DEF PrepareInput, RejectInput, StartReply, ResumeReply, LeaveLoop, Unwind, Move, BodyPCs
<1>3. CASE ReadInbox(r) \/ AckInbox(r) \/ Think(r) \/ Act(r)
  BY <1>3, ThinkCloser
<1>4. CASE SaveReply(r) \/ GetRecord(r) \/ SetRecord(r) \/ TrimLog(r) \/ ReleaseSession(r)
  BY <1>4, MoveCloser
     DEF SaveReply, GetRecord, SetRecord, TrimLog, ReleaseSession, Unwind, Move, BodyPCs
<1>5. CASE Interrupted(r)
  BY <1>5, MoveCloser DEF Interrupted, Move
<1> QED
  BY <1>1, <1>2, <1>3, <1>4, <1>5 DEF RunStep, RunFails, Cancelled

LEMMA NextCloser ==
    ASSUME ChatAssumption, TypeInv, TypeInv', [Next]_vars
    PROVE  \A r \in Runs : Closer(r)
<1>1. ASSUME UNCHANGED <<pc, run>>
      PROVE  \A r \in Runs : Closer(r)
  BY <1>1 DEF Closer
<1>2. CASE UNCHANGED vars
  BY <1>1, <1>2 DEF vars, runs
<1>3. ASSUME NEW r \in Runs, RunStep(r) \/ RunFails(r)
      PROVE  \A q \in Runs : Closer(q)
  BY <1>3, RunStepsOwn, RunCloser, OnlyCloser DEF Closer
<1>4. ASSUME NEW r \in Runs, CancelSession(r)
      PROVE  UNCHANGED <<pc, run>>
  BY <1>4 DEF CancelSession
<1>5. ASSUME NEW h \in Hints, ProducerStep(h) \/ ProducerFails(h)
      PROVE  UNCHANGED <<pc, run>>
  BY <1>5 DEF ProducerStep, PushInbox, EnqueueWakeup, SignalWakeup, ProducerFails, runs
<1>6. ASSUME NEW r \in Runs, NEW x, pc[r] = "none", Spawn(r, x)
      PROVE  \A q \in Runs : Closer(q)
  BY <1>6, SpawnStep, OnlyCloser DEF Closer
<1>7. ASSUME NEW p \in Procs, NEW x \in Inputs, PostChat(p, x)
      PROVE  \A q \in Runs : Closer(q)
  BY <1>6, <1>7, RunTypes DEF PostChat
<1>8. ASSUME NEW p \in Procs,
             ReadQueue(p) \/ AckQueue(p) \/ CheckRunning(p) \/ DispatcherFails(p)
               \/ Shutdown(p) \/ Stopped(p) \/ Restart(p)
      PROVE  UNCHANGED <<pc, run>>
  BY <1>8 DEF ReadQueue, AckQueue, CheckRunning, DispatcherFails, Shutdown, Stopped,
     Restart, runs
<1>9. ASSUME NEW p \in Procs, SpawnWakeup(p)
      PROVE  \A q \in Runs : Closer(q)
  <2>1. \/ \E r \in Runs : pc[r] = "none" /\ Spawn(r, Wake)
        \/ UNCHANGED <<pc, run>>
    BY <1>9, NextEntryTypes, RunTypes DEF SpawnWakeup
  <2> QED
    BY <1>1, <1>6, <2>1
<1>10. ASSUME NEW p \in Procs, Crash(p), NEW r \in Runs
       PROVE  Closer(r)
  <2>1. CASE r[1] # p
    BY <1>10, <2>1 DEF Crash, Closer
  <2>2. CASE r[1] = p /\ pc[r] # "none"
    <3>1. pc'[r] = "none" /\ MaxIters - run'[r].mem.iter \in Nat
      BY <1>10, <2>2, Iterations, NextIterations DEF Crash
    <3>2. StepsAhead(r)' = 0
      BY <3>1, AheadValues DEF StepsAhead, AheadOf
    <3>3. StepsAhead(r) \in Nat /\ StepsAhead(r) >= 1
      BY <2>2, AheadBounded, Iterations
    <3> QED
      BY <3>2, <3>3 DEF Closer
  <2> QED
    BY <2>1, <2>2 DEF Closer
<1>11. ASSUME NEW s \in Sessions, ExpireLease(s) \/ DeleteStep(s)
       PROVE  UNCHANGED <<pc, run>>
  BY <1>11 DEF ExpireLease, DeleteStep, PublishCancel, DeleteRecord, PurgeSession, runs
<1> QED
  BY <1>1, <1>2, <1>3, <1>4, <1>5, <1>7, <1>8, <1>9, <1>10, <1>11 DEF Next, DispatchStep

(* Once spawned, a run takes at most 4 max_iters + 11 steps, and everything *)
(* that happens to it (its own steps, a failing call, a cancellation, a    *)
(* crash) brings it closer to its end: it can wait, but never go round.    *)
THEOREM RunsGoForward ==
    Spec => [](\A r \in Runs : StepsAhead(r) \in 0..(4 * MaxIters + 11)) /\ RunsAdvance
<1>1. TypeInv => \A r \in Runs : StepsAhead(r) \in 0..(4 * MaxIters + 11)
  BY ChatAssumption, AheadBounded
<1>2. TypeInv /\ TypeInv' /\ [Next]_vars => [\A r \in Runs : Closer(r)]_vars
  BY ChatAssumption, NextCloser
<1> QED
  BY <1>1, <1>2, Always, PTL DEF Spec, RunsAdvance
------------------------------------------------------------------------------
(* Wake-ups that are owed *)

(* A drain that is the last one the dispatcher owes reads the whole queue, *)
(* and acknowledges what it has read.                                      *)
DrainsWhole ==
    \A p \in Procs :
        /\ ReadQueue(p) => Len(queue) <= QueueBatch \/ signals[p] > 1
        /\ DispatcherFails(p) /\ disp[p] = "ack" => signals[p] > 0

Owes(p, h) == signals[p] > 0 \/ (disp[p] = "ack" /\ h \in ToSet(batch[p]))

WakeupsOwed ==
    \A h \in ToSet(queue) : stage[h] = "sent" =>
        \A p \in Procs : status[p] = "up" => Owes(p, h)

(* The dispatchers still owe what they owed. *)
LEMMA OwedStays ==
    ASSUME WakeupsOwed, ToSet(queue') \subseteq ToSet(queue),
           \A h \in ToSet(queue') : stage'[h] = "sent" => stage[h] = "sent",
           \A p \in Procs : status'[p] = "up" =>
               /\ status[p] = "up"
               /\ \A h \in ToSet(queue') : Owes(p, h) => Owes(p, h)'
    PROVE  WakeupsOwed'
BY DEF WakeupsOwed

LEMMA DispatchOwed ==
    ASSUME ChatAssumption, TypeInv, WakeupsOwed, DrainsWhole, NEW p \in Procs,
           DispatchStep(p) \/ DispatcherFails(p)
    PROVE  WakeupsOwed'
<1> USE DEF clients, redis
<1>0. /\ queue \in Seq(Hints) /\ batch \in [Procs -> Seq(Hints)]
      /\ signals \in [Procs -> Nat] /\ DOMAIN disp = Procs
      /\ UNCHANGED <<status, stage>>
  BY DEF TypeInv, TypeOK, DispatchStep, ReadQueue, AckQueue, CheckRunning, SpawnWakeup,
     DispatcherFails
<1>1. ASSUME ToSet(queue') \subseteq ToSet(queue),
             \A q \in Procs \ {p} : /\ signals'[q] = signals[q] /\ disp'[q] = disp[q]
                                    /\ batch'[q] = batch[q],
             \A h \in ToSet(queue') : Owes(p, h) => Owes(p, h)'
      PROVE  WakeupsOwed'
  <2>1. \A q \in Procs : \A h \in ToSet(queue') : Owes(q, h) => Owes(q, h)'
    BY <1>1 DEF Owes
  <2> QED
    BY <1>0, <1>1, <2>1, OwedStays
<1>2. CASE ReadQueue(p)
  <2>1. /\ queue' = queue /\ disp[p] = "idle" /\ signals' = [signals EXCEPT ![p] = @ - 1]
        /\ batch' = [batch EXCEPT ![p] = First(QueueBatch, queue)]
        /\ disp' = [disp EXCEPT ![p] =
                      IF First(QueueBatch, queue) = <<>> THEN "idle" ELSE "ack"]
    BY <1>2 DEF ReadQueue
  <2>2. CASE signals[p] > 1
    <3>1. signals'[p] > 0
      BY <1>0, <2>1, <2>2
    <3> QED
      BY <1>0, <1>1, <2>1, <3>1 DEF Owes
  <2>3. CASE Len(queue) <= QueueBatch
    <3>1. First(QueueBatch, queue) = queue
      BY <1>0, <2>3, RunTypes, FirstIsAll
    <3>2. \A h \in ToSet(queue') : Owes(p, h)'
      BY <1>0, <2>1, <3>1, EmptyFacts DEF Owes
    <3> QED
      BY <1>0, <1>1, <2>1, <3>2
  <2> QED
    BY <1>2, <2>2, <2>3 DEF DrainsWhole
<1>3. CASE AckQueue(p)
  <2>1. /\ disp' = [disp EXCEPT ![p] = "check"] /\ UNCHANGED <<signals, batch>>
        /\ ToSet(queue') = ToSet(queue) \ ToSet(batch[p])
    BY <1>0, <1>3, WithoutFacts DEF AckQueue
  <2> QED
    BY <1>0, <1>1, <2>1 DEF Owes
<1>4. CASE CheckRunning(p) \/ SpawnWakeup(p)
  <2>1. /\ disp[p] # "ack" /\ UNCHANGED <<signals, queue>>
        /\ \A q \in Procs \ {p} : disp'[q] = disp[q] /\ batch'[q] = batch[q]
    BY <1>0, <1>4 DEF CheckRunning, SpawnWakeup, NextEntry
  <2> QED
    BY <1>1, <2>1 DEF Owes
<1>5. CASE DispatcherFails(p)
  <2>1. /\ UNCHANGED <<signals, queue>>
        /\ \A q \in Procs \ {p} : disp'[q] = disp[q] /\ batch'[q] = batch[q]
        /\ disp[p] = "ack" => signals[p] > 0
    BY <1>0, <1>5 DEF DispatcherFails, DrainsWhole
  <2> QED
    BY <1>1, <2>1 DEF Owes
<1> QED
  BY <1>2, <1>3, <1>4, <1>5 DEF DispatchStep

LEMMA NextOwed ==
    ASSUME ChatAssumption, TypeInv, WakeupsOwed, [Next]_vars, [DrainsWhole]_vars
    PROVE  WakeupsOwed'
<1> USE DEF procs, clients, redis
<1>1. ASSUME UNCHANGED Mail, UNCHANGED <<status, signals>>
      PROVE  WakeupsOwed'
  BY <1>1, OwedStays DEF Mail, Owes
<1>2. CASE UNCHANGED vars
  BY <1>1, <1>2 DEF vars, Mail
<1>3. ASSUME NEW r \in Runs, RunStep(r) \/ RunFails(r) \/ CancelSession(r)
      PROVE  WakeupsOwed'
  <2>1. CASE CancelSession(r)
    BY <1>1, <2>1 DEF CancelSession, Mail
  <2> QED
    BY <1>1, <1>3, <2>1, RunMail, RunLeaves
<1>4. ASSUME NEW k \in Hints, ProducerStep(k) \/ ProducerFails(k)
      PROVE  WakeupsOwed'
  <2>0. /\ stage \in [Hints -> {"new", "pushed", "queued", "sent", "failed"}]
        /\ queue \in Seq(Hints) /\ signals \in [Procs -> Nat]
    BY DEF TypeInv, TypeOK
  <2>1. CASE PushInbox(k) \/ ProducerFails(k)
    <3>1. /\ UNCHANGED <<queue, status, signals, disp, batch>>
          /\ \A h \in Hints : stage'[h] = "sent" => stage[h] = "sent"
      BY <2>0, <2>1 DEF PushInbox, ProducerFails
    <3>2. ToSet(queue) \subseteq Hints
      BY <2>0 DEF ToSet
    <3> QED
      BY <3>1, <3>2, OwedStays DEF Owes
  <2>2. CASE EnqueueWakeup(k)
    <3>1. /\ UNCHANGED <<status, signals, disp, batch>>
          /\ stage' = [stage EXCEPT ![k] = "queued"] /\ queue' = Append(queue, k)
      BY <2>2 DEF EnqueueWakeup
    <3>2. \A h : h \in ToSet(queue') <=> h \in ToSet(queue) \/ h = k
      BY <2>0, <3>1, AppendFacts
    <3> QED
      BY <2>0, <3>1, <3>2 DEF WakeupsOwed, Owes
  <2>3. CASE SignalWakeup(k)
    <3>1. /\ UNCHANGED <<status, queue>>
          /\ \A p \in Procs : status[p] = "up" => signals'[p] > 0
      BY <2>0, <2>3 DEF SignalWakeup
    <3> QED
      BY <3>1 DEF WakeupsOwed, Owes
  <2> QED
    BY <1>4, <2>1, <2>2, <2>3 DEF ProducerStep
<1>5. ASSUME NEW p \in Procs, NEW x \in Inputs, PostChat(p, x)
      PROVE  WakeupsOwed'
  BY <1>1, <1>5 DEF PostChat, Mail
<1>6. ASSUME DrainsWhole, NEW p \in Procs, DispatchStep(p) \/ DispatcherFails(p)
      PROVE  WakeupsOwed'
  BY <1>6, DispatchOwed
<1>7. ASSUME NEW p \in Procs, Shutdown(p) \/ Stopped(p) \/ Crash(p) \/ Restart(p)
      PROVE  WakeupsOwed'
  <2>0. /\ status \in [Procs -> {"up", "stopping", "down"}]
        /\ DOMAIN disp = Procs /\ DOMAIN batch = Procs /\ DOMAIN signals = Procs
    BY DEF TypeInv, TypeOK
  <2>1. UNCHANGED <<queue, stage>>
    BY <1>7 DEF Shutdown, Stopped, Crash, Restart
  <2>2. CASE Restart(p)
    BY <2>0, <2>1, <2>2 DEF Restart, WakeupsOwed, Owes
  <2>3. CASE Shutdown(p) \/ Stopped(p) \/ Crash(p)
    <3>1. /\ status'[p] # "up"
          /\ \A q \in Procs \ {p} : /\ status'[q] = status[q] /\ signals'[q] = signals[q]
                                    /\ disp'[q] = disp[q] /\ batch'[q] = batch[q]
      BY <2>0, <2>3 DEF Shutdown, Stopped, Crash, StopDispatchers
    <3> QED
      BY <2>1, <3>1 DEF WakeupsOwed, Owes
  <2> QED
    BY <1>7, <2>2, <2>3
<1>8. ASSUME NEW s \in Sessions, ExpireLease(s) \/ DeleteStep(s)
      PROVE  WakeupsOwed'
  BY <1>1, <1>8 DEF ExpireLease, DeleteStep, PublishCancel, DeleteRecord, PurgeSession, Mail
<1> QED
  BY <1>2, <1>3, <1>4, <1>5, <1>6, <1>7, <1>8 DEF Next

(* _wakeup_dispatcher.py:74, "wake-ups produced while this process was     *)
(* down [...] are picked up immediately": as long as the last drain that a *)
(* dispatcher owes finds no more than a batch and does not fail, a wake-up *)
(* that was queued and signalled stays in the queue only while every       *)
(* listening dispatcher has a signal to answer or the wake-up in hand,     *)
(* whatever processes stop, die and start in between.                      *)
THEOREM OnlyPartialDrainsForget == Spec /\ [][DrainsWhole]_vars => []WakeupsOwed
<1>1. Init => WakeupsOwed
  BY EmptyFacts DEF Init, WakeupsOwed
<1>2. TypeInv /\ WakeupsOwed /\ [Next]_vars /\ [DrainsWhole]_vars => WakeupsOwed'
  BY ChatAssumption, NextOwed
<1> QED
  BY <1>1, <1>2, Always, PTL DEF Spec
=============================================================================
