---------------------------- MODULE ChatTypeProofs ----------------------------
(***************************************************************************)
(* The types of ChatRun, kept by every step of every process, client and   *)
(* deletion.                                                               *)
(***************************************************************************)
EXTENDS ChatRunProofs, QueuesProofs

ThinkPCs == {"ack", "think", "act"}
IdlePCs == {"none", "trim", "release", "ending"}

(* What the types depend on: a run has locals only while it is at work, it *)
(* thinks only with an iteration left, and a dispatcher at work has a      *)
(* batch.                                                                  *)
LocalsSound ==
    /\ \A r \in Runs :
          /\ pc[r] \in IdlePCs => run[r] = NoLocals
          /\ pc[r] = "load" => run[r].mem = NewState
          /\ pc[r] \in ThinkPCs => run[r].mem.iter < MaxIters
          /\ pc[r] # "ack" => run[r].hints = <<>>
    /\ \A p \in Procs : disp[p] \in {"ack", "check", "spawn"} => batch[p] # <<>>

TypeInv == TypeOK /\ LocalsSound

------------------------------------------------------------------------------
(* Helpers of ChatRun *)

LEMMA FirstFacts ==
    ASSUME NEW T, NEW q \in Seq(T), NEW n \in Nat \ {0}
    PROVE  /\ First(n, q) \in Seq(T)
           /\ ToSet(First(n, q)) \subseteq ToSet(q)
           /\ IsInjective(q) => IsInjective(First(n, q))
<1> DEFINE m == IF Len(q) < n THEN Len(q) ELSE n
<1>1. m \in Nat /\ m <= Len(q)
  OBVIOUS
<1>2. /\ SubSeq(q, 1, m) \in Seq(T)
      /\ DOMAIN SubSeq(q, 1, m) = 1..m /\ DOMAIN q = 1..Len(q)
      /\ \A i \in 1..m : SubSeq(q, 1, m)[i] = q[i]
      /\ 1..m \subseteq 1..Len(q)
  <2> HIDE DEF m
  <2> QED
    BY <1>1
<1>3. First(n, q) = SubSeq(q, 1, m)
  BY DEF First
<1> HIDE DEF m
<1> QED
  BY <1>2, <1>3 DEF ToSet, IsInjective

LEMMA UpsertFacts ==
    ASSUME NEW T, NEW q \in Seq(T), NEW e \in T
    PROVE  /\ Upsert(q, e) \in Seq(T)
           /\ e \in ToSet(Upsert(q, e))
           /\ ToSet(q) \subseteq ToSet(Upsert(q, e))
<1>1. CASE q # <<>> /\ Last(q) = e
  <2>1. Len(q) \in DOMAIN q
    BY <1>1
  <2>2. q[Len(q)] = e
    BY <1>1 DEF Last
  <2> QED
    BY <1>1, <2>1, <2>2 DEF Upsert, ToSet
<1>2. CASE ~(q # <<>> /\ Last(q) = e)
  BY <1>2, AppendFacts DEF Upsert
<1> QED
  BY <1>1, <1>2

LEMMA WithoutFacts ==
    ASSUME NEW T, NEW q \in Seq(T), NEW seen
    PROVE  /\ Without(q, seen) \in Seq(T)
           /\ ToSet(Without(q, seen)) = ToSet(q) \ ToSet(seen)
           /\ IsInjective(q) => IsInjective(Without(q, seen))
BY KeepFacts DEF Without

------------------------------------------------------------------------------
(* Types *)

LEMMA RunTypes ==
    ASSUME ChatAssumption
    PROVE  /\ NewState \in AgentState /\ NoLocals \in RunLocals
           /\ \A r \in Runs : r[1] \in Procs /\ Sess(r) \in Sessions /\ r = <<r[1], Sess(r)>>
           /\ \A p \in Procs, s \in Sessions : <<p, s>> \in Runs /\ Sess(<<p, s>>) = s
           /\ MaxIters \in Nat \ {0} /\ InboxBatch \in Nat \ {0} /\ QueueBatch \in Nat \ {0}
           /\ MaxRestarts \in Nat /\ MaxFaults \in Nat
           /\ \A x \in Inputs \cup Hints : SessionOf[x] \in Sessions
<1>1. NewState \in AgentState
  BY DEF ChatAssumption, NewState, AgentState
<1>2. NoLocals \in RunLocals
  BY <1>1 DEF NoLocals, RunLocals
<1>3. /\ \A r \in Runs : r[1] \in Procs /\ Sess(r) \in Sessions /\ r = <<r[1], Sess(r)>>
      /\ \A p \in Procs, s \in Sessions : <<p, s>> \in Runs /\ Sess(<<p, s>>) = s
  BY DEF Runs, Sess
<1> QED
  BY <1>1, <1>2, <1>3 DEF ChatAssumption

(* Records with one field changed. *)
LEMMA MemTypes ==
    \A m \in AgentState :
        /\ m.context \in Seq(UserMsgs \cup Hints) /\ m.tools \in {"none", "exec", "await"}
        /\ m.iter \in 0..MaxIters /\ m.reply \in Nat
        /\ \A c \in Seq(UserMsgs \cup Hints) : [m EXCEPT !.context = c] \in AgentState
        /\ \A t \in {"none", "exec", "await"} : [m EXCEPT !.tools = t] \in AgentState
        /\ \A i \in 0..MaxIters : [m EXCEPT !.iter = i] \in AgentState
        /\ \A n \in Nat : [m EXCEPT !.reply = n] \in AgentState
BY DEF AgentState

LEMMA LocalTypes ==
    \A l \in RunLocals :
        /\ l.job \in Inputs \cup {Wake} /\ l.mem \in AgentState
        /\ l.reply \in Nat /\ l.hints \in Seq(Hints)
        /\ \A m \in AgentState : [l EXCEPT !.mem = m] \in RunLocals
        /\ \A n \in Nat : [l EXCEPT !.reply = n] \in RunLocals
        /\ \A h \in Seq(Hints) : [l EXCEPT !.hints = h] \in RunLocals
        /\ \A x \in Inputs \cup {Wake} : [l EXCEPT !.job = x] \in RunLocals
BY DEF RunLocals

LEMMA Types ==
    ASSUME TypeInv
    PROVE  /\ lock \in [Sessions -> Procs \cup {Free, Orphan}]
           /\ exists \in [Sessions -> BOOLEAN] /\ stored \in [Sessions -> AgentState]
           /\ msgs \in [Sessions -> Seq(UserMsgs \cup Nat)]
           /\ logged \in [Sessions -> BOOLEAN] /\ inbox \in [Sessions -> Seq(Hints)]
           /\ pc \in [Runs -> PCs] /\ run \in [Runs -> RunLocals]
           /\ cancelling \subseteq Runs /\ replies \in Nat /\ faults \in 0..MaxFaults
BY DEF TypeInv, TypeOK

LEMMA InitTypes == ASSUME ChatAssumption, Init PROVE TypeInv
<1>1. TypeOK
  <2> USE RunTypes, Locations
  <2>1. <<>> \in Seq(Hints) /\ <<>> \in Seq(UserMsgs \cup Nat)
    OBVIOUS
  <2> QED
    BY <2>1 DEF Init, TypeOK
<1>2. LocalsSound
  BY RunTypes DEF Init, LocalsSound, IdlePCs, ThinkPCs, NoLocals
<1> QED
  BY <1>1, <1>2 DEF TypeInv

(* A step that changes the locals of one run. *)
LEMMA SetLocals ==
    ASSUME TypeInv, NEW r \in Runs, NEW l \in PCs, NEW loc \in RunLocals,
           pc' = [pc EXCEPT ![r] = l], run' = [run EXCEPT ![r] = loc],
           l \in IdlePCs => loc = NoLocals,
           l = "load" => loc.mem = NewState,
           l \in ThinkPCs => loc.mem.iter < MaxIters,
           l # "ack" => loc.hints = <<>>,
           disp' = disp, batch' = batch
    PROVE  LocalsSound' /\ pc' \in [Runs -> PCs] /\ run' \in [Runs -> RunLocals]
BY DEF TypeInv, TypeOK, LocalsSound

LEMMA PublishType ==
    ASSUME TypeInv, NEW s, Publish(s)
    PROVE  logged' \in [Sessions -> BOOLEAN]
BY DEF TypeInv, TypeOK, Publish

LEMMA BegunType ==
    ASSUME ChatAssumption, NEW m \in AgentState, NEW x \in UserMsgs \cup {Wake}, NEW n \in Nat
    PROVE  Begun(m, x, n) \in AgentState
<1> DEFINE c == IF x = Wake THEN m.context ELSE Append(m.context, x)
<1>1. m.context \in Seq(UserMsgs \cup Hints) /\ 0 \in 0..MaxIters
  BY RunTypes DEF AgentState
<1>2. c \in Seq(UserMsgs \cup Hints)
  BY <1>1
<1> DEFINE t == IF x = Wake THEN m.tools ELSE "none"
<1>3. Begun(m, x, n) =
        [[[[m EXCEPT !.context = c] EXCEPT !.tools = t] EXCEPT !.reply = n]
           EXCEPT !.iter = 0]
  BY DEF Begun
<1>4. t \in {"none", "exec", "await"}
  BY DEF AgentState
<1> HIDE DEF c, t
<1> QED
  BY <1>1, <1>2, <1>3, <1>4 DEF AgentState

(* ... and, beside them, only some variables that the runs share. *)
LEMMA RunTypeInv ==
    ASSUME TypeInv,
           LocalsSound', pc' \in [Runs -> PCs], run' \in [Runs -> RunLocals],
           lock' \in [Sessions -> Procs \cup {Free, Orphan}],
           exists' \in [Sessions -> BOOLEAN],
           stored' \in [Sessions -> AgentState],
           msgs' \in [Sessions -> Seq(UserMsgs \cup Nat)],
           logged' \in [Sessions -> BOOLEAN],
           inbox' \in [Sessions -> Seq(Hints)],
           queue' = queue, cancelling' \subseteq Runs,
           UNCHANGED <<procs, clients, restarts>>,
           replies' \in Nat, faults' \in 0..MaxFaults
    PROVE  TypeInv'
BY DEF TypeInv, TypeOK, procs, clients, deleting

LEMMA UpsertMsgs ==
    ASSUME TypeInv, NEW s \in Sessions, NEW x \in UserMsgs \cup Nat
    PROVE  [msgs EXCEPT ![s] = Upsert(@, x)] \in [Sessions -> Seq(UserMsgs \cup Nat)]
<1>1. Upsert(msgs[s], x) \in Seq(UserMsgs \cup Nat)
  BY UpsertFacts DEF TypeInv, TypeOK
<1> QED
  BY <1>1 DEF TypeInv, TypeOK

LEMMA EntryTypes ==
    ASSUME ChatAssumption, TypeInv, NEW r \in Runs,
           Load(r) \/ SkipParked(r) \/ AcquireSession(r) \/ PrepareInput(r)
    PROVE  TypeInv'
<1> USE RunTypes, Locations DEF At, Goto, IdlePCs, ThinkPCs
<1>0. /\ run[r] \in RunLocals /\ run[r].mem \in AgentState
      /\ run[r].hints \in Seq(Hints) /\ run[r].reply \in Nat
      /\ stored[Sess(r)] \in AgentState /\ msgs[Sess(r)] \in Seq(UserMsgs \cup Nat)
      /\ run = [q \in Runs |-> run[q]]
  BY DEF TypeInv, TypeOK, RunLocals
<1>1. CASE Load(r)
  <2> DEFINE loc == [run[r] EXCEPT !.mem = stored[Sess(r)]]
  <2>1. loc \in RunLocals /\ loc.hints = run[r].hints
    BY <1>0 DEF RunLocals
  <2>2. /\ pc[r] = "load" /\ run[r].hints = <<>>
        /\ \/ pc' = [pc EXCEPT ![r] = "loaded"] /\ run' = [run EXCEPT ![r] = loc]
           \/ pc' = [pc EXCEPT ![r] = "none"] /\ run' = [run EXCEPT ![r] = NoLocals]
        /\ cancelling' = cancelling /\ UNCHANGED <<redis, procs, clients, counters>>
    BY <1>1 DEF Load, Finish, TypeInv, LocalsSound
  <2> HIDE DEF loc
  <2>3. LocalsSound' /\ pc' \in [Runs -> PCs] /\ run' \in [Runs -> RunLocals]
    BY <2>1, <2>2, SetLocals DEF NoLocals, procs
  <2> QED
    BY <2>2, <2>3, Types, RunTypeInv DEF redis, counters
<1>2. CASE SkipParked(r)
  <2>1. /\ pc' = [pc EXCEPT ![r] = "none"] /\ run' = [run EXCEPT ![r] = NoLocals]
        /\ cancelling' = cancelling /\ UNCHANGED <<redis, procs, clients, counters>>
    BY <1>2 DEF SkipParked, Finish
  <2>2. LocalsSound' /\ pc' \in [Runs -> PCs] /\ run' \in [Runs -> RunLocals]
    BY <2>1, SetLocals DEF NoLocals, procs
  <2> QED
    BY <2>1, <2>2, Types, RunTypeInv DEF redis, counters
<1>3. CASE AcquireSession(r)
  <2>1. /\ pc[r] = "loaded" /\ run[r].hints = <<>>
        /\ pc' = [pc EXCEPT ![r] = "locked"] /\ run' = [run EXCEPT ![r] = run[r]]
        /\ lock' \in [Sessions -> Procs \cup {Free, Orphan}]
        /\ disp' = disp /\ batch' = batch
    BY <1>0, <1>3 DEF AcquireSession, TypeInv, TypeOK, LocalsSound, procs
  <2>2. LocalsSound' /\ pc' \in [Runs -> PCs] /\ run' \in [Runs -> RunLocals]
    BY <1>0, <2>1, SetLocals
  <2> QED
    BY <1>3, <2>1, <2>2, Types, RunTypeInv DEF AcquireSession, counters
<1>4. CASE PrepareInput(r)
  <2> DEFINE loc == [run[r] EXCEPT !.reply =
                        IF run[r].mem.reply \in ToSet(msgs[Sess(r)])
                        THEN run[r].mem.reply ELSE 0]
  <2>1. loc \in RunLocals /\ loc.hints = run[r].hints
    BY <1>0 DEF RunLocals, AgentState
  <2>2. /\ pc[r] = "locked" /\ run[r].hints = <<>>
        /\ pc' = [pc EXCEPT ![r] = "input"]
        /\ run' = [run EXCEPT ![r] = loc] \/ run' = [run EXCEPT ![r] = run[r]]
        /\ cancelling' = cancelling /\ disp' = disp /\ batch' = batch
    BY <1>0, <1>4 DEF PrepareInput, TypeInv, LocalsSound, procs
  <2> HIDE DEF loc
  <2>3. LocalsSound' /\ pc' \in [Runs -> PCs] /\ run' \in [Runs -> RunLocals]
    BY <1>0, <2>1, <2>2, SetLocals
  <2>4. msgs' \in [Sessions -> Seq(UserMsgs \cup Nat)]
    <3>1. \/ msgs' = msgs
          \/ \E x \in UserMsgs : msgs' = [msgs EXCEPT ![Sess(r)] = Upsert(@, x)]
      BY <1>4 DEF PrepareInput
    <3>2. CASE msgs' = msgs
      BY <3>2, Types
    <3>3. ASSUME NEW x \in UserMsgs, msgs' = [msgs EXCEPT ![Sess(r)] = Upsert(@, x)]
          PROVE  msgs' \in [Sessions -> Seq(UserMsgs \cup Nat)]
      BY <3>3, UpsertMsgs
    <3> QED
      BY <3>1, <3>2, <3>3
  <2> QED
    BY <1>4, <2>2, <2>3, <2>4, Types, RunTypeInv DEF PrepareInput, counters
<1> QED
  BY <1>1, <1>2, <1>3, <1>4

LEMMA ReplyTypes ==
    ASSUME ChatAssumption, TypeInv, NEW r \in Runs,
           RejectInput(r) \/ StartReply(r) \/ ResumeReply(r) \/ LeaveLoop(r)
             \/ ReadInbox(r) \/ AckInbox(r) \/ Think(r) \/ Act(r)
    PROVE  TypeInv'
<1> USE RunTypes, Locations DEF At, Goto, IdlePCs, ThinkPCs
<1>0. /\ run[r] \in RunLocals /\ run[r].mem \in AgentState
      /\ run[r].mem.context \in Seq(UserMsgs \cup Hints)
      /\ run[r].mem.iter \in 0..MaxIters /\ run[r].mem.reply \in Nat
      /\ run[r].hints \in Seq(Hints) /\ run[r].reply \in Nat
      /\ run[r].job \in Inputs \cup {Wake}
      /\ inbox[Sess(r)] \in Seq(Hints) /\ replies \in Nat
      /\ run = [q \in Runs |-> run[q]]
  BY DEF TypeInv, TypeOK, RunLocals, AgentState
<1>1. CASE RejectInput(r)
  <2>1. /\ pc' = [pc EXCEPT ![r] = "trim"] /\ run' = [run EXCEPT ![r] = NoLocals]
        /\ cancelling' = cancelling /\ UNCHANGED <<redis, procs, clients, counters>>
    BY <1>1 DEF RejectInput, Unwind
  <2>2. LocalsSound' /\ pc' \in [Runs -> PCs] /\ run' \in [Runs -> RunLocals]
    BY <2>1, SetLocals DEF NoLocals, procs
  <2> QED
    BY <2>1, <2>2, Types, RunTypeInv DEF redis, counters
<1>2. CASE StartReply(r)
  <2> DEFINE mem == Begun(run[r].mem, run[r].job, replies + 1)
             loc == [[run[r] EXCEPT !.mem = mem] EXCEPT !.reply = replies + 1]
  <2>1. replies + 1 \in Nat /\ run[r].job \in UserMsgs \cup {Wake}
    BY <1>0, <1>2 DEF StartReply, Inputs
  <2>2. mem \in AgentState
    BY <1>0, <2>1, BegunType
  <2>3. /\ pc[r] = "input" /\ run[r].hints = <<>>
        /\ pc' = [pc EXCEPT ![r] = "loop"] /\ run' = [run EXCEPT ![r] = loc]
        /\ cancelling' = cancelling /\ disp' = disp /\ batch' = batch
    BY <1>0, <1>2 DEF StartReply, TypeInv, LocalsSound, procs
  <2> HIDE DEF mem
  <2>4. loc \in RunLocals /\ loc.hints = run[r].hints
    BY <1>0, <2>1, <2>2 DEF RunLocals
  <2> HIDE DEF loc
  <2>5. LocalsSound' /\ pc' \in [Runs -> PCs] /\ run' \in [Runs -> RunLocals]
    BY <2>3, <2>4, SetLocals
  <2> QED
    BY <1>2, <2>1, <2>3, <2>5, Types, PublishType, RunTypeInv DEF StartReply
<1>3. CASE ResumeReply(r)
  <2>1. PICK t \in {"none", "exec", "await"} : run' = [run EXCEPT ![r].mem.tools = t]
    BY <1>3 DEF ResumeReply
  <2> DEFINE mem == [run[r].mem EXCEPT !.tools = t]
             loc == [run[r] EXCEPT !.mem = mem]
  <2>2. loc \in RunLocals /\ loc.hints = run[r].hints
    <3>1. mem \in AgentState
      BY <1>0 DEF AgentState
    <3> HIDE DEF mem
    <3> QED
      BY <1>0, <3>1 DEF RunLocals
  <2>3. /\ pc[r] = "input" /\ run[r].hints = <<>>
        /\ pc' = [pc EXCEPT ![r] = "loop"] /\ run' = [run EXCEPT ![r] = loc]
        /\ cancelling' = cancelling /\ disp' = disp /\ batch' = batch
    BY <1>0, <1>3, <2>1 DEF ResumeReply, TypeInv, LocalsSound, procs
  <2> HIDE DEF loc
  <2>4. LocalsSound' /\ pc' \in [Runs -> PCs] /\ run' \in [Runs -> RunLocals]
    BY <2>2, <2>3, SetLocals
  <2> QED
    BY <1>3, <2>3, <2>4, Types, PublishType, RunTypeInv DEF ResumeReply, counters
<1>4. CASE LeaveLoop(r)
  <2>1. /\ pc[r] = "loop" /\ run[r].hints = <<>>
        /\ pc' = [pc EXCEPT ![r] = "save"] /\ run' = [run EXCEPT ![r] = run[r]]
        /\ cancelling' = cancelling /\ disp' = disp /\ batch' = batch
    BY <1>0, <1>4 DEF LeaveLoop, TypeInv, LocalsSound, procs
  <2>2. LocalsSound' /\ pc' \in [Runs -> PCs] /\ run' \in [Runs -> RunLocals]
    BY <1>0, <2>1, SetLocals
  <2> QED
    BY <1>4, <2>1, <2>2, Types, PublishType, RunTypeInv DEF LeaveLoop, counters
<1>5. CASE ReadInbox(r)
  <2> DEFINE new == First(InboxBatch, inbox[Sess(r)])
             loc == [run[r] EXCEPT !.hints = new]
             l == IF new = <<>> THEN "think" ELSE "ack"
  <2>1. new \in Seq(Hints)
    BY <1>0, FirstFacts
  <2> HIDE DEF new
  <2>2. loc \in RunLocals /\ loc.mem = run[r].mem /\ loc.hints = new
    BY <1>0, <2>1 DEF RunLocals
  <2>3. /\ pc[r] = "loop" /\ run[r].mem.iter < MaxIters
        /\ pc' = [pc EXCEPT ![r] = l] /\ run' = [run EXCEPT ![r] = loc]
        /\ cancelling' = cancelling /\ UNCHANGED <<redis, procs, clients, counters>>
    BY <1>0, <1>5 DEF ReadInbox, new
  <2> HIDE DEF loc
  <2>4. LocalsSound' /\ pc' \in [Runs -> PCs] /\ run' \in [Runs -> RunLocals]
    BY <2>2, <2>3, SetLocals DEF procs
  <2> QED
    BY <2>3, <2>4, Types, RunTypeInv DEF redis, counters
<1>6. CASE AckInbox(r)
  <2> DEFINE mem == [run[r].mem EXCEPT !.context = @ \o run[r].hints]
             loc == [run[r] EXCEPT !.mem = mem, !.hints = <<>>]
  <2>1. loc \in RunLocals /\ loc.hints = <<>> /\ loc.mem.iter = run[r].mem.iter
    <3>1. run[r].mem.context \o run[r].hints \in Seq(UserMsgs \cup Hints)
      BY <1>0
    <3>2. mem \in AgentState /\ mem.iter = run[r].mem.iter
      BY <1>0, <3>1 DEF AgentState
    <3> HIDE DEF mem
    <3>3. <<>> \in Seq(Hints)
      OBVIOUS
    <3>4. loc \in RunLocals
      BY <1>0, <3>2, <3>3 DEF RunLocals
    <3> QED
      BY <1>0, <3>2, <3>4 DEF RunLocals
  <2>2. /\ pc[r] = "ack" /\ run[r].mem.iter < MaxIters
        /\ pc' = [pc EXCEPT ![r] = "think"] /\ run' = [run EXCEPT ![r] = loc]
        /\ cancelling' = cancelling /\ disp' = disp /\ batch' = batch
    BY <1>0, <1>6 DEF AckInbox, TypeInv, LocalsSound, procs
  <2> HIDE DEF loc
  <2>3. LocalsSound' /\ pc' \in [Runs -> PCs] /\ run' \in [Runs -> RunLocals]
    BY <2>1, <2>2, SetLocals
  <2>4. Without(inbox[Sess(r)], run[r].hints) \in Seq(Hints)
    BY <1>0, WithoutFacts
  <2> QED
    BY <1>6, <2>2, <2>3, <2>4, Types, RunTypeInv DEF AckInbox, Publish, counters
<1>7. CASE Think(r)
  <2> DEFINE mem == [run[r].mem EXCEPT !.tools = "exec"]
             loc == [run[r] EXCEPT !.mem = mem]
  <2>1. loc \in RunLocals /\ loc.hints = run[r].hints /\ loc.mem.iter = run[r].mem.iter
    <3>1. mem \in AgentState /\ mem.iter = run[r].mem.iter
      BY <1>0 DEF AgentState
    <3> HIDE DEF mem
    <3> QED
      BY <1>0, <3>1 DEF RunLocals
  <2>2. /\ pc[r] = "think" /\ run[r].hints = <<>> /\ run[r].mem.iter < MaxIters
        /\ \/ pc' = [pc EXCEPT ![r] = "save"] /\ run' = [run EXCEPT ![r] = run[r]]
           \/ pc' = [pc EXCEPT ![r] = "act"] /\ run' = [run EXCEPT ![r] = loc]
        /\ cancelling' = cancelling /\ disp' = disp /\ batch' = batch
    BY <1>0, <1>7 DEF Think, TypeInv, LocalsSound, procs
  <2> HIDE DEF loc
  <2>3. LocalsSound' /\ pc' \in [Runs -> PCs] /\ run' \in [Runs -> RunLocals]
    BY <1>0, <2>1, <2>2, SetLocals, SMTT(20)
  <2> QED
    BY <1>7, <2>2, <2>3, Types, RunTypeInv, SMTT(20) DEF Think, Publish, counters
<1>8. CASE Act(r)
  <2> DEFINE mem1 == Iterated(run[r].mem)
             mem2 == [run[r].mem EXCEPT !.tools = "await"]
             loc1 == [run[r] EXCEPT !.mem = mem1]
             loc2 == [run[r] EXCEPT !.mem = mem2]
  <2>1. run[r].mem.iter < MaxIters /\ pc[r] # "ack" /\ run[r].hints = <<>>
    BY <1>0, <1>8 DEF Act, TypeInv, LocalsSound
  <2>2. loc1 \in RunLocals /\ loc2 \in RunLocals /\ loc1.hints = <<>> /\ loc2.hints = <<>>
    <3>1. run[r].mem.iter + 1 \in 0..MaxIters
      BY <1>0, <2>1
    <3>2. mem1 \in AgentState /\ mem2 \in AgentState
      BY <1>0, <3>1 DEF Iterated, AgentState
    <3> HIDE DEF mem1, mem2
    <3>3. loc1 \in RunLocals /\ loc2 \in RunLocals
      BY <1>0, <3>2, LocalTypes
    <3> QED
      BY <1>0, <2>1, <3>3 DEF RunLocals
  <2>3. /\ \/ pc' = [pc EXCEPT ![r] = "loop"] /\ run' = [run EXCEPT ![r] = loc1]
           \/ pc' = [pc EXCEPT ![r] = "save"] /\ run' = [run EXCEPT ![r] = loc2]
        /\ cancelling' \subseteq cancelling /\ disp' = disp /\ batch' = batch
    BY <1>0, <1>8 DEF Act, procs
  <2> HIDE DEF loc1, loc2
  <2>4. LocalsSound' /\ pc' \in [Runs -> PCs] /\ run' \in [Runs -> RunLocals]
    BY <2>2, <2>3, SetLocals
  <2> QED
    BY <1>8, <2>3, <2>4, Types, RunTypeInv DEF Act, Publish, counters
<1> QED
  BY <1>1, <1>2, <1>3, <1>4, <1>5, <1>6, <1>7, <1>8

LEMMA ExitTypes ==
    ASSUME ChatAssumption, TypeInv, NEW r \in Runs,
           SaveReply(r) \/ GetRecord(r) \/ SetRecord(r) \/ TrimLog(r)
             \/ ReleaseSession(r) \/ EndRun(r) \/ Cancelled(r) \/ RunFails(r)
    PROVE  TypeInv'
<1> USE RunTypes, Locations DEF At, Goto, IdlePCs, ThinkPCs
<1> DEFINE Sound == LocalsSound' /\ pc' \in [Runs -> PCs] /\ run' \in [Runs -> RunLocals]
<1>0. /\ run[r] \in RunLocals /\ run[r].mem \in AgentState /\ run[r].reply \in Nat
      /\ run[r].hints \in Seq(Hints)
      /\ lock[Sess(r)] \in Procs \cup {Free, Orphan}
      /\ run = [q \in Runs |-> run[q]]
  BY DEF TypeInv, TypeOK, RunLocals
<1>1. CASE SaveReply(r)
  <2>1. /\ pc[r] = "save" /\ run[r].hints = <<>>
        /\ pc' = [pc EXCEPT ![r] = "persist"] /\ run' = [run EXCEPT ![r] = run[r]]
        /\ cancelling' = cancelling /\ disp' = disp /\ batch' = batch
    BY <1>0, <1>1 DEF SaveReply, TypeInv, LocalsSound, procs
  <2>2. Sound
    BY <1>0, <2>1, SetLocals
  <2>3. msgs' \in [Sessions -> Seq(UserMsgs \cup Nat)]
    <3>1. CASE run[r].reply = 0
      BY <1>1, <3>1, Types DEF SaveReply
    <3>2. CASE run[r].reply # 0
      <4>1. msgs' = [msgs EXCEPT ![Sess(r)] = Upsert(@, run[r].reply)]
        BY <1>1, <3>2 DEF SaveReply
      <4> QED
        BY <1>0, <4>1, UpsertMsgs
    <3> QED
      BY <3>1, <3>2
  <2> QED
    BY <1>1, <2>1, <2>2, <2>3, Types, RunTypeInv DEF SaveReply, counters
<1>2. CASE GetRecord(r)
  <2>1. /\ pc[r] = "persist" /\ run[r].hints = <<>>
        /\ \/ pc' = [pc EXCEPT ![r] = "write"] /\ run' = [run EXCEPT ![r] = run[r]]
           \/ pc' = [pc EXCEPT ![r] = "trim"] /\ run' = [run EXCEPT ![r] = NoLocals]
        /\ cancelling' = cancelling /\ UNCHANGED <<redis, procs, clients, counters>>
    BY <1>0, <1>2 DEF GetRecord, Unwind, TypeInv, LocalsSound
  <2>2. Sound
    BY <1>0, <2>1, SetLocals DEF NoLocals, procs
  <2> QED
    BY <2>1, <2>2, Types, RunTypeInv DEF redis, counters
<1>3. CASE SetRecord(r)
  <2>1. /\ pc' = [pc EXCEPT ![r] = "trim"] /\ run' = [run EXCEPT ![r] = NoLocals]
        /\ cancelling' = cancelling /\ disp' = disp /\ batch' = batch
    BY <1>3 DEF SetRecord, Unwind, procs
  <2>2. Sound
    BY <2>1, SetLocals DEF NoLocals
  <2>3. stored' \in [Sessions -> AgentState] /\ exists' \in [Sessions -> BOOLEAN]
    BY <1>0, <1>3, Types DEF SetRecord
  <2> QED
    BY <1>3, <2>1, <2>2, <2>3, Types, RunTypeInv DEF SetRecord, counters
<1>4. CASE TrimLog(r)
  <2>1. /\ pc[r] = "trim" /\ run[r] = NoLocals
        /\ pc' = [pc EXCEPT ![r] = "release"] /\ run' = [run EXCEPT ![r] = run[r]]
        /\ cancelling' = cancelling /\ disp' = disp /\ batch' = batch
    BY <1>0, <1>4 DEF TrimLog, TypeInv, LocalsSound, procs
  <2>2. Sound
    BY <1>0, <2>1, SetLocals DEF NoLocals
  <2>3. logged' \in [Sessions -> BOOLEAN]
    BY <1>4, Types DEF TrimLog
  <2> QED
    BY <1>4, <2>1, <2>2, <2>3, Types, RunTypeInv DEF TrimLog, counters
<1>5. CASE ReleaseSession(r)
  <2>1. /\ pc[r] = "release" /\ run[r] = NoLocals
        /\ pc' = [pc EXCEPT ![r] = "ending"] /\ run' = [run EXCEPT ![r] = run[r]]
        /\ cancelling' = cancelling /\ disp' = disp /\ batch' = batch
    BY <1>0, <1>5 DEF ReleaseSession, TypeInv, LocalsSound, procs
  <2>2. Sound
    BY <1>0, <2>1, SetLocals DEF NoLocals
  <2>3. lock' \in [Sessions -> Procs \cup {Free, Orphan}]
    BY <1>0, <1>5, Types DEF ReleaseSession
  <2> QED
    BY <1>5, <2>1, <2>2, <2>3, Types, RunTypeInv DEF ReleaseSession, counters
<1>6. CASE EndRun(r)
  <2>1. /\ pc' = [pc EXCEPT ![r] = "none"] /\ run' = [run EXCEPT ![r] = NoLocals]
        /\ cancelling' = cancelling /\ UNCHANGED <<redis, procs, clients, counters>>
    BY <1>6 DEF EndRun, Finish
  <2>2. Sound
    BY <2>1, SetLocals DEF NoLocals, procs
  <2> QED
    BY <2>1, <2>2, Types, RunTypeInv DEF redis, counters
<1>7. CASE Interrupted(r) /\ faults' \in 0..MaxFaults
  <2>1. /\ \E l \in {"none", "trim", "release"} : pc' = [pc EXCEPT ![r] = l]
        /\ run' = [run EXCEPT ![r] = NoLocals]
        /\ cancelling' = cancelling \ {r} /\ disp' = disp /\ batch' = batch
    BY <1>7 DEF Interrupted, procs
  <2>2. Sound
    BY <2>1, SetLocals DEF NoLocals
  <2>3. lock' \in [Sessions -> Procs \cup {Free, Orphan}]
    <3>1. lock' = lock \/ lock' = [lock EXCEPT ![Sess(r)] = Orphan]
      BY <1>7 DEF Interrupted
    <3> QED
      BY <3>1, Types
  <2>4. logged' \in [Sessions -> BOOLEAN]
    <3>1. logged' = logged \/ logged' = [logged EXCEPT ![Sess(r)] = FALSE]
      BY <1>7 DEF Interrupted
    <3> QED
      BY <3>1, Types
  <2>5. /\ exists' = exists /\ stored' = stored /\ msgs' = msgs /\ inbox' = inbox
        /\ queue' = queue /\ UNCHANGED <<procs, clients, restarts>> /\ replies' = replies
    BY <1>7 DEF Interrupted
  <2> QED
    BY <1>7, <2>1, <2>2, <2>3, <2>4, <2>5, Types, RunTypeInv
<1>8. Cancelled(r) \/ RunFails(r) => Interrupted(r) /\ faults' \in 0..MaxFaults
  BY Types DEF Cancelled, RunFails
<1> QED
  BY <1>1, <1>2, <1>3, <1>4, <1>5, <1>6, <1>7, <1>8

(* A wake-up or a POST starts a run; the dispatcher may move on beside it. *)
LEMMA SpawnTypes ==
    ASSUME ChatAssumption, TypeInv, NEW r \in Runs, NEW x \in Inputs \cup {Wake},
           pc[r] = "none", Spawn(r, x)
    PROVE  /\ pc' \in [Runs -> PCs] /\ run' \in [Runs -> RunLocals]
           /\ \A q \in Runs :
                /\ pc'[q] \in IdlePCs => run'[q] = NoLocals
                /\ pc'[q] = "load" => run'[q].mem = NewState
                /\ pc'[q] \in ThinkPCs => run'[q].mem.iter < MaxIters
                /\ pc'[q] # "ack" => run'[q].hints = <<>>
<1> DEFINE loc == [run[r] EXCEPT !.job = x]
<1>1. run[r] = NoLocals /\ run[r] \in RunLocals
  BY DEF TypeInv, TypeOK, LocalsSound, IdlePCs
<1>2. loc \in RunLocals /\ loc.mem = NewState /\ loc.hints = <<>>
  <2>1. loc \in RunLocals
    BY <1>1 DEF RunLocals
  <2> QED
    BY <1>1, <2>1 DEF RunLocals, NoLocals
<1>3. pc' = [pc EXCEPT ![r] = "load"] /\ run' = [run EXCEPT ![r] = loc]
  BY DEF Spawn
<1> HIDE DEF loc
<1> QED
  BY <1>2, <1>3, Locations DEF TypeInv, TypeOK, LocalsSound, IdlePCs, ThinkPCs

LEMMA TailFacts ==
    ASSUME NEW T, NEW q \in Seq(T), q # <<>>
    PROVE  /\ Head(q) \in T /\ Tail(q) \in Seq(T)
           /\ Len(q) # 1 => Tail(q) # <<>>
<1>1. Len(q) \in Nat /\ Len(q) >= 1
  OBVIOUS
<1>2. Len(Tail(q)) = Len(q) - 1
  BY <1>1
<1>3. Len(q) # 1 => Tail(q) # <<>>
  BY <1>1, <1>2
<1> QED
  BY <1>1, <1>3

LEMMA NextEntryTypes ==
    ASSUME TypeInv, NEW p \in Procs, disp[p] \in {"check", "spawn"}
    PROVE  /\ Entry(p) \in Hints
           /\ NextEntry(p) =>
                /\ batch' \in [Procs -> Seq(Hints)]
                /\ disp' \in [Procs -> {"idle", "ack", "check", "spawn", "dead"}]
                /\ \A q \in Procs :
                     disp'[q] \in {"ack", "check", "spawn"} => batch'[q] # <<>>
<1>1. batch[p] \in Seq(Hints) /\ batch[p] # <<>>
  BY DEF TypeInv, TypeOK, LocalsSound
<1>2. /\ Head(batch[p]) \in Hints /\ Tail(batch[p]) \in Seq(Hints)
      /\ Len(batch[p]) # 1 => Tail(batch[p]) # <<>>
  BY <1>1, TailFacts
<1>3. ASSUME NextEntry(p)
      PROVE  /\ batch' \in [Procs -> Seq(Hints)]
             /\ disp' \in [Procs -> {"idle", "ack", "check", "spawn", "dead"}]
             /\ \A q \in Procs :
                  disp'[q] \in {"ack", "check", "spawn"} => batch'[q] # <<>>
  BY <1>2, <1>3 DEF NextEntry, TypeInv, TypeOK, LocalsSound
<1> QED
  BY <1>2, <1>3 DEF Entry

LEMMA ClientTypes ==
    ASSUME ChatAssumption, TypeInv
    PROVE  /\ \A p \in Procs, x \in Inputs : PostChat(p, x) => TypeInv'
           /\ \A h \in Hints : ProducerStep(h) \/ ProducerFails(h) => TypeInv'
<1> USE DEF TypeInv, deleting
<1>1. ASSUME NEW p \in Procs, NEW x \in Inputs, PostChat(p, x)
      PROVE  TypeInv'
  <2>1. <<p, SessionOf[x]>> \in Runs /\ x \in Inputs \cup {Wake}
    BY RunTypes
  <2>2. /\ pc[<<p, SessionOf[x]>>] = "none" /\ Spawn(<<p, SessionOf[x]>>, x)
        /\ posted' = posted \cup {x} /\ cancelling' = cancelling
        /\ UNCHANGED <<redis, procs, stage, deleting, counters>>
    BY <1>1 DEF PostChat
  <2>3. /\ pc' \in [Runs -> PCs] /\ run' \in [Runs -> RunLocals]
        /\ LocalsSound'
    BY <2>1, <2>2, SpawnTypes DEF LocalsSound, procs
  <2>4. TypeOK'
    BY <2>2, <2>3 DEF TypeOK, redis, procs, counters
  <2> QED
    BY <2>3, <2>4
<1>2. ASSUME NEW h \in Hints, PushInbox(h)
      PROVE  TypeInv'
  <2>1. LocalsSound'
    BY <1>2 DEF PushInbox, LocalsSound, procs, runs
  <2>2. SessionOf[h] \in Sessions /\ Append(inbox[SessionOf[h]], h) \in Seq(Hints)
    BY RunTypes DEF TypeOK
  <2>3. /\ inbox' \in [Sessions -> Seq(Hints)]
        /\ stage' \in [Hints -> {"new", "pushed", "queued", "sent", "failed"}]
    BY <1>2, <2>2 DEF PushInbox, TypeOK
  <2>4. TypeOK'
    BY <1>2, <2>3 DEF PushInbox, TypeOK, procs, runs, counters
  <2> QED
    BY <2>1, <2>4
<1>3. ASSUME NEW h \in Hints, EnqueueWakeup(h)
      PROVE  TypeInv'
  <2>1. LocalsSound'
    BY <1>3 DEF EnqueueWakeup, LocalsSound, procs, runs
  <2>2. /\ queue' \in Seq(Hints)
        /\ stage' \in [Hints -> {"new", "pushed", "queued", "sent", "failed"}]
    BY <1>3 DEF EnqueueWakeup, TypeOK
  <2>3. TypeOK'
    BY <1>3, <2>2 DEF EnqueueWakeup, TypeOK, procs, runs, counters
  <2> QED
    BY <2>1, <2>3
<1>4. ASSUME NEW h \in Hints, SignalWakeup(h)
      PROVE  TypeInv'
  <2>1. LocalsSound'
    BY <1>4 DEF SignalWakeup, LocalsSound, runs
  <2>2. /\ signals' \in [Procs -> Nat]
        /\ stage' \in [Hints -> {"new", "pushed", "queued", "sent", "failed"}]
    BY <1>4 DEF SignalWakeup, TypeOK
  <2>3. TypeOK'
    BY <1>4, <2>2 DEF SignalWakeup, TypeOK, redis, runs, counters
  <2> QED
    BY <2>1, <2>3
<1>5. ASSUME NEW h \in Hints, ProducerFails(h)
      PROVE  TypeInv'
  <2>1. LocalsSound'
    BY <1>5 DEF ProducerFails, LocalsSound, procs, runs
  <2>2. /\ faults' \in 0..MaxFaults
        /\ stage' \in [Hints -> {"new", "pushed", "queued", "sent", "failed"}]
    BY <1>5, RunTypes DEF ProducerFails, TypeOK
  <2>3. TypeOK'
    BY <1>5, <2>2 DEF ProducerFails, TypeOK, redis, procs, runs
  <2> QED
    BY <2>1, <2>3
<1> QED
  BY <1>1, <1>2, <1>3, <1>4, <1>5 DEF ProducerStep

(* A step of a dispatcher: the rest of the system stays as it is. *)
LEMMA DispatcherTypeInv ==
    ASSUME TypeInv,
           batch' \in [Procs -> Seq(Hints)],
           disp' \in [Procs -> {"idle", "ack", "check", "spawn", "dead"}],
           \A q \in Procs : disp'[q] \in {"ack", "check", "spawn"} => batch'[q] # <<>>,
           queue' \in Seq(Hints), signals' \in [Procs -> Nat],
           faults' \in 0..MaxFaults,
           UNCHANGED <<lock, exists, stored, msgs, logged, inbox, status, runs>>,
           UNCHANGED <<clients, replies, restarts>>
    PROVE  TypeInv'
BY DEF TypeInv, TypeOK, LocalsSound, runs, clients, deleting

LEMMA DispatchTypes ==
    ASSUME ChatAssumption, TypeInv, NEW p \in Procs,
           DispatchStep(p) \/ DispatcherFails(p)
    PROVE  TypeInv'
<1> DEFINE D == {"idle", "ack", "check", "spawn", "dead"}
<1>0. /\ queue \in Seq(Hints) /\ signals \in [Procs -> Nat] /\ faults \in 0..MaxFaults
      /\ batch \in [Procs -> Seq(Hints)] /\ disp \in [Procs -> D]
      /\ \A q \in Procs : disp[q] \in {"ack", "check", "spawn"} => batch[q] # <<>>
  BY DEF TypeInv, TypeOK, LocalsSound
<1>1. CASE ReadQueue(p)
  <2> DEFINE new == First(QueueBatch, queue)
  <2>1. new \in Seq(Hints)
    BY <1>0, RunTypes, FirstFacts
  <2>2. /\ signals[p] > 0 /\ signals' = [signals EXCEPT ![p] = @ - 1]
        /\ batch' = [batch EXCEPT ![p] = new]
        /\ disp' = [disp EXCEPT ![p] = IF new = <<>> THEN "idle" ELSE "ack"]
        /\ UNCHANGED <<redis, status, runs, clients, counters>>
    BY <1>1 DEF ReadQueue
  <2> HIDE DEF new
  <2>3. /\ batch' \in [Procs -> Seq(Hints)] /\ disp' \in [Procs -> D]
        /\ signals' \in [Procs -> Nat]
        /\ \A q \in Procs : disp'[q] \in {"ack", "check", "spawn"} => batch'[q] # <<>>
    BY <1>0, <2>1, <2>2
  <2> QED
    BY <1>0, <2>2, <2>3, DispatcherTypeInv DEF redis, counters
<1>2. CASE AckQueue(p)
  <2>1. Without(queue, batch[p]) \in Seq(Hints)
    BY <1>0, WithoutFacts
  <2>2. /\ disp[p] = "ack" /\ disp' = [disp EXCEPT ![p] = "check"] /\ batch' = batch
        /\ queue' \in Seq(Hints)
    BY <1>2, <2>1 DEF AckQueue
  <2>3. /\ disp' \in [Procs -> D]
        /\ \A q \in Procs : disp'[q] \in {"ack", "check", "spawn"} => batch'[q] # <<>>
    BY <1>0, <2>2
  <2> QED
    BY <1>0, <1>2, <2>2, <2>3, DispatcherTypeInv DEF AckQueue, counters
<1>3. CASE CheckRunning(p)
  <2>1. /\ disp[p] = "check"
        /\ \/ disp' = [disp EXCEPT ![p] = "spawn"] /\ batch' = batch
           \/ NextEntry(p)
        /\ UNCHANGED <<redis, status, signals, runs, clients, counters>>
    BY <1>3 DEF CheckRunning
  <2>2. /\ batch' \in [Procs -> Seq(Hints)] /\ disp' \in [Procs -> D]
        /\ \A q \in Procs : disp'[q] \in {"ack", "check", "spawn"} => batch'[q] # <<>>
    <3>1. CASE disp' = [disp EXCEPT ![p] = "spawn"] /\ batch' = batch
      BY <1>0, <2>1, <3>1
    <3>2. CASE NextEntry(p)
      BY <2>1, <3>2, NextEntryTypes
    <3> QED
      BY <2>1, <3>1, <3>2
  <2> QED
    BY <1>0, <2>1, <2>2, DispatcherTypeInv DEF redis, counters
<1>4. CASE SpawnWakeup(p)
  <2> DEFINE r == <<p, SessionOf[Entry(p)]>>
  <2>1. /\ disp[p] = "spawn" /\ NextEntry(p)
        /\ \/ pc[r] = "none" /\ Spawn(r, Wake)
           \/ UNCHANGED <<pc, run>>
        /\ cancelling' = cancelling
        /\ UNCHANGED <<redis, status, signals, clients, counters>>
    BY <1>4 DEF SpawnWakeup
  <2>2. /\ batch' \in [Procs -> Seq(Hints)] /\ disp' \in [Procs -> D]
        /\ \A q \in Procs : disp'[q] \in {"ack", "check", "spawn"} => batch'[q] # <<>>
        /\ Entry(p) \in Hints
    BY <2>1, NextEntryTypes
  <2>3. CASE UNCHANGED <<pc, run>>
    BY <1>0, <2>1, <2>2, <2>3, DispatcherTypeInv DEF redis, runs, counters
  <2>4. CASE pc[r] = "none" /\ Spawn(r, Wake)
    <3>1. r \in Runs
      BY <2>2, RunTypes
    <3>2. /\ pc' \in [Runs -> PCs] /\ run' \in [Runs -> RunLocals] /\ LocalsSound'
      BY <2>2, <2>4, <3>1, SpawnTypes DEF LocalsSound
    <3>3. TypeOK'
      BY <2>1, <2>2, <3>2 DEF TypeInv, TypeOK, redis, clients, deleting, counters
    <3> QED
      BY <3>2, <3>3 DEF TypeInv
  <2> QED
    BY <2>1, <2>3, <2>4
<1>5. CASE DispatcherFails(p)
  <2>1. /\ faults < MaxFaults /\ faults' = faults + 1 /\ batch' = [batch EXCEPT ![p] = <<>>]
        /\ disp' = [disp EXCEPT ![p] = IF @ = "ack" THEN "idle" ELSE "dead"]
        /\ UNCHANGED <<redis, status, signals, runs, clients, replies, restarts>>
    BY <1>5 DEF DispatcherFails
  <2>2. /\ batch' \in [Procs -> Seq(Hints)] /\ disp' \in [Procs -> D]
        /\ \A q \in Procs : disp'[q] \in {"ack", "check", "spawn"} => batch'[q] # <<>>
        /\ faults' \in 0..MaxFaults
    BY <1>0, <2>1, RunTypes
  <2> QED
    BY <1>0, <2>1, <2>2, DispatcherTypeInv DEF redis
<1> QED
  BY <1>1, <1>2, <1>3, <1>4, <1>5 DEF DispatchStep

LEMMA ProcessTypes ==
    ASSUME ChatAssumption, TypeInv, NEW p \in Procs,
           Shutdown(p) \/ Stopped(p) \/ Crash(p) \/ Restart(p)
    PROVE  TypeInv'
<1> USE DEF TypeInv, deleting
<1>1. ASSUME StopDispatchers(p)
      PROVE  /\ disp' \in [Procs -> {"idle", "ack", "check", "spawn", "dead"}]
             /\ batch' \in [Procs -> Seq(Hints)] /\ signals' \in [Procs -> Nat]
             /\ cancels' \subseteq Runs
             /\ \A q \in Procs : disp'[q] \in {"ack", "check", "spawn"} => batch'[q] # <<>>
  <2>1. <<>> \in Seq(Hints)
    OBVIOUS
  <2> QED
    BY <1>1, <2>1 DEF StopDispatchers, TypeOK, LocalsSound
<1>2. ASSUME restarts < MaxRestarts, restarts' = restarts + 1
      PROVE  restarts' \in 0..MaxRestarts
  BY <1>2, RunTypes DEF TypeOK
<1>3. ASSUME NEW l \in {"up", "stopping", "down"}, status' = [status EXCEPT ![p] = l]
      PROVE  status' \in [Procs -> {"up", "stopping", "down"}]
  BY <1>3 DEF TypeOK
<1>4. CASE Shutdown(p)
  <2>1. /\ StopDispatchers(p) /\ restarts' \in 0..MaxRestarts
        /\ status' \in [Procs -> {"up", "stopping", "down"}]
    BY <1>2, <1>3, <1>4 DEF Shutdown
  <2>2. cancelling' \subseteq Runs
    BY <1>4 DEF Shutdown, TypeOK
  <2>3. LocalsSound'
    BY <1>1, <1>4, <2>1 DEF Shutdown, LocalsSound
  <2>4. TypeOK'
    BY <1>1, <1>4, <2>1, <2>2 DEF Shutdown, TypeOK, redis
  <2> QED
    BY <2>3, <2>4
<1>5. CASE Stopped(p)
  <2>1. LocalsSound'
    BY <1>5 DEF Stopped, LocalsSound, runs
  <2>2. TypeOK'
    BY <1>3, <1>5 DEF Stopped, TypeOK, redis, runs, clients, counters
  <2> QED
    BY <2>1, <2>2
<1>6. CASE Crash(p)
  <2>1. /\ StopDispatchers(p) /\ restarts' \in 0..MaxRestarts
        /\ status' \in [Procs -> {"up", "stopping", "down"}]
    BY <1>2, <1>3, <1>6 DEF Crash
  <2>2. /\ pc' = [r \in Runs |-> IF r[1] = p THEN "none" ELSE pc[r]]
        /\ run' = [r \in Runs |-> IF r[1] = p THEN NoLocals ELSE run[r]]
    BY <1>6 DEF Crash
  <2>3. pc' \in [Runs -> PCs] /\ run' \in [Runs -> RunLocals]
    BY <2>2, RunTypes, Locations DEF TypeOK
  <2>4. LocalsSound'
    BY <1>1, <2>1, <2>2 DEF LocalsSound, NoLocals, IdlePCs, ThinkPCs
  <2>5. cancelling' \subseteq Runs /\ lock' \in [Sessions -> Procs \cup {Free, Orphan}]
    BY <1>6 DEF Crash, TypeOK
  <2>6. TypeOK'
    BY <1>1, <1>6, <2>1, <2>3, <2>5 DEF Crash, TypeOK
  <2> QED
    BY <2>4, <2>6
<1>7. CASE Restart(p)
  <2>1. LocalsSound'
    BY <1>7 DEF Restart, LocalsSound, runs
  <2>2. signals' \in [Procs -> Nat]
    BY <1>7 DEF Restart, TypeOK
  <2>3. TypeOK'
    BY <1>3, <1>7, <2>2 DEF Restart, TypeOK, redis, runs, clients, counters
  <2> QED
    BY <2>1, <2>3
<1> QED
  BY <1>4, <1>5, <1>6, <1>7

LEMMA SessionTypes ==
    ASSUME ChatAssumption, TypeInv, NEW s \in Sessions, ExpireLease(s) \/ DeleteStep(s)
    PROVE  TypeInv'
<1> USE DEF TypeInv, deleting
<1> DEFINE Steps == {"none", "cancelling", "purging", "deleted"}
<1>1. ASSUME NEW l \in Steps, deletion' = [deletion EXCEPT ![s] = l]
      PROVE  deletion' \in [Sessions -> Steps]
  BY <1>1 DEF TypeOK
<1>2. CASE ExpireLease(s)
  <2>1. LocalsSound'
    BY <1>2 DEF ExpireLease, LocalsSound, procs, runs
  <2>2. lock' \in [Sessions -> Procs \cup {Free, Orphan}]
    BY <1>2 DEF ExpireLease, TypeOK
  <2>3. TypeOK'
    BY <1>2, <2>2 DEF ExpireLease, TypeOK, procs, runs, clients, counters
  <2> QED
    BY <2>1, <2>3
<1>3. CASE PublishCancel(s)
  <2>1. LocalsSound'
    BY <1>3 DEF PublishCancel, LocalsSound, procs, runs
  <2>2. deletion' \in [Sessions -> Steps]
    BY <1>1, <1>3 DEF PublishCancel
  <2>3. cancels' \subseteq Runs
    BY <1>3, RunTypes DEF PublishCancel, TypeOK
  <2>4. TypeOK'
    BY <1>3, <2>2, <2>3 DEF PublishCancel, TypeOK, redis, procs, runs, counters
  <2> QED
    BY <2>1, <2>4
<1>4. CASE DeleteRecord(s)
  <2>1. LocalsSound'
    BY <1>4 DEF DeleteRecord, LocalsSound, procs, runs
  <2>2. deletion' \in [Sessions -> Steps] /\ overtaken' \subseteq Sessions
    BY <1>1, <1>4 DEF DeleteRecord, TypeOK
  <2>3. exists' \in [Sessions -> BOOLEAN] /\ stored' \in [Sessions -> AgentState]
    BY <1>4, RunTypes DEF DeleteRecord, TypeOK
  <2>4. TypeOK'
    BY <1>4, <2>2, <2>3 DEF DeleteRecord, TypeOK, procs, runs, counters
  <2> QED
    BY <2>1, <2>4
<1>5. CASE PurgeSession(s)
  <2>1. LocalsSound'
    BY <1>5 DEF PurgeSession, LocalsSound, procs, runs
  <2>2. deletion' \in [Sessions -> Steps] /\ logged' \in [Sessions -> BOOLEAN]
    BY <1>1, <1>5 DEF PurgeSession, TypeOK
  <2>3. /\ msgs' \in [Sessions -> Seq(UserMsgs \cup Nat)]
        /\ inbox' \in [Sessions -> Seq(Hints)]
    <3>1. <<>> \in Seq(UserMsgs \cup Nat) /\ <<>> \in Seq(Hints)
      OBVIOUS
    <3> QED
      BY <1>5, <3>1 DEF PurgeSession, TypeOK
  <2>4. TypeOK'
    BY <1>5, <2>2, <2>3 DEF PurgeSession, TypeOK, procs, runs, counters
  <2> QED
    BY <2>1, <2>4
<1> QED
  BY <1>2, <1>3, <1>4, <1>5 DEF DeleteStep

LEMMA NextTypes ==
    ASSUME ChatAssumption, TypeInv, [Next]_vars
    PROVE  TypeInv'
<1>1. ASSUME NEW r \in Runs, RunStep(r) \/ RunFails(r)
      PROVE  TypeInv'
  BY <1>1, EntryTypes, ReplyTypes, ExitTypes DEF RunStep
<1>2. ASSUME NEW r \in Runs, CancelSession(r)
      PROVE  TypeInv'
  <2>1. LocalsSound'
    BY <1>2 DEF CancelSession, TypeInv, LocalsSound, procs
  <2>2. TypeOK'
    BY <1>2 DEF CancelSession, TypeInv, TypeOK, redis, procs, counters
  <2> QED
    BY <2>1, <2>2 DEF TypeInv
<1>3. CASE UNCHANGED vars
  <2>1. LocalsSound'
    BY <1>3 DEF vars, TypeInv, LocalsSound, procs, runs
  <2>2. TypeOK'
    BY <1>3 DEF vars, TypeInv, TypeOK, redis, procs, runs, clients, deleting, counters
  <2> QED
    BY <2>1, <2>2 DEF TypeInv
<1> QED
  BY <1>1, <1>2, <1>3, ClientTypes, DispatchTypes, ProcessTypes, SessionTypes DEF Next

(* The types of all the state, the queues and contexts included: a context *)
(* holds user messages and hints only, and a reply never thinks beyond     *)
(* max_iters.                                                              *)
THEOREM TypesKept == Spec => []TypeOK
<1>1. Init => TypeInv
  BY ChatAssumption, InitTypes
<1>2. TypeInv /\ [Next]_vars => TypeInv'
  BY ChatAssumption, NextTypes
<1>3. TypeInv => TypeOK
  BY DEF TypeInv
<1> QED
  BY <1>1, <1>2, <1>3, PTL DEF Spec
=============================================================================
