--------------------------- MODULE AgentLoopProofs ---------------------------
(***************************************************************************)
(* The agent loop for any number of calls, iterations, replies and faults: *)
(* its types, that a tool is started at most once per call, that it is     *)
(* never started against the user's will, that what the user was asked can *)
(* be answered, from a second invariant that calls run in their turn and   *)
(* that the model and a later reply find what was left explained, when the *)
(* tool calls of the context keep their results, and that every step of a  *)
(* reply brings it nearer to its end.                                      *)
(***************************************************************************)
EXTENDS AgentLoop, TLAPS, SequenceTheorems, WellFoundedInduction

(* LastBlocks of any context, for the persisted one. *)
LastOf(ctx) ==
    IF ctx # <<>> /\ ctx[Len(ctx)].own THEN ctx[Len(ctx)].blocks ELSE <<>>

(* What holds of a memory, in use or persisted: an asked call is where the *)
(* confirmation finds it, a refused one is over, and no tool ran twice.    *)
Coherent(mem) ==
    \A c \in Calls :
        /\ mem.consent[c] = "asked" =>
              mem.state[c] = "asking" /\ c \in CallsIn(LastOf(mem.context))
        /\ mem.consent[c] = "refused" => mem.state[c] = "finished"
        /\ mem.runs[c] \in 0..1

(* What holds of a call between two replies and between two batches. *)
Settled(mem) ==
    \A c \in Calls : mem.runs[c] = 1 => mem.state[c] = "finished"

(* A call of the batches is in the last message and executable; its tool   *)
(* has been started only if the batch is at that.                          *)
BatchSound ==
    \A c \in Calls :
        /\ c \in todo => task[c] = "none" /\ state[c] \in {"pending", "allowed"}
        /\ task[c] = "started" =>
              runs[c] = 0 /\ state[c] \in {"pending", "allowed"}
        /\ task[c] = "running" => state[c] = "allowed"
        /\ c \in todo \/ task[c] # "none" => c \in CallsIn(LastOf(context))
        /\ runs[c] = 1 /\ task[c] = "none" => state[c] = "finished"

LoopSound ==
    /\ pc # "act" => todo = {} /\ task = NoTask
    /\ pc \in {"reason", "think", "act"} => cur_iter < MaxIters
    /\ pc = "reason" => \A c \in Calls : consent[c] # "asked"

Inv ==
    /\ TypeOK
    /\ Coherent(Snapshot) /\ Coherent(saved) /\ Settled(saved)
    /\ BatchSound /\ LoopSound

------------------------------------------------------------------------------
(* Sequences of blocks *)

LEMMA LastBlocksIsLastOf == LastBlocks = LastOf(context)
BY DEF LastBlocks, LastOf

LEMMA LastOfType ==
    ASSUME NEW ctx \in Seq(Message)
    PROVE  LastOf(ctx) \in Seq(Block) /\ CallsIn(LastOf(ctx)) \subseteq Calls
<1>1. LastOf(ctx) \in Seq(Block)
  <2>1. CASE ctx # <<>> /\ ctx[Len(ctx)].own
    <3>1. Len(ctx) \in 1..Len(ctx)
      BY <2>1, EmptySeq
    <3>2. ctx[Len(ctx)] \in Message
      BY <3>1, ElementOfSeq
    <3> QED
      BY <2>1, <3>2 DEF LastOf, Message
  <2>2. CASE ~(ctx # <<>> /\ ctx[Len(ctx)].own)
    BY <2>2, EmptySeq DEF LastOf
  <2> QED
    BY <2>1, <2>2
<1>2. ASSUME NEW i \in DOMAIN LastOf(ctx), LastOf(ctx)[i].type = "call"
      PROVE  LastOf(ctx)[i].id \in Calls
  <2>1. LastOf(ctx)[i] \in Block
    BY <1>1, LenProperties, ElementOfSeq
  <2> QED
    BY <1>2, <2>1 DEF Block
<1> QED
  BY <1>1, <1>2 DEF CallsIn

LEMMA CallsOfConcat ==
    ASSUME NEW bs \in Seq(Block), NEW cs \in Seq(Block)
    PROVE  CallsIn(bs \o cs) = CallsIn(bs) \cup CallsIn(cs)
<1>1. /\ DOMAIN bs = 1..Len(bs) /\ DOMAIN cs = 1..Len(cs)
      /\ Len(bs) \in Nat /\ Len(cs) \in Nat
      /\ DOMAIN (bs \o cs) = 1..(Len(bs) + Len(cs))
  BY LenProperties, ConcatProperties
<1>2. \A i \in 1..(Len(bs) + Len(cs)) :
        (bs \o cs)[i] = IF i <= Len(bs) THEN bs[i] ELSE cs[i - Len(bs)]
  BY ConcatProperties
<1>3. ASSUME NEW c \in CallsIn(bs) PROVE c \in CallsIn(bs \o cs)
  BY <1>1, <1>2, <1>3 DEF CallsIn
<1>4. ASSUME NEW c \in CallsIn(cs) PROVE c \in CallsIn(bs \o cs)
  <2>1. PICK i \in DOMAIN cs : cs[i].type = "call" /\ cs[i].id = c
    BY <1>4 DEF CallsIn
  <2>2. /\ Len(bs) + i \in DOMAIN (bs \o cs)
        /\ (bs \o cs)[Len(bs) + i] = cs[i]
    BY <1>1, <1>2, <2>1
  <2> QED
    BY <2>1, <2>2 DEF CallsIn
<1>5. ASSUME NEW c \in CallsIn(bs \o cs) PROVE c \in CallsIn(bs) \cup CallsIn(cs)
  <2>1. PICK i \in DOMAIN (bs \o cs) :
          (bs \o cs)[i].type = "call" /\ (bs \o cs)[i].id = c
    BY <1>5 DEF CallsIn
  <2>2. CASE i <= Len(bs)
    BY <1>1, <1>2, <2>1, <2>2 DEF CallsIn
  <2>3. CASE i > Len(bs)
    <3>1. i - Len(bs) \in DOMAIN cs /\ (bs \o cs)[i] = cs[i - Len(bs)]
      BY <1>1, <1>2, <2>1, <2>3
    <3> QED
      BY <2>1, <3>1 DEF CallsIn
  <2> QED
    BY <1>1, <2>2, <2>3
<1> QED
  BY <1>3, <1>4, <1>5

(* What is saved goes to the end of the agent's last message. *)
LEMMA SavedAtTheEnd ==
    ASSUME context \in Seq(Message), NEW bs \in Seq(Block), SaveToContext(bs)
    PROVE  /\ context' \in Seq(Message)
           /\ CallsIn(LastOf(context')) =
                CallsIn(LastOf(context)) \cup CallsIn(bs)
<1>1. CASE context # <<>> /\ context[Len(context)].own
  <2> DEFINE n == Len(context)
             last == [context[n] EXCEPT !.blocks = context[n].blocks \o bs]
  <2>1. n \in 1..Len(context) /\ context[n] \in Message
    BY <1>1, EmptySeq, LenProperties, ElementOfSeq
  <2>2. context[n].blocks \o bs \in Seq(Block)
    BY <2>1, ConcatProperties DEF Message
  <2>3. last \in Message
    BY <2>1, <2>2 DEF Message
  <2>4. context' = [context EXCEPT ![n] = last]
    BY <1>1, <2>1 DEF SaveToContext, Message
  <2>5. context' \in Seq(Message) /\ Len(context') = n /\ context'[n] = last
    <3> HIDE DEF last
    <3> QED
      BY <2>1, <2>3, <2>4, ExceptSeq
  <2>6. context' # <<>>
    BY <2>1, <2>5, EmptySeq
  <2>7. LastOf(context') = LastOf(context) \o bs
    BY <1>1, <2>1, <2>3, <2>5, <2>6 DEF LastOf, Message
  <2>8. LastOf(context) \in Seq(Block)
    BY LastOfType
  <2> QED
    BY <2>5, <2>7, <2>8, CallsOfConcat
<1>2. CASE ~(context # <<>> /\ context[Len(context)].own)
  <2> DEFINE msg == [own |-> TRUE, blocks |-> bs]
  <2>1. context' = Append(context, msg) /\ msg \in Message
    BY <1>2 DEF SaveToContext, Message
  <2>2. /\ context' \in Seq(Message) /\ context' # <<>>
        /\ context'[Len(context')] = msg
    BY <2>1, AppendProperties
  <2>3. LastOf(context') = bs /\ LastOf(context) = <<>>
    BY <1>2, <2>2 DEF LastOf
  <2>4. CallsIn(<<>>) = {}
    BY DEF CallsIn
  <2> QED
    BY <2>2, <2>3, <2>4
<1> QED
  BY <1>1, <1>2

(* The blocks that answer or propose a sequence of calls. *)
LEMMA BlocksOf ==
    ASSUME NEW S, NEW s \in Seq(S), NEW bs, DOMAIN bs = DOMAIN s,
           bs = [i \in DOMAIN s |-> bs[i]],
           \A i \in DOMAIN s : bs[i] \in Block
    PROVE  bs \in Seq(Block)
<1>1. Len(s) \in Nat /\ DOMAIN s = 1..Len(s)
  BY LenProperties
<1>2. bs \in [1..Len(s) -> Block]
  BY <1>1
<1> QED
  BY <1>1, <1>2, SeqDef

LEMMA OrdersType ==
    ASSUME NEW S, NEW s \in Orders(S)
    PROVE  s \in Seq(S) /\ Range(s) \subseteq S /\ DOMAIN s = 1..Len(s)
<1>1. PICK n \in 0..Cardinality(S) : s \in [1..n -> S]
  BY DEF Orders
<1>2. s \in Seq(S)
  BY <1>1, SeqDef
<1> QED
  BY <1>1, <1>2, LenProperties DEF Range

LEMMA BoundedType ==
    ASSUME NEW S, NEW n \in Nat, NEW s \in BoundedSeq(S, n)
    PROVE  s \in Seq(S) /\ Range(s) \subseteq S /\ DOMAIN s = 1..Len(s)
<1>1. PICK k \in 0..n : s \in [1..k -> S]
  BY DEF BoundedSeq, SeqOf
<1>2. s \in Seq(S)
  BY <1>1, SeqDef
<1> QED
  BY <1>1, <1>2, LenProperties DEF Range

------------------------------------------------------------------------------
(* Compression *)

(* A nonempty set of positions has a last one. *)
LEMMA LastPosition ==
    ASSUME NEW n \in Nat, NEW S \in SUBSET (1..n), S # {}
    PROVE  \E i \in S : \A j \in S : j <= i
<1> DEFINE T == {n - i : i \in S}
<1>1. T \subseteq Nat /\ T # {}
  <2>1. \A i \in S : n - i \in Nat
    OBVIOUS
  <2> QED
    BY <2>1
<1>2. PICK x \in T : \A y \in T : ~ (<<y, x>> \in OpToRel(<, Nat))
  BY <1>1, NatLessThanWellFounded, WFMin
<1>3. \A y \in T : ~ (y < x)
  BY <1>1, <1>2 DEF OpToRel
<1>4. PICK i \in S : x = n - i
  OBVIOUS
<1>5. ASSUME NEW j \in S PROVE j <= i
  <2>1. n - j \in T
    OBVIOUS
  <2>2. ~ (n - j < n - i)
    BY <1>3, <1>4, <2>1
  <2> QED
    BY <2>2
<1> QED
  BY <1>5

(* What is reserved of a message is its end. *)
LEMMA ReservedIsSuffix ==
    ASSUME NEW bs \in Seq(Block), NEW k \in Nat, k <= Len(bs)
    PROVE  \E a \in 1..(Len(bs) + 1) : Reserved(bs, k) = SubSeq(bs, a, Len(bs))
<1> DEFINE first == Len(bs) - k + 1
           orphans == Orphans(bs, first)
           last == IF orphans = {} THEN first - 1
                   ELSE CHOOSE i \in orphans : \A j \in orphans : j <= i
<1>1. Len(bs) \in Nat /\ first \in 1..(Len(bs) + 1)
  BY LenProperties
<1>2. orphans \subseteq 1..Len(bs)
  BY <1>1 DEF Orphans
<1>3. last \in 0..Len(bs)
  <2>1. CASE orphans = {}
    BY <1>1, <2>1
  <2>2. CASE orphans # {}
    <3>1. \E i \in orphans : \A j \in orphans : j <= i
      BY <1>1, <1>2, <2>2, LastPosition
    <3> QED
      BY <1>1, <1>2, <2>2, <3>1
  <2> QED
    BY <2>1, <2>2
<1>4. Reserved(bs, k) = SubSeq(bs, last + 1, Len(bs))
  BY DEF Reserved
<1>5. last + 1 \in 1..(Len(bs) + 1)
  BY <1>1, <1>3
<1> QED
  BY <1>4, <1>5

LEMMA ReservedType ==
    ASSUME NEW bs \in Seq(Block), NEW k \in Nat, k <= Len(bs)
    PROVE  Reserved(bs, k) \in Seq(Block)
<1>1. PICK a \in 1..(Len(bs) + 1) : Reserved(bs, k) = SubSeq(bs, a, Len(bs))
  BY ReservedIsSuffix
<1>2. Len(bs) \in Nat /\ \A i \in a..Len(bs) : bs[i] \in Block
  BY LenProperties, ElementOfSeq
<1> QED
  BY <1>1, <1>2, SubSeqProperties

LEMMA RestOfMessages ==
    ASSUME NEW ctx \in Seq(Message), NEW m \in 1..Len(ctx)
    PROVE  LET rest == SubSeq(ctx, m + 1, Len(ctx)) IN
           /\ rest \in Seq(Message)
           /\ Len(rest) = Len(ctx) - m
           /\ \A i \in 1..(Len(ctx) - m) : rest[i] = ctx[m + i]
<1> DEFINE a == m + 1
           b == Len(ctx)
<1>1. b \in Nat /\ m \in Nat /\ m <= b
  BY LenProperties
<1>2. \A i \in a..b : ctx[i] \in Message
  BY <1>1, ElementOfSeq
<1>3. a \in Int /\ b \in Int /\ a = m + 1
  BY <1>1
<1> HIDE DEF a, b
<1>4. /\ SubSeq(ctx, a, b) \in Seq(Message)
      /\ Len(SubSeq(ctx, a, b)) = IF a <= b THEN b - a + 1 ELSE 0
      /\ \A i \in 1..(b - a + 1) : SubSeq(ctx, a, b)[i] = ctx[a + i - 1]
  BY <1>2, <1>3, SubSeqProperties
<1>5. Len(SubSeq(ctx, a, b)) = b - m
  BY <1>1, <1>3, <1>4
<1>6. ASSUME NEW i \in 1..(b - m)
      PROVE  SubSeq(ctx, a, b)[i] = ctx[m + i]
  <2>1. i \in 1..(b - a + 1) /\ a + i - 1 = m + i
    BY <1>1, <1>3
  <2> QED
    BY <1>4, <2>1
<1> QED
  BY <1>4, <1>5, <1>6 DEF a, b

LEMMA CompressType ==
    ASSUME AgentAssumption, context \in Seq(Message),
           NEW m \in DOMAIN context, NEW k \in Reserves, Compress(m, k)
    PROVE  context' \in Seq(Message)
<1> DEFINE kept == Reserved(context[m].blocks, k)
           rest == SubSeq(context, m + 1, Len(context))
           msg == [context[m] EXCEPT !.blocks = kept]
<1>1. m \in 1..Len(context) /\ Len(context) \in Nat /\ context[m] \in Message
  BY LenProperties, ElementOfSeq
<1>2. rest \in Seq(Message)
  BY <1>1, RestOfMessages
<1>3. kept \in Seq(Block)
  <2>1. k \in Nat /\ k <= Len(context[m].blocks)
    BY DEF AgentAssumption, Compress
  <2>2. context[m].blocks \in Seq(Block)
    BY <1>1 DEF Message
  <2> QED
    BY <2>1, <2>2, ReservedType
<1>4. msg \in Message
  <2> HIDE DEF kept
  <2> QED
    BY <1>1, <1>3 DEF Message
<1>5. context' = IF kept = <<>> THEN rest ELSE <<msg>> \o rest
  BY DEF Compress
<1>6. <<msg>> \in Seq(Message)
  <2> HIDE DEF msg
  <2> QED
    BY <1>4
<1>7. <<msg>> \o rest \in Seq(Message)
  <2> HIDE DEF msg, rest
  <2> QED
    BY <1>2, <1>6, ConcatProperties
<1> QED
  BY <1>2, <1>5, <1>7

------------------------------------------------------------------------------
(* The inductive invariant *)

LEMMA InitInv ==
    ASSUME AgentAssumption, Init PROVE Inv
<1> USE DEF Init
<1>1. context \in Seq(Message)
  BY EmptySeq
<1>2. 0 \in 0..MaxIters /\ 0 \in 0..MaxTurns /\ 0 \in 0..MaxFaults
  BY DEF AgentAssumption
<1>3. /\ state \in [Calls -> ToolCallState]
      /\ consent \in [Calls -> Consent]
      /\ runs \in [Calls -> Nat]
  BY DEF ToolCallState, Consent
<1>4. saved \in Memory
  BY <1>1, <1>2, <1>3 DEF Snapshot, Memory
<1>5. TypeOK
  BY <1>1, <1>2, <1>3, <1>4 DEF TypeOK, NoTask
<1>6. Coherent(Snapshot) /\ Coherent(saved) /\ Settled(saved)
  BY DEF Coherent, Settled, Snapshot
<1>7. BatchSound /\ LoopSound
  BY DEF BatchSound, LoopSound, NoTask
<1> QED
  BY <1>5, <1>6, <1>7 DEF Inv

(* What a reply had done is gone, and the persisted memory is coherent. *)
LEMMA LoseInv ==
    ASSUME Inv, Lose, turns' \in 0..MaxTurns, faults' \in 0..MaxFaults
    PROVE  Inv'
<1>1. TypeOK'
  BY DEF Inv, TypeOK, Memory, Lose, NoTask
<1>2. Coherent(Snapshot)' /\ Coherent(saved)' /\ Settled(saved)'
  BY DEF Inv, Lose, Coherent, Settled, Snapshot
<1>3. BatchSound' /\ LoopSound'
  BY DEF Inv, Lose, BatchSound, LoopSound, NoTask, Settled
<1> QED
  BY <1>1, <1>2, <1>3 DEF Inv

(* A reply that returns persists a coherent memory. *)
LEMMA ReturnInv ==
    ASSUME TypeOK', Coherent(Snapshot)', Settled(Snapshot)',
           pc' = "idle", todo' = {}, task' = NoTask, saved' = Snapshot'
    PROVE  Inv'
<1>1. Coherent(saved)' /\ Settled(saved)'
  BY DEF Coherent, Settled
<1>2. BatchSound' /\ LoopSound'
  BY DEF BatchSound, LoopSound, NoTask, Settled, Snapshot
<1> QED
  BY <1>1, <1>2 DEF Inv

(* With no batch under way a tool that was started has ended. *)
LEMMA NoBatchSettled ==
    ASSUME Inv, task = NoTask PROVE Settled(Snapshot)
BY DEF Inv, BatchSound, NoTask, Settled, Snapshot

(* Inputs arrive when no reply runs. *)

LEMMA StartReplyInv ==
    ASSUME AgentAssumption, Inv, StartReply PROVE Inv'
<1>1. UserMsg \in Message
  <2>1. Text \in Block
    BY DEF Text, Block
  <2> QED
    BY <2>1 DEF UserMsg, Message
<1>2. context' \in Seq(Message)
  <2>1. Append(context, UserMsg) \in Seq(Message)
    BY <1>1, AppendProperties DEF Inv, TypeOK
  <2> QED
    BY <2>1 DEF StartReply, Inv, TypeOK
<1>3. \A c \in Calls : consent[c] # "asked"
  <2>1. \A c \in Calls : consent[c] = "asked" => c \in Asking
    BY LastBlocksIsLastOf DEF Inv, Coherent, Snapshot, Asking
  <2> QED
    BY <2>1 DEF StartReply
<1>4. TypeOK'
  <2>1. 0 \in 0..MaxIters /\ turns' \in 0..MaxTurns
    BY DEF AgentAssumption, StartReply, Inv, TypeOK
  <2> QED
    BY <1>2, <2>1 DEF StartReply, Inv, TypeOK
<1>5. Coherent(Snapshot)'
  BY <1>3 DEF StartReply, Inv, Coherent, Snapshot
<1>6. Coherent(saved)' /\ Settled(saved)'
  BY DEF StartReply, Inv, Coherent, Settled
<1>7. todo = {} /\ task = NoTask
  BY DEF StartReply, Inv, LoopSound
<1>8. BatchSound' /\ LoopSound'
  BY <1>7 DEF StartReply, Inv, BatchSound, LoopSound, NoTask
<1> QED
  BY <1>4, <1>5, <1>6, <1>8 DEF Inv

LEMMA ConfirmInv ==
    ASSUME Inv, NEW yes \in SUBSET Asking, NEW denied \in Orders(Asking),
           ConfirmCalls(yes, denied)
    PROVE  Inv'
<1> DEFINE bs == [i \in DOMAIN denied |-> Result(denied[i])]
<1>1. /\ denied \in Seq(Asking) /\ Range(denied) \subseteq Asking
      /\ DOMAIN denied = 1..Len(denied)
  BY OrdersType
<1>2. Asking \subseteq Calls
  BY LastBlocksIsLastOf, LastOfType DEF Inv, TypeOK, Asking
<1>3. \A c \in Asking : state[c] = "asking"
  BY DEF Asking
<1>4. bs \in Seq(Block)
  <2>1. \A i \in DOMAIN denied : Result(denied[i]) \in Block
    BY <1>1, <1>2, ElementOfSeq DEF Result, Block
  <2> QED
    BY <1>1, <2>1, BlocksOf
<1>5. /\ context' \in Seq(Message)
      /\ CallsIn(LastOf(context)) \subseteq CallsIn(LastOf(context'))
  <2>1. SaveToContext(bs)
    BY DEF ConfirmCalls
  <2> QED
    BY <1>4, <2>1, SavedAtTheEnd DEF Inv, TypeOK
<1> DEFINE no == Range(denied)
<1>6. /\ pc = "idle" /\ pc' = "next"
      /\ UNCHANGED <<cur_iter, runs, todo, task, broke, saved, turns, faults>>
      /\ todo = {} /\ task = NoTask
  BY DEF ConfirmCalls, Inv, LoopSound
<1>7. \A c \in Calls :
        /\ state'[c] = IF c \in yes THEN "allowed"
                       ELSE IF c \in no THEN "finished" ELSE state[c]
        /\ c \in yes => consent'[c] \in {"granted", "late"}
        /\ c \in no \ yes => consent'[c] = "refused"
        /\ c \notin yes \cup no => consent'[c] = consent[c]
  BY DEF ConfirmCalls
<1>8. /\ state' \in [Calls -> ToolCallState]
      /\ consent' \in [Calls -> Consent]
  BY DEF ConfirmCalls, Inv, TypeOK, ToolCallState, Consent
<1>9. TypeOK'
  BY <1>5, <1>6, <1>8 DEF Inv, TypeOK
<1>10. Coherent(Snapshot)'
  BY <1>1, <1>2, <1>3, <1>5, <1>6, <1>7 DEF Inv, Coherent, Snapshot
<1>11. Coherent(saved)' /\ Settled(saved)'
  BY <1>6 DEF Inv, Coherent, Settled
<1>12. Settled(Snapshot)'
  BY <1>1, <1>2, <1>3, <1>6, <1>7, NoBatchSettled DEF Settled, Snapshot
<1>13. BatchSound' /\ LoopSound'
  BY <1>6, <1>12 DEF BatchSound, LoopSound, NoTask, Settled, Snapshot
<1> QED
  BY <1>9, <1>10, <1>11, <1>13 DEF Inv

LEMMA ExternalInv ==
    ASSUME Inv, NEW s \in BoundedSeq(Submitted, MaxResults), ExternalResults(s)
    PROVE  Inv'
<1> DEFINE bs == [i \in DOMAIN s |-> Result(s[i])]
<1>1. /\ s \in Seq(Submitted) /\ Range(s) \subseteq Submitted
      /\ DOMAIN s = 1..Len(s)
  BY BoundedType, AgentAssumption DEF AgentAssumption
<1>2. Submitted \subseteq Calls
  BY LastBlocksIsLastOf, LastOfType DEF Inv, TypeOK, Submitted, Unfinished
<1>3. \A c \in Submitted : state[c] = "submitted"
  BY DEF Submitted
<1>4. bs \in Seq(Block)
  <2>1. \A i \in DOMAIN s : Result(s[i]) \in Block
    BY <1>1, <1>2, ElementOfSeq DEF Result, Block
  <2> QED
    BY <1>1, <2>1, BlocksOf
<1>5. /\ context' \in Seq(Message)
      /\ CallsIn(LastOf(context)) \subseteq CallsIn(LastOf(context'))
  <2>1. SaveToContext(bs)
    BY DEF ExternalResults
  <2> QED
    BY <1>4, <2>1, SavedAtTheEnd DEF Inv, TypeOK
<1>6. /\ pc = "idle" /\ pc' = "next"
      /\ UNCHANGED <<cur_iter, consent, runs, todo, task, broke>>
      /\ UNCHANGED <<saved, turns, faults>>
      /\ todo = {} /\ task = NoTask
  BY DEF ExternalResults, Inv, LoopSound
<1>7. \A c \in Calls :
        state'[c] = IF c \in Range(s) THEN "finished" ELSE state[c]
  BY DEF ExternalResults
<1>8. state' \in [Calls -> ToolCallState]
  BY DEF ExternalResults, Inv, TypeOK, ToolCallState
<1>9. TypeOK'
  BY <1>5, <1>6, <1>8 DEF Inv, TypeOK
<1>10. Coherent(Snapshot)'
  BY <1>1, <1>2, <1>3, <1>5, <1>6, <1>7 DEF Inv, Coherent, Snapshot
<1>11. Coherent(saved)' /\ Settled(saved)'
  BY <1>6 DEF Inv, Coherent, Settled
<1>12. Settled(Snapshot)'
  BY <1>6, <1>7, NoBatchSettled DEF Settled, Snapshot
<1>13. BatchSound' /\ LoopSound'
  BY <1>6, <1>12 DEF BatchSound, LoopSound, NoTask, Settled, Snapshot
<1> QED
  BY <1>9, <1>10, <1>11, <1>13 DEF Inv

(* The steps of the loop between two batches. *)

LEMMA LoopInv ==
    ASSUME AgentAssumption, Inv,
           \/ ExceedMaxIters \/ Wait \/ GoReason \/ GoAct \/ SkipCompression
           \/ NextIteration
    PROVE  Inv'
<1>1. CASE ExceedMaxIters \/ Wait
  <2>1. /\ pc = "next" /\ pc' = "idle" /\ saved' = Snapshot
        /\ UNCHANGED <<memory, todo, task, broke, turns, faults>>
    BY <1>1 DEF ExceedMaxIters, Wait, Return
  <2>2. Snapshot' = Snapshot /\ todo = {} /\ task = NoTask
    BY <2>1 DEF memory, Snapshot, Inv, LoopSound
  <2>3. Snapshot \in Memory
    BY DEF Inv, TypeOK, Snapshot, Memory
  <2>4. TypeOK'
    BY <2>1, <2>3 DEF memory, Inv, TypeOK
  <2>5. Coherent(Snapshot)' /\ Settled(Snapshot)'
    BY <2>1, <2>2, NoBatchSettled DEF memory, Inv, Coherent, Settled, Snapshot
  <2> QED
    BY <2>1, <2>2, <2>4, <2>5, ReturnInv
<1>2. CASE GoReason
  <2>1. \A c \in Calls : consent[c] # "asked"
    BY <1>2, LastBlocksIsLastOf
       DEF GoReason, Inv, Coherent, Snapshot, Asking
  <2>2. TypeOK' /\ Coherent(Snapshot)' /\ Coherent(saved)' /\ Settled(saved)'
    BY <1>2 DEF GoReason, memory, Inv, TypeOK, Coherent, Settled, Snapshot
  <2>3. BatchSound' /\ LoopSound'
    BY <1>2, <2>1 DEF GoReason, memory, Inv, BatchSound, LoopSound, NoTask
  <2> QED
    BY <2>2, <2>3 DEF Inv
<1>3. CASE GoAct
  <2>1. /\ Executable \subseteq Calls
        /\ \A c \in Executable : /\ state[c] \in {"pending", "allowed"}
                                  /\ c \in CallsIn(LastOf(context))
    BY LastBlocksIsLastOf, LastOfType
       DEF Inv, TypeOK, Executable, Unfinished
  <2>2. TypeOK' /\ Coherent(Snapshot)' /\ Coherent(saved)' /\ Settled(saved)'
    BY <1>3, <2>1 DEF GoAct, memory, Inv, TypeOK, Coherent, Settled, Snapshot
  <2>3. task = NoTask /\ task' = task /\ todo' = Executable
    BY <1>3 DEF GoAct, Inv, LoopSound
  <2>4. BatchSound'
    BY <1>3, <2>1, <2>3 DEF GoAct, memory, Inv, BatchSound, NoTask
  <2>5. LoopSound'
    BY <1>3 DEF GoAct, memory, Inv, LoopSound
  <2> QED
    BY <2>2, <2>4, <2>5 DEF Inv
<1>4. CASE SkipCompression
  <2>1. TypeOK' /\ Coherent(Snapshot)' /\ Coherent(saved)' /\ Settled(saved)'
    BY <1>4 DEF SkipCompression, memory, Inv, TypeOK, Coherent, Settled, Snapshot
  <2>2. BatchSound' /\ LoopSound'
    BY <1>4 DEF SkipCompression, memory, Inv, BatchSound, LoopSound, NoTask
  <2> QED
    BY <2>1, <2>2 DEF Inv
<1>5. CASE NextIteration
  <2>1. task = NoTask
    BY <1>5 DEF NextIteration, BatchOver, Failed, Over, Inv, TypeOK, NoTask
  <2>2. TypeOK'
    BY <1>5 DEF AgentAssumption, NextIteration, Inv, TypeOK, LoopSound
  <2>3. Coherent(Snapshot)' /\ Coherent(saved)' /\ Settled(saved)'
    BY <1>5 DEF NextIteration, Inv, Coherent, Settled, Snapshot
  <2>4. BatchSound' /\ LoopSound'
    BY <1>5, <2>1 DEF NextIteration, Inv, BatchSound, LoopSound, NoTask
  <2> QED
    BY <2>2, <2>3, <2>4 DEF Inv
<1> QED
  BY <1>1, <1>2, <1>3, <1>4, <1>5

LEMMA StopInv ==
    ASSUME Inv, StopForOutside PROVE Inv'
<1>1. task = NoTask
  BY DEF StopForOutside, BatchOver, Failed, Over, Inv, TypeOK, NoTask
<1>2. Snapshot' = Snapshot /\ Snapshot \in Memory
  BY DEF StopForOutside, memory, Snapshot, Inv, TypeOK, Memory
<1>3. TypeOK'
  BY <1>2 DEF StopForOutside, Return, memory, Inv, TypeOK
<1>4. Coherent(Snapshot)' /\ Settled(Snapshot)'
  BY <1>1, NoBatchSettled
     DEF StopForOutside, memory, Inv, Coherent, Settled, Snapshot
<1>5. pc' = "idle" /\ todo' = {} /\ task' = NoTask /\ saved' = Snapshot'
  BY <1>1, <1>2 DEF StopForOutside, Return
<1> QED
  BY <1>3, <1>4, <1>5, ReturnInv

LEMMA CompressInv ==
    ASSUME AgentAssumption, Inv,
           NEW m \in DOMAIN context, NEW k \in Reserves, Compress(m, k)
    PROVE  Inv'
<1>1. context' \in Seq(Message)
  BY CompressType DEF Inv, TypeOK
<1>2. /\ pc = "reason" /\ pc' = "think"
      /\ UNCHANGED <<state, cur_iter, consent, runs, todo, task, broke>>
      /\ UNCHANGED <<saved, turns, faults>>
  BY DEF Compress
<1>3. TypeOK'
  BY <1>1, <1>2 DEF Inv, TypeOK
<1>4. Coherent(Snapshot)' /\ Coherent(saved)' /\ Settled(saved)'
  BY <1>2 DEF Inv, LoopSound, Coherent, Settled, Snapshot
<1>5. BatchSound' /\ LoopSound'
  BY <1>2 DEF Inv, BatchSound, LoopSound, NoTask
<1> QED
  BY <1>3, <1>4, <1>5 DEF Inv

LEMMA AnswerInv ==
    ASSUME Inv, Answer PROVE Inv'
<1>1. <<Text>> \in Seq(Block)
  BY DEF Text, Block
<1>2. /\ context' \in Seq(Message)
      /\ CallsIn(LastOf(context)) \subseteq CallsIn(LastOf(context'))
  BY <1>1, SavedAtTheEnd DEF Answer, Inv, TypeOK
<1>3. /\ pc = "think" /\ pc' = "idle"
      /\ UNCHANGED <<state, cur_iter, consent, runs, todo, task, broke>>
      /\ UNCHANGED <<turns, faults>>
      /\ todo = {} /\ task = NoTask
  BY DEF Answer, Return, Inv, LoopSound
<1>4. saved' = Snapshot'
  BY <1>3 DEF Answer, Return, Snapshot
<1>5. Snapshot' \in Memory
  BY <1>2, <1>3 DEF Inv, TypeOK, Snapshot, Memory
<1>6. TypeOK'
  BY <1>2, <1>3, <1>4, <1>5 DEF Inv, TypeOK
<1>7. Coherent(Snapshot)' /\ Settled(Snapshot)'
  BY <1>2, <1>3, NoBatchSettled DEF Inv, Coherent, Settled, Snapshot
<1> QED
  BY <1>3, <1>4, <1>6, <1>7, ReturnInv

LEMMA ProposeInv ==
    ASSUME Inv, NEW s \in Orders(Calls), Propose(s) PROVE Inv'
<1> DEFINE bs == [i \in DOMAIN s |-> Call(s[i])]
<1>1. /\ s \in Seq(Calls) /\ Range(s) \subseteq Calls
      /\ DOMAIN s = 1..Len(s)
  BY OrdersType
<1>2. bs \in Seq(Block)
  <2>1. \A i \in DOMAIN s : Call(s[i]) \in Block
    BY <1>1, ElementOfSeq DEF Call, Block
  <2> QED
    BY <1>1, <2>1, BlocksOf
<1>3. SaveToContext(bs)
  BY DEF Propose
<1>4. /\ context' \in Seq(Message)
      /\ CallsIn(LastOf(context')) = CallsIn(LastOf(context)) \cup CallsIn(bs)
  BY <1>2, <1>3, SavedAtTheEnd DEF Inv, TypeOK
<1>5. Range(s) \subseteq CallsIn(bs)
  <2>1. \A i \in DOMAIN s : bs[i].type = "call" /\ bs[i].id = s[i]
    BY DEF Call
  <2> QED
    BY <2>1 DEF Range, CallsIn
<1>6. /\ pc = "think" /\ pc' = "act" /\ todo' = Range(s)
      /\ UNCHANGED <<cur_iter, consent, runs, task, broke, saved, turns, faults>>
      /\ todo = {} /\ task = NoTask
  BY DEF Propose, Inv, LoopSound
<1>7. /\ \A c \in Calls :
           state'[c] = IF c \in Range(s) THEN "pending" ELSE state[c]
      /\ \A c \in Range(s) : state[c] = "none"
      /\ state' \in [Calls -> ToolCallState]
  BY DEF Propose, Range, Inv, TypeOK, ToolCallState
<1>8. TypeOK'
  BY <1>1, <1>4, <1>6, <1>7 DEF Inv, TypeOK
<1>9. Coherent(Snapshot)' /\ Coherent(saved)' /\ Settled(saved)'
  BY <1>4, <1>6, <1>7 DEF Inv, Coherent, Settled, Snapshot
<1>10. Settled(Snapshot)
  BY <1>6, NoBatchSettled
<1>11. BatchSound'
  BY <1>1, <1>4, <1>5, <1>6, <1>7, <1>10
     DEF BatchSound, NoTask, Settled, Snapshot
<1>12. LoopSound'
  BY <1>6 DEF Inv, LoopSound
<1> QED
  BY <1>8, <1>9, <1>11, <1>12 DEF Inv

(* The steps of a batch and of its calls. *)

LEMMA StartBatchInv ==
    ASSUME Inv, StartBatch PROVE Inv'
<1>1. task = NoTask
  BY DEF StartBatch, BatchOver, Failed, Over, Inv, TypeOK, NoTask
<1>2. Group \subseteq todo /\ todo \subseteq Calls
  BY DEF Group, Inv, TypeOK
<1>3. /\ pc = "act" /\ pc' = pc /\ todo' = todo \ Group
      /\ task' = [c \in Calls |-> IF c \in Group THEN "started" ELSE "none"]
      /\ UNCHANGED <<context, state, cur_iter, consent, runs>>
      /\ UNCHANGED <<broke, saved, turns, faults>>
  BY DEF StartBatch, memory
<1>4. TypeOK'
  BY <1>2, <1>3 DEF Inv, TypeOK
<1>5. Coherent(Snapshot)' /\ Coherent(saved)' /\ Settled(saved)'
  BY <1>3 DEF Inv, Coherent, Settled, Snapshot
<1>6. \A c \in todo : runs[c] = 0
  BY <1>1, <1>2 DEF Inv, BatchSound, Coherent, Snapshot
<1>7. BatchSound'
  BY <1>1, <1>2, <1>3, <1>6 DEF Inv, BatchSound, NoTask
<1>8. LoopSound'
  BY <1>3 DEF Inv, LoopSound
<1> QED
  BY <1>4, <1>5, <1>7, <1>8 DEF Inv

(* A call that is over is answered where it stands, and forgotten by its   *)
(* batch; "refused" is what a denial writes down.                          *)
LEMMA AnswerCallInv ==
    ASSUME Inv, NEW c \in Calls, task[c] \in {"started", "running"},
           AnswerCall(c),
           consent' \in {consent, [consent EXCEPT ![c] = "refused"]},
           UNCHANGED <<cur_iter, runs, pc, todo, broke, saved, turns, faults>>
    PROVE  Inv'
<1>1. <<Result(c)>> \in Seq(Block)
  BY DEF Result, Block
<1>2. /\ context' \in Seq(Message)
      /\ CallsIn(LastOf(context)) \subseteq CallsIn(LastOf(context'))
  BY <1>1, SavedAtTheEnd DEF AnswerCall, Inv, TypeOK
<1>3. c \in CallsIn(LastOf(context)) /\ c \notin todo
  BY DEF Inv, BatchSound
<1>4. /\ state' = [state EXCEPT ![c] = "finished"]
      /\ task' = [task EXCEPT ![c] = "none"]
  BY <1>3, LastBlocksIsLastOf DEF AnswerCall, SetState, Done
<1>5. TypeOK'
  BY <1>2, <1>4 DEF Inv, TypeOK, ToolCallState, Consent
<1>6. state[c] \in {"pending", "allowed"}
  BY DEF Inv, BatchSound
<1>7. Coherent(Snapshot)'
  BY <1>2, <1>4, <1>6 DEF Inv, TypeOK, Coherent, Snapshot
<1>8. Coherent(saved)' /\ Settled(saved)'
  BY DEF Inv, Coherent, Settled
<1>9. BatchSound'
  BY <1>2, <1>3, <1>4 DEF Inv, TypeOK, BatchSound
<1>10. pc = "act"
  BY DEF Inv, LoopSound, NoTask
<1>11. LoopSound'
  BY <1>10 DEF Inv, LoopSound
<1> QED
  BY <1>5, <1>7, <1>8, <1>9, <1>11 DEF Inv

LEMMA HandOutInv ==
    ASSUME Inv, NEW c \in Calls, AskUser(c) \/ SubmitCall(c)
    PROVE  Inv'
<1>1. /\ c \in CallsIn(LastOf(context)) /\ c \notin todo
      /\ runs[c] = 0 /\ state[c] \in {"pending", "allowed"}
      /\ consent[c] \notin {"asked", "refused"}
  BY DEF AskUser, SubmitCall, Inv, BatchSound, Coherent, Snapshot
<1>2. PICK st \in {"asking", "submitted"} :
        /\ state' = [state EXCEPT ![c] = st]
        /\ IF st = "asking" THEN consent' = [consent EXCEPT ![c] = "asked"]
           ELSE consent' = consent
  <2>1. CASE AskUser(c)
    BY <1>1, <2>1, LastBlocksIsLastOf DEF AskUser, SetState
  <2>2. CASE SubmitCall(c)
    BY <1>1, <2>2, LastBlocksIsLastOf DEF SubmitCall, SetState
  <2> QED
    BY <2>1, <2>2
<1>3. /\ task' = [task EXCEPT ![c] = "none"] /\ broke' = TRUE
      /\ UNCHANGED <<context, cur_iter, runs, pc, todo, saved, turns, faults>>
  BY DEF AskUser, SubmitCall, Done
<1>4. TypeOK'
  BY <1>2, <1>3 DEF Inv, TypeOK, ToolCallState, Consent
<1>5. Coherent(Snapshot)'
  BY <1>1, <1>2, <1>3 DEF Inv, TypeOK, Coherent, Snapshot
<1>6. Coherent(saved)' /\ Settled(saved)'
  BY <1>3 DEF Inv, Coherent, Settled
<1>7. BatchSound'
  BY <1>1, <1>2, <1>3 DEF Inv, TypeOK, BatchSound
<1>8. pc = "act"
  BY DEF AskUser, SubmitCall, Inv, LoopSound, NoTask
<1>9. LoopSound'
  BY <1>3, <1>8 DEF Inv, LoopSound
<1> QED
  BY <1>4, <1>5, <1>6, <1>7, <1>9 DEF Inv

LEMMA RunToolInv ==
    ASSUME Inv, NEW c \in Calls, RunTool(c) PROVE Inv'
<1>1. /\ c \in CallsIn(LastOf(context)) /\ c \notin todo
      /\ runs[c] = 0 /\ state[c] \in {"pending", "allowed"}
      /\ consent[c] \notin {"asked", "refused"}
  BY DEF RunTool, Inv, BatchSound, Coherent, Snapshot
<1>2. /\ state' = [state EXCEPT ![c] = "allowed"]
      /\ task' = [task EXCEPT ![c] = "running"]
      /\ runs' = [runs EXCEPT ![c] = 1]
      /\ UNCHANGED <<context, cur_iter, consent, pc, todo, broke>>
      /\ UNCHANGED <<saved, turns, faults>>
  BY <1>1, LastBlocksIsLastOf DEF RunTool, SetState
<1>3. TypeOK'
  BY <1>2 DEF Inv, TypeOK, ToolCallState
<1>4. Coherent(Snapshot)'
  BY <1>1, <1>2 DEF Inv, TypeOK, Coherent, Snapshot
<1>5. Coherent(saved)' /\ Settled(saved)'
  BY <1>2 DEF Inv, Coherent, Settled
<1>6. BatchSound'
  BY <1>1, <1>2 DEF Inv, TypeOK, BatchSound
<1>7. pc = "act"
  BY DEF RunTool, Inv, LoopSound, NoTask
<1>8. LoopSound'
  BY <1>2, <1>7 DEF Inv, LoopSound
<1> QED
  BY <1>3, <1>4, <1>5, <1>6, <1>8 DEF Inv

LEMMA CallRaisesInv ==
    ASSUME AgentAssumption, Inv, NEW c \in Calls, CallRaises(c) PROVE Inv'
<1>1. /\ task' = [task EXCEPT ![c] = "failed"]
      /\ UNCHANGED <<context, state, cur_iter, consent, runs>>
      /\ UNCHANGED <<pc, todo, broke, saved, turns>>
  BY DEF CallRaises, memory
<1>2. TypeOK'
  <2>1. faults' \in 0..MaxFaults
    BY DEF AgentAssumption, CallRaises, Inv, TypeOK
  <2> QED
    BY <1>1, <2>1 DEF Inv, TypeOK
<1>3. Coherent(Snapshot)' /\ Coherent(saved)' /\ Settled(saved)'
  BY <1>1 DEF Inv, Coherent, Settled, Snapshot
<1>4. c \notin todo /\ c \in CallsIn(LastOf(context))
  BY DEF CallRaises, Inv, BatchSound
<1>5. BatchSound'
  BY <1>1, <1>4 DEF Inv, TypeOK, BatchSound
<1>6. pc = "act"
  BY DEF CallRaises, Inv, LoopSound, NoTask
<1>7. LoopSound'
  BY <1>1, <1>6 DEF Inv, LoopSound
<1> QED
  BY <1>2, <1>3, <1>5, <1>7 DEF Inv

LEMMA StutterInv ==
    ASSUME Inv, UNCHANGED vars PROVE Inv'
BY DEF Inv, TypeOK, Coherent, Settled, BatchSound, LoopSound, Snapshot,
       vars, memory, loop

LEMMA NextInv ==
    ASSUME AgentAssumption, Inv, [Next]_vars PROVE Inv'
<1>1. CASE Input
  BY <1>1, StartReplyInv, ConfirmInv, ExternalInv DEF Input
<1>2. CASE LoopStep
  <2>1. CASE BatchRaises
    <3>1. turns' \in 0..MaxTurns /\ faults' \in 0..MaxFaults
      BY <2>1 DEF BatchRaises, Inv, TypeOK
    <3> QED
      BY <2>1, <3>1, LoseInv DEF BatchRaises
  <2>2. ASSUME NEW c \in Calls, CallStep(c) PROVE Inv'
    <3>1. CASE RejectCall(c)
      BY <3>1, AnswerCallInv DEF RejectCall
    <3>2. CASE DenyCall(c)
      BY <3>2, AnswerCallInv DEF DenyCall
    <3>3. CASE ToolReturns(c)
      BY <3>3, AnswerCallInv DEF ToolReturns
    <3> QED
      BY <2>2, <3>1, <3>2, <3>3, HandOutInv, RunToolInv DEF CallStep
  <2>3. ASSUME NEW m \in DOMAIN context, NEW k \in Reserves, Compress(m, k)
        PROVE  Inv'
    BY <2>3, CompressInv
  <2>4. ASSUME NEW s \in Orders(Calls), Propose(s) PROVE Inv'
    BY <2>4, ProposeInv
  <2> QED
    BY <1>2, <2>1, <2>2, <2>3, <2>4, LoopInv, StopInv, AnswerInv, StartBatchInv
       DEF LoopStep
<1>3. CASE ReplyRaises
  <2>1. turns' \in 0..MaxTurns /\ faults' \in 0..MaxFaults
    BY <1>3 DEF ReplyRaises, Inv, TypeOK
  <2> QED
    BY <1>3, <2>1, LoseInv DEF ReplyRaises
<1>4. ASSUME NEW c \in Calls, CallRaises(c) PROVE Inv'
  BY <1>4, CallRaisesInv
<1>5. CASE UNCHANGED vars
  BY <1>5, StutterInv
<1> QED
  BY <1>1, <1>2, <1>3, <1>4, <1>5 DEF Next

THEOREM Invariance == Spec => []Inv
<1>1. Init => Inv
  BY InitInv, AgentAssumption
<1>2. Inv /\ [Next]_vars => Inv'
  BY NextInv, AgentAssumption
<1> QED
  BY <1>1, <1>2, PTL DEF Spec

------------------------------------------------------------------------------
(* Theorems *)

(* Every value the loop and the session record hold has its type; the      *)
(* iterations of a reply never exceed react_config.max_iters.              *)
THEOREM TypeCorrect == Spec => []TypeOK
<1>1. Inv => TypeOK
  BY DEF Inv
<1> QED
  BY <1>1, Invariance, PTL

(* _execute_tool_call starts the tool of a call at most once, whatever the *)
(* user confirms, however calls of a batch interleave and wherever a reply *)
(* is cut short.                                                           *)
THEOREM ToolsRunOnce == Spec => []RunOnce
<1>1. Inv => RunOnce
  BY DEF Inv, Coherent, Snapshot, RunOnce
<1> QED
  BY <1>1, Invariance, PTL

(* _check_incoming_event keeps every message away while the user is asked, *)
(* so that a confirmation finds its call in the last message.              *)
THEOREM QuestionsStay == Spec => []AskedCanBeAnswered
<1>1. Inv => AskedCanBeAnswered
  BY LastBlocksIsLastOf
     DEF Inv, Coherent, Snapshot, AskedCanBeAnswered, Asking
<1> QED
  BY <1>1, Invariance, PTL

(* What a step of a reply that goes on changes of a call's runs and of its *)
(* hand-out: only RunTool and SubmitCall do, of an executable call.        *)
LEMMA OnlyByEngine ==
    ASSUME Inv, Next, pc' = "act", NEW c \in Calls,
           \/ runs'[c] > runs[c]
           \/ state[c] # "submitted" /\ state'[c] = "submitted"
    PROVE  RunTool(c) \/ SubmitCall(c)
<1> USE DEF Inv, TypeOK
<1>1. ~Input
  BY DEF Input, StartReply, ConfirmCalls, ExternalResults
<1>2. ~Lose
  BY DEF Lose
<1>3. ~(ReplyRaises \/ BatchRaises)
  BY <1>2 DEF ReplyRaises, BatchRaises
<1>4. ASSUME NEW d \in Calls, CallRaises(d) PROVE FALSE
  BY <1>4 DEF CallRaises, memory
<1>5. ~(ExceedMaxIters \/ Wait \/ GoReason \/ SkipCompression \/ NextIteration
        \/ StopForOutside \/ Answer)
  BY DEF ExceedMaxIters, Wait, GoReason, SkipCompression, NextIteration,
         StopForOutside, Answer, Return
<1>6. ~(GoAct \/ StartBatch)
  BY DEF GoAct, StartBatch, memory
<1>7. ASSUME NEW m \in DOMAIN context, NEW k \in Reserves, Compress(m, k)
      PROVE  FALSE
  BY <1>7 DEF Compress
<1>8. ASSUME NEW s \in Orders(Calls), Propose(s) PROVE FALSE
  BY <1>8 DEF Propose
<1>9. PICK d \in Calls : CallStep(d)
  BY <1>1, <1>3, <1>4, <1>5, <1>6, <1>7, <1>8 DEF Next, LoopStep
<1>10. ASSUME RejectCall(d) \/ DenyCall(d) \/ ToolReturns(d) PROVE FALSE
  BY <1>10 DEF RejectCall, DenyCall, ToolReturns, AnswerCall, SetState
<1>11. ASSUME AskUser(d) PROVE FALSE
  BY <1>11 DEF AskUser, SetState
<1>12. CASE RunTool(d)
  <2>1. c = d
    BY <1>12 DEF RunTool, SetState
  <2> QED
    BY <1>12, <2>1
<1>13. CASE SubmitCall(d)
  <2>1. c = d
    BY <1>13 DEF SubmitCall, SetState
  <2> QED
    BY <1>13, <2>1
<1> QED
  BY <1>9, <1>10, <1>11, <1>12, <1>13 DEF CallStep

(* _execute_tool_call goes past the permission check only for a call that  *)
(* the engine allowed without asking or that the user confirmed.           *)
THEOREM ConsentRespected == Spec => ConsentGate
<1>1. ASSUME Inv, [Next]_vars, pc' = "act", NEW c \in Calls,
             \/ runs'[c] > runs[c]
             \/ state[c] # "submitted" /\ state'[c] = "submitted"
      PROVE  consent[c] \in {"none", "granted", "late"}
  <2>1. CASE UNCHANGED vars
    BY <1>1, <2>1 DEF vars, memory, Inv, TypeOK
  <2>2. CASE Next
    <3>1. task[c] = "started"
      BY <1>1, <2>2, OnlyByEngine DEF RunTool, SubmitCall
    <3>2. consent[c] \notin {"asked", "refused"}
      BY <1>1, <3>1 DEF Inv, BatchSound, Coherent, Snapshot
    <3> QED
      BY <1>1, <3>2 DEF Inv, TypeOK, Consent
  <2> QED
    BY <1>1, <2>1, <2>2
<1>2. Inv /\ [Next]_vars =>
        [pc' = "act" =>
         \A c \in Calls :
            \/ runs'[c] > runs[c]
            \/ state[c] # "submitted" /\ state'[c] = "submitted"
            => consent[c] \in {"none", "granted", "late"}]_vars
  BY <1>1
<1> QED
  BY <1>2, Invariance, PTL DEF Spec, ConsentGate

------------------------------------------------------------------------------
(* The life of a call *)

(* Some calls move along a documented transition. *)
LEMMA AdvanceStep ==
    ASSUME state' \in [Calls -> ToolCallState],
           saved' = saved \/ saved'.state = state',
           \A c \in Calls : state'[c] = state[c]
                           \/ state'[c] \in Life!Successors(state[c])
    PROVE  Life!Advance
BY DEF Life!Advance, Life!States, ToolCallState

LEMMA InputAdvances ==
    ASSUME Inv, Inv', Input PROVE Life!Advance
<1>0. /\ state \in [Calls -> ToolCallState] /\ state' \in [Calls -> ToolCallState]
      /\ context \in Seq(Message)
  BY DEF Inv, TypeOK
<1>1. CASE StartReply
  <2>1. state' = state /\ saved' = saved
    BY <1>1 DEF StartReply
  <2> QED
    BY <1>0, <2>1, AdvanceStep
<1>2. ASSUME NEW yes \in SUBSET Asking, NEW denied \in Orders(Asking),
             ConfirmCalls(yes, denied)
      PROVE  Life!Advance
  <2>1. Range(denied) \subseteq Asking
    BY DEF Orders, Range
  <2>2. \A c \in Asking : c \in Calls /\ state[c] = "asking"
    BY <1>0, LastBlocksIsLastOf, LastOfType DEF Asking
  <2> DEFINE S == yes \cup Range(denied)
  <2>3. S \in SUBSET Calls /\ \A c \in S : state[c] = "asking"
    BY <2>1, <2>2
  <2>4. /\ \A c \in Calls \ S : state'[c] = state[c]
        /\ \A c \in S : state'[c] \in {"allowed", "finished"}
        /\ saved' = saved
    BY <1>2, <2>3 DEF ConfirmCalls
  <2>5. \A c \in S : state'[c] \in Life!Successors(state[c])
    BY <2>3, <2>4 DEF Life!Successors
  <2> QED
    BY <1>0, <2>3, <2>4, <2>5, AdvanceStep
<1>3. ASSUME NEW s \in BoundedSeq(Submitted, MaxResults), ExternalResults(s)
      PROVE  Life!Advance
  <2>1. Range(s) \subseteq Submitted
    BY BoundedType, AgentAssumption DEF AgentAssumption
  <2>2. \A c \in Submitted : c \in Calls /\ state[c] = "submitted"
    BY <1>0, LastBlocksIsLastOf, LastOfType DEF Submitted, Unfinished
  <2>3. /\ \A c \in Calls \ Range(s) : state'[c] = state[c]
        /\ \A c \in Range(s) : state'[c] = "finished"
        /\ saved' = saved
    BY <1>3, <2>1, <2>2 DEF ExternalResults
  <2>4. \A c \in Range(s) : state'[c] \in Life!Successors(state[c])
    BY <2>1, <2>2, <2>3 DEF Life!Successors
  <2> QED
    BY <1>0, <2>1, <2>2, <2>3, <2>4, AdvanceStep
<1> QED
  BY <1>1, <1>2, <1>3 DEF Input

LEMMA CallAdvances ==
    ASSUME Inv, Inv', NEW c \in Calls, CallStep(c) PROVE Life!Advance
<1>0. /\ state \in [Calls -> ToolCallState] /\ state' \in [Calls -> ToolCallState]
  BY DEF Inv, TypeOK
<1>1. saved' = saved
  BY DEF CallStep, RejectCall, AskUser, DenyCall, SubmitCall, RunTool, ToolReturns
<1>2. \A d \in Calls \ {c} : state'[d] = state[d]
  BY <1>0 DEF CallStep, RejectCall, AskUser, DenyCall, SubmitCall, RunTool,
              ToolReturns, AnswerCall, SetState
<1>3. state'[c] = state[c] \/ state'[c] \in Life!Successors(state[c])
  <2>1. CASE task[c] = "started"
    <3>1. state[c] \in {"pending", "allowed"}
      BY <2>1 DEF Inv, BatchSound
    <3>2. \/ state'[c] \in {state[c], "allowed", "submitted", "finished"}
          \/ state'[c] = "asking" /\ state[c] # "allowed"
      BY <1>0, <2>1
         DEF CallStep, RejectCall, AskUser, DenyCall, SubmitCall, RunTool,
             ToolReturns, AnswerCall, SetState
    <3> QED
      BY <3>1, <3>2 DEF Life!Successors
  <2>2. CASE task[c] # "started"
    <3>1. ToolReturns(c)
      BY <2>2 DEF CallStep, RejectCall, AskUser, DenyCall, SubmitCall, RunTool
    <3>2. state[c] = "allowed"
      BY <3>1 DEF ToolReturns, Inv, BatchSound
    <3>3. state'[c] \in {state[c], "finished"}
      BY <1>0, <3>1 DEF ToolReturns, AnswerCall, SetState
    <3> QED
      BY <3>2, <3>3 DEF Life!Successors
  <2> QED
    BY <2>1, <2>2
<1> QED
  BY <1>0, <1>1, <1>2, <1>3, AdvanceStep

LEMMA LoopAdvances ==
    ASSUME Inv, Inv', LoopStep PROVE Life!Advance \/ Life!RollBack
<1>0. /\ state \in [Calls -> ToolCallState] /\ state' \in [Calls -> ToolCallState]
  BY DEF Inv, TypeOK
<1>1. CASE \/ ExceedMaxIters \/ Wait \/ GoReason \/ GoAct \/ SkipCompression
           \/ StartBatch \/ StopForOutside \/ NextIteration \/ Answer
  <2>1. state' = state
    BY <1>1 DEF ExceedMaxIters, Wait, GoReason, GoAct, SkipCompression,
                StartBatch, StopForOutside, NextIteration, Answer, memory
  <2>2. saved' = saved \/ saved'.state = state
    BY <1>1 DEF ExceedMaxIters, Wait, GoReason, GoAct, SkipCompression,
                StartBatch, StopForOutside, NextIteration, Answer, Return,
                Snapshot
  <2> QED
    BY <1>0, <2>1, <2>2, AdvanceStep
<1>2. ASSUME NEW m \in DOMAIN context, NEW k \in Reserves, Compress(m, k)
      PROVE  Life!Advance
  <2>1. state' = state /\ saved' = saved
    BY <1>2 DEF Compress
  <2> QED
    BY <1>0, <2>1, AdvanceStep
<1>3. ASSUME NEW s \in Orders(Calls), Propose(s) PROVE Life!Advance
  <2>1. Range(s) \in SUBSET Calls /\ \A c \in Range(s) : state[c] = "none"
    BY <1>3 DEF Propose, Orders, Range
  <2>2. /\ \A c \in Calls \ Range(s) : state'[c] = state[c]
        /\ \A c \in Range(s) : state'[c] = "pending"
        /\ saved' = saved
    BY <1>0, <1>3, <2>1 DEF Propose
  <2>3. \A c \in Range(s) : state'[c] \in Life!Successors(state[c])
    BY <2>1, <2>2 DEF Life!Successors
  <2> QED
    BY <1>0, <2>1, <2>2, <2>3, AdvanceStep
<1>4. CASE BatchRaises
  BY <1>4 DEF BatchRaises, Lose, Life!RollBack
<1> QED
  BY <1>1, <1>2, <1>3, <1>4, CallAdvances DEF LoopStep

(* Agent.reply leads its tool calls only along the transitions documented  *)
(* at ToolCallBlock.state, and a reply that fails undoes all of its own.   *)
THEOREM LifeFollowed == Spec => FollowsLife
<1>1. Init => Life!Init
  BY DEF Init, Life!Init, Snapshot
<1>2. ASSUME Inv, Inv', [Next]_vars PROVE [Life!Next]_(Life!vars)
  <2>1. CASE Input
    BY <1>2, <2>1, InputAdvances DEF Life!Next
  <2>2. CASE LoopStep
    BY <1>2, <2>2, LoopAdvances DEF Life!Next
  <2>3. CASE ReplyRaises
    BY <2>3 DEF ReplyRaises, Lose, Life!RollBack, Life!Next
  <2>4. ASSUME NEW c \in Calls, CallRaises(c) PROVE UNCHANGED Life!vars
    BY <2>4 DEF CallRaises, memory, Life!vars
  <2>5. CASE UNCHANGED vars
    BY <2>5 DEF vars, memory, Life!vars
  <2> QED
    BY <1>2, <2>1, <2>2, <2>3, <2>4, <2>5 DEF Next
<1> QED
  BY <1>1, <1>2, Invariance, PTL DEF Spec, FollowsLife, Life!Spec

(* Over all replies, failing ones included: once the session record holds  *)
(* a call as finished, no later reply opens it again.                      *)
THEOREM NeverReopened == Spec => Life!FinishedForGood
<1> DEFINE Kept == \A c \in Calls :
                     saved.state[c] = "finished" => state[c] = "finished"
<1>1. Life!Init => Kept
  BY DEF Life!Init
<1>2. Kept /\ [Life!Next]_(Life!vars) => Kept'
  BY DEF Life!Next, Life!Advance, Life!RollBack, Life!Successors, Life!vars
<1>3. ASSUME Kept, [Life!Next]_(Life!vars), NEW c \in Calls,
             saved.state[c] = "finished"
      PROVE  saved'.state[c] = "finished" /\ state'[c] = "finished"
  <2>1. state[c] = "finished"
    BY <1>3
  <2>2. CASE Life!Advance
    <3>1. state'[c] = "finished"
      BY <2>1, <2>2 DEF Life!Advance, Life!Successors
    <3> QED
      BY <1>3, <2>2, <3>1 DEF Life!Advance
  <2>3. CASE Life!RollBack \/ UNCHANGED Life!vars
    BY <1>3, <2>1, <2>3 DEF Life!RollBack, Life!vars
  <2> QED
    BY <1>3, <2>2, <2>3 DEF Life!Next
<1>4. Kept /\ [Life!Next]_(Life!vars) => [Life!StaysFinished]_(Life!vars)
  BY <1>3 DEF Life!StaysFinished
<1> QED
  BY <1>1, <1>2, <1>4, LifeFollowed, PTL
     DEF FollowsLife, Life!Spec, Life!FinishedForGood

------------------------------------------------------------------------------
(* A second invariant, on top of the first *)

(***************************************************************************)
(* What a reply leaves behind, in the memory in use and in the persisted   *)
(* one.  Ready and Waiting: the calls of the last message that could run   *)
(* and those that the outside is to answer.                                *)
(***************************************************************************)
Ready(mem) ==
    {c \in CallsIn(LastOf(mem.context)) : mem.state[c] \in {"pending", "allowed"}}
Waiting(mem) ==
    {c \in CallsIn(LastOf(mem.context)) : mem.state[c] \in {"asking", "submitted"}}

IsLast(ctx, m) == m = Len(ctx) /\ ctx[m].own
Unanswered(bs) == CallsIn(bs) \ ResultsIn(bs)

CallsFirst(bs) ==
    \A i, j \in DOMAIN bs :
        bs[i].type = "call" /\ bs[j].type = "result" /\ bs[i].id = bs[j].id => i < j

(* The states of the calls of the last message tell which have a result.   *)
Accounted(mem) ==
    LET last == LastOf(mem.context) IN
    /\ \A c \in ResultsIn(last) : mem.state[c] = "finished"
    /\ \A c \in CallsIn(last) :
          /\ mem.state[c] # "none"
          /\ mem.state[c] = "finished" => c \in ResultsIn(last)

(* A call was confirmed when no iteration was left: no step asks again.    *)
Late(mem, c) ==
    mem.consent[c] = "late" /\ mem.state[c] \in {"allowed", "submitted", "finished"}

(* What earlier messages leave unanswered was confirmed too late.          *)
EarlierAnswered(mem) ==
    \A m \in DOMAIN mem.context :
        /\ CallsFirst(mem.context[m].blocks)
        /\ \/ IsLast(mem.context, m)
           \/ \A c \in Unanswered(mem.context[m].blocks) : Late(mem, c)

UsedUp(mem) ==
    mem.cur_iter = MaxIters => \A c \in Ready(mem) : Late(mem, c)

Tidy(mem) == Accounted(mem) /\ EarlierAnswered(mem) /\ UsedUp(mem)

(* NothingForgotten, of a memory. *)
AtRest(mem) == Ready(mem) # {} => Waiting(mem) # {} \/ mem.cur_iter = MaxIters

(* Every call that could run is in a batch, and one that is not            *)
(* concurrency-safe runs alone and in its turn.                            *)
BatchesOrdered ==
    /\ pc = "act" => \A c \in Ready(Snapshot) : c \in todo \/ task[c] # "none"
    /\ \A c \in Calls \ Safe : task[c] \in {"started", "running"} =>
          /\ \A d \in Calls \ {c} : task[d] = "none"
          /\ \A d \in Ready(Snapshot) \ {c} : ~ Before(d, c)

TidyInv ==
    /\ Tidy(Snapshot) /\ Tidy(saved) /\ AtRest(saved)
    /\ pc = "idle" => AtRest(Snapshot)
    /\ pc \in {"reason", "think"} => Ready(Snapshot) = {} /\ Waiting(Snapshot) = {}
    /\ broke => pc = "act" /\ Waiting(Snapshot) # {}
    /\ BatchesOrdered

------------------------------------------------------------------------------
(* Blocks and messages *)

LEMMA ResultsOfConcat ==
    ASSUME NEW bs \in Seq(Block), NEW cs \in Seq(Block)
    PROVE  ResultsIn(bs \o cs) = ResultsIn(bs) \cup ResultsIn(cs)
<1>1. /\ DOMAIN bs = 1..Len(bs) /\ DOMAIN cs = 1..Len(cs)
      /\ Len(bs) \in Nat /\ Len(cs) \in Nat
      /\ DOMAIN (bs \o cs) = 1..(Len(bs) + Len(cs))
  BY LenProperties, ConcatProperties
<1>2. \A i \in 1..(Len(bs) + Len(cs)) :
        (bs \o cs)[i] = IF i <= Len(bs) THEN bs[i] ELSE cs[i - Len(bs)]
  BY ConcatProperties
<1>3. ASSUME NEW c \in ResultsIn(bs) PROVE c \in ResultsIn(bs \o cs)
  BY <1>1, <1>2, <1>3 DEF ResultsIn
<1>4. ASSUME NEW c \in ResultsIn(cs) PROVE c \in ResultsIn(bs \o cs)
  <2>1. PICK i \in DOMAIN cs : cs[i].type = "result" /\ cs[i].id = c
    BY <1>4 DEF ResultsIn
  <2>2. /\ Len(bs) + i \in DOMAIN (bs \o cs)
        /\ (bs \o cs)[Len(bs) + i] = cs[i]
    BY <1>1, <1>2, <2>1
  <2> QED
    BY <2>1, <2>2 DEF ResultsIn
<1>5. ASSUME NEW c \in ResultsIn(bs \o cs)
      PROVE  c \in ResultsIn(bs) \cup ResultsIn(cs)
  <2>1. PICK i \in DOMAIN (bs \o cs) :
          (bs \o cs)[i].type = "result" /\ (bs \o cs)[i].id = c
    BY <1>5 DEF ResultsIn
  <2>2. CASE i <= Len(bs)
    BY <1>1, <1>2, <2>1, <2>2 DEF ResultsIn
  <2>3. CASE i > Len(bs)
    <3>1. i - Len(bs) \in DOMAIN cs /\ (bs \o cs)[i] = cs[i - Len(bs)]
      BY <1>1, <1>2, <2>1, <2>3
    <3> QED
      BY <2>1, <3>1 DEF ResultsIn
  <2> QED
    BY <1>1, <2>2, <2>3
<1> QED
  BY <1>3, <1>4, <1>5

(* What is appended keeps calls before their results, if no call of it is  *)
(* answered already.                                                       *)
LEMMA CallsFirstConcat ==
    ASSUME NEW bs \in Seq(Block), NEW cs \in Seq(Block),
           CallsFirst(bs), CallsFirst(cs),
           CallsIn(cs) \cap ResultsIn(bs) = {}
    PROVE  CallsFirst(bs \o cs)
<1>1. /\ DOMAIN bs = 1..Len(bs) /\ DOMAIN cs = 1..Len(cs)
      /\ Len(bs) \in Nat /\ Len(cs) \in Nat
      /\ DOMAIN (bs \o cs) = 1..(Len(bs) + Len(cs))
  BY LenProperties, ConcatProperties
<1>2. \A i \in 1..(Len(bs) + Len(cs)) :
        (bs \o cs)[i] = IF i <= Len(bs) THEN bs[i] ELSE cs[i - Len(bs)]
  BY ConcatProperties
<1>3. SUFFICES ASSUME NEW i \in DOMAIN (bs \o cs), NEW j \in DOMAIN (bs \o cs),
                      (bs \o cs)[i].type = "call",
                      (bs \o cs)[j].type = "result",
                      (bs \o cs)[i].id = (bs \o cs)[j].id
               PROVE  i < j
  BY DEF CallsFirst
<1>4. CASE i <= Len(bs) /\ j <= Len(bs)
  <2>1. /\ i \in DOMAIN bs /\ j \in DOMAIN bs
        /\ (bs \o cs)[i] = bs[i] /\ (bs \o cs)[j] = bs[j]
    BY <1>1, <1>2, <1>4
  <2> QED
    BY <1>3, <2>1 DEF CallsFirst
<1>5. CASE i > Len(bs) /\ j > Len(bs)
  <2>1. /\ i - Len(bs) \in DOMAIN cs /\ j - Len(bs) \in DOMAIN cs
        /\ (bs \o cs)[i] = cs[i - Len(bs)] /\ (bs \o cs)[j] = cs[j - Len(bs)]
    BY <1>1, <1>2, <1>5
  <2>2. i - Len(bs) < j - Len(bs)
    BY <1>3, <2>1 DEF CallsFirst
  <2> QED
    BY <1>1, <2>2
<1>6. CASE i > Len(bs) /\ j <= Len(bs)
  <2>1. /\ i - Len(bs) \in DOMAIN cs /\ j \in DOMAIN bs
        /\ (bs \o cs)[i] = cs[i - Len(bs)] /\ (bs \o cs)[j] = bs[j]
    BY <1>1, <1>2, <1>6
  <2>2. cs[i - Len(bs)].id \in CallsIn(cs) /\ bs[j].id \in ResultsIn(bs)
    BY <1>3, <2>1 DEF CallsIn, ResultsIn
  <2> QED
    BY <1>3, <2>1, <2>2
<1> QED
  BY <1>1, <1>4, <1>5, <1>6

(* The end of a message whose calls come before their results is such a    *)
(* message too, and leaves nothing new unanswered.                         *)
Shrunk(kept, bs) ==
    /\ CallsIn(kept) \subseteq CallsIn(bs)
    /\ ResultsIn(kept) \subseteq ResultsIn(bs)
    /\ Unanswered(kept) \subseteq Unanswered(bs)
    /\ CallsFirst(kept)

LEMMA SuffixOfBlocks ==
    ASSUME NEW bs \in Seq(Block), CallsFirst(bs),
           NEW a \in 1..(Len(bs) + 1), NEW kept,
           kept = SubSeq(bs, a, Len(bs))
    PROVE  kept \in Seq(Block) /\ Shrunk(kept, bs)
<1>1. DOMAIN bs = 1..Len(bs) /\ Len(bs) \in Nat
  BY LenProperties
<1>2. \A i \in a..Len(bs) : bs[i] \in Block
  BY <1>1, ElementOfSeq
<1>3. /\ kept \in Seq(Block)
      /\ Len(kept) = Len(bs) - a + 1
      /\ \A i \in 1..(Len(bs) - a + 1) : kept[i] = bs[a + i - 1]
  BY <1>1, <1>2, SubSeqProperties
<1>4. DOMAIN kept = 1..(Len(bs) - a + 1)
  BY <1>3, LenProperties
<1>5. ASSUME NEW i \in DOMAIN kept
      PROVE  a + i - 1 \in DOMAIN bs /\ kept[i] = bs[a + i - 1]
  BY <1>1, <1>3, <1>4
<1>6. ASSUME NEW i \in DOMAIN bs, i >= a
      PROVE  i - a + 1 \in DOMAIN kept /\ kept[i - a + 1] = bs[i]
  <2>1. i - a + 1 \in 1..(Len(bs) - a + 1) /\ a + (i - a + 1) - 1 = i
    BY <1>1, <1>6
  <2> QED
    BY <1>3, <1>4, <2>1
<1>7. CallsIn(kept) \subseteq CallsIn(bs)
  BY <1>5 DEF CallsIn
<1>8. ResultsIn(kept) \subseteq ResultsIn(bs)
  BY <1>5 DEF ResultsIn
<1>9. ASSUME NEW c \in CallsIn(kept), c \in ResultsIn(bs)
      PROVE  c \in ResultsIn(kept)
  <2>1. PICK i \in DOMAIN kept : kept[i].type = "call" /\ kept[i].id = c
    BY DEF CallsIn
  <2>2. PICK j \in DOMAIN bs : bs[j].type = "result" /\ bs[j].id = c
    BY <1>9 DEF ResultsIn
  <2>3. a + i - 1 < j
    BY <1>5, <2>1, <2>2 DEF CallsFirst
  <2>4. j >= a
    BY <1>1, <1>4, <2>1, <2>2, <2>3
  <2>5. j - a + 1 \in DOMAIN kept /\ kept[j - a + 1] = bs[j]
    BY <1>6, <2>2, <2>4
  <2> QED
    BY <2>2, <2>5 DEF ResultsIn
<1>10. CallsFirst(kept)
  <2>1. SUFFICES ASSUME NEW i \in DOMAIN kept, NEW j \in DOMAIN kept,
                        kept[i].type = "call", kept[j].type = "result",
                        kept[i].id = kept[j].id
                 PROVE  i < j
    BY DEF CallsFirst
  <2>2. a + i - 1 < a + j - 1
    BY <1>5, <2>1 DEF CallsFirst
  <2> QED
    BY <1>4, <2>2
<1> QED
  BY <1>3, <1>7, <1>8, <1>9, <1>10 DEF Unanswered, Shrunk

(* What is saved goes behind the blocks of the agent's last message; the   *)
(* messages before it stay as they are.                                    *)
LEMMA SavedMessages ==
    ASSUME context \in Seq(Message), NEW bs \in Seq(Block), SaveToContext(bs)
    PROVE  /\ LastOf(context') = LastOf(context) \o bs
           /\ \A m \in DOMAIN context' :
                \/ /\ IsLast(context', m)
                   /\ context'[m].blocks = LastOf(context) \o bs
                \/ /\ m \in DOMAIN context /\ context'[m] = context[m]
                   /\ ~IsLast(context, m)
<1>0. DOMAIN context = 1..Len(context) /\ Len(context) \in Nat
  BY LenProperties
<1>1. CASE context # <<>> /\ context[Len(context)].own
  <2> DEFINE n == Len(context)
             last == [context[n] EXCEPT !.blocks = context[n].blocks \o bs]
  <2>1. n \in 1..Len(context) /\ context[n] \in Message
    BY <1>1, EmptySeq, LenProperties, ElementOfSeq
  <2>2. context[n].blocks \o bs \in Seq(Block)
    BY <2>1, ConcatProperties DEF Message
  <2>3. /\ last \in Message /\ last.own = TRUE
        /\ last.blocks = LastOf(context) \o bs
    BY <1>1, <2>1, <2>2 DEF Message, LastOf
  <2>4. context' = [context EXCEPT ![n] = last]
    BY <1>1, <2>1 DEF SaveToContext, Message
  <2>5. /\ context' \in Seq(Message) /\ Len(context') = n /\ context'[n] = last
        /\ \A m \in 1..n : m # n => context'[m] = context[m]
    <3> HIDE DEF last
    <3> QED
      BY <2>1, <2>3, <2>4, ExceptSeq
  <2>6. context' # <<>> /\ DOMAIN context' = 1..n
    BY <2>1, <2>5, EmptySeq, LenProperties
  <2> HIDE DEF last
  <2> QED
    BY <1>0, <2>1, <2>3, <2>5, <2>6 DEF LastOf, IsLast
<1>2. CASE ~(context # <<>> /\ context[Len(context)].own)
  <2> DEFINE msg == [own |-> TRUE, blocks |-> bs]
  <2>1. context' = Append(context, msg) /\ msg \in Message
    BY <1>2 DEF SaveToContext, Message
  <2>2. /\ context' \in Seq(Message) /\ Len(context') = Len(context) + 1
        /\ context'[Len(context) + 1] = msg
        /\ \A m \in 1..Len(context) : context'[m] = context[m]
    BY <2>1, AppendProperties
  <2>3. context' # <<>> /\ DOMAIN context' = 1..(Len(context) + 1)
    BY <1>0, <2>2, EmptySeq, LenProperties
  <2>4. LastOf(context') = bs /\ LastOf(context) = <<>>
    BY <1>2, <2>2, <2>3 DEF LastOf
  <2>5. <<>> \o bs = bs
    BY ConcatEmptySeq
  <2>6. \A m \in DOMAIN context : ~IsLast(context, m)
    BY <1>0, <1>2, EmptySeq DEF IsLast
  <2>7. msg.own = TRUE /\ msg.blocks = bs
    OBVIOUS
  <2> HIDE DEF msg
  <2> QED
    BY <1>0, <2>2, <2>3, <2>4, <2>5, <2>6, <2>7 DEF IsLast
<1> QED
  BY <1>1, <1>2

(* LastOf is one of the messages, or there is none of the agent's own.     *)
LEMMA LastOfMessages ==
    ASSUME NEW ctx \in Seq(Message)
    PROVE  \/ LastOf(ctx) = <<>> /\ \A m \in DOMAIN ctx : ~IsLast(ctx, m)
           \/ /\ Len(ctx) \in DOMAIN ctx /\ IsLast(ctx, Len(ctx))
              /\ LastOf(ctx) = ctx[Len(ctx)].blocks
<1>1. DOMAIN ctx = 1..Len(ctx) /\ Len(ctx) \in Nat
  BY LenProperties
<1>2. ctx # <<>> => Len(ctx) \in 1..Len(ctx)
  BY <1>1, EmptySeq
<1>3. ctx = <<>> => DOMAIN ctx = {}
  BY <1>1, EmptySeq
<1> QED
  BY <1>1, <1>2, <1>3 DEF LastOf, IsLast

LEMMA CallsType ==
    ASSUME NEW bs \in Seq(Block)
    PROVE  CallsIn(bs) \subseteq Calls /\ ResultsIn(bs) \subseteq Calls
<1>1. \A i \in DOMAIN bs : bs[i].type \in {"call", "result"} => bs[i].id \in Calls
  <2>1. \A i \in DOMAIN bs : bs[i] \in Block
    BY LenProperties, ElementOfSeq
  <2> QED
    BY <2>1 DEF Block
<1> QED
  BY <1>1 DEF CallsIn, ResultsIn

LEMMA NoBlocks == CallsIn(<<>>) = {} /\ ResultsIn(<<>>) = {} /\ CallsFirst(<<>>)
BY DEF CallsIn, ResultsIn, CallsFirst

(* The last message's own blocks have their calls first. *)
LEMMA LastCallsFirst ==
    ASSUME NEW mem, mem.context \in Seq(Message), EarlierAnswered(mem)
    PROVE  CallsFirst(LastOf(mem.context))
BY LastOfMessages, NoBlocks DEF EarlierAnswered

(* Compression keeps the end of the context: every message left is a       *)
(* message of before, the first one perhaps shrunk.                        *)
LEMMA CompressedMessages ==
    ASSUME AgentAssumption, context \in Seq(Message), EarlierAnswered(Snapshot),
           NEW m \in DOMAIN context, NEW k \in Reserves, Compress(m, k)
    PROVE  /\ \A n \in DOMAIN context' : \E o \in DOMAIN context :
                /\ IsLast(context', n) <=> IsLast(context, o)
                /\ Shrunk(context'[n].blocks, context[o].blocks)
           /\ Shrunk(LastOf(context'), LastOf(context))
<1> DEFINE kept == Reserved(context[m].blocks, k)
           rest == SubSeq(context, m + 1, Len(context))
           msg == [context[m] EXCEPT !.blocks = kept]
<1>1. /\ DOMAIN context = 1..Len(context) /\ Len(context) \in Nat
      /\ m \in 1..Len(context)
      /\ \A n \in DOMAIN context :
           context[n] \in Message /\ CallsFirst(context[n].blocks)
  BY LenProperties, ElementOfSeq DEF EarlierAnswered, Snapshot
<1>2. \A n \in DOMAIN context : Shrunk(context[n].blocks, context[n].blocks)
  BY <1>1 DEF Shrunk
<1>3. kept \in Seq(Block) /\ Shrunk(kept, context[m].blocks)
  <2>1. k \in Nat /\ k <= Len(context[m].blocks)
    BY DEF AgentAssumption, Compress
  <2>2. context[m].blocks \in Seq(Block)
    BY <1>1 DEF Message
  <2>3. PICK a \in 1..(Len(context[m].blocks) + 1) :
          kept = SubSeq(context[m].blocks, a, Len(context[m].blocks))
    BY <2>1, <2>2, ReservedIsSuffix
  <2> QED
    BY <1>1, <2>2, <2>3, SuffixOfBlocks
<1>4. /\ rest \in Seq(Message)
      /\ Len(rest) = Len(context) - m
      /\ \A i \in 1..(Len(context) - m) : rest[i] = context[m + i]
  BY <1>1, RestOfMessages
<1>5. msg \in Message /\ msg.own = context[m].own /\ msg.blocks = kept
  <2> HIDE DEF kept
  <2> QED
    BY <1>1, <1>3 DEF Message
<1>6. context' = IF kept = <<>> THEN rest ELSE <<msg>> \o rest
  BY DEF Compress
<1> HIDE DEF kept, rest, msg
<1>7. /\ context' \in Seq(Message)
      /\ \A n \in DOMAIN context' : \E o \in DOMAIN context :
           /\ IsLast(context', n) <=> IsLast(context, o)
           /\ Shrunk(context'[n].blocks, context[o].blocks)
  <2>1. CASE kept = <<>>
    <3>1. context' = rest /\ DOMAIN rest = 1..(Len(context) - m)
      BY <1>4, <1>6, <2>1, LenProperties
    <3>2. ASSUME NEW n \in DOMAIN rest
          PROVE  /\ m + n \in DOMAIN context /\ rest[n] = context[m + n]
                 /\ IsLast(rest, n) <=> IsLast(context, m + n)
      BY <1>1, <1>4, <3>1 DEF IsLast
    <3> QED
      BY <1>2, <1>4, <3>1, <3>2
  <2>2. CASE kept # <<>>
    <3> DEFINE new == <<msg>> \o rest
    <3>1. /\ <<msg>> \in Seq(Message) /\ Len(<<msg>>) = 1 /\ <<msg>>[1] = msg
      BY <1>5
    <3>2. /\ new \in Seq(Message) /\ Len(new) = 1 + Len(rest)
          /\ \A n \in 1..(1 + Len(rest)) :
               new[n] = IF n <= 1 THEN <<msg>>[n] ELSE rest[n - 1]
      BY <1>4, <3>1, ConcatProperties
    <3>3. context' = new /\ DOMAIN new = 1..(1 + Len(context) - m)
      BY <1>1, <1>4, <1>6, <2>2, <3>2, LenProperties
    <3>4. ASSUME NEW n \in DOMAIN new
          PROVE  /\ m + n - 1 \in DOMAIN context
                 /\ new[n].own = context[m + n - 1].own
                 /\ Shrunk(new[n].blocks, context[m + n - 1].blocks)
                 /\ n = Len(new) <=> m + n - 1 = Len(context)
      <4> HIDE DEF new
      <4>1. n \in 1..(1 + Len(context) - m)
        BY <3>3
      <4>2. m + n - 1 \in DOMAIN context
        BY <1>1, <4>1
      <4>3. n = Len(new) <=> m + n - 1 = Len(context)
        BY <1>1, <1>4, <3>2, <4>1
      <4>4. CASE n = 1
        <5>1. new[n] = msg /\ m + n - 1 = m
          <6>1. 1 \in 1..(1 + Len(rest)) /\ m + 1 - 1 = m
            <7>1. Len(rest) \in Nat /\ m \in Nat
              BY <1>1, <1>4, LenProperties
            <7> QED
              BY <7>1
          <6>2. new[1] = <<msg>>[1]
            BY <3>2, <6>1
          <6> QED
            BY <3>1, <4>4, <6>1, <6>2
        <5> QED
          BY <1>3, <1>5, <4>2, <4>3, <5>1
      <4>5. CASE n # 1
        <5>1. /\ n - 1 \in 1..(Len(context) - m)
              /\ n \in 1..(1 + Len(rest)) /\ ~(n <= 1)
          BY <1>1, <1>4, <4>1, <4>5
        <5>2. new[n] = context[m + (n - 1)] /\ m + (n - 1) = m + n - 1
          BY <1>1, <1>4, <3>2, <4>1, <5>1
        <5> QED
          BY <1>2, <4>2, <4>3, <5>2
      <4> QED
        BY <4>4, <4>5
    <3>5. ASSUME NEW n \in DOMAIN new
          PROVE  IsLast(new, n) <=> IsLast(context, m + n - 1)
      BY <3>4 DEF IsLast
    <3> HIDE DEF new
    <3> QED
      BY <3>2, <3>3, <3>4, <3>5
  <2> QED
    BY <2>1, <2>2
<1>8. Shrunk(LastOf(context'), LastOf(context))
  <2>1. CASE LastOf(context') = <<>>
    BY <2>1, NoBlocks DEF Shrunk, Unanswered
  <2>2. CASE LastOf(context') # <<>>
    <3>1. /\ Len(context') \in DOMAIN context' /\ IsLast(context', Len(context'))
          /\ LastOf(context') = context'[Len(context')].blocks
      BY <1>7, <2>2, LastOfMessages
    <3>2. PICK o \in DOMAIN context :
            /\ IsLast(context, o)
            /\ Shrunk(LastOf(context'), context[o].blocks)
      BY <1>7, <3>1
    <3>3. LastOf(context) = context[o].blocks
      BY <3>2, LastOfMessages DEF IsLast
    <3> QED
      BY <3>2, <3>3
  <2> QED
    BY <2>1, <2>2
<1> QED
  BY <1>7, <1>8

------------------------------------------------------------------------------
(* Steps that keep the memory tidy *)

(* A step that appends blocks to the agent's message and forgets no call   *)
(* that was confirmed too late.                                            *)
LEMMA EarlierAfterSave ==
    ASSUME context \in Seq(Message), EarlierAnswered(Snapshot),
           NEW bs \in Seq(Block), SaveToContext(bs), CallsFirst(bs),
           CallsIn(bs) \cap ResultsIn(LastOf(context)) = {},
           \A c \in Calls : Late(Snapshot, c) => Late(Snapshot, c)'
    PROVE  EarlierAnswered(Snapshot)'
<1>1. Snapshot.context = context /\ Snapshot'.context = context'
  BY DEF Snapshot
<1>2. LastOf(context) \in Seq(Block) /\ CallsFirst(LastOf(context))
  BY <1>1, LastOfType, LastCallsFirst
<1>3. CallsFirst(LastOf(context) \o bs)
  BY <1>2, CallsFirstConcat
<1>4. ASSUME NEW m \in DOMAIN context',
             m \in DOMAIN context /\ context'[m] = context[m] /\ ~IsLast(context, m)
      PROVE  /\ CallsFirst(context'[m].blocks)
             /\ \A c \in Unanswered(context'[m].blocks) : Late(Snapshot, c)'
  <2>1. /\ CallsFirst(context[m].blocks)
        /\ \A c \in Unanswered(context[m].blocks) : Late(Snapshot, c)
    BY <1>1, <1>4 DEF EarlierAnswered
  <2>2. CallsIn(context[m].blocks) \subseteq Calls
    <3>1. context[m] \in Message
      BY <1>4, ElementOfSeq, LenProperties
    <3> QED
      BY <3>1, CallsType DEF Message
  <2> QED
    BY <1>4, <2>1, <2>2 DEF Unanswered
<1> QED
  BY <1>1, <1>3, <1>4, SavedMessages DEF EarlierAnswered

(* With the states accounted for, the calls that could run and those that  *)
(* wait for the outside are the ones _check_next_action finds.             *)
LEMMA ReadyAndWaiting ==
    ASSUME Accounted(Snapshot)
    PROVE  /\ Ready(Snapshot) = Executable
           /\ Waiting(Snapshot) = Asking \cup Submitted
BY LastBlocksIsLastOf
   DEF Accounted, Ready, Waiting, Snapshot, Executable, Asking, Submitted, Unfinished

LEMMA SameMemory ==
    ASSUME UNCHANGED memory
    PROVE  /\ Tidy(Snapshot)' = Tidy(Snapshot)
           /\ AtRest(Snapshot)' = AtRest(Snapshot)
           /\ Ready(Snapshot)' = Ready(Snapshot)
           /\ Waiting(Snapshot)' = Waiting(Snapshot)
<1>1. Snapshot' = Snapshot
  BY DEF memory, Snapshot
<1> QED
  BY <1>1 DEF Tidy, Accounted, EarlierAnswered, UsedUp, AtRest, Ready, Waiting, Late

LEMMA SameSaved ==
    ASSUME TidyInv, saved' = saved
    PROVE  Tidy(saved)' /\ AtRest(saved)'
BY DEF TidyInv, Tidy, Accounted, EarlierAnswered, UsedUp, AtRest, Ready, Waiting,
       Late

LEMMA InitTidy ==
    ASSUME Init PROVE TidyInv
<1> USE DEF Init
<1>1. LastOf(Snapshot.context) = <<>> /\ DOMAIN Snapshot.context = {}
  BY DEF LastOf, Snapshot
<1>2. Ready(Snapshot) = {} /\ Waiting(Snapshot) = {}
  BY <1>1, NoBlocks DEF Ready, Waiting
<1>3. Tidy(Snapshot) /\ AtRest(Snapshot)
  BY <1>1, <1>2, NoBlocks DEF Tidy, Accounted, EarlierAnswered, UsedUp, AtRest
<1>4. BatchesOrdered
  BY DEF BatchesOrdered, NoTask
<1> QED
  BY <1>3, <1>4 DEF TidyInv

LEMMA LoseTidy ==
    ASSUME Inv, TidyInv, Lose PROVE TidyInv'
<1>1. Snapshot' = saved /\ saved' = saved
  BY DEF Lose, Snapshot, Inv, TypeOK, Memory
<1>2. Tidy(saved)' /\ AtRest(saved)'
  BY <1>1, SameSaved
<1>3. Tidy(Snapshot)' /\ AtRest(Snapshot)'
  BY <1>1, <1>2
     DEF Tidy, Accounted, EarlierAnswered, UsedUp, AtRest, Ready, Waiting, Late
<1>4. BatchesOrdered' /\ pc' = "idle" /\ broke' = FALSE
  BY DEF Lose, BatchesOrdered, NoTask
<1> QED
  BY <1>2, <1>3, <1>4 DEF TidyInv

LEMMA ReturnTidy ==
    ASSUME Tidy(Snapshot)', AtRest(Snapshot)', saved' = Snapshot',
           pc' = "idle", task' = NoTask, broke' = FALSE
    PROVE  TidyInv'
<1>1. Tidy(saved)' /\ AtRest(saved)'
  BY DEF Tidy, Accounted, EarlierAnswered, UsedUp, AtRest, Ready, Waiting, Late
<1>2. BatchesOrdered'
  BY DEF BatchesOrdered, NoTask
<1> QED
  BY <1>1, <1>2 DEF TidyInv

(* Between two batches no call has a task, and nothing waits for the       *)
(* batch to be over.                                                       *)
LEMMA NoBatchTidy ==
    ASSUME Tidy(Snapshot)', Tidy(saved)', AtRest(saved)',
           task' = NoTask, broke' = FALSE, pc' \in {"next", "reason", "think"},
           pc' # "next" => Ready(Snapshot)' = {} /\ Waiting(Snapshot)' = {}
    PROVE  TidyInv'
<1>1. BatchesOrdered'
  BY DEF BatchesOrdered, NoTask
<1> QED
  BY <1>1 DEF TidyInv

LEMMA StartReplyTidy ==
    ASSUME AgentAssumption, Inv, TidyInv, StartReply PROVE TidyInv'
<1>1. /\ Asking = {} /\ Submitted = {}
      /\ Waiting(Snapshot) = {}
      /\ Ready(Snapshot) # {} => cur_iter = MaxIters
  <2>1. Asking = {} /\ Submitted = {} /\ Accounted(Snapshot) /\ AtRest(Snapshot)
    BY DEF StartReply, TidyInv, Tidy
  <2> QED
    BY <2>1, ReadyAndWaiting DEF AtRest, Snapshot
<1>2. /\ UNCHANGED <<state, consent, runs, todo, task, broke, saved, faults>>
      /\ cur_iter' = 0 /\ pc' = "next"
      /\ context' = context \/ context' = Append(context, UserMsg)
      /\ task = NoTask /\ broke = FALSE
  BY DEF StartReply, Inv, TypeOK, LoopSound, TidyInv
<1>3. Tidy(Snapshot)'
  <2>1. CASE context' = context
    <3>1. Accounted(Snapshot)' /\ EarlierAnswered(Snapshot)'
      BY <1>2, <2>1
         DEF TidyInv, Tidy, Accounted, EarlierAnswered, Late, Snapshot
    <3>2. cur_iter' = MaxIters => cur_iter = MaxIters
      BY <1>2 DEF AgentAssumption, Inv, TypeOK
    <3>3. UsedUp(Snapshot)'
      BY <1>2, <2>1, <3>2 DEF TidyInv, Tidy, UsedUp, Ready, Late, Snapshot
    <3> QED
      BY <3>1, <3>3 DEF Tidy
  <2>2. CASE context' = Append(context, UserMsg)
    <3>1. UserMsg \in Message /\ UserMsg.own = FALSE /\ UserMsg.blocks = <<Text>>
      <4>1. Text \in Block
        BY DEF Text, Block
      <4> QED
        BY <4>1 DEF UserMsg, Message
    <3>2. /\ context \in Seq(Message) /\ context' \in Seq(Message)
          /\ Len(context') = Len(context) + 1
          /\ context'[Len(context) + 1] = UserMsg
          /\ \A m \in 1..Len(context) : context'[m] = context[m]
      BY <2>2, <3>1, AppendProperties DEF Inv, TypeOK
    <3>3. /\ DOMAIN context = 1..Len(context) /\ Len(context) \in Nat
          /\ DOMAIN context' = 1..(Len(context) + 1)
      BY <3>2, LenProperties
    <3>4. LastOf(context') = <<>>
      BY <3>1, <3>2 DEF LastOf
    <3>5. Accounted(Snapshot)' /\ UsedUp(Snapshot)'
      BY <3>4, NoBlocks DEF Accounted, UsedUp, Ready, Snapshot
    <3>6. CallsFirst(<<Text>>) /\ Unanswered(<<Text>>) = {}
      BY DEF CallsFirst, Unanswered, CallsIn, Text
    <3>7. ASSUME NEW m \in DOMAIN context
          PROVE  /\ CallsFirst(context[m].blocks)
                 /\ \A c \in Unanswered(context[m].blocks) : Late(Snapshot, c)
      <4>1. /\ CallsFirst(context[m].blocks)
            /\ \/ IsLast(context, m)
               \/ \A c \in Unanswered(context[m].blocks) : Late(Snapshot, c)
        BY DEF TidyInv, Tidy, EarlierAnswered, Snapshot
      <4>2. CASE IsLast(context, m)
        <5>1. context[m].blocks = LastOf(context)
          BY <3>2, <4>2, LastOfMessages DEF IsLast
        <5>2. ASSUME NEW c \in Unanswered(LastOf(context))
              PROVE  Late(Snapshot, c)
          <6>1. c \in CallsIn(LastOf(context)) /\ c \in Calls
            BY <3>2, LastOfType DEF Unanswered
          <6>2. state[c] \notin {"none", "finished"}
            BY <5>2 DEF TidyInv, Tidy, Accounted, Unanswered, Snapshot
          <6>3. state[c] \notin {"asking", "submitted"}
            BY <1>1, <6>1 DEF Waiting, Snapshot
          <6>4. state[c] \in {"pending", "allowed"}
            BY <6>1, <6>2, <6>3 DEF Inv, TypeOK, ToolCallState
          <6>5. c \in Ready(Snapshot)
            BY <6>1, <6>4 DEF Ready, Snapshot
          <6> QED
            BY <1>1, <6>5 DEF TidyInv, Tidy, UsedUp, Snapshot
        <5> QED
          BY <4>1, <5>1, <5>2
      <4> QED
        BY <4>1, <4>2
    <3>8. EarlierAnswered(Snapshot)'
      <4>1. SUFFICES ASSUME NEW m \in DOMAIN context'
                     PROVE  /\ CallsFirst(context'[m].blocks)
                            /\ \A c \in Unanswered(context'[m].blocks) :
                                 Late(Snapshot, c)
        BY <1>2 DEF EarlierAnswered, Late, Snapshot
      <4> QED
        BY <3>1, <3>2, <3>3, <3>6, <3>7, SMTT(20)
    <3> QED
      BY <3>5, <3>8 DEF Tidy
  <2> QED
    BY <1>2, <2>1, <2>2
<1> QED
  BY <1>2, <1>3, SameSaved, NoBatchTidy

(* The results of a sequence of calls, and the calls it proposes. *)
LEMMA ResultBlocks ==
    ASSUME NEW S \in SUBSET Calls, NEW s \in Seq(S), NEW bs,
           bs = [i \in DOMAIN s |-> Result(s[i])]
    PROVE  /\ bs \in Seq(Block) /\ CallsFirst(bs)
           /\ CallsIn(bs) = {} /\ ResultsIn(bs) = Range(s)
<1>1. s \in Seq(S) /\ DOMAIN s = 1..Len(s) /\ \A i \in DOMAIN s : s[i] \in Calls
  BY LenProperties, ElementOfSeq
<1>2. /\ DOMAIN bs = DOMAIN s
      /\ \A i \in DOMAIN s : /\ bs[i].type = "result" /\ bs[i].id = s[i]
                             /\ bs[i] \in Block
  BY <1>1 DEF Result, Block
<1>3. bs \in Seq(Block)
  BY <1>1, <1>2, BlocksOf
<1> QED
  BY <1>2, <1>3 DEF CallsIn, ResultsIn, CallsFirst, Range

LEMMA CallBlocks ==
    ASSUME NEW S \in SUBSET Calls, NEW s \in Orders(S), NEW bs,
           bs = [i \in DOMAIN s |-> Call(s[i])]
    PROVE  /\ bs \in Seq(Block) /\ CallsFirst(bs)
           /\ CallsIn(bs) = Range(s) /\ ResultsIn(bs) = {}
<1>1. s \in Seq(S) /\ DOMAIN s = 1..Len(s) /\ \A i \in DOMAIN s : s[i] \in Calls
  BY OrdersType, ElementOfSeq
<1>2. /\ DOMAIN bs = DOMAIN s
      /\ \A i \in DOMAIN s : /\ bs[i].type = "call" /\ bs[i].id = s[i]
                             /\ bs[i] \in Block
  BY <1>1 DEF Call, Block
<1>3. bs \in Seq(Block)
  BY <1>1, <1>2, BlocksOf
<1> QED
  BY <1>2, <1>3 DEF CallsIn, ResultsIn, CallsFirst, Range

(* The last message after a step that appends to it. *)
LEMMA LastAfterSave ==
    ASSUME context \in Seq(Message), NEW bs \in Seq(Block), SaveToContext(bs)
    PROVE  /\ CallsIn(LastOf(context')) = CallsIn(LastOf(context)) \cup CallsIn(bs)
           /\ ResultsIn(LastOf(context')) =
                ResultsIn(LastOf(context)) \cup ResultsIn(bs)
           /\ CallsIn(LastOf(context)) \subseteq Calls
           /\ ResultsIn(LastOf(context)) \subseteq Calls
BY SavedMessages, LastOfType, CallsOfConcat, ResultsOfConcat, CallsType

LEMMA ConfirmTidy ==
    ASSUME Inv, TidyInv, NEW yes \in SUBSET Asking, NEW denied \in Orders(Asking),
           ConfirmCalls(yes, denied)
    PROVE  TidyInv'
<1> DEFINE bs == [i \in DOMAIN denied |-> Result(denied[i])]
           no == Range(denied)
<1>1. /\ Asking \subseteq Calls /\ no \subseteq Asking
      /\ \A c \in Asking : state[c] = "asking"
  BY LastBlocksIsLastOf, LastOfType, OrdersType DEF Inv, TypeOK, Asking
<1>2. /\ bs \in Seq(Block) /\ CallsFirst(bs)
      /\ CallsIn(bs) = {} /\ ResultsIn(bs) = no
  BY <1>1, OrdersType, ResultBlocks
<1>3. SaveToContext(bs) /\ context \in Seq(Message)
  BY DEF ConfirmCalls, Inv, TypeOK
<1> HIDE DEF bs
<1>4. /\ CallsIn(LastOf(context')) = CallsIn(LastOf(context))
      /\ ResultsIn(LastOf(context')) = ResultsIn(LastOf(context)) \cup no
      /\ CallsIn(LastOf(context)) \subseteq Calls
      /\ ResultsIn(LastOf(context)) \subseteq Calls
  BY <1>2, <1>3, LastAfterSave
<1>5. /\ pc' = "next" /\ task' = NoTask /\ broke' = FALSE
      /\ cur_iter' = cur_iter /\ saved' = saved
  BY DEF ConfirmCalls, Inv, TypeOK, LoopSound, TidyInv
<1>6. \A c \in Calls :
        /\ state'[c] = IF c \in yes THEN "allowed"
                       ELSE IF c \in no THEN "finished" ELSE state[c]
        /\ c \in yes => cur_iter < MaxIters \/ consent'[c] = "late"
        /\ c \notin yes \cup no => consent'[c] = consent[c]
  BY DEF ConfirmCalls
<1>7. yes \cap no = {} /\ yes \subseteq Asking /\ Asking \subseteq CallsIn(LastOf(context))
  BY LastBlocksIsLastOf DEF ConfirmCalls, Asking
<1>8. Accounted(Snapshot)'
  <2>1. \A c \in ResultsIn(LastOf(context)) : state[c] = "finished"
    BY DEF TidyInv, Tidy, Accounted, Snapshot
  <2>2. \A c \in CallsIn(LastOf(context)) :
          /\ state[c] # "none"
          /\ state[c] = "finished" => c \in ResultsIn(LastOf(context))
    BY DEF TidyInv, Tidy, Accounted, Snapshot
  <2> QED
    BY <1>1, <1>4, <1>6, <1>7, <2>1, <2>2 DEF Accounted, Snapshot
<1>9. EarlierAnswered(Snapshot)'
  <2>1. \A c \in Calls : Late(Snapshot, c) => Late(Snapshot, c)'
    BY <1>1, <1>6, <1>7 DEF Late, Snapshot
  <2> QED
    BY <1>2, <1>3, <2>1, EarlierAfterSave DEF TidyInv, Tidy
<1>10. UsedUp(Snapshot)'
  <2>1. SUFFICES ASSUME cur_iter = MaxIters, NEW c \in CallsIn(LastOf(context)),
                        state'[c] \in {"pending", "allowed"}
                 PROVE  Late(Snapshot, c)'
    BY <1>4, <1>5 DEF UsedUp, Ready, Snapshot
  <2>2. CASE c \in yes
    BY <1>4, <1>5, <1>6, <2>1, <2>2 DEF Late, Snapshot, Inv, TypeOK
  <2>3. CASE c \notin yes
    <3>1. c \notin no /\ state'[c] = state[c] /\ consent'[c] = consent[c]
      BY <1>4, <1>6, <2>1, <2>3
    <3>2. c \in Ready(Snapshot) /\ Snapshot.cur_iter = MaxIters
      BY <2>1, <3>1 DEF Ready, Snapshot
    <3>3. Late(Snapshot, c)
      BY <3>2 DEF TidyInv, Tidy, UsedUp
    <3> QED
      BY <3>1, <3>3 DEF Late, Snapshot
  <2> QED
    BY <2>2, <2>3
<1>11. Tidy(Snapshot)'
  BY <1>8, <1>9, <1>10 DEF Tidy
<1> QED
  BY <1>5, <1>11, SameSaved, NoBatchTidy

LEMMA ExternalTidy ==
    ASSUME Inv, TidyInv, NEW s \in BoundedSeq(Submitted, MaxResults),
           ExternalResults(s)
    PROVE  TidyInv'
<1> DEFINE bs == [i \in DOMAIN s |-> Result(s[i])]
<1>1. /\ Submitted \subseteq CallsIn(LastOf(context)) /\ Submitted \subseteq Calls
      /\ Range(s) \subseteq Submitted
      /\ \A c \in Submitted : state[c] = "submitted"
      /\ s \in Seq(Submitted)
  BY LastBlocksIsLastOf, LastOfType, BoundedType, AgentAssumption
     DEF AgentAssumption, Inv, TypeOK, Submitted, Unfinished
<1>2. /\ bs \in Seq(Block) /\ CallsFirst(bs)
      /\ CallsIn(bs) = {} /\ ResultsIn(bs) = Range(s)
  BY <1>1, ResultBlocks
<1>3. SaveToContext(bs) /\ context \in Seq(Message)
  BY DEF ExternalResults, Inv, TypeOK
<1> HIDE DEF bs
<1>4. /\ CallsIn(LastOf(context')) = CallsIn(LastOf(context))
      /\ ResultsIn(LastOf(context')) = ResultsIn(LastOf(context)) \cup Range(s)
      /\ CallsIn(LastOf(context)) \subseteq Calls
      /\ ResultsIn(LastOf(context)) \subseteq Calls
  BY <1>2, <1>3, LastAfterSave
<1>5. /\ pc' = "next" /\ task' = NoTask /\ broke' = FALSE
      /\ UNCHANGED <<cur_iter, consent, saved>>
  BY DEF ExternalResults, Inv, TypeOK, LoopSound, TidyInv
<1>6. \A c \in Calls :
        state'[c] = IF c \in Range(s) THEN "finished" ELSE state[c]
  BY DEF ExternalResults
<1>7. Accounted(Snapshot)'
  <2>1. \A c \in ResultsIn(LastOf(context)) : state[c] = "finished"
    BY DEF TidyInv, Tidy, Accounted, Snapshot
  <2>2. \A c \in CallsIn(LastOf(context)) :
          /\ state[c] # "none"
          /\ state[c] = "finished" => c \in ResultsIn(LastOf(context))
    BY DEF TidyInv, Tidy, Accounted, Snapshot
  <2> QED
    BY <1>1, <1>4, <1>6, <2>1, <2>2 DEF Accounted, Snapshot
<1>8. \A c \in Calls : Late(Snapshot, c) => Late(Snapshot, c)'
  BY <1>5, <1>6 DEF Late, Snapshot
<1>9. EarlierAnswered(Snapshot)'
  BY <1>2, <1>3, <1>8, EarlierAfterSave DEF TidyInv, Tidy
<1>10. UsedUp(Snapshot)'
  <2>1. Ready(Snapshot)' \subseteq Ready(Snapshot)
    BY <1>4, <1>6 DEF Ready, Snapshot
  <2>2. Ready(Snapshot) \subseteq Calls
    BY <1>4 DEF Ready, Snapshot
  <2>3. Snapshot'.cur_iter = cur_iter /\ Snapshot.cur_iter = cur_iter
    BY <1>5 DEF Snapshot
  <2> QED
    BY <1>8, <2>1, <2>2, <2>3 DEF TidyInv, Tidy, UsedUp
<1>11. Tidy(Snapshot)'
  BY <1>7, <1>9, <1>10 DEF Tidy
<1> QED
  BY <1>5, <1>11, SameSaved, NoBatchTidy

LEMMA LoopTidy ==
    ASSUME Inv, TidyInv,
           \/ ExceedMaxIters \/ Wait \/ GoReason \/ GoAct \/ SkipCompression
           \/ NextIteration \/ StopForOutside
    PROVE  TidyInv'
<1>1. /\ Tidy(Snapshot) /\ Accounted(Snapshot)
      /\ Ready(Snapshot) = Executable
      /\ Waiting(Snapshot) = Asking \cup Submitted
  BY ReadyAndWaiting DEF TidyInv, Tidy
<1>2. pc # "act" => task = NoTask /\ broke = FALSE
  BY DEF Inv, TypeOK, LoopSound, TidyInv
<1>3. CASE ExceedMaxIters \/ Wait \/ StopForOutside
  <2>1. /\ UNCHANGED memory /\ Snapshot' = Snapshot
        /\ pc' = "idle" /\ saved' = Snapshot
    BY <1>3 DEF ExceedMaxIters, Wait, StopForOutside, Return, memory, Snapshot
  <2>2. task' = NoTask /\ broke' = FALSE
    BY <1>2, <1>3 DEF ExceedMaxIters, Wait, StopForOutside, BatchOver, Failed,
                      Over, Inv, TypeOK, NoTask
  <2>3. AtRest(Snapshot)
    <3>1. CASE ExceedMaxIters
      <4>1. cur_iter = MaxIters
        BY <3>1, AgentAssumption DEF AgentAssumption, ExceedMaxIters, Inv, TypeOK
      <4> QED
        BY <4>1 DEF AtRest, Snapshot
    <3>2. CASE Wait
      BY <1>1, <3>2 DEF Wait, AtRest
    <3>3. CASE StopForOutside
      BY <3>3 DEF StopForOutside, TidyInv, AtRest
    <3> QED
      BY <1>3, <3>1, <3>2, <3>3
  <2>4. Tidy(Snapshot)' /\ AtRest(Snapshot)'
    BY <1>1, <2>1, <2>3, SameMemory
  <2> QED
    BY <2>1, <2>2, <2>4, ReturnTidy
<1>4. CASE GoReason \/ SkipCompression
  <2>1. /\ UNCHANGED memory /\ saved' = saved /\ pc' \in {"reason", "think"}
        /\ task' = NoTask /\ broke' = FALSE
    BY <1>2, <1>4 DEF GoReason, SkipCompression
  <2>2. Ready(Snapshot) = {} /\ Waiting(Snapshot) = {}
    BY <1>1, <1>4 DEF GoReason, SkipCompression, TidyInv
  <2>3. Tidy(Snapshot)' /\ Ready(Snapshot)' = {} /\ Waiting(Snapshot)' = {}
    BY <1>1, <2>1, <2>2, SameMemory
  <2> QED
    BY <2>1, <2>3, SameSaved, NoBatchTidy
<1>5. CASE GoAct
  <2>1. /\ UNCHANGED memory /\ saved' = saved /\ pc' = "act"
        /\ task' = NoTask /\ broke' = FALSE /\ todo' = Executable
    BY <1>2, <1>5 DEF GoAct
  <2>2. Tidy(Snapshot)' /\ Ready(Snapshot)' = Executable
    BY <1>1, <2>1, SameMemory
  <2>3. BatchesOrdered'
    BY <2>1, <2>2 DEF BatchesOrdered, NoTask
  <2> QED
    BY <2>1, <2>2, <2>3, SameSaved DEF TidyInv
<1>6. CASE NextIteration
  <2>1. /\ UNCHANGED <<context, state, consent, runs, todo, task, broke, saved>>
        /\ pc' = "next" /\ pc = "act" /\ todo = {}
        /\ task = NoTask /\ broke = FALSE
    BY <1>6 DEF NextIteration, BatchOver, Failed, Over, Inv, TypeOK, NoTask
  <2>2. Ready(Snapshot) = {}
    <3>1. Ready(Snapshot) \subseteq Calls
      BY LastOfType DEF Ready, Snapshot, Inv, TypeOK
    <3> QED
      BY <2>1, <3>1 DEF TidyInv, BatchesOrdered, NoTask
  <2>3. Ready(Snapshot)' = {}
    BY <2>1, <2>2 DEF Ready, Snapshot
  <2>4. Tidy(Snapshot)'
    BY <1>1, <2>1, <2>3
       DEF Tidy, Accounted, EarlierAnswered, UsedUp, Late, Snapshot
  <2> QED
    BY <2>1, <2>4, SameSaved, NoBatchTidy
<1> QED
  BY <1>3, <1>4, <1>5, <1>6

LEMMA CompressTidy ==
    ASSUME AgentAssumption, Inv, TidyInv,
           NEW m \in DOMAIN context, NEW k \in Reserves, Compress(m, k)
    PROVE  TidyInv'
<1>1. /\ pc = "reason" /\ pc' = "think"
      /\ UNCHANGED <<state, cur_iter, consent, runs, todo, task, broke, saved>>
      /\ task' = NoTask /\ broke' = FALSE
  BY DEF Compress, Inv, TypeOK, LoopSound, TidyInv
<1>2. Tidy(Snapshot) /\ Ready(Snapshot) = {} /\ Waiting(Snapshot) = {}
  BY <1>1 DEF TidyInv
<1>3. /\ \A n \in DOMAIN context' : \E o \in DOMAIN context :
           /\ IsLast(context', n) <=> IsLast(context, o)
           /\ Shrunk(context'[n].blocks, context[o].blocks)
      /\ Shrunk(LastOf(context'), LastOf(context))
  BY <1>2, CompressedMessages DEF Tidy, Inv, TypeOK
<1>4. Ready(Snapshot)' = {} /\ Waiting(Snapshot)' = {}
  BY <1>1, <1>2, <1>3 DEF Ready, Waiting, Snapshot, Shrunk
<1>5. Accounted(Snapshot)'
  <2>1. /\ \A c \in ResultsIn(LastOf(context)) : state[c] = "finished"
        /\ \A c \in CallsIn(LastOf(context)) :
             /\ state[c] # "none"
             /\ state[c] = "finished" => c \notin Unanswered(LastOf(context))
    BY <1>2 DEF Tidy, Accounted, Unanswered, Snapshot
  <2>2. \A c \in CallsIn(LastOf(context')) :
          c \notin Unanswered(LastOf(context')) => c \in ResultsIn(LastOf(context'))
    BY DEF Unanswered
  <2> QED
    BY <1>1, <1>3, <2>1, <2>2 DEF Accounted, Shrunk, Snapshot
<1>6. EarlierAnswered(Snapshot)'
  <2>1. \A n \in DOMAIN context :
          IsLast(context, n)
            \/ \A c \in Unanswered(context[n].blocks) : Late(Snapshot, c)
    BY <1>2 DEF Tidy, EarlierAnswered, Snapshot
  <2>2. \A n \in DOMAIN context' :
          /\ CallsFirst(context'[n].blocks)
          /\ IsLast(context', n)
               \/ \A c \in Unanswered(context'[n].blocks) : Late(Snapshot, c)
    BY <1>3, <2>1 DEF Shrunk
  <2> QED
    BY <1>1, <2>2 DEF EarlierAnswered, Late, Snapshot
<1>7. Tidy(Snapshot)'
  BY <1>4, <1>5, <1>6 DEF Tidy, UsedUp
<1> QED
  BY <1>1, <1>4, <1>7, SameSaved, NoBatchTidy

LEMMA AnswerTidy ==
    ASSUME Inv, TidyInv, Answer PROVE TidyInv'
<1>1. /\ <<Text>> \in Seq(Block) /\ CallsFirst(<<Text>>)
      /\ CallsIn(<<Text>>) = {} /\ ResultsIn(<<Text>>) = {}
  BY DEF Text, Block, CallsFirst, CallsIn, ResultsIn
<1>2. SaveToContext(<<Text>>) /\ context \in Seq(Message)
  BY DEF Answer, Inv, TypeOK
<1>3. /\ CallsIn(LastOf(context')) = CallsIn(LastOf(context))
      /\ ResultsIn(LastOf(context')) = ResultsIn(LastOf(context))
  BY <1>1, <1>2, LastAfterSave
<1>4. /\ pc = "think" /\ pc' = "idle"
      /\ UNCHANGED <<state, cur_iter, consent, runs, todo, task, broke>>
      /\ task' = NoTask /\ broke' = FALSE
  BY DEF Answer, Return, Inv, TypeOK, LoopSound, TidyInv
<1>5. saved' = Snapshot'
  BY <1>4 DEF Answer, Return, Snapshot
<1>6. Tidy(Snapshot) /\ Ready(Snapshot) = {}
  BY <1>4 DEF TidyInv
<1>7. Ready(Snapshot)' = {}
  BY <1>3, <1>4, <1>6 DEF Ready, Snapshot
<1>8. Accounted(Snapshot)'
  BY <1>3, <1>4, <1>6 DEF Tidy, Accounted, Snapshot
<1>9. EarlierAnswered(Snapshot)'
  <2>1. \A c \in Calls : Late(Snapshot, c) => Late(Snapshot, c)'
    BY <1>4 DEF Late, Snapshot
  <2> QED
    BY <1>1, <1>2, <1>6, <2>1, EarlierAfterSave DEF Tidy
<1>10. Tidy(Snapshot)' /\ AtRest(Snapshot)'
  BY <1>7, <1>8, <1>9 DEF Tidy, UsedUp, AtRest
<1> QED
  BY <1>4, <1>5, <1>10, ReturnTidy

LEMMA ProposeTidy ==
    ASSUME Inv, TidyInv, NEW s \in Orders(Calls), Propose(s) PROVE TidyInv'
<1> DEFINE bs == [i \in DOMAIN s |-> Call(s[i])]
<1>1. /\ bs \in Seq(Block) /\ CallsFirst(bs)
      /\ CallsIn(bs) = Range(s) /\ ResultsIn(bs) = {}
      /\ Range(s) \subseteq Calls
  BY CallBlocks, OrdersType
<1>2. SaveToContext(bs) /\ context \in Seq(Message)
  BY DEF Propose, Inv, TypeOK
<1> HIDE DEF bs
<1>3. /\ CallsIn(LastOf(context')) = CallsIn(LastOf(context)) \cup Range(s)
      /\ ResultsIn(LastOf(context')) = ResultsIn(LastOf(context))
      /\ CallsIn(LastOf(context)) \subseteq Calls
      /\ ResultsIn(LastOf(context)) \subseteq Calls
  BY <1>1, <1>2, LastAfterSave
<1>4. /\ pc = "think" /\ pc' = "act" /\ todo' = Range(s)
      /\ UNCHANGED <<cur_iter, consent, runs, task, broke, saved>>
      /\ task' = NoTask /\ broke' = FALSE /\ cur_iter < MaxIters
  BY DEF Propose, Inv, TypeOK, LoopSound, TidyInv
<1>5. /\ \A c \in Calls :
           state'[c] = IF c \in Range(s) THEN "pending" ELSE state[c]
      /\ \A c \in Range(s) : state[c] = "none"
  BY DEF Propose, Range
<1>6. Tidy(Snapshot) /\ Ready(Snapshot) = {}
  BY <1>4 DEF TidyInv
<1>7. /\ \A c \in ResultsIn(LastOf(context)) : state[c] = "finished"
      /\ \A c \in CallsIn(LastOf(context)) :
           /\ state[c] # "none"
           /\ state[c] = "finished" => c \in ResultsIn(LastOf(context))
  BY <1>6 DEF Tidy, Accounted, Snapshot
<1>8. Accounted(Snapshot)'
  BY <1>1, <1>3, <1>5, <1>7 DEF Accounted, Snapshot
<1>9. EarlierAnswered(Snapshot)'
  <2>1. \A c \in Calls : Late(Snapshot, c) => Late(Snapshot, c)'
    BY <1>4, <1>5 DEF Late, Snapshot
  <2>2. CallsIn(bs) \cap ResultsIn(LastOf(context)) = {}
    BY <1>1, <1>5, <1>7
  <2> QED
    BY <1>1, <1>2, <1>6, <2>1, <2>2, EarlierAfterSave DEF Tidy
<1>10. UsedUp(Snapshot)'
  BY <1>4 DEF UsedUp, Snapshot, Inv, TypeOK
<1>11. BatchesOrdered'
  <2>1. Ready(Snapshot)' \subseteq todo'
    BY <1>3, <1>4, <1>5, <1>6 DEF Ready, Snapshot
  <2> QED
    BY <1>4, <2>1 DEF BatchesOrdered, NoTask
<1>12. Tidy(Snapshot)'
  BY <1>8, <1>9, <1>10 DEF Tidy
<1> QED
  BY <1>4, <1>11, <1>12, SameSaved DEF TidyInv

(* Two calls of a message are ordered. *)
LEMMA OneIsBefore ==
    ASSUME context \in Seq(Message),
           NEW c \in CallsIn(LastOf(context)), NEW d \in CallsIn(LastOf(context))
    PROVE  Before(c, d) \/ Before(d, c)
<1>1. ASSUME NEW e \in CallsIn(LastOf(context)) PROVE Position(e) \in Nat
  <2>1. LastBlocks \in Seq(Block) /\ DOMAIN LastBlocks \subseteq Nat
    BY LastBlocksIsLastOf, LastOfType, LenProperties
  <2>2. PICK i \in DOMAIN LastBlocks :
          LastBlocks[i].type = "call" /\ LastBlocks[i].id = e
    BY LastBlocksIsLastOf DEF CallsIn
  <2>3. LastBlocks[i] \in Block
    BY <2>1, ElementOfSeq, LenProperties
  <2>4. LastBlocks[i] = Call(e)
    BY <2>2, <2>3 DEF Block, Call
  <2> QED
    BY <2>1, <2>4 DEF Position
<1> QED
  BY <1>1 DEF Before

LEMMA StartBatchTidy ==
    ASSUME Inv, TidyInv, StartBatch PROVE TidyInv'
<1>1. /\ UNCHANGED memory /\ UNCHANGED <<pc, broke, saved>>
      /\ context' = context /\ pc = "act" /\ broke = FALSE
      /\ task = NoTask
      /\ task' = [c \in Calls |-> IF c \in Group THEN "started" ELSE "none"]
      /\ todo' = todo \ Group
  BY DEF StartBatch, BatchOver, Failed, Over, Inv, TypeOK, NoTask, memory
<1>2. /\ todo \subseteq Calls /\ todo \subseteq CallsIn(LastOf(context))
      /\ context \in Seq(Message)
  BY DEF Inv, TypeOK, BatchSound
<1>3. Ready(Snapshot) \subseteq todo
  <2>1. Ready(Snapshot) \subseteq Calls
    BY LastOfType DEF Ready, Snapshot, Inv, TypeOK
  <2> QED
    BY <1>1, <2>1 DEF TidyInv, BatchesOrdered, NoTask
<1>4. /\ Tidy(Snapshot)'
      /\ Ready(Snapshot)' = Ready(Snapshot)
      /\ Waiting(Snapshot)' = Waiting(Snapshot)
  BY <1>1, SameMemory DEF TidyInv
<1>5. ASSUME NEW c \in Calls \ Safe, c \in Group
      PROVE  /\ \A d \in todo \ {c} : ~Before(d, c)
             /\ \A d \in Calls \ {c} : d \notin Group
  <2>1. c \in todo /\ \A d \in todo \ {c} : ~Before(d, c)
    BY <1>5 DEF Group
  <2>2. ASSUME NEW d \in Group, d # c PROVE FALSE
    <3>1. d \in todo /\ Before(c, d)
      BY <1>2, <2>1, <2>2, OneIsBefore DEF Group
    <3> QED
      BY <2>1, <2>2, <3>1 DEF Group
  <2> QED
    BY <2>1, <2>2
<1>6. BatchesOrdered'
  <2>1. \A c \in Ready(Snapshot)' : c \in todo' \/ task'[c] # "none"
    BY <1>1, <1>2, <1>3, <1>4
  <2>2. ASSUME NEW c \in Calls \ Safe, task'[c] \in {"started", "running"}
        PROVE  /\ \A d \in Calls \ {c} : task'[d] = "none"
               /\ \A d \in Ready(Snapshot)' \ {c} : ~Before(d, c)'
    <3>1. c \in Group
      BY <1>1, <2>2
    <3>2. \A d : Before(d, c)' <=> Before(d, c)
      BY <1>1 DEF Before, Position, LastBlocks
    <3> QED
      BY <1>1, <1>3, <1>4, <1>5, <3>1, <3>2
  <2> QED
    BY <2>1, <2>2 DEF BatchesOrdered
<1> QED
  BY <1>1, <1>4, <1>6, SameSaved DEF TidyInv

LEMMA AnswerCallTidy ==
    ASSUME Inv, TidyInv, NEW c \in Calls, task[c] \in {"started", "running"},
           AnswerCall(c),
           \/ consent' = consent
           \/ state[c] # "allowed" /\ consent' = [consent EXCEPT ![c] = "refused"],
           UNCHANGED <<cur_iter, runs, pc, todo, broke, saved, turns, faults>>
    PROVE  TidyInv'
<1> DEFINE bs == <<Result(c)>>
<1>1. /\ bs \in Seq(Block) /\ CallsFirst(bs)
      /\ CallsIn(bs) = {} /\ ResultsIn(bs) = {c}
  BY DEF Result, Block, CallsFirst, CallsIn, ResultsIn
<1>2. SaveToContext(bs) /\ context \in Seq(Message)
  BY DEF AnswerCall, Inv, TypeOK
<1> HIDE DEF bs
<1>3. /\ CallsIn(LastOf(context')) = CallsIn(LastOf(context))
      /\ ResultsIn(LastOf(context')) = ResultsIn(LastOf(context)) \cup {c}
      /\ CallsIn(LastOf(context)) \subseteq Calls
  BY <1>1, <1>2, LastAfterSave
<1>4. /\ c \in CallsIn(LastOf(context))
      /\ state[c] \in {"pending", "allowed"}
      /\ pc = "act" /\ cur_iter < MaxIters
  BY DEF Inv, BatchSound, LoopSound, NoTask
<1>5. /\ state' = [state EXCEPT ![c] = "finished"]
      /\ task' = [task EXCEPT ![c] = "none"]
  BY <1>4, LastBlocksIsLastOf DEF AnswerCall, SetState, Done
<1>6. /\ \A d \in Calls \ {c} : /\ state'[d] = state[d] /\ task'[d] = task[d]
                                /\ consent'[d] = consent[d]
      /\ state'[c] = "finished" /\ task'[c] = "none"
  BY <1>5 DEF Inv, TypeOK
<1>7. Accounted(Snapshot)'
  <2>1. /\ \A d \in ResultsIn(LastOf(context)) : state[d] = "finished"
        /\ \A d \in CallsIn(LastOf(context)) :
             /\ state[d] # "none"
             /\ state[d] = "finished" => d \in ResultsIn(LastOf(context))
    BY DEF TidyInv, Tidy, Accounted, Snapshot
  <2>2. ResultsIn(LastOf(context)) \subseteq Calls
    BY <1>1, <1>2, LastAfterSave
  <2> QED
    BY <1>3, <1>4, <1>6, <2>1, <2>2 DEF Accounted, Snapshot
<1>8. EarlierAnswered(Snapshot)'
  <2>1. \A d \in Calls : Late(Snapshot, d) => Late(Snapshot, d)'
    BY <1>4, <1>6 DEF Late, Snapshot
  <2> QED
    BY <1>1, <1>2, <2>1, EarlierAfterSave DEF TidyInv, Tidy
<1>9. /\ Ready(Snapshot)' = Ready(Snapshot) \ {c}
      /\ Waiting(Snapshot)' = Waiting(Snapshot)
  BY <1>3, <1>4, <1>6 DEF Ready, Waiting, Snapshot
<1>10. Tidy(Snapshot)'
  BY <1>4, <1>7, <1>8 DEF Tidy, UsedUp, Snapshot, Inv, TypeOK
<1>11. BatchesOrdered'
  <2>1. \A d \in Ready(Snapshot)' : d \in todo' \/ task'[d] # "none"
    <3>1. Ready(Snapshot) \subseteq Calls
      BY <1>3 DEF Ready, Snapshot
    <3> QED
      BY <1>4, <1>6, <1>9, <3>1 DEF TidyInv, BatchesOrdered
  <2>2. ASSUME NEW d \in Calls \ Safe, task'[d] \in {"started", "running"}
        PROVE  FALSE
    <3>1. d # c /\ task[d] \in {"started", "running"}
      BY <1>6, <2>2
    <3> QED
      BY <3>1 DEF TidyInv, BatchesOrdered
  <2> QED
    BY <2>1, <2>2 DEF BatchesOrdered
<1> QED
  BY <1>4, <1>9, <1>10, <1>11, SameSaved DEF TidyInv

(* A step that leaves the context as it is, and forgets no call that was   *)
(* confirmed too late.                                                     *)
LEMMA EarlierKept ==
    ASSUME context \in Seq(Message), EarlierAnswered(Snapshot),
           context' = context,
           \A c \in Calls : Late(Snapshot, c) => Late(Snapshot, c)'
    PROVE  EarlierAnswered(Snapshot)'
<1>1. \A m \in DOMAIN context : Unanswered(context[m].blocks) \subseteq Calls
  <2>1. \A m \in DOMAIN context : context[m] \in Message
    BY ElementOfSeq, LenProperties
  <2> QED
    BY <2>1, CallsType DEF Message, Unanswered
<1>2. \A m \in DOMAIN context :
        /\ CallsFirst(context[m].blocks)
        /\ \/ IsLast(context, m)
           \/ \A c \in Unanswered(context[m].blocks) : Late(Snapshot, c)
  BY DEF EarlierAnswered, Snapshot
<1>3. \A m \in DOMAIN context :
        /\ CallsFirst(context[m].blocks)
        /\ \/ IsLast(context, m)
           \/ \A c \in Unanswered(context[m].blocks) : Late(Snapshot, c)'
  BY <1>1, <1>2
<1> QED
  BY <1>3 DEF EarlierAnswered, Snapshot

LEMMA HandOutTidy ==
    ASSUME Inv, TidyInv, NEW c \in Calls, AskUser(c) \/ SubmitCall(c)
    PROVE  TidyInv'
<1>1. /\ c \in CallsIn(LastOf(context))
      /\ state[c] \in {"pending", "allowed"}
      /\ pc = "act" /\ cur_iter < MaxIters
      /\ task[c] = "started"
  BY DEF AskUser, SubmitCall, Inv, BatchSound, LoopSound, NoTask
<1>2. /\ \A d \in Calls \ {c} : /\ state'[d] = state[d] /\ task'[d] = task[d]
                                /\ consent'[d] = consent[d]
      /\ task'[c] = "none"
      /\ \/ state'[c] = "asking" /\ state[c] # "allowed"
         \/ state'[c] = "submitted" /\ consent'[c] = consent[c]
  BY <1>1, LastBlocksIsLastOf DEF AskUser, SubmitCall, SetState, Done, Inv, TypeOK
<1>3. /\ UNCHANGED <<context, cur_iter, pc, todo, saved>>
      /\ broke' = TRUE
  BY DEF AskUser, SubmitCall
<1>4. CallsIn(LastOf(context)) \subseteq Calls /\ ResultsIn(LastOf(context)) \subseteq Calls
  BY LastOfType, CallsType DEF Inv, TypeOK
<1>5. Accounted(Snapshot)'
  BY <1>1, <1>2, <1>3, <1>4 DEF TidyInv, Tidy, Accounted, Snapshot
<1>6. EarlierAnswered(Snapshot)'
  <2>1. \A d \in Calls : Late(Snapshot, d) => Late(Snapshot, d)'
    BY <1>1, <1>2 DEF Late, Snapshot
  <2> QED
    BY <1>3, <2>1, EarlierKept DEF Inv, TypeOK, TidyInv, Tidy
<1>7. /\ Ready(Snapshot)' = Ready(Snapshot) \ {c}
      /\ c \in Waiting(Snapshot)'
  BY <1>1, <1>2, <1>3, <1>4 DEF Ready, Waiting, Snapshot
<1>8. Tidy(Snapshot)'
  BY <1>1, <1>3, <1>5, <1>6 DEF Tidy, UsedUp, Snapshot, Inv, TypeOK
<1>9. BatchesOrdered'
  <2>1. \A d \in Ready(Snapshot)' : d \in todo' \/ task'[d] # "none"
    <3>1. Ready(Snapshot) \subseteq Calls
      BY <1>4 DEF Ready, Snapshot
    <3> QED
      BY <1>1, <1>2, <1>3, <1>7, <3>1 DEF TidyInv, BatchesOrdered
  <2>2. ASSUME NEW d \in Calls \ Safe, task'[d] \in {"started", "running"}
        PROVE  FALSE
    <3>1. d # c /\ task[d] \in {"started", "running"}
      BY <1>2, <2>2
    <3> QED
      BY <1>1, <3>1 DEF TidyInv, BatchesOrdered
  <2> QED
    BY <2>1, <2>2 DEF BatchesOrdered
<1> QED
  BY <1>1, <1>3, <1>7, <1>8, <1>9, SameSaved DEF TidyInv

LEMMA RunToolTidy ==
    ASSUME Inv, TidyInv, NEW c \in Calls, RunTool(c) PROVE TidyInv'
<1>1. /\ c \in CallsIn(LastOf(context))
      /\ state[c] \in {"pending", "allowed"}
      /\ pc = "act" /\ cur_iter < MaxIters
      /\ task[c] = "started"
  BY DEF RunTool, Inv, BatchSound, LoopSound, NoTask
<1>2. /\ \A d \in Calls \ {c} : state'[d] = state[d] /\ task'[d] = task[d]
      /\ task'[c] = "running" /\ state'[c] = "allowed"
      /\ UNCHANGED <<context, cur_iter, consent, pc, todo, broke, saved>>
  BY <1>1, LastBlocksIsLastOf DEF RunTool, SetState, Inv, TypeOK
<1>3. CallsIn(LastOf(context)) \subseteq Calls /\ ResultsIn(LastOf(context)) \subseteq Calls
  BY LastOfType, CallsType DEF Inv, TypeOK
<1>4. Accounted(Snapshot)'
  BY <1>1, <1>2, <1>3 DEF TidyInv, Tidy, Accounted, Snapshot
<1>5. EarlierAnswered(Snapshot)'
  <2>1. \A d \in Calls : Late(Snapshot, d) => Late(Snapshot, d)'
    BY <1>1, <1>2 DEF Late, Snapshot
  <2> QED
    BY <1>2, <2>1, EarlierKept DEF Inv, TypeOK, TidyInv, Tidy
<1>6. /\ Ready(Snapshot)' = Ready(Snapshot)
      /\ Waiting(Snapshot)' = Waiting(Snapshot)
  BY <1>1, <1>2, <1>3 DEF Ready, Waiting, Snapshot
<1>7. Tidy(Snapshot)'
  BY <1>1, <1>2, <1>4, <1>5 DEF Tidy, UsedUp, Snapshot, Inv, TypeOK
<1>8. BatchesOrdered'
  <2>1. \A d \in Ready(Snapshot)' : d \in todo' \/ task'[d] # "none"
    <3>1. Ready(Snapshot) \subseteq Calls
      BY <1>3 DEF Ready, Snapshot
    <3> QED
      BY <1>1, <1>2, <1>6, <3>1 DEF TidyInv, BatchesOrdered
  <2>2. ASSUME NEW d \in Calls \ Safe, task'[d] \in {"started", "running"}
        PROVE  /\ \A e \in Calls \ {d} : task'[e] = "none"
               /\ \A e \in Ready(Snapshot)' \ {d} : ~Before(e, d)'
    <3>1. task[d] \in {"started", "running"}
      BY <1>1, <1>2, <2>2
    <3>2. /\ \A e \in Calls \ {d} : task[e] = "none"
          /\ \A e \in Ready(Snapshot) \ {d} : ~Before(e, d)
      BY <3>1 DEF TidyInv, BatchesOrdered
    <3>3. d = c
      BY <1>1, <3>2
    <3>4. \A e : Before(e, d)' <=> Before(e, d)
      BY <1>2 DEF Before, Position, LastBlocks
    <3> QED
      BY <1>2, <1>6, <3>2, <3>3, <3>4
  <2> QED
    BY <2>1, <2>2 DEF BatchesOrdered
<1> QED
  BY <1>1, <1>2, <1>6, <1>7, <1>8, SameSaved DEF TidyInv

LEMMA CallRaisesTidy ==
    ASSUME Inv, TidyInv, NEW c \in Calls, CallRaises(c) PROVE TidyInv'
<1>1. /\ UNCHANGED memory /\ context' = context
      /\ UNCHANGED <<pc, todo, broke, saved>>
      /\ task[c] \in {"started", "running"} /\ task'[c] = "failed"
      /\ \A d \in Calls \ {c} : task'[d] = task[d]
  BY DEF CallRaises, memory, Inv, TypeOK
<1>2. /\ Tidy(Snapshot)' /\ Ready(Snapshot)' = Ready(Snapshot)
      /\ Waiting(Snapshot)' = Waiting(Snapshot)
  BY <1>1, SameMemory DEF TidyInv
<1>3. pc = "act"
  BY <1>1 DEF Inv, LoopSound, NoTask
<1>4. BatchesOrdered'
  <2>1. \A d \in Ready(Snapshot)' : d \in todo' \/ task'[d] # "none"
    <3>1. Ready(Snapshot) \subseteq Calls
      BY LastOfType DEF Ready, Snapshot, Inv, TypeOK
    <3> QED
      BY <1>1, <1>2, <1>3, <3>1 DEF TidyInv, BatchesOrdered
  <2>2. ASSUME NEW d \in Calls \ Safe, task'[d] \in {"started", "running"}
        PROVE  FALSE
    <3>1. d # c /\ task[d] \in {"started", "running"}
      BY <1>1, <2>2
    <3> QED
      BY <1>1, <3>1 DEF TidyInv, BatchesOrdered
  <2> QED
    BY <2>1, <2>2 DEF BatchesOrdered
<1> QED
  BY <1>1, <1>2, <1>3, <1>4, SameSaved DEF TidyInv

LEMMA StutterTidy ==
    ASSUME TidyInv, UNCHANGED vars PROVE TidyInv'
<1>1. UNCHANGED memory /\ UNCHANGED <<pc, todo, task, broke, saved, context>>
  BY DEF vars, loop, memory
<1>2. \A c, d : Before(c, d)' <=> Before(c, d)
  BY <1>1 DEF Before, Position, LastBlocks
<1>3. BatchesOrdered'
  BY <1>1, <1>2, SameMemory DEF TidyInv, BatchesOrdered
<1> QED
  BY <1>1, <1>3, SameMemory, SameSaved DEF TidyInv

LEMMA NextTidy ==
    ASSUME AgentAssumption, Inv, TidyInv, [Next]_vars PROVE TidyInv'
<1>1. CASE Input
  BY <1>1, StartReplyTidy, ConfirmTidy, ExternalTidy DEF Input
<1>2. CASE LoopStep
  <2>1. CASE BatchRaises
    BY <2>1, LoseTidy DEF BatchRaises
  <2>2. ASSUME NEW c \in Calls, CallStep(c) PROVE TidyInv'
    <3>1. CASE RejectCall(c)
      BY <3>1, AnswerCallTidy DEF RejectCall
    <3>2. CASE DenyCall(c)
      BY <3>2, AnswerCallTidy DEF DenyCall
    <3>3. CASE ToolReturns(c)
      BY <3>3, AnswerCallTidy DEF ToolReturns
    <3> QED
      BY <2>2, <3>1, <3>2, <3>3, HandOutTidy, RunToolTidy DEF CallStep
  <2>3. ASSUME NEW m \in DOMAIN context, NEW k \in Reserves, Compress(m, k)
        PROVE  TidyInv'
    BY <2>3, CompressTidy
  <2>4. ASSUME NEW s \in Orders(Calls), Propose(s) PROVE TidyInv'
    BY <2>4, ProposeTidy
  <2> QED
    BY <1>2, <2>1, <2>2, <2>3, <2>4, LoopTidy, AnswerTidy, StartBatchTidy
       DEF LoopStep
<1>3. CASE ReplyRaises
  BY <1>3, LoseTidy DEF ReplyRaises
<1>4. ASSUME NEW c \in Calls, CallRaises(c) PROVE TidyInv'
  BY <1>4, CallRaisesTidy
<1>5. CASE UNCHANGED vars
  BY <1>5, StutterTidy
<1> QED
  BY <1>1, <1>2, <1>3, <1>4, <1>5 DEF Next

THEOREM TidyInvariance == Spec => []TidyInv
<1>1. Init => TidyInv
  BY InitTidy
<1>2. Inv /\ TidyInv /\ [Next]_vars => TidyInv'
  BY NextTidy, AgentAssumption
<1> QED
  BY <1>1, <1>2, Invariance, PTL DEF Spec

------------------------------------------------------------------------------
(* Theorems about what a reply leaves behind *)

(* _reply_impl and _check_next_action: a reply returns with calls that     *)
(* could run only if others wait for the outside or its iterations are     *)
(* used up, whatever the batches and their failures were.                  *)
THEOREM RestIsExplained == Spec => []NothingForgotten
<1>1. TidyInv => NothingForgotten
  BY ReadyAndWaiting
     DEF TidyInv, Tidy, AtRest, Snapshot, NothingForgotten
<1> QED
  BY <1>1, TidyInvariance, PTL

(* _group_tool_calls: a call that is not concurrency-safe runs when        *)
(* everything proposed before it is answered or waits, and runs alone.     *)
THEOREM BatchesInOrder == Spec => []SequentialInOrder
<1>1. TidyInv => SequentialInOrder
  BY ReadyAndWaiting
     DEF TidyInv, Tidy, BatchesOrdered, SequentialInOrder
<1> QED
  BY <1>1, TidyInvariance, PTL

(* Whenever _reasoning_impl calls the model, every tool call of every      *)
(* message has its result, except one confirmed after the last iteration;  *)
(* compression, failures and later replies open no other gap.              *)
THEOREM ModelSeesAnswers == Spec => []AnsweredBeforeModel
<1>1. ASSUME Inv, TidyInv, pc = "think", NEW m \in DOMAIN context,
             NEW c \in Unanswered(context[m].blocks)
      PROVE  consent[c] = "late"
  <2>1. CASE IsLast(context, m)
    <3>1. context[m].blocks = LastOf(context)
      BY <1>1, <2>1, LastOfMessages DEF IsLast, Inv, TypeOK
    <3>2. c \in CallsIn(LastOf(context)) /\ c \in Calls
      BY <1>1, <3>1, LastOfType DEF Unanswered, Inv, TypeOK
    <3>3. state[c] \notin {"none", "finished"}
      BY <1>1, <3>1 DEF TidyInv, Tidy, Accounted, Unanswered, Snapshot
    <3>4. state[c] \notin {"pending", "allowed", "asking", "submitted"}
      BY <1>1, <3>2 DEF TidyInv, Ready, Waiting, Snapshot
    <3> QED
      BY <1>1, <3>2, <3>3, <3>4 DEF Inv, TypeOK, ToolCallState
  <2>2. CASE ~IsLast(context, m)
    BY <1>1, <2>2 DEF TidyInv, Tidy, EarlierAnswered, Late, Snapshot
  <2> QED
    BY <2>1, <2>2
<1>2. Inv /\ TidyInv => AnsweredBeforeModel
  BY <1>1 DEF AnsweredBeforeModel, Unanswered
<1> QED
  BY <1>2, Invariance, TidyInvariance, PTL

------------------------------------------------------------------------------
(* Tool calls and results stay pairs *)

(***************************************************************************)
(* The two halves of a pair, for the calls C: no block is a second result, *)
(* and no result is without its call before it.  Only an event from        *)
(* outside can break the first one, and only a cut the second one.         *)
(***************************************************************************)
OneResult(C, bs) ==
    \A i, j \in DOMAIN bs :
        /\ bs[i].type = "result" /\ bs[j].type = "result"
        /\ bs[i].id = bs[j].id /\ bs[i].id \in C
        => i = j

CallBefore(C, bs) ==
    \A j \in DOMAIN bs : bs[j].type = "result" /\ bs[j].id \in C =>
        \E i \in DOMAIN bs : i < j /\ bs[i].type = "call" /\ bs[i].id = bs[j].id

(* Nothing but text is between a call and its result. *)
InTurn(bs) ==
    \A i, j \in DOMAIN bs :
        i < j /\ bs[i].type = "call" /\ bs[j].type # "text" /\ bs[j].id # bs[i].id =>
            \E h \in DOMAIN bs :
                i < h /\ h < j /\ bs[h].type = "result" /\ bs[h].id = bs[i].id

OnceAnswered(C, ctx) == \A m \in DOMAIN ctx : OneResult(C, ctx[m].blocks)
Called(C, ctx) == \A m \in DOMAIN ctx : CallBefore(C, ctx[m].blocks)
TakenInTurn(ctx) ==
    /\ \A m \in DOMAIN ctx : InTurn(ctx[m].blocks)
    /\ \A c, d \in Unanswered(LastOf(ctx)) : c = d

(* Each of the calls C is named once in s, ... *)
Once(C, s) == \A i, j \in DOMAIN s : s[i] = s[j] /\ s[i] \in C => i = j

(* ... and so it is in the event from outside that this step takes. *)
NamedOnce(C) ==
    \A s \in BoundedSeq(Submitted, MaxResults) : ExternalResults(s) => Once(C, s)

(* What a step adds: results of unanswered calls, or calls not known yet. *)
Answers(C, cs, S) ==
    \E s \in Seq(S) : Once(C, s) /\ cs = [i \in DOMAIN s |-> Result(s[i])]
Proposals(cs, s) == cs = [i \in DOMAIN s |-> Call(s[i])]

(* Everything a step may do to the context and to what is persisted of it. *)
Grows(C) ==
    \/ context' = context
    \/ context' = saved.context
    \/ context' = Append(context, UserMsg)
    \/ SaveToContext(<<Text>>)
    \/ \E cs \in Seq(Block) :
         SaveToContext(cs) /\ Answers(C, cs, Unanswered(LastOf(context)))
    \/ \E s \in Orders(Calls), cs \in Seq(Block) :
         /\ Propose(s)
         /\ SaveToContext(cs) /\ Proposals(cs, s)
    \/ \E m \in DOMAIN context, k \in Reserves : Compress(m, k)

LEMMA ContextGrows ==
    ASSUME NEW C, Inv, TidyInv, [Next]_vars, NamedOnce(C)
    PROVE  /\ Grows(C)
           /\ saved'.context = saved.context \/ saved'.context = context'
<1>0. /\ context \in Seq(Message) /\ saved \in Memory
      /\ Accounted(Snapshot)
      /\ CallsIn(LastOf(context)) \subseteq Calls
      /\ LastOf(context) \in Seq(Block)
  BY LastOfType DEF Inv, TypeOK, TidyInv, Tidy
<1>1. /\ \A c \in ResultsIn(LastOf(context)) : state[c] = "finished"
      /\ \A c \in CallsIn(LastOf(context)) :
           state[c] # "finished" => c \in Unanswered(LastOf(context))
  BY <1>0 DEF Accounted, Snapshot, Unanswered
<1>2. ASSUME NEW S \in SUBSET Unanswered(LastOf(context)), NEW s \in Seq(S),
             Once(C, s), NEW bs, bs = [i \in DOMAIN s |-> Result(s[i])]
      PROVE  bs \in Seq(Block) /\ Answers(C, bs, Unanswered(LastOf(context)))
  <2>1. S \in SUBSET Calls
    BY <1>0 DEF Unanswered
  <2>2. bs \in Seq(Block)
    BY <1>2, <2>1, ResultBlocks
  <2>3. s \in Seq(Unanswered(LastOf(context)))
    BY SeqMonotonic
  <2> QED
    BY <1>2, <2>2, <2>3 DEF Answers
<1>3. ASSUME NEW c \in Calls, task[c] \in {"started", "running"}, AnswerCall(c)
      PROVE  Grows(C)
  <2>1. c \in Unanswered(LastOf(context))
    BY <1>1, <1>3 DEF Inv, BatchSound
  <2> DEFINE s == <<c>>
             bs == <<Result(c)>>
  <2>2. bs \in Seq(Block)
    BY DEF Result, Block
  <2>3. s \in Seq(Unanswered(LastOf(context))) /\ Once(C, s)
    BY <2>1 DEF Once
  <2>4. bs = [i \in DOMAIN s |-> Result(s[i])]
    OBVIOUS
  <2> QED
    BY <1>3, <2>2, <2>3, <2>4 DEF Answers, Grows, AnswerCall
<1>4. CASE StartReply
  BY <1>4 DEF StartReply, Grows
<1>5. ASSUME NEW yes \in SUBSET Asking, NEW denied \in Orders(Asking),
             ConfirmCalls(yes, denied)
      PROVE  Grows(C) /\ saved' = saved
  <2> DEFINE bs == [i \in DOMAIN denied |-> Result(denied[i])]
  <2>1. Asking \subseteq Unanswered(LastOf(context))
    BY <1>1, LastBlocksIsLastOf DEF Asking
  <2>2. bs \in Seq(Block) /\ Answers(C, bs, Unanswered(LastOf(context)))
    <3>1. denied \in Seq(Asking) /\ Once(C, denied)
      BY OrdersType DEF Orders, IsInjective, Once
    <3> QED
      BY <1>2, <2>1, <3>1
  <2>3. SaveToContext(bs) /\ saved' = saved
    BY <1>5 DEF ConfirmCalls
  <2> QED
    BY <2>2, <2>3 DEF Grows
<1>6. ASSUME NEW s \in BoundedSeq(Submitted, MaxResults), ExternalResults(s)
      PROVE  Grows(C) /\ saved' = saved
  <2> DEFINE bs == [i \in DOMAIN s |-> Result(s[i])]
  <2>1. Submitted \subseteq Unanswered(LastOf(context))
    BY LastBlocksIsLastOf DEF Submitted, Unfinished, Unanswered
  <2>2. bs \in Seq(Block) /\ Answers(C, bs, Unanswered(LastOf(context)))
    <3>1. s \in Seq(Submitted) /\ Once(C, s)
      BY <1>6, BoundedType, AgentAssumption DEF AgentAssumption, NamedOnce
    <3> QED
      BY <1>2, <2>1, <3>1
  <2>3. SaveToContext(bs) /\ saved' = saved
    BY <1>6 DEF ExternalResults
  <2> QED
    BY <2>2, <2>3 DEF Grows
<1>7. ASSUME NEW s \in Orders(Calls), Propose(s)
      PROVE  Grows(C) /\ saved' = saved
  <2> DEFINE bs == [i \in DOMAIN s |-> Call(s[i])]
  <2>1. bs \in Seq(Block)
    BY CallBlocks
  <2>2. SaveToContext(bs) /\ saved' = saved
    BY <1>7 DEF Propose
  <2> QED
    BY <1>7, <2>1, <2>2 DEF Grows, Proposals
<1>8. CASE Lose
  BY <1>8 DEF Lose, Grows
<1>9. ASSUME NEW c \in Calls, CallStep(c)
      PROVE  Grows(C) /\ saved' = saved
  <2>1. CASE RejectCall(c)
    BY <1>3, <2>1 DEF RejectCall
  <2>2. CASE DenyCall(c)
    BY <1>3, <2>2 DEF DenyCall
  <2>3. CASE ToolReturns(c)
    BY <1>3, <2>3 DEF ToolReturns
  <2>4. CASE AskUser(c) \/ SubmitCall(c) \/ RunTool(c)
    BY <2>4 DEF AskUser, SubmitCall, RunTool, Grows
  <2> QED
    BY <1>9, <2>1, <2>2, <2>3, <2>4 DEF CallStep
<1>10. ASSUME NEW m \in DOMAIN context, NEW k \in Reserves, Compress(m, k)
       PROVE  Grows(C) /\ saved' = saved
  <2>1. saved' = saved
    BY <1>10 DEF Compress
  <2> QED
    BY <1>10, <2>1 DEF Grows
<1>11. CASE Answer
  <2>1. SaveToContext(<<Text>>) /\ saved' = [Snapshot EXCEPT !.context = context']
    BY <1>11 DEF Answer, Return
  <2> QED
    BY <2>1 DEF Grows, Snapshot
<1>12. CASE \/ ExceedMaxIters \/ Wait \/ GoReason \/ GoAct \/ SkipCompression
            \/ StartBatch \/ StopForOutside \/ NextIteration
  <2>1. context' = context
    BY <1>12 DEF ExceedMaxIters, Wait, GoReason, GoAct, SkipCompression, memory,
                 StartBatch, StopForOutside, NextIteration
  <2>2. saved' = saved \/ saved' = Snapshot
    BY <1>12 DEF ExceedMaxIters, Wait, GoReason, GoAct, SkipCompression, Return,
                 StartBatch, StopForOutside, NextIteration
  <2> QED
    BY <2>1, <2>2 DEF Grows, Snapshot
<1>13. CASE ReplyRaises \/ BatchRaises
  BY <1>8, <1>13 DEF ReplyRaises, BatchRaises, Lose
<1>14. CASE (\E c \in Calls : CallRaises(c)) \/ UNCHANGED vars
  BY <1>14 DEF CallRaises, vars, memory, Grows
<1>15. CASE Input
  BY <1>4, <1>5, <1>6, <1>15 DEF Input, StartReply
<1>16. CASE LoopStep
  BY <1>7, <1>9, <1>10, <1>11, <1>12, <1>13, <1>16 DEF LoopStep
<1> QED
  BY <1>13, <1>14, <1>15, <1>16 DEF Next

(* The blocks of a message with others behind it, by their places. *)
LEMMA ConcatPlaces ==
    ASSUME NEW bs \in Seq(Block), NEW cs \in Seq(Block)
    PROVE  /\ Len(bs) \in Nat /\ DOMAIN bs = 1..Len(bs) /\ DOMAIN (bs \o cs) \subseteq Nat
           /\ DOMAIN cs = 1..Len(cs) /\ Len(cs) \in Nat
           /\ \A i \in DOMAIN bs : i \in DOMAIN (bs \o cs) /\ (bs \o cs)[i] = bs[i]
           /\ \A i \in DOMAIN cs :
                /\ Len(bs) + i \in DOMAIN (bs \o cs)
                /\ (bs \o cs)[Len(bs) + i] = cs[i]
           /\ \A i \in DOMAIN (bs \o cs) :
                \/ i \in DOMAIN bs /\ (bs \o cs)[i] = bs[i]
                \/ /\ i - Len(bs) \in DOMAIN cs /\ i > Len(bs)
                   /\ (bs \o cs)[i] = cs[i - Len(bs)]
<1>1. /\ DOMAIN bs = 1..Len(bs) /\ DOMAIN cs = 1..Len(cs)
      /\ Len(bs) \in Nat /\ Len(cs) \in Nat
      /\ DOMAIN (bs \o cs) = 1..(Len(bs) + Len(cs))
  BY LenProperties, ConcatProperties
<1>2. \A i \in 1..(Len(bs) + Len(cs)) :
        (bs \o cs)[i] = IF i <= Len(bs) THEN bs[i] ELSE cs[i - Len(bs)]
  BY ConcatProperties
<1>3. ASSUME NEW i \in DOMAIN (bs \o cs)
      PROVE  \/ i \in DOMAIN bs /\ (bs \o cs)[i] = bs[i]
             \/ /\ i - Len(bs) \in DOMAIN cs /\ i > Len(bs)
                /\ (bs \o cs)[i] = cs[i - Len(bs)]
  <2>1. CASE i <= Len(bs)
    BY <1>1, <1>2, <1>3, <2>1
  <2>2. CASE i > Len(bs)
    BY <1>1, <1>2, <1>3, <2>2
  <2> QED
    BY <1>1, <2>1, <2>2
<1>4. ASSUME NEW i \in DOMAIN cs
      PROVE  Len(bs) + i \in DOMAIN (bs \o cs) /\ (bs \o cs)[Len(bs) + i] = cs[i]
  <2>1. Len(bs) + i \in 1..(Len(bs) + Len(cs)) /\ ~ (Len(bs) + i <= Len(bs))
    BY <1>1
  <2>2. (Len(bs) + i) - Len(bs) = i
    BY <1>1
  <2> QED
    BY <1>1, <1>2, <2>1, <2>2
<1>5. \A i \in DOMAIN bs : i \in DOMAIN (bs \o cs) /\ (bs \o cs)[i] = bs[i]
  BY <1>1, <1>2
<1> QED
  BY <1>1, <1>3, <1>4, <1>5

LEMMA OneResultConcat ==
    ASSUME NEW C, NEW bs \in Seq(Block), NEW cs \in Seq(Block),
           OneResult(C, bs), OneResult(C, cs), ResultsIn(bs) \cap ResultsIn(cs) = {}
    PROVE  OneResult(C, bs \o cs)
<1>1. SUFFICES ASSUME NEW i \in DOMAIN (bs \o cs), NEW j \in DOMAIN (bs \o cs),
                      (bs \o cs)[i].type = "result",
                      (bs \o cs)[j].type = "result",
                      (bs \o cs)[i].id = (bs \o cs)[j].id,
                      (bs \o cs)[i].id \in C
               PROVE  i = j
  BY DEF OneResult
<1>2. \A h \in DOMAIN bs : bs[h].type = "result" => bs[h].id \in ResultsIn(bs)
  BY DEF ResultsIn
<1>3. \A h \in DOMAIN cs : cs[h].type = "result" => cs[h].id \in ResultsIn(cs)
  BY DEF ResultsIn
<1>4. CASE i \in DOMAIN bs /\ j \in DOMAIN bs
  BY <1>1, <1>4, ConcatPlaces DEF OneResult
<1>5. CASE i > Len(bs) /\ j > Len(bs)
  <2>1. /\ i - Len(bs) \in DOMAIN cs /\ (bs \o cs)[i] = cs[i - Len(bs)]
        /\ j - Len(bs) \in DOMAIN cs /\ (bs \o cs)[j] = cs[j - Len(bs)]
    BY <1>5, ConcatPlaces
  <2>2. i - Len(bs) = j - Len(bs)
    BY <1>1, <2>1 DEF OneResult
  <2> QED
    BY <2>2, ConcatPlaces
<1> QED
  BY <1>1, <1>2, <1>3, <1>4, <1>5, ConcatPlaces

LEMMA CallBeforeConcat ==
    ASSUME NEW C, NEW bs \in Seq(Block), NEW cs \in Seq(Block),
           CallBefore(C, bs), ResultsIn(cs) \subseteq CallsIn(bs)
    PROVE  CallBefore(C, bs \o cs)
<1>1. SUFFICES ASSUME NEW j \in DOMAIN (bs \o cs), (bs \o cs)[j].type = "result",
                      (bs \o cs)[j].id \in C
               PROVE  \E i \in DOMAIN (bs \o cs) :
                        /\ i < j /\ (bs \o cs)[i].type = "call"
                        /\ (bs \o cs)[i].id = (bs \o cs)[j].id
  BY DEF CallBefore
<1>2. CASE j \in DOMAIN bs
  <2>1. (bs \o cs)[j] = bs[j]
    BY <1>2, ConcatPlaces
  <2>2. PICK i \in DOMAIN bs : i < j /\ bs[i].type = "call" /\ bs[i].id = bs[j].id
    BY <1>1, <1>2, <2>1 DEF CallBefore
  <2>3. i \in DOMAIN (bs \o cs) /\ (bs \o cs)[i] = bs[i]
    BY ConcatPlaces
  <2> QED
    BY <2>1, <2>2, <2>3
<1>3. CASE j - Len(bs) \in DOMAIN cs /\ (bs \o cs)[j] = cs[j - Len(bs)] /\ j > Len(bs)
  <2>1. (bs \o cs)[j].id \in ResultsIn(cs)
    BY <1>1, <1>3 DEF ResultsIn
  <2>2. PICK i \in DOMAIN bs : bs[i].type = "call" /\ bs[i].id = (bs \o cs)[j].id
    BY <2>1 DEF CallsIn
  <2>3. i \in DOMAIN (bs \o cs) /\ (bs \o cs)[i] = bs[i] /\ i < j
    BY <1>3, ConcatPlaces
  <2> QED
    BY <2>2, <2>3
<1> QED
  BY <1>1, <1>2, <1>3, ConcatPlaces

LEMMA InTurnConcat ==
    ASSUME NEW bs \in Seq(Block), NEW cs \in Seq(Block),
           InTurn(bs), CallsFirst(bs), InTurn(cs),
           \A c \in Unanswered(bs) : \A j \in DOMAIN cs :
               cs[j].type = "text" \/ cs[j].id = c
    PROVE  InTurn(bs \o cs)
<1>1. SUFFICES ASSUME NEW i \in DOMAIN (bs \o cs), NEW j \in DOMAIN (bs \o cs),
                      i < j, (bs \o cs)[i].type = "call",
                      (bs \o cs)[j].type # "text",
                      (bs \o cs)[j].id # (bs \o cs)[i].id
               PROVE  \E h \in DOMAIN (bs \o cs) :
                        /\ i < h /\ h < j /\ (bs \o cs)[h].type = "result"
                        /\ (bs \o cs)[h].id = (bs \o cs)[i].id
  BY DEF InTurn
<1>2. CASE j \in DOMAIN bs
  <2>1. i \in DOMAIN bs /\ (bs \o cs)[i] = bs[i] /\ (bs \o cs)[j] = bs[j]
    BY <1>1, <1>2, ConcatPlaces
  <2>2. PICK h \in DOMAIN bs :
          i < h /\ h < j /\ bs[h].type = "result" /\ bs[h].id = bs[i].id
    BY <1>1, <1>2, <2>1 DEF InTurn
  <2>3. h \in DOMAIN (bs \o cs) /\ (bs \o cs)[h] = bs[h]
    BY ConcatPlaces
  <2> QED
    BY <2>1, <2>2, <2>3
<1>3. CASE i \in DOMAIN bs /\ j > Len(bs)
  <2>1. /\ (bs \o cs)[i] = bs[i]
        /\ j - Len(bs) \in DOMAIN cs /\ (bs \o cs)[j] = cs[j - Len(bs)]
    BY <1>3, ConcatPlaces
  <2>2. bs[i].id \in CallsIn(bs)
    BY <1>1, <1>3, <2>1 DEF CallsIn
  <2>3. bs[i].id \in ResultsIn(bs)
    BY <1>1, <2>1, <2>2 DEF Unanswered
  <2>4. PICK h \in DOMAIN bs : bs[h].type = "result" /\ bs[h].id = bs[i].id
    BY <2>3 DEF ResultsIn
  <2>5. i < h
    BY <1>1, <1>3, <2>1, <2>4 DEF CallsFirst
  <2>6. h \in DOMAIN (bs \o cs) /\ (bs \o cs)[h] = bs[h] /\ h < j
    BY <1>3, ConcatPlaces
  <2> QED
    BY <2>1, <2>4, <2>5, <2>6
<1>4. CASE i > Len(bs) /\ j > Len(bs)
  <2> DEFINE x == i - Len(bs)
             y == j - Len(bs)
  <2>1. /\ x \in DOMAIN cs /\ (bs \o cs)[i] = cs[x]
        /\ y \in DOMAIN cs /\ (bs \o cs)[j] = cs[y] /\ x < y
        /\ i = Len(bs) + x /\ j = Len(bs) + y
    BY <1>1, <1>4, ConcatPlaces
  <2>2. PICK h \in DOMAIN cs :
          x < h /\ h < y /\ cs[h].type = "result" /\ cs[h].id = cs[x].id
    BY <1>1, <2>1 DEF InTurn
  <2>3. Len(bs) + h \in DOMAIN (bs \o cs) /\ (bs \o cs)[Len(bs) + h] = cs[h]
    BY ConcatPlaces
  <2>4. i < Len(bs) + h /\ Len(bs) + h < j
    <3>1. x \in Nat /\ y \in Nat /\ h \in Nat /\ Len(bs) \in Nat
      BY <2>1, ConcatPlaces
    <3> QED
      BY <2>1, <2>2, <3>1
  <2> QED
    BY <2>1, <2>2, <2>3, <2>4
<1> QED
  BY <1>1, <1>2, <1>3, <1>4, ConcatPlaces

(* A stretch of a message, by its places. *)
LEMMA StretchPlaces ==
    ASSUME NEW bs \in Seq(Block), NEW a \in 1..(Len(bs) + 1), NEW b \in 0..Len(bs),
           a <= b + 1
    PROVE  /\ SubSeq(bs, a, b) \in Seq(Block)
           /\ Len(bs) \in Nat /\ DOMAIN bs = 1..Len(bs)
           /\ DOMAIN SubSeq(bs, a, b) = 1..(b - a + 1)
           /\ \A i \in 1..(b - a + 1) : SubSeq(bs, a, b)[i] = bs[a + i - 1]
           /\ \A i \in a..b : /\ i - a + 1 \in DOMAIN SubSeq(bs, a, b)
                              /\ SubSeq(bs, a, b)[i - a + 1] = bs[i]
<1> DEFINE part == SubSeq(bs, a, b)
<1>1. DOMAIN bs = 1..Len(bs) /\ Len(bs) \in Nat
  BY LenProperties
<1>2. \A i \in a..b : bs[i] \in Block
  BY <1>1, ElementOfSeq
<1>3. /\ part \in Seq(Block) /\ Len(part) = b - a + 1
      /\ \A i \in 1..(b - a + 1) : part[i] = bs[a + i - 1]
  BY <1>1, <1>2, SubSeqProperties
<1>4. DOMAIN part = 1..(b - a + 1)
  BY <1>3, LenProperties
<1>5. ASSUME NEW i \in a..b
      PROVE  i - a + 1 \in DOMAIN part /\ part[i - a + 1] = bs[i]
  <2>1. i - a + 1 \in 1..(b - a + 1) /\ a + (i - a + 1) - 1 = i
    BY <1>1
  <2> QED
    BY <1>3, <1>4, <2>1
<1> QED
  BY <1>1, <1>3, <1>4, <1>5

LEMMA CallsOfStretch ==
    ASSUME NEW bs \in Seq(Block), NEW a \in 1..(Len(bs) + 1), NEW b \in 0..Len(bs),
           a <= b + 1, NEW c
    PROVE  /\ c \in CallsIn(SubSeq(bs, a, b)) <=>
                \E i \in a..b : bs[i].type = "call" /\ bs[i].id = c
           /\ c \in ResultsIn(SubSeq(bs, a, b)) <=>
                \E i \in a..b : bs[i].type = "result" /\ bs[i].id = c
<1> DEFINE part == SubSeq(bs, a, b)
<1>1. \A i \in DOMAIN part : a + i - 1 \in a..b /\ part[i] = bs[a + i - 1]
  BY StretchPlaces
<1>2. \A i \in a..b : i - a + 1 \in DOMAIN part /\ part[i - a + 1] = bs[i]
  BY StretchPlaces
<1> HIDE DEF part
<1>3. ASSUME NEW type,
             c \in {part[i].id : i \in {j \in DOMAIN part : part[j].type = type}}
      PROVE  \E i \in a..b : bs[i].type = type /\ bs[i].id = c
  BY <1>1, <1>3
<1>4. ASSUME NEW type, NEW i \in a..b, bs[i].type = type, bs[i].id = c
      PROVE  c \in {part[h].id : h \in {j \in DOMAIN part : part[j].type = type}}
  BY <1>2, <1>4
<1>5. c \in CallsIn(part) <=> \E i \in a..b : bs[i].type = "call" /\ bs[i].id = c
  BY <1>3, <1>4, Zenon DEF CallsIn
<1>6. c \in ResultsIn(part) <=>
        \E i \in a..b : bs[i].type = "result" /\ bs[i].id = c
  BY <1>3, <1>4, Zenon DEF ResultsIn
<1> QED
  BY <1>5, <1>6 DEF part

LEMMA SuffixInTurn ==
    ASSUME NEW C, NEW bs \in Seq(Block), NEW a \in 1..(Len(bs) + 1),
           NEW kept, kept = SubSeq(bs, a, Len(bs))
    PROVE  /\ OneResult(C, bs) => OneResult(C, kept)
           /\ InTurn(bs) => InTurn(kept)
<1>1. /\ Len(bs) \in Nat /\ DOMAIN bs = 1..Len(bs)
      /\ DOMAIN kept = 1..(Len(bs) - a + 1)
      /\ \A i \in DOMAIN kept : a + i - 1 \in DOMAIN bs /\ kept[i] = bs[a + i - 1]
      /\ \A i \in a..Len(bs) : /\ i - a + 1 \in DOMAIN kept
                              /\ kept[i - a + 1] = bs[i]
  <2>1. Len(bs) \in 0..Len(bs) /\ a <= Len(bs) + 1
    BY LenProperties
  <2> QED
    BY <2>1, StretchPlaces
<1>2. ASSUME OneResult(C, bs), NEW i \in DOMAIN kept, NEW j \in DOMAIN kept,
             kept[i].type = "result", kept[j].type = "result",
             kept[i].id = kept[j].id, kept[i].id \in C
      PROVE  i = j
  <2> DEFINE x == a + i - 1
             y == a + j - 1
  <2>1. /\ x \in DOMAIN bs /\ y \in DOMAIN bs
        /\ bs[x] = kept[i] /\ bs[y] = kept[j]
    BY <1>1
  <2> HIDE DEF x, y
  <2>2. x = y
    BY <1>2, <2>1 DEF OneResult
  <2>3. i \in Int /\ j \in Int /\ a \in Int
    BY <1>1
  <2> QED
    BY <2>2, <2>3 DEF x, y
<1>3. ASSUME InTurn(bs), NEW i \in DOMAIN kept, NEW j \in DOMAIN kept, i < j,
             kept[i].type = "call", kept[j].type # "text",
             kept[j].id # kept[i].id
      PROVE  \E h \in DOMAIN kept :
               i < h /\ h < j /\ kept[h].type = "result" /\ kept[h].id = kept[i].id
  <2> DEFINE x == a + i - 1
             y == a + j - 1
  <2>1. /\ x < y /\ x \in DOMAIN bs /\ y \in DOMAIN bs
        /\ bs[x] = kept[i] /\ bs[y] = kept[j]
    BY <1>1, <1>3
  <2> HIDE DEF x, y
  <2>2. PICK h \in DOMAIN bs :
          x < h /\ h < y /\ bs[h].type = "result" /\ bs[h].id = bs[x].id
    <3>1. bs[x].type = "call" /\ bs[y].type # "text" /\ bs[y].id # bs[x].id
      BY <1>3, <2>1
    <3> QED
      BY <1>3, <2>1, <3>1, Zenon DEF InTurn
  <2>3. h \in a..Len(bs) /\ i < h - a + 1 /\ h - a + 1 < j
    <3>1. /\ h \in 1..Len(bs) /\ Len(bs) \in Nat
          /\ i \in Nat \ {0} /\ j \in Nat \ {0} /\ a \in Nat \ {0}
      BY <1>1
    <3> QED
      BY <2>2, <3>1 DEF x, y
  <2>4. h - a + 1 \in DOMAIN kept /\ kept[h - a + 1] = bs[h]
    BY <1>1, <2>3
  <2> QED
    BY <2>1, <2>2, <2>3, <2>4
<1> QED
  BY <1>2, <1>3 DEF OneResult, InTurn

(***************************************************************************)
(* _split_context_for_compression looks for results whose call is not in   *)
(* the counted blocks and cuts behind the last of them.  What it overlooks *)
(* is a call that is counted but before that cut, its result behind it,    *)
(* and of several results of one call all but the first.                   *)
(***************************************************************************)
LEMMA CutStraddlesPair ==
    ASSUME NEW C, NEW bs \in Seq(Block), NEW k \in Nat, k <= Len(bs),
           OneResult(C, bs), ~ CallBefore(C, Reserved(bs, k))
    PROVE  \E h, i, j \in DOMAIN bs :
              /\ Len(bs) - k + 1 <= h /\ h < i /\ i < j
              /\ bs[h].type = "call" /\ bs[i].type = "result"
              /\ bs[j].type = "result" /\ bs[j].id = bs[h].id /\ bs[j].id \in C
<1> DEFINE first == Len(bs) - k + 1
           orphans == Orphans(bs, first)
           last == IF orphans = {} THEN first - 1
                   ELSE CHOOSE i \in orphans : \A j \in orphans : j <= i
           kept == Reserved(bs, k)
<1>1. /\ Len(bs) \in Nat /\ first \in 1..(Len(bs) + 1)
      /\ DOMAIN bs = 1..Len(bs)
  BY LenProperties
<1>2. orphans \subseteq first..Len(bs) /\ orphans \subseteq 1..Len(bs)
  BY <1>1 DEF Orphans
<1>3. /\ last \in (first - 1)..Len(bs)
      /\ orphans # {} => last \in orphans
      /\ \A i \in orphans : i <= last
  <2>1. CASE orphans = {}
    BY <1>1, <2>1
  <2>2. CASE orphans # {}
    <3>1. \E i \in orphans : \A j \in orphans : j <= i
      BY <1>1, <1>2, <2>2, LastPosition
    <3>2. last \in orphans /\ \A j \in orphans : j <= last
      BY <2>2, <3>1
    <3> HIDE DEF last, orphans
    <3> QED
      BY <1>1, <1>2, <3>2
  <2> QED
    BY <2>1, <2>2
<1>4. kept = SubSeq(bs, last + 1, Len(bs))
  BY DEF Reserved
<1>5. \A i \in orphans : i \in DOMAIN bs /\ bs[i].type = "result"
  BY <1>1, <1>2 DEF Orphans
<1> HIDE DEF last, kept
<1>6. /\ DOMAIN kept = 1..(Len(bs) - last)
      /\ \A i \in 1..(Len(bs) - last) : kept[i] = bs[last + i]
      /\ \A i \in (last + 1)..Len(bs) :
           i - last \in DOMAIN kept /\ kept[i - last] = bs[i]
  <2> DEFINE a == last + 1
  <2>1. /\ a \in 1..(Len(bs) + 1) /\ Len(bs) \in 0..Len(bs) /\ a <= Len(bs) + 1
        /\ last \in Nat
    BY <1>1, <1>3
  <2> HIDE DEF a
  <2>2. /\ DOMAIN SubSeq(bs, a, Len(bs)) = 1..(Len(bs) - a + 1)
        /\ \A i \in 1..(Len(bs) - a + 1) :
             SubSeq(bs, a, Len(bs))[i] = bs[a + i - 1]
        /\ \A i \in a..Len(bs) :
             /\ i - a + 1 \in DOMAIN SubSeq(bs, a, Len(bs))
             /\ SubSeq(bs, a, Len(bs))[i - a + 1] = bs[i]
    BY <2>1, StretchPlaces
  <2>3. /\ Len(bs) - a + 1 = Len(bs) - last
        /\ \A i \in Int : a + i - 1 = last + i /\ i - a + 1 = i - last
    BY <1>1, <2>1 DEF a
  <2> QED
    BY <1>1, <1>4, <2>1, <2>2, <2>3 DEF a
<1>7. PICK x \in DOMAIN kept :
        /\ kept[x].type = "result" /\ kept[x].id \in C
        /\ \A i \in DOMAIN kept :
             ~ (i < x /\ kept[i].type = "call" /\ kept[i].id = kept[x].id)
  BY DEF kept, CallBefore
<1> DEFINE j == last + x
<1>8. /\ j \in DOMAIN bs /\ last < j /\ j \in first..Len(bs)
      /\ bs[j] = kept[x] /\ bs[j].type = "result" /\ bs[j].id \in C
  BY <1>1, <1>3, <1>6, <1>7
<1>9. j \notin orphans
  BY <1>2, <1>3, <1>8
<1>10. PICK h \in first..j : bs[h].type = "call" /\ bs[h].id = bs[j].id
  <2> DEFINE n == j - 1
  <2>1. \/ bs[j].id \in CallsIn(SubSeq(bs, first, j))
        \/ bs[j].id \in ResultsIn(SubSeq(bs, first, n))
    BY <1>8, <1>9 DEF Orphans
  <2>2. /\ j \in 0..Len(bs) /\ first <= j + 1
        /\ n \in 0..Len(bs) /\ first <= n + 1
        /\ \A i \in first..n : i \in DOMAIN bs /\ i # j
    BY <1>1, <1>8
  <2> HIDE DEF first, j, n
  <2>3. bs[j].id \notin ResultsIn(SubSeq(bs, first, n))
    <3>1. \A i \in first..n : ~ (bs[i].type = "result" /\ bs[i].id = bs[j].id)
      BY <1>8, <2>2 DEF OneResult
    <3> QED
      BY <1>1, <2>2, <3>1, CallsOfStretch
  <2> QED
    BY <1>1, <2>1, <2>2, <2>3, CallsOfStretch
<1>11. h # j /\ h < j
  BY <1>1, <1>8, <1>10
<1>12. h <= last
  <2>1. SUFFICES ASSUME h > last PROVE FALSE
    BY <1>1, <1>3, <1>10
  <2>2. h \in (last + 1)..Len(bs) /\ h - last < x
    BY <1>1, <1>3, <1>6, <1>8, <1>10, <1>11, <2>1
  <2>3. h - last \in DOMAIN kept /\ kept[h - last] = bs[h]
    BY <1>6, <2>2
  <2> QED
    BY <1>7, <1>8, <1>10, <2>2, <2>3
<1>13. last \in orphans
  <2>1. last # first - 1
    BY <1>1, <1>10, <1>12
  <2> QED
    BY <1>3, <2>1 DEF last
<1>14. last \in DOMAIN bs /\ bs[last].type = "result" /\ h # last
  BY <1>5, <1>10, <1>13
<1>15. h \in DOMAIN bs /\ h < last
  BY <1>1, <1>10, <1>12, <1>14
<1> QED
  BY <1>8, <1>10, <1>14, <1>15

(* ... so a message whose calls are taken in turn is never cut so, ... *)
LEMMA InTurnCut ==
    ASSUME NEW C, NEW bs \in Seq(Block), OneResult(C, bs), InTurn(bs),
           NEW k \in Nat, k <= Len(bs)
    PROVE  CallBefore(C, Reserved(bs, k))
<1>1. SUFFICES ASSUME NEW h \in DOMAIN bs, NEW i \in DOMAIN bs, NEW j \in DOMAIN bs,
                      h < i, i < j, bs[h].type = "call",
                      bs[i].type = "result", bs[j].type = "result",
                      bs[j].id = bs[h].id, bs[j].id \in C
               PROVE  FALSE
  BY CutStraddlesPair
<1>2. \A g \in DOMAIN bs : g \in Nat
  BY LenProperties
<1>3. bs[i].id # bs[j].id
  BY <1>1, <1>2 DEF OneResult
<1>4. PICK g \in DOMAIN bs : g < i /\ bs[g].type = "result" /\ bs[g].id = bs[h].id
  BY <1>1, <1>3 DEF InTurn
<1>5. g = j
  BY <1>1, <1>4 DEF OneResult
<1> QED
  BY <1>1, <1>2, <1>4, <1>5

(* ... and none is if at most two of its blocks fit the budget. *)
LEMMA ShortCut ==
    ASSUME NEW C, NEW bs \in Seq(Block), OneResult(C, bs),
           NEW k \in 0..2, k <= Len(bs)
    PROVE  CallBefore(C, Reserved(bs, k))
<1>1. Len(bs) \in Nat /\ DOMAIN bs = 1..Len(bs)
  BY LenProperties
<1> QED
  BY <1>1, CutStraddlesPair

(* What compression leaves are messages of before, but for the cut one. *)
LEMMA CutMessages ==
    ASSUME AgentAssumption, context \in Seq(Message),
           NEW m \in DOMAIN context, NEW k \in Reserves, Compress(m, k)
    PROVE  /\ k \in Nat /\ k <= Len(context[m].blocks)
           /\ context[m].blocks \in Seq(Block)
           /\ \A n \in DOMAIN context' :
                \/ \E o \in DOMAIN context : context'[n] = context[o]
                \/ context'[n].blocks = Reserved(context[m].blocks, k)
<1> DEFINE kept == Reserved(context[m].blocks, k)
           rest == SubSeq(context, m + 1, Len(context))
           msg == [context[m] EXCEPT !.blocks = kept]
<1>1. /\ DOMAIN context = 1..Len(context) /\ Len(context) \in Nat
      /\ m \in 1..Len(context)
      /\ \A n \in DOMAIN context : context[n] \in Message
  BY LenProperties, ElementOfSeq
<1>2. /\ k \in Nat /\ k <= Len(context[m].blocks)
      /\ context[m].blocks \in Seq(Block)
  BY <1>1 DEF AgentAssumption, Compress, Message
<1>3. kept \in Seq(Block)
  BY <1>2, ReservedType
<1>4. /\ rest \in Seq(Message)
      /\ Len(rest) = Len(context) - m
      /\ \A i \in 1..(Len(context) - m) : rest[i] = context[m + i]
  BY <1>1, RestOfMessages
<1>5. msg \in Message /\ msg.blocks = kept
  <2> HIDE DEF kept
  <2> QED
    BY <1>1, <1>3 DEF Message
<1>6. context' = IF kept = <<>> THEN rest ELSE <<msg>> \o rest
  BY DEF Compress
<1> HIDE DEF kept, rest, msg
<1>7. /\ DOMAIN rest = 1..(Len(context) - m)
      /\ \A i \in DOMAIN rest : m + i \in DOMAIN context /\ rest[i] = context[m + i]
  BY <1>1, <1>4, LenProperties
<1>8. ASSUME NEW n \in DOMAIN (<<msg>> \o rest)
      PROVE  \/ (<<msg>> \o rest)[n] = msg
             \/ \E i \in DOMAIN rest : (<<msg>> \o rest)[n] = rest[i]
  <2> DEFINE new == <<msg>> \o rest
  <2>1. /\ <<msg>> \in Seq(Message) /\ Len(<<msg>>) = 1 /\ <<msg>>[1] = msg
    BY <1>5
  <2>2. /\ new \in Seq(Message) /\ Len(new) = 1 + Len(rest)
        /\ \A i \in 1..(1 + Len(rest)) :
             new[i] = IF i <= 1 THEN <<msg>>[i] ELSE rest[i - 1]
    BY <1>4, <2>1, ConcatProperties
  <2>3. DOMAIN new = 1..(1 + Len(rest))
    BY <2>2, LenProperties
  <2> HIDE DEF new
  <2>4. CASE n = 1
    BY <1>1, <1>4, <2>1, <2>2, <2>4 DEF new
  <2>5. CASE n # 1
    <3>1. n \in 1..(1 + Len(rest)) /\ ~ (n <= 1) /\ n - 1 \in DOMAIN rest
      BY <1>1, <1>4, <1>7, <1>8, <2>3, <2>5 DEF new
    <3>2. new[n] = rest[n - 1]
      BY <2>2, <3>1
    <3> QED
      BY <3>1, <3>2 DEF new
  <2> QED
    BY <2>4, <2>5
<1>9. \A n \in DOMAIN context' :
        \/ \E o \in DOMAIN context : context'[n] = context[o]
        \/ context'[n].blocks = kept
  <2>1. CASE kept = <<>>
    BY <1>6, <1>7, <2>1
  <2>2. CASE kept # <<>>
    <3>1. context' = <<msg>> \o rest
      BY <1>6, <2>2
    <3> QED
      BY <1>5, <1>7, <1>8, <3>1
  <2> QED
    BY <2>1, <2>2
<1> QED
  BY <1>2, <1>9 DEF kept

LEMMA AnswerBlocks ==
    ASSUME NEW C, NEW S \in SUBSET Calls, NEW cs \in Seq(Block), Answers(C, cs, S)
    PROVE  /\ OneResult(C, cs) /\ InTurn(cs)
           /\ CallsIn(cs) = {} /\ ResultsIn(cs) \subseteq S
           /\ \A i \in DOMAIN cs : cs[i].id \in ResultsIn(cs)
<1>1. PICK s \in Seq(S) : Once(C, s) /\ cs = [i \in DOMAIN s |-> Result(s[i])]
  BY DEF Answers
<1>2. \A i \in DOMAIN s : s[i] \in S
  BY LenProperties, ElementOfSeq
<1>3. /\ DOMAIN cs = DOMAIN s
      /\ \A i \in DOMAIN s : cs[i].type = "result" /\ cs[i].id = s[i]
  BY <1>1 DEF Result
<1>4. OneResult(C, cs)
  BY <1>1, <1>3 DEF OneResult, Once
<1>5. InTurn(cs) /\ CallsIn(cs) = {}
  BY <1>3 DEF InTurn, CallsIn
<1>6. ResultsIn(cs) \subseteq S /\ \A i \in DOMAIN cs : cs[i].id \in ResultsIn(cs)
  BY <1>2, <1>3 DEF ResultsIn
<1> QED
  BY <1>4, <1>5, <1>6

LEMMA ProposalBlocks ==
    ASSUME NEW C, NEW s \in Orders(Calls), NEW cs \in Seq(Block), Proposals(cs, s)
    PROVE  /\ OneResult(C, cs) /\ ResultsIn(cs) = {} /\ CallsIn(cs) = Range(s)
           /\ DOMAIN cs = DOMAIN s
           /\ \A i \in DOMAIN cs : cs[i].id = s[i]
<1>1. /\ DOMAIN cs = DOMAIN s
      /\ \A i \in DOMAIN s : cs[i].type = "call" /\ cs[i].id = s[i]
  BY DEF Call, Proposals
<1> QED
  BY <1>1 DEF OneResult, ResultsIn, CallsIn, Range

LEMMA TextBlocks ==
    ASSUME NEW C
    PROVE  /\ <<Text>> \in Seq(Block)
           /\ OneResult(C, <<Text>>) /\ InTurn(<<Text>>) /\ CallBefore(C, <<Text>>)
           /\ CallsIn(<<Text>>) = {} /\ ResultsIn(<<Text>>) = {}
<1>1. Text \in Block
  BY DEF Text, Block
<1> QED
  BY <1>1 DEF Text, OneResult, InTurn, CallBefore, CallsIn, ResultsIn

LEMMA UserText ==
    UserMsg \in Message /\ UserMsg.own = FALSE /\ UserMsg.blocks = <<Text>>
BY DEF UserMsg, Message, Text, Block

LEMMA NoneInTurn ==
    ASSUME NEW C
    PROVE  OneResult(C, <<>>) /\ InTurn(<<>>) /\ CallBefore(C, <<>>)
BY DEF OneResult, InTurn, CallBefore

(* The user's message goes behind the others. *)
LEMMA UserMessages ==
    ASSUME context \in Seq(Message), context' = Append(context, UserMsg)
    PROVE  /\ \A n \in DOMAIN context' :
                \/ n \in DOMAIN context /\ context'[n] = context[n]
                \/ context'[n] = UserMsg
           /\ LastOf(context') = <<>>
<1>1. /\ context' \in Seq(Message) /\ Len(context') = Len(context) + 1
      /\ context'[Len(context) + 1] = UserMsg
      /\ \A n \in 1..Len(context) : context'[n] = context[n]
  BY UserText, AppendProperties
<1>2. /\ DOMAIN context = 1..Len(context) /\ Len(context) \in Nat
      /\ DOMAIN context' = 1..(Len(context) + 1)
  BY <1>1, LenProperties
<1> QED
  BY <1>1, <1>2, UserText DEF LastOf

OnceInv(C) == OnceAnswered(C, context) /\ OnceAnswered(C, saved.context)
CalledInv(C) == Called(C, context) /\ Called(C, saved.context)
TurnInv == TakenInTurn(context) /\ TakenInTurn(saved.context)

LEMMA NextOnce ==
    ASSUME AgentAssumption, NEW C, Inv, TidyInv, OnceInv(C), [Next]_vars,
           NamedOnce(C)
    PROVE  OnceInv(C)'
<1>1. /\ context \in Seq(Message)
      /\ LastOf(context) \in Seq(Block)
      /\ CallsIn(LastOf(context)) \subseteq Calls
      /\ OneResult(C, LastOf(context))
  <2>1. context \in Seq(Message)
    BY DEF Inv, TypeOK
  <2>2. OnceAnswered(C, context)
    BY DEF OnceInv
  <2>3. OneResult(C, LastOf(context))
    BY <2>1, <2>2, LastOfMessages, NoneInTurn DEF OnceAnswered
  <2> QED
    BY <2>1, <2>3, LastOfType
<1>2. Grows(C) /\ (saved'.context = saved.context \/ saved'.context = context')
  BY ContextGrows
<1>3. ASSUME NEW cs \in Seq(Block), SaveToContext(cs), OneResult(C, cs),
             ResultsIn(LastOf(context)) \cap ResultsIn(cs) = {}
      PROVE  OnceAnswered(C, context')
  <2>1. OneResult(C, LastOf(context) \o cs)
    BY <1>1, <1>3, OneResultConcat
  <2> QED
    BY <1>1, <1>3, <2>1, SavedMessages DEF OnceInv, OnceAnswered
<1>4. ASSUME context' = context \/ context' = saved.context
      PROVE  OnceAnswered(C, context')
  BY <1>4 DEF OnceInv, OnceAnswered
<1>5. ASSUME context' = Append(context, UserMsg)
      PROVE  OnceAnswered(C, context')
  BY <1>1, <1>5, UserMessages, UserText, TextBlocks DEF OnceInv, OnceAnswered
<1>6. ASSUME SaveToContext(<<Text>>)
      PROVE  OnceAnswered(C, context')
  BY <1>3, <1>6, TextBlocks
<1>7. ASSUME NEW cs \in Seq(Block), SaveToContext(cs),
             Answers(C, cs, Unanswered(LastOf(context)))
      PROVE  OnceAnswered(C, context')
  <2>1. Unanswered(LastOf(context)) \in SUBSET Calls
    BY <1>1 DEF Unanswered
  <2>2. OneResult(C, cs) /\ ResultsIn(cs) \subseteq Unanswered(LastOf(context))
    BY <1>7, <2>1, AnswerBlocks
  <2> QED
    BY <1>3, <1>7, <2>2 DEF Unanswered
<1>8. ASSUME NEW s \in Orders(Calls), NEW cs \in Seq(Block),
             SaveToContext(cs), Proposals(cs, s)
      PROVE  OnceAnswered(C, context')
  BY <1>3, <1>8, ProposalBlocks
<1>9. ASSUME NEW m \in DOMAIN context, NEW k \in Reserves, Compress(m, k)
      PROVE  OnceAnswered(C, context')
  <2>1. /\ k \in Nat /\ k <= Len(context[m].blocks)
        /\ context[m].blocks \in Seq(Block)
        /\ \A n \in DOMAIN context' :
             \/ \E o \in DOMAIN context : context'[n] = context[o]
             \/ context'[n].blocks = Reserved(context[m].blocks, k)
    BY <1>1, <1>9, CutMessages
  <2>2. OneResult(C, Reserved(context[m].blocks, k))
    BY <2>1, ReservedIsSuffix, SuffixInTurn DEF OnceInv, OnceAnswered
  <2> QED
    BY <2>1, <2>2 DEF OnceInv, OnceAnswered
<1>10. OnceAnswered(C, context')
  BY <1>2, <1>4, <1>5, <1>6, <1>7, <1>8, <1>9 DEF Grows
<1> QED
  BY <1>2, <1>10 DEF OnceInv, OnceAnswered

(* No cut of this step leaves a result without its call. *)
CleanCut(C) ==
    \A m \in DOMAIN context, k \in Reserves :
        Compress(m, k) => CallBefore(C, Reserved(context[m].blocks, k))

LEMMA NextCalled ==
    ASSUME AgentAssumption, NEW C, Inv, TidyInv, CalledInv(C), [Next]_vars,
           NamedOnce(C), CleanCut(C)
    PROVE  CalledInv(C)'
<1>1. /\ context \in Seq(Message)
      /\ LastOf(context) \in Seq(Block)
      /\ CallsIn(LastOf(context)) \subseteq Calls
      /\ CallBefore(C, LastOf(context))
  <2>1. context \in Seq(Message)
    BY DEF Inv, TypeOK
  <2>2. Called(C, context)
    BY DEF CalledInv
  <2>3. CallBefore(C, LastOf(context))
    BY <2>1, <2>2, LastOfMessages, NoneInTurn DEF Called
  <2> QED
    BY <2>1, <2>3, LastOfType
<1>2. Grows(C) /\ (saved'.context = saved.context \/ saved'.context = context')
  BY ContextGrows
<1>3. ASSUME NEW cs \in Seq(Block), SaveToContext(cs),
             ResultsIn(cs) \subseteq CallsIn(LastOf(context))
      PROVE  Called(C, context')
  <2>1. CallBefore(C, LastOf(context) \o cs)
    BY <1>1, <1>3, CallBeforeConcat
  <2> QED
    BY <1>1, <1>3, <2>1, SavedMessages DEF CalledInv, Called
<1>4. ASSUME context' = context \/ context' = saved.context
      PROVE  Called(C, context')
  BY <1>4 DEF CalledInv, Called
<1>5. ASSUME context' = Append(context, UserMsg)
      PROVE  Called(C, context')
  BY <1>1, <1>5, UserMessages, UserText, TextBlocks DEF CalledInv, Called
<1>6. ASSUME SaveToContext(<<Text>>)
      PROVE  Called(C, context')
  BY <1>3, <1>6, TextBlocks
<1>7. ASSUME NEW cs \in Seq(Block), SaveToContext(cs),
             Answers(C, cs, Unanswered(LastOf(context)))
      PROVE  Called(C, context')
  <2>1. Unanswered(LastOf(context)) \in SUBSET Calls
    BY <1>1 DEF Unanswered
  <2>2. OneResult(C, cs) /\ ResultsIn(cs) \subseteq Unanswered(LastOf(context))
    BY <1>7, <2>1, AnswerBlocks
  <2> QED
    BY <1>3, <1>7, <2>2 DEF Unanswered
<1>8. ASSUME NEW s \in Orders(Calls), NEW cs \in Seq(Block),
             SaveToContext(cs), Proposals(cs, s)
      PROVE  Called(C, context')
  BY <1>3, <1>8, ProposalBlocks
<1>9. ASSUME NEW m \in DOMAIN context, NEW k \in Reserves, Compress(m, k)
      PROVE  Called(C, context')
  BY <1>1, <1>9, CutMessages DEF CleanCut, CalledInv, Called
<1>10. Called(C, context')
  BY <1>2, <1>4, <1>5, <1>6, <1>7, <1>8, <1>9 DEF Grows
<1> QED
  BY <1>2, <1>10 DEF CalledInv, Called

(* An answer of the model has one tool call at most: a model configured    *)
(* with parallel_tool_calls = False.                                       *)
OneCallEach == \A s \in Orders(Calls) : Propose(s) => Len(s) = 1

(* The model is called when the last message has no open call. *)
LEMMA NoneOpen ==
    ASSUME Inv, TidyInv, pc \in {"reason", "think"}
    PROVE  Unanswered(LastOf(context)) = {}
<1>1. SUFFICES ASSUME NEW c \in Unanswered(LastOf(context)) PROVE FALSE
  OBVIOUS
<1>2. c \in CallsIn(LastOf(context)) /\ c \in Calls
  BY LastOfType DEF Unanswered, Inv, TypeOK
<1>3. state[c] \notin {"none", "finished"}
  BY DEF TidyInv, Tidy, Accounted, Unanswered, Snapshot
<1>4. state[c] \notin {"pending", "allowed", "asking", "submitted"}
  BY <1>2 DEF TidyInv, Ready, Waiting, Snapshot
<1> QED
  BY <1>2, <1>3, <1>4 DEF Inv, TypeOK, ToolCallState

LEMMA NextTurn ==
    ASSUME AgentAssumption, Inv, TidyInv, TurnInv, [Next]_vars, OneCallEach
    PROVE  TurnInv'
<1> DEFINE last == LastOf(context)
<1>1. /\ context \in Seq(Message) /\ last \in Seq(Block)
      /\ CallsIn(last) \subseteq Calls /\ CallsFirst(last) /\ InTurn(last)
      /\ \A c, d \in Unanswered(last) : c = d
      /\ EarlierAnswered(Snapshot)
  <2>1. context \in Seq(Message) /\ EarlierAnswered(Snapshot)
    BY DEF Inv, TypeOK, TidyInv, Tidy
  <2>2. Snapshot.context = context
    BY DEF Snapshot
  <2>3. CallsFirst(last)
    BY <2>1, <2>2, LastCallsFirst
  <2>4. InTurn(last)
    BY <2>1, LastOfMessages, NoneInTurn DEF TurnInv, TakenInTurn
  <2> QED
    BY <2>1, <2>3, <2>4, LastOfType DEF TurnInv, TakenInTurn
<1>2. Grows({}) /\ (saved'.context = saved.context \/ saved'.context = context')
  BY ContextGrows DEF NamedOnce, Once
<1> HIDE DEF last
<1>3. ASSUME NEW cs \in Seq(Block), SaveToContext(cs), InTurn(cs),
             \A c \in Unanswered(last) : \A j \in DOMAIN cs :
                 cs[j].type = "text" \/ cs[j].id = c,
             \A c, d \in (Unanswered(last) \cup CallsIn(cs)) \ ResultsIn(cs) : c = d
      PROVE  TakenInTurn(context')
  <2>1. InTurn(last \o cs)
    BY <1>1, <1>3, InTurnConcat
  <2>2. \A n \in DOMAIN context' : InTurn(context'[n].blocks)
    BY <1>1, <1>3, <2>1, SavedMessages DEF last, TurnInv, TakenInTurn
  <2>3. Unanswered(LastOf(context')) \subseteq
          (Unanswered(last) \cup CallsIn(cs)) \ ResultsIn(cs)
    BY <1>1, <1>3, LastAfterSave DEF last, Unanswered
  <2> QED
    BY <1>3, <2>2, <2>3 DEF TakenInTurn
<1>4. ASSUME context' = context \/ context' = saved.context
      PROVE  TakenInTurn(context')
  BY <1>4 DEF TurnInv
<1>5. ASSUME context' = Append(context, UserMsg)
      PROVE  TakenInTurn(context')
  <2>1. Unanswered(<<>>) = {}
    BY NoBlocks DEF Unanswered
  <2> QED
    BY <1>1, <1>5, <2>1, UserMessages, UserText, TextBlocks DEF TurnInv, TakenInTurn
<1>6. ASSUME SaveToContext(<<Text>>)
      PROVE  TakenInTurn(context')
  <2>1. \A j \in DOMAIN <<Text>> : <<Text>>[j].type = "text"
    BY DEF Text
  <2>2. \A c, d \in (Unanswered(last) \cup CallsIn(<<Text>>)) \ ResultsIn(<<Text>>) :
          c = d
    BY <1>1, TextBlocks
  <2> QED
    BY <1>3, <1>6, <2>1, <2>2, TextBlocks
<1>7. ASSUME NEW cs \in Seq(Block), SaveToContext(cs), Answers({}, cs, Unanswered(last))
      PROVE  TakenInTurn(context')
  <2>1. Unanswered(last) \in SUBSET Calls
    BY <1>1 DEF Unanswered
  <2>2. /\ InTurn(cs) /\ CallsIn(cs) = {} /\ ResultsIn(cs) \subseteq Unanswered(last)
        /\ \A i \in DOMAIN cs : cs[i].id \in ResultsIn(cs)
    BY <1>7, <2>1, AnswerBlocks
  <2>3. \A c \in Unanswered(last) : \A j \in DOMAIN cs : cs[j].id = c
    BY <1>1, <2>2
  <2> QED
    BY <1>1, <1>3, <1>7, <2>2, <2>3
<1>8. ASSUME NEW s \in Orders(Calls), NEW cs \in Seq(Block), Propose(s),
             SaveToContext(cs), Proposals(cs, s)
      PROVE  TakenInTurn(context')
  <2>1. Unanswered(last) = {}
    BY <1>8, NoneOpen DEF Propose, last
  <2>2. /\ CallsIn(cs) = Range(s) /\ DOMAIN cs = DOMAIN s /\ DOMAIN s = 1..Len(s)
        /\ Len(s) = 1
    BY <1>8, ProposalBlocks, OrdersType DEF OneCallEach
  <2>3. \A i \in DOMAIN cs : i = 1
    BY <2>2
  <2>4. InTurn(cs)
    BY <2>3 DEF InTurn
  <2>5. \A c, d \in CallsIn(cs) : c = d
    BY <2>3 DEF CallsIn
  <2> QED
    BY <1>3, <1>8, <2>1, <2>4, <2>5
<1>9. ASSUME NEW m \in DOMAIN context, NEW k \in Reserves, Compress(m, k)
      PROVE  TakenInTurn(context')
  <2>1. /\ k \in Nat /\ k <= Len(context[m].blocks)
        /\ context[m].blocks \in Seq(Block)
        /\ \A n \in DOMAIN context' :
             \/ \E o \in DOMAIN context : context'[n] = context[o]
             \/ context'[n].blocks = Reserved(context[m].blocks, k)
    BY <1>1, <1>9, CutMessages
  <2>2. InTurn(Reserved(context[m].blocks, k))
    <3> DEFINE bs == context[m].blocks
               kept == Reserved(bs, k)
    <3>1. bs \in Seq(Block) /\ InTurn(bs)
      BY <2>1 DEF TurnInv, TakenInTurn
    <3>2. PICK a \in 1..(Len(bs) + 1) : kept = SubSeq(bs, a, Len(bs))
      BY <2>1, ReservedIsSuffix
    <3> HIDE DEF bs, kept
    <3>3. InTurn(kept)
      BY <3>1, <3>2, SuffixInTurn
    <3> QED
      BY <3>3 DEF kept, bs
  <2>3. \A n \in DOMAIN context' : InTurn(context'[n].blocks)
    BY <2>1, <2>2 DEF TurnInv, TakenInTurn
  <2>4. Unanswered(LastOf(context')) \subseteq Unanswered(last)
    BY <1>1, <1>9, CompressedMessages DEF Shrunk, last
  <2> QED
    BY <1>1, <2>3, <2>4 DEF TakenInTurn
<1>10. TakenInTurn(context')
  BY <1>2, <1>4, <1>5, <1>6, <1>7, <1>8, <1>9 DEF Grows, last
<1> QED
  BY <1>2, <1>10 DEF TurnInv

LEMMA InitPairs ==
    ASSUME NEW C, Init PROVE OnceInv(C) /\ CalledInv(C) /\ TurnInv
<1>1. Unanswered(LastOf(<<>>)) = {}
  BY NoBlocks DEF Unanswered, LastOf
<1> QED
  BY <1>1 DEF Init, Snapshot, OnceInv, CalledInv, TurnInv,
              OnceAnswered, Called, TakenInTurn

(* The pairs of the calls C, from their two halves. *)
LEMMA PairsFromHalves ==
    ASSUME NEW C, Inv, OnceInv(C), CalledInv(C) PROVE PairsOf(C)
<1>1. SUFFICES ASSUME NEW m \in DOMAIN context, NEW bs, bs = context[m].blocks,
                      NEW i \in DOMAIN bs, bs[i].type = "result", bs[i].id \in C
               PROVE  /\ bs[i].id \in CallsIn(SubSeq(bs, 1, i))
                      /\ bs[i].id \notin ResultsIn(SubSeq(bs, 1, i - 1))
  BY DEF PairsOf, Paired
<1>2. bs \in Seq(Block) /\ OneResult(C, bs) /\ CallBefore(C, bs)
  <2>1. context[m] \in Message
    BY LenProperties, ElementOfSeq DEF Inv, TypeOK
  <2> QED
    BY <1>1, <2>1 DEF Message, OnceInv, OnceAnswered, CalledInv, Called
<1>3. DOMAIN bs = 1..Len(bs) /\ Len(bs) \in Nat /\ i \in 1..Len(bs)
  BY <1>2, LenProperties
<1>4. bs[i].id \in CallsIn(SubSeq(bs, 1, i))
  <2>1. PICK h \in DOMAIN bs : h < i /\ bs[h].type = "call" /\ bs[h].id = bs[i].id
    BY <1>1, <1>2 DEF CallBefore
  <2>2. h \in 1..i /\ 1 \in 1..(Len(bs) + 1) /\ i \in 0..Len(bs) /\ 1 <= i + 1
    BY <1>3, <2>1
  <2> QED
    BY <1>2, <2>1, <2>2, CallsOfStretch
<1>5. bs[i].id \notin ResultsIn(SubSeq(bs, 1, i - 1))
  <2>1. SUFFICES ASSUME bs[i].id \in ResultsIn(SubSeq(bs, 1, i - 1)) PROVE FALSE
    OBVIOUS
  <2> DEFINE n == i - 1
  <2>2. 1 \in 1..(Len(bs) + 1) /\ n \in 0..Len(bs) /\ 1 <= n + 1
    BY <1>3
  <2>3. PICK h \in 1..n : bs[h].type = "result" /\ bs[h].id = bs[i].id
    <3>1. bs[i].id \in ResultsIn(SubSeq(bs, 1, n))
      BY <2>1
    <3> HIDE DEF n
    <3> QED
      BY <1>2, <2>2, <3>1, CallsOfStretch
  <2>4. h \in DOMAIN bs /\ h # i
    BY <1>3
  <2> QED
    BY <1>1, <1>2, <2>3, <2>4 DEF OneResult
<1> QED
  BY <1>4, <1>5

LEMMA OnceStep ==
    ASSUME NEW C, Inv, TidyInv, OnceInv(C), [Next]_vars, [NamedOnce(C)]_vars
    PROVE  OnceInv(C)'
<1>1. ASSUME UNCHANGED vars PROVE OnceInv(C)'
  BY <1>1 DEF OnceInv, OnceAnswered, vars, memory
<1> QED
  BY <1>1, NextOnce, AgentAssumption

LEMMA CalledStep ==
    ASSUME NEW C, Inv, TidyInv, CalledInv(C), [Next]_vars, [NamedOnce(C)]_vars,
           [CleanCut(C)]_vars
    PROVE  CalledInv(C)'
<1>1. ASSUME UNCHANGED vars PROVE CalledInv(C)'
  BY <1>1 DEF CalledInv, Called, vars, memory
<1> QED
  BY <1>1, NextCalled, AgentAssumption

(* Only calls of external tools are handed out, so that an event from      *)
(* outside names no other.                                                 *)
Own == Calls \ External

HandedOut ==
    \A c \in Calls :
        state[c] = "submitted" \/ saved.state[c] = "submitted" => c \in External

LEMMA NextHandedOut ==
    ASSUME Inv, HandedOut, [Next]_vars PROVE HandedOut'
<1>1. state \in [Calls -> ToolCallState]
  BY DEF Inv, TypeOK
<1>2. ASSUME NEW c \in Calls, NEW t, SetState(c, t), saved' = saved,
             t # "submitted" \/ c \in External
      PROVE  HandedOut'
  BY <1>1, <1>2 DEF SetState, HandedOut
<1>3. ASSUME state' = state, saved' = saved \/ saved'.state = state
      PROVE  HandedOut'
  BY <1>3 DEF HandedOut
<1>4. CASE Lose
  BY <1>4 DEF Lose, HandedOut
<1>5. CASE StartReply
  BY <1>3, <1>5 DEF StartReply
<1>6. ASSUME NEW yes, NEW denied, ConfirmCalls(yes, denied)
      PROVE  HandedOut'
  BY <1>1, <1>6 DEF ConfirmCalls, HandedOut
<1>7. ASSUME NEW s, ExternalResults(s) PROVE HandedOut'
  BY <1>1, <1>7 DEF ExternalResults, HandedOut
<1>8. ASSUME NEW s, Propose(s) PROVE HandedOut'
  BY <1>1, <1>8 DEF Propose, HandedOut
<1>9. ASSUME NEW c \in Calls, CallStep(c) PROVE HandedOut'
  <2>1. CASE RejectCall(c) \/ DenyCall(c) \/ ToolReturns(c)
    BY <1>2, <2>1 DEF RejectCall, DenyCall, ToolReturns, AnswerCall
  <2>2. CASE AskUser(c) \/ RunTool(c)
    BY <1>2, <2>2 DEF AskUser, RunTool
  <2>3. CASE SubmitCall(c)
    BY <1>2, <2>3 DEF SubmitCall
  <2> QED
    BY <1>9, <2>1, <2>2, <2>3 DEF CallStep
<1>10. ASSUME NEW m, NEW k, Compress(m, k) PROVE HandedOut'
  BY <1>3, <1>10 DEF Compress
<1>11. CASE \/ ExceedMaxIters \/ Wait \/ GoReason \/ GoAct \/ SkipCompression
            \/ StartBatch \/ StopForOutside \/ NextIteration \/ Answer
  <2>1. state' = state
    BY <1>11 DEF ExceedMaxIters, Wait, GoReason, GoAct, SkipCompression, memory,
                 StartBatch, StopForOutside, NextIteration, Answer
  <2>2. saved' = saved \/ saved'.state = state
    BY <1>11 DEF ExceedMaxIters, Wait, GoReason, GoAct, SkipCompression, Return,
                 StartBatch, StopForOutside, NextIteration, Answer, Snapshot
  <2> QED
    BY <1>3, <2>1, <2>2
<1>12. CASE BatchRaises \/ ReplyRaises
  BY <1>4, <1>12 DEF BatchRaises, ReplyRaises
<1>13. CASE (\E c \in Calls : CallRaises(c)) \/ UNCHANGED vars
  BY <1>3, <1>13 DEF CallRaises, vars, memory
<1>14. CASE Input
  BY <1>5, <1>6, <1>7, <1>14 DEF Input
<1>15. CASE LoopStep
  BY <1>8, <1>9, <1>10, <1>11, <1>12, <1>15 DEF LoopStep
<1> QED
  BY <1>12, <1>13, <1>14, <1>15 DEF Next

LEMMA OwnNamedOnce == Spec => [][NamedOnce(Own)]_vars
<1>1. Init => HandedOut
  BY DEF Init, Snapshot, HandedOut
<1>2. Inv /\ HandedOut /\ [Next]_vars => HandedOut'
  BY NextHandedOut
<1>3. Inv /\ HandedOut => NamedOnce(Own)
  <2>1. SUFFICES ASSUME Inv, HandedOut,
                        NEW s \in BoundedSeq(Submitted, MaxResults)
                 PROVE  Once(Own, s)
    BY DEF NamedOnce
  <2>2. Submitted \subseteq External
    BY <2>1, LastBlocksIsLastOf, LastOfType
       DEF HandedOut, Inv, TypeOK, Submitted, Unfinished
  <2>3. \A i \in DOMAIN s : s[i] \in Submitted
    BY BoundedType, AgentAssumption DEF AgentAssumption, Range
  <2> QED
    BY <2>2, <2>3 DEF Once, Own
<1> QED
  BY <1>1, <1>2, <1>3, Invariance, PTL DEF Spec

------------------------------------------------------------------------------
(* Theorems about pairs *)

LEMMA OwnOnce == Spec => []OnceInv(Own)
<1>1. Init => OnceInv(Own)
  BY InitPairs
<1>2. Inv /\ TidyInv /\ OnceInv(Own) /\ [Next]_vars /\ [NamedOnce(Own)]_vars
        => OnceInv(Own)'
  BY OnceStep
<1> QED
  BY <1>1, <1>2, Invariance, TidyInvariance, OwnNamedOnce, PTL DEF Spec

LEMMA AllOnce == Spec /\ [][NamedOnce(Calls)]_vars => []OnceInv(Calls)
<1>1. Init => OnceInv(Calls)
  BY InitPairs
<1>2. Inv /\ TidyInv /\ OnceInv(Calls) /\ [Next]_vars /\ [NamedOnce(Calls)]_vars
        => OnceInv(Calls)'
  BY OnceStep
<1> QED
  BY <1>1, <1>2, Invariance, TidyInvariance, PTL DEF Spec

(* _save_to_context: no call that the agent executes itself ever gets two  *)
(* results in a message, whatever the order in which concurrent calls end, *)
(* and whatever was confirmed, denied, compressed or rolled back; and none *)
(* at all does if no event from outside names a call twice, which          *)
(* _check_incoming_event, comparing sets of ids, lets pass.                *)
THEOREM NoSecondResult ==
    Spec => /\ []OnceAnswered(Own, context)
            /\ [][NamedOnce(Calls)]_vars => []OnceAnswered(Calls, context)
<1>1. OnceInv(Own) => OnceAnswered(Own, context)
  BY DEF OnceInv
<1>2. OnceInv(Calls) => OnceAnswered(Calls, context)
  BY DEF OnceInv
<1> QED
  BY <1>1, <1>2, OwnOnce, AllOnce, PTL

(* Nothing but the cut of _split_context_for_compression takes a result    *)
(* from its call: pairs are kept as long as no boundary message is cut     *)
(* between a call it counted and that call's result.  It holds of the      *)
(* external calls too if no event from outside names one twice.            *)
THEOREM OnlyCutsBreakPairs ==
    Spec => /\ [][CleanCut(Own)]_vars => []PairsKept
            /\ [][NamedOnce(Calls)]_vars /\ [][CleanCut(Calls)]_vars
                 => []PairsOf(Calls)
<1>1. Init => CalledInv(Own) /\ CalledInv(Calls)
  BY InitPairs
<1>2. /\ Inv /\ TidyInv /\ CalledInv(Own) /\ [Next]_vars
      /\ [NamedOnce(Own)]_vars /\ [CleanCut(Own)]_vars
      => CalledInv(Own)'
  BY CalledStep
<1>3. /\ Inv /\ TidyInv /\ CalledInv(Calls) /\ [Next]_vars
      /\ [NamedOnce(Calls)]_vars /\ [CleanCut(Calls)]_vars
      => CalledInv(Calls)'
  BY CalledStep
<1>4. Inv /\ OnceInv(Own) /\ CalledInv(Own) => PairsKept
  BY PairsFromHalves DEF PairsKept, Own
<1>5. Inv /\ OnceInv(Calls) /\ CalledInv(Calls) => PairsOf(Calls)
  BY PairsFromHalves
<1>6. Spec /\ [][CleanCut(Own)]_vars => []PairsKept
  BY <1>1, <1>2, <1>4, Invariance, TidyInvariance, OwnNamedOnce, OwnOnce, PTL
     DEF Spec
<1>7. Spec /\ [][NamedOnce(Calls)]_vars /\ [][CleanCut(Calls)]_vars
        => []PairsOf(Calls)
  BY <1>1, <1>3, <1>5, Invariance, TidyInvariance, AllOnce, PTL DEF Spec
<1> QED
  BY <1>6, <1>7, PTL

LEMMA ShortCutsClean ==
    ASSUME NEW C, Reserves \subseteq 0..2, Inv, OnceInv(C) PROVE CleanCut(C)
<1>1. SUFFICES ASSUME NEW m \in DOMAIN context, NEW k \in Reserves, Compress(m, k)
               PROVE  CallBefore(C, Reserved(context[m].blocks, k))
  BY DEF CleanCut
<1>2. /\ k \in 0..2 /\ k <= Len(context[m].blocks)
      /\ context[m].blocks \in Seq(Block) /\ OneResult(C, context[m].blocks)
  BY <1>1, CutMessages, AgentAssumption DEF Inv, TypeOK, OnceInv, OnceAnswered
<1> QED
  BY <1>2, ShortCut

LEMMA InTurnCutsClean ==
    ASSUME NEW C, Inv, OnceInv(C), TurnInv PROVE CleanCut(C)
<1>1. SUFFICES ASSUME NEW m \in DOMAIN context, NEW k \in Reserves, Compress(m, k)
               PROVE  CallBefore(C, Reserved(context[m].blocks, k))
  BY DEF CleanCut
<1>2. /\ k \in Nat /\ k <= Len(context[m].blocks)
      /\ context[m].blocks \in Seq(Block)
  BY <1>1, CutMessages, AgentAssumption DEF Inv, TypeOK
<1>3. OneResult(C, context[m].blocks) /\ InTurn(context[m].blocks)
  BY DEF OnceInv, OnceAnswered, TurnInv, TakenInTurn
<1> QED
  BY <1>2, <1>3, InTurnCut

LEMMA TurnInvariance == Spec /\ [][OneCallEach]_vars => []TurnInv
<1>1. Init => TurnInv
  BY InitPairs
<1>2. Inv /\ TidyInv /\ TurnInv /\ [Next]_vars /\ [OneCallEach]_vars => TurnInv'
  <2>1. ASSUME TurnInv, UNCHANGED vars PROVE TurnInv'
    BY <2>1 DEF TurnInv, TakenInTurn, vars, memory
  <2> QED
    BY <2>1, NextTurn, AgentAssumption
<1> QED
  BY <1>1, <1>2, Invariance, TidyInvariance, PTL DEF Spec

(* With at most two blocks in the budget _split_context_for_compression    *)
(* never parts a call from its result; nor does it those of an external    *)
(* call, if no event from outside names one twice.                         *)
THEOREM ShortReservesKeepPairs ==
    ASSUME Reserves \subseteq 0..2
    PROVE  Spec => /\ []PairsKept
                   /\ [][NamedOnce(Calls)]_vars => []PairsOf(Calls)
<1>1. Inv /\ OnceInv(Own) => [CleanCut(Own)]_vars
  BY ShortCutsClean
<1>2. Inv /\ OnceInv(Calls) => [CleanCut(Calls)]_vars
  BY ShortCutsClean
<1> QED
  BY <1>1, <1>2, Invariance, OwnOnce, AllOnce, OnlyCutsBreakPairs, PTL

(* A model that proposes its tool calls one at a time (parallel_tool_calls *)
(* = False) never has a pair split, whatever fits the budget; nor one of   *)
(* an external call, if no event from outside names one twice.             *)
THEOREM CallsOneByOneKeepPairs ==
    Spec /\ [][OneCallEach]_vars
    => /\ []PairsKept
       /\ [][NamedOnce(Calls)]_vars => []PairsOf(Calls)
<1>1. Inv /\ OnceInv(Own) /\ TurnInv => [CleanCut(Own)]_vars
  BY InTurnCutsClean
<1>2. Inv /\ OnceInv(Calls) /\ TurnInv => [CleanCut(Calls)]_vars
  BY InTurnCutsClean
<1> QED
  BY <1>1, <1>2, Invariance, TurnInvariance, OwnOnce, AllOnce,
     OnlyCutsBreakPairs, PTL

------------------------------------------------------------------------------
(* How a reply comes to its end *)

(* Of the calls not started the first one is in the next batch, alone or   *)
(* with others: _batch_tool_calls makes no empty batch.                    *)
LEMMA GroupNonempty ==
    ASSUME Inv, todo # {} PROVE Group # {}
<1> DEFINE S == {Position(c) : c \in todo}
<1>1. LastBlocks \in Seq(Block) /\ DOMAIN LastBlocks \subseteq Nat
  BY LastBlocksIsLastOf, LastOfType, LenProperties DEF Inv, TypeOK
<1>2. ASSUME NEW c \in todo
      PROVE  /\ Position(c) \in Nat /\ LastBlocks[Position(c)] = Call(c)
             /\ LastBlocks[Position(c)].id = c
  <2>1. c \in CallsIn(LastBlocks)
    BY <1>2, LastBlocksIsLastOf DEF Inv, TypeOK, BatchSound
  <2>2. PICK i \in DOMAIN LastBlocks :
          LastBlocks[i].type = "call" /\ LastBlocks[i].id = c
    BY <2>1 DEF CallsIn
  <2>3. LastBlocks[i] \in Block
    BY <1>1, ElementOfSeq, LenProperties
  <2>4. LastBlocks[i] = Call(c)
    BY <2>2, <2>3 DEF Block, Call
  <2>5. Position(c) \in Nat /\ LastBlocks[Position(c)] = Call(c)
    BY <1>1, <2>4 DEF Position
  <2> QED
    BY <2>5 DEF Call
<1>3. S \subseteq Nat /\ S # {}
  BY <1>2
<1>4. PICK x \in S : \A y \in S : ~ (<<y, x>> \in OpToRel(<, Nat))
  BY <1>3, NatLessThanWellFounded, WFMin
<1>5. PICK c \in todo : x = Position(c)
  OBVIOUS
<1>6. ASSUME NEW d \in todo \ {c} PROVE ~Before(d, c)
  <2>1. Position(d) \in Nat /\ Position(c) \in Nat
    BY <1>2
  <2>2. ~ (Position(d) < Position(c))
    BY <1>3, <1>4, <1>5, <2>1 DEF OpToRel
  <2>3. Position(d) # Position(c)
    BY <1>2
  <2> QED
    BY <2>1, <2>2, <2>3 DEF Before
<1>7. c \in Group
  BY <1>6 DEF Group
<1> QED
  BY <1>7

(* The steps of a call move it on within its batch. *)
LEMMA CallComesNearer ==
    ASSUME Inv, NEW c \in Calls, CallStep(c) \/ CallRaises(c)
    PROVE  cur_iter' = cur_iter /\ pc' = pc /\ BatchAdvances
<1>1. /\ task \in [Calls -> {"none", "started", "running", "failed"}]
      /\ task[c] \in {"started", "running"}
      /\ cur_iter' = cur_iter /\ pc' = pc /\ todo' = todo
  BY DEF CallStep, RejectCall, AskUser, DenyCall, SubmitCall, RunTool,
         ToolReturns, CallRaises, AnswerCall, memory, Inv, TypeOK
<1>2. CASE task[c] = "started"
  <2>1. PICK t \in {"none", "running", "failed"} : task' = [task EXCEPT ![c] = t]
    BY <1>2 DEF CallStep, RejectCall, AskUser, DenyCall, SubmitCall, RunTool,
                ToolReturns, CallRaises, AnswerCall, Done
  <2>2. StrictSubset(Tasks("started")', Tasks("started"))
    BY <1>1, <1>2, <2>1 DEF StrictSubset, Tasks
  <2> QED
    BY <1>1, <2>2 DEF BatchAdvances
<1>3. CASE task[c] = "running"
  <2>1. PICK t \in {"none", "failed"} : task' = [task EXCEPT ![c] = t]
    BY <1>3 DEF CallStep, RejectCall, AskUser, DenyCall, SubmitCall, RunTool,
                ToolReturns, CallRaises, AnswerCall, Done
  <2>2. /\ Tasks("started")' = Tasks("started")
        /\ StrictSubset(Tasks("running")', Tasks("running"))
    BY <1>1, <1>3, <2>1 DEF StrictSubset, Tasks
  <2> QED
    BY <1>1, <2>2 DEF BatchAdvances
<1> QED
  BY <1>1, <1>2, <1>3

(* _batch_tool_calls: as long as calls wait for their batch the next one   *)
(* is not empty.  This is what NeverStuck needs of the model beyond the    *)
(* types: StartBatch, when it is its turn, starts something.               *)
THEOREM EveryBatchStarts == Spec => [](todo # {} => Group # {})
<1>1. Inv => (todo # {} => Group # {})
  BY GroupNonempty
<1> QED
  BY <1>1, Invariance, PTL

(* _reply_impl: whatever the model proposes, the user answers and the      *)
(* tools do, each step of a reply ends it, counts an iteration, or moves   *)
(* on within the iteration; there are max_iters of these (TypeCorrect).    *)
THEOREM RepliesAdvance == Spec => ReplyAdvances
<1> DEFINE A == pc # "idle" =>
                  \/ pc' = "idle"
                  \/ cur_iter' > cur_iter
                  \/ /\ cur_iter' = cur_iter
                     /\ \/ Phase[pc'] < Phase[pc]
                        \/ pc' = pc /\ BatchAdvances
<1>1. Inv /\ [Next]_vars => [A]_vars
  <2>1. SUFFICES ASSUME Inv, Next, pc # "idle" PROVE A
    OBVIOUS
  <2>2. cur_iter \in Nat
    BY <2>1, AgentAssumption DEF Inv, TypeOK
  <2>3. CASE Input
    BY <2>1, <2>3 DEF Input, StartReply, ConfirmCalls, ExternalResults
  <2>4. CASE ExceedMaxIters \/ Wait \/ StopForOutside \/ Answer \/ BatchRaises
             \/ ReplyRaises
    BY <2>4 DEF ExceedMaxIters, Wait, StopForOutside, Answer, BatchRaises,
                ReplyRaises, Return, Lose
  <2>5. CASE GoReason \/ GoAct
    BY <2>5 DEF GoReason, GoAct, Phase, memory
  <2>6. CASE SkipCompression
    BY <2>6 DEF SkipCompression, Phase, memory
  <2>7. ASSUME NEW m \in DOMAIN context, NEW k \in Reserves, Compress(m, k)
        PROVE  A
    BY <2>7 DEF Compress, Phase
  <2>8. ASSUME NEW s \in Orders(Calls), Propose(s) PROVE A
    BY <2>8 DEF Propose, Phase
  <2>9. CASE StartBatch
    <3>1. Group # {} /\ Group \subseteq todo
      BY <2>1, <2>9, GroupNonempty DEF StartBatch, Group
    <3>2. StrictSubset(todo', todo) /\ UNCHANGED <<cur_iter, pc>>
      BY <2>9, <3>1 DEF StartBatch, StrictSubset, memory
    <3> QED
      BY <3>2 DEF BatchAdvances
  <2>10. CASE NextIteration
    BY <2>2, <2>10 DEF NextIteration
  <2>11. ASSUME NEW c \in Calls, CallStep(c) \/ CallRaises(c) PROVE A
    <3>1. cur_iter' = cur_iter /\ pc' = pc /\ BatchAdvances
      BY <2>1, <2>11, CallComesNearer
    <3> QED
      BY <3>1
  <2> QED
    BY <2>1, <2>3, <2>4, <2>5, <2>6, <2>7, <2>8, <2>9, <2>10, <2>11
       DEF Next, LoopStep
<1> QED
  BY <1>1, Invariance, PTL DEF Spec, ReplyAdvances
==============================================================================
