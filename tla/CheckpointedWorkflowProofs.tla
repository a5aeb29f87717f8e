---------------------- MODULE CheckpointedWorkflowProofs ----------------------
(***************************************************************************)
(* CheckpointedWorkflow for workflows of any size and any number of        *)
(* interruptions: the topological order and the layers are right, the      *)
(* store is durable, running steps find their inputs, run and resume       *)
(* implement Workflow, checkpoints tell the truth and calls end; and when  *)
(* exactly a resume fails.                                                 *)
(***************************************************************************)
EXTENDS CheckpointedWorkflow, QueuesProofs

(* The dependencies of every step are steps of the workflow. *)
Graph == deps \in [Steps -> SUBSET Steps]

(* Bounded sets and sequences of steps *)

LEMMA MaxFacts ==
    ASSUME NEW n \in Nat, NEW S \in SUBSET (0..n), S # {}
    PROVE  Max(S) \in S /\ \A x \in S : x <= Max(S)
<1> DEFINE T == {n - x : x \in S}
<1>1. T \in SUBSET Nat /\ T # {}
  <2>1. \A x \in S : n - x \in Nat
    OBVIOUS
  <2> QED
    BY <2>1
<1>2. PICK m \in T : \A k \in T : m <= k
  <2> HIDE DEF T
  <2> QED
    BY <1>1, LeastNatural
<1>3. PICK x \in S : m = n - x
  BY <1>2
<1>4. \A y \in S : x >= y
  <2> TAKE y \in S
  <2>1. n - x <= n - y
    BY <1>2, <1>3
  <2> QED
    BY <2>1
<1>5. Max(S) \in S /\ \A y \in S : Max(S) >= y
  BY <1>4 DEF Max
<1> QED
  BY <1>5

LEMMA HeadFacts ==
    ASSUME NEW T, NEW q \in Seq(T), q # <<>>
    PROVE  /\ Head(q) \in T /\ Tail(q) \in Seq(T)
           /\ \A x : x \in ToSet(q) <=> x = Head(q) \/ x \in ToSet(Tail(q))
           /\ IsInjective(q) => IsInjective(Tail(q)) /\ Head(q) \notin ToSet(Tail(q))
<1>1. /\ Head(q) \in T /\ Tail(q) \in Seq(T) /\ Head(q) = q[1]
      /\ Len(q) \in Nat /\ Len(q) >= 1
      /\ DOMAIN q = 1..Len(q) /\ DOMAIN Tail(q) = 1..(Len(q) - 1)
      /\ \A i \in 1..(Len(q) - 1) : Tail(q)[i] = q[i + 1]
  OBVIOUS
<1>2. \A i \in 1..Len(q) : i = 1 \/ (i - 1 \in 1..(Len(q) - 1) /\ (i - 1) + 1 = i)
  BY <1>1
<1>3. \A i \in 1..(Len(q) - 1) : i + 1 \in 1..Len(q) /\ i + 1 # 1
  BY <1>1
<1>4. 1 \in 1..Len(q)
  BY <1>1
<1>5. \A x : x \in ToSet(q) <=> x = Head(q) \/ x \in ToSet(Tail(q))
  <2>1. ASSUME NEW i \in 1..Len(q), i # 1
        PROVE  q[i] \in ToSet(Tail(q))
    <3>1. Tail(q)[i - 1] = q[i] /\ i - 1 \in DOMAIN Tail(q)
      BY <1>1, <1>2, <2>1
    <3> QED
      BY <3>1 DEF ToSet
  <2>2. ASSUME NEW i \in 1..(Len(q) - 1)
        PROVE  Tail(q)[i] \in ToSet(q)
    BY <1>1, <1>3 DEF ToSet
  <2> QED
    BY <1>1, <1>4, <2>1, <2>2 DEF ToSet
<1>6. ASSUME IsInjective(q)
      PROVE  IsInjective(Tail(q)) /\ Head(q) \notin ToSet(Tail(q))
  <2>1. \A i, j \in 1..(Len(q) - 1) : i + 1 = j + 1 => i = j
    BY <1>1
  <2>2. IsInjective(Tail(q))
    BY <1>1, <1>3, <1>6, <2>1 DEF IsInjective
  <2>3. Head(q) \notin ToSet(Tail(q))
    BY <1>1, <1>3, <1>4, <1>6 DEF IsInjective, ToSet
  <2> QED
    BY <2>2, <2>3
<1> QED
  BY <1>1, <1>5, <1>6

(* An order without repetitions is never longer than the list of steps,    *)
(* and it has every step when it is as long.                               *)
LEMMA CountFacts ==
    ASSUME NEW o \in Seq(Steps), IsInjective(o)
    PROVE  /\ Len(o) <= Len(StepList)
           /\ Len(o) = Len(StepList) <=> ToSet(o) = Steps
<1> DEFINE n == Len(StepList)
<1>1. /\ n \in Nat /\ Len(o) \in Nat
      /\ StepList \in [1..n -> Steps] /\ o \in [1..Len(o) -> Steps]
  BY WorkflowAssumption
<1>2. StepList \in Surjection(1..n, Steps)
  BY <1>1 DEF Steps, ToSet, Surjection
<1>3. StepList \in Injection(1..n, Steps) /\ o \in Injection(1..Len(o), Steps)
  BY <1>1, WorkflowAssumption DEF Injection
<1>4. \A m \in Nat : IsFiniteSet(1..m) /\ Cardinality(1..m) = m
  <2> TAKE m \in Nat
  <2>1. IsFiniteSet(1..m) /\ Cardinality(1..m) = IF 1 > m THEN 0 ELSE m - 1 + 1
    BY FS_Interval
  <2> QED
    BY <2>1
<1>5. /\ IsFiniteSet(1..n) /\ Cardinality(1..n) = n
      /\ IsFiniteSet(1..Len(o)) /\ Cardinality(1..Len(o)) = Len(o)
  BY <1>1, <1>4
<1>6. IsFiniteSet(Steps) /\ Cardinality(Steps) = n
  BY <1>2, <1>3, <1>5, FS_Surjection
<1>7. Len(o) <= n /\ (Len(o) = n <=> o \in Surjection(1..Len(o), Steps))
  BY <1>3, <1>5, <1>6, FS_Injection
<1>8. o \in Surjection(1..Len(o), Steps) <=> ToSet(o) = Steps
  BY <1>1 DEF Surjection, ToSet
<1> QED
  BY <1>7, <1>8
------------------------------------------------------------------------------
(* The topological order *)

Topological(o) ==
    \A i \in 1..Len(o) : \A d \in deps[o[i]] : \E j \in 1..(i - 1) : o[j] = d

(* What holds of order and queue after n steps are popped: they are free   *)
(* of repetitions and have the steps whose dependencies are in the order,  *)
(* which has n steps unless the queue ran out.                             *)
Popping == [order : Seq(Steps), queue : Seq(Steps)]

PopSound(p, n) ==
    /\ p \in Popping
    /\ IsInjective(p.order) /\ IsInjective(p.queue)
    /\ ToSet(p.order) \cap ToSet(p.queue) = {}
    /\ Topological(p.order)
    /\ \A s \in Steps : deps[s] \subseteq ToSet(p.order)
          <=> s \in ToSet(p.order) \cup ToSet(p.queue)
    /\ p.queue = <<>> \/ Len(p.order) = n

LEMMA QueuedFacts ==
    ASSUME Graph, NEW o \in Seq(Steps), NEW q \in Seq(Steps)
    PROVE  /\ Queued(o, q) \in Seq(Steps) /\ IsInjective(Queued(o, q))
           /\ \A s : s \in ToSet(Queued(o, q)) <=>
                /\ s \in Steps /\ s \notin ToSet(o) /\ s \notin ToSet(q)
                /\ deps[s] \subseteq ToSet(o)
<1> DEFINE S == {s \in Steps \ (ToSet(o) \cup ToSet(q)) : deps[s] \subseteq ToSet(o)}
<1>1. Queued(o, q) = Keep(StepList, S)
  BY DEF Queued
<1>2. S \subseteq Steps /\ ToSet(StepList) = Steps
  BY DEF Steps
<1>3. StepList \in Seq(Steps) /\ IsInjective(StepList)
  BY WorkflowAssumption
<1> HIDE DEF S
<1>4. /\ Keep(StepList, S) \in Seq(Steps)
      /\ ToSet(Keep(StepList, S)) = ToSet(StepList) \cap S
      /\ IsInjective(StepList) => IsInjective(Keep(StepList, S))
  BY <1>3, KeepFacts
<1>5. ToSet(Keep(StepList, S)) = S
  BY <1>2, <1>4
<1> QED
  BY <1>1, <1>3, <1>4, <1>5 DEF S

LEMMA PopStep ==
    ASSUME Graph, NEW n \in Nat, NEW p, PopSound(p, n)
    PROVE  PopSound(Pop(p), n + 1)
<1>0. /\ p \in Popping /\ IsInjective(p.order) /\ IsInjective(p.queue)
      /\ ToSet(p.order) \cap ToSet(p.queue) = {} /\ Topological(p.order)
      /\ \A s \in Steps : deps[s] \subseteq ToSet(p.order)
            <=> s \in ToSet(p.order) \cup ToSet(p.queue)
      /\ p.queue = <<>> \/ Len(p.order) = n
  BY DEF PopSound
<1>1. CASE p.queue = <<>>
  BY <1>1, <1>0 DEF PopSound, Pop
<1>2. CASE p.queue # <<>>
  <2> DEFINE h == Head(p.queue)
             o == Append(p.order, h)
             t == Tail(p.queue)
             q == t \o Queued(o, t)
  <2>1. /\ h \in Steps /\ t \in Seq(Steps)
        /\ \A x : x \in ToSet(p.queue) <=> x = h \/ x \in ToSet(t)
        /\ IsInjective(t) /\ h \notin ToSet(t)
    BY <1>0, <1>2, HeadFacts DEF Popping
  <2>2. /\ p.order \in Seq(Steps) /\ h \notin ToSet(p.order)
        /\ deps[h] \subseteq ToSet(p.order)
    BY <1>0, <2>1 DEF Popping
  <2>3. /\ o \in Seq(Steps) /\ IsInjective(o)
        /\ \A x : x \in ToSet(o) <=> x \in ToSet(p.order) \/ x = h
    BY <1>0, <2>1, <2>2, AppendFacts
  <2>4. Topological(o)
    <3>1. /\ Len(p.order) \in Nat /\ Len(o) = Len(p.order) + 1
          /\ \A i \in 1..Len(p.order) : o[i] = p.order[i]
          /\ o[Len(p.order) + 1] = h
          /\ DOMAIN p.order = 1..Len(p.order)
      BY <2>1, <2>2
    <3> HIDE DEF o, h
    <3>2. ASSUME NEW i \in 1..Len(o), NEW d \in deps[o[i]]
          PROVE  \E j \in 1..(i - 1) : o[j] = d
      <4>1. CASE i \in 1..Len(p.order)
        <5>1. PICK j \in 1..(i - 1) : p.order[j] = d
          BY <1>0, <3>1, <3>2, <4>1 DEF Topological
        <5>2. j \in 1..Len(p.order)
          BY <3>1, <4>1
        <5> QED
          BY <3>1, <5>1, <5>2
      <4>2. CASE i = Len(p.order) + 1
        <5>1. d \in ToSet(p.order)
          BY <2>2, <3>1, <3>2, <4>2
        <5>2. PICK j \in 1..Len(p.order) : p.order[j] = d
          BY <3>1, <5>1 DEF ToSet
        <5> QED
          BY <3>1, <4>2, <5>2
      <4> QED
        BY <3>1, <4>1, <4>2
    <3> QED
      BY <3>2 DEF Topological
  <2>5. /\ Queued(o, t) \in Seq(Steps) /\ IsInjective(Queued(o, t))
        /\ \A s : s \in ToSet(Queued(o, t)) <=>
              /\ s \in Steps /\ s \notin ToSet(o) /\ s \notin ToSet(t)
              /\ deps[s] \subseteq ToSet(o)
    <3> HIDE DEF o, t
    <3> QED
      BY <2>1, <2>3, QueuedFacts
  <2>6. Pop(p) = [order |-> o, queue |-> q]
    BY <1>2 DEF Pop
  <2> HIDE DEF o, t, h
  <2>7. ToSet(t) \cap ToSet(Queued(o, t)) = {}
    BY <2>5
  <2>8. /\ q \in Seq(Steps) /\ IsInjective(q)
        /\ ToSet(q) = ToSet(t) \cup ToSet(Queued(o, t))
    BY <2>1, <2>5, <2>7, ConcatFacts
  <2> HIDE DEF q
  <2>9. ToSet(o) \cap ToSet(q) = {}
    BY <1>0, <2>1, <2>3, <2>5, <2>8
  <2>10. \A s \in Steps : deps[s] \subseteq ToSet(o) <=> s \in ToSet(o) \cup ToSet(q)
    BY <1>0, <2>1, <2>3, <2>5, <2>8
  <2>11. Len(o) = n + 1
    BY <1>0, <1>2, <2>1, <2>2 DEF o
  <2>12. Pop(p) \in Popping /\ Pop(p).order = o /\ Pop(p).queue = q
    BY <2>3, <2>6, <2>8 DEF Popping
  <2> QED
    BY <2>3, <2>4, <2>8, <2>9, <2>10, <2>11, <2>12 DEF PopSound
<1> QED
  BY <1>1, <1>2

(* Popped, unfolded: the function it computes with, and what it computes. *)
Start == [order |-> <<>>, queue |-> Queued(<<>>, <<>>)]

PopRun(n) ==
    CHOOSE popped : popped = [k \in 0..n |-> IF k = 0 THEN Start
                                             ELSE Pop(popped[k - 1])]

LEMMA PoppedIsRun == \A n : Popped(n) = PopRun(n)[n]
BY DEF Popped, PopRun, Start

LEMMA StartSound == ASSUME Graph PROVE PopSound(Start, 0)
<1> DEFINE e == <<>>
<1>1. e \in Seq(Steps) /\ ToSet(e) = {} /\ IsInjective(e) /\ Len(e) = 0 /\ Topological(e)
  BY DEF ToSet, IsInjective, Topological
<1>2. Start = [order |-> e, queue |-> Queued(e, e)]
  BY DEF Start
<1> HIDE DEF e
<1>3. /\ Queued(e, e) \in Seq(Steps) /\ IsInjective(Queued(e, e))
      /\ \A s : s \in ToSet(Queued(e, e)) <=>
            s \in Steps /\ s \notin ToSet(e) /\ deps[s] \subseteq ToSet(e)
  BY <1>1, QueuedFacts
<1> QED
  BY <1>1, <1>2, <1>3 DEF PopSound, Popping

(* Functions that start alike and go on alike. *)
LEMMA SameRuns ==
    ASSUME NEW n \in Nat, NEW f, NEW g, f[0] = g[0],
           \A i \in 1..n : f[i - 1] = g[i - 1] => f[i] = g[i]
    PROVE  f[n] = g[n]
<1> DEFINE N == {i \in Nat : i \in 0..n => f[i] = g[i]}
<1>1. 0 \in N
  OBVIOUS
<1>2. ASSUME NEW i \in Nat, i \in N
      PROVE  i + 1 \in N
  <2> SUFFICES ASSUME i + 1 \in 0..n
               PROVE  f[i + 1] = g[i + 1]
    OBVIOUS
  <2>1. i \in 0..n /\ i + 1 \in 1..n /\ (i + 1) - 1 = i
    OBVIOUS
  <2>2. f[i] = g[i]
    BY <1>2, <2>1
  <2> QED
    BY <2>1, <2>2
<1>3. n \in N
  <2> HIDE DEF N
  <2> QED
    BY <1>1, <1>2, Induction
<1> QED
  BY <1>3

LEMMA PoppedSound ==
    ASSUME Graph, NEW n \in Nat
    PROVE  PopSound(Popped(n), n)
<1> DEFINE F == [x \in Popping \X Nat |-> IF Pop(x[1]) \in Popping THEN Pop(x[1])
                                          ELSE Start]
           Eq(popped) == popped = [k \in 0..n |-> IF k = 0 THEN Start
                                                  ELSE Pop(popped[k - 1])]
<1>1. Start \in Popping /\ PopSound(Start, 0)
  BY StartSound DEF PopSound
<1>2. F \in [Popping \X Nat -> Popping]
  BY <1>1
<1>3. PICK g \in [0..n -> Popping] :
         g[0] = Start /\ \A i \in 1..n : g[i] = F[<<g[i - 1], i>>]
  <2> HIDE DEF F
  <2>1. \E g \in [0..n -> Popping] : Recurs(g, Start, F, n)
    BY <1>1, <1>2, Recursion
  <2> QED
    BY <2>1 DEF Recurs
<1>4. \A i \in 0..n : PopSound(g[i], i) /\ (i # 0 => g[i] = Pop(g[i - 1]))
  <2> DEFINE N == {i \in Nat : i \in 0..n =>
                     PopSound(g[i], i) /\ (i # 0 => g[i] = Pop(g[i - 1]))}
  <2>1. 0 \in N
    BY <1>1, <1>3
  <2>2. ASSUME NEW i \in Nat, i \in N
        PROVE  i + 1 \in N
    <3> SUFFICES ASSUME i + 1 \in 0..n
                 PROVE  PopSound(g[i + 1], i + 1) /\ g[i + 1] = Pop(g[i])
      OBVIOUS
    <3>1. i \in 0..n /\ i + 1 \in 1..n /\ (i + 1) - 1 = i
      OBVIOUS
    <3>2. PopSound(g[i], i)
      BY <2>2, <3>1
    <3>3. PopSound(Pop(g[i]), i + 1) /\ Pop(g[i]) \in Popping
      BY <3>2, PopStep DEF PopSound
    <3>4. g[i] \in Popping /\ i + 1 \in Nat
      BY <1>3, <3>1
    <3>5. F[<<g[i], i + 1>>] = Pop(g[i])
      BY <3>3, <3>4
    <3>6. g[i + 1] = F[<<g[i], i + 1>>]
      <4> HIDE DEF F
      <4> QED
        BY <1>3, <3>1
    <3> QED
      BY <3>3, <3>5, <3>6
  <2>3. Nat \subseteq N
    <3> HIDE DEF N
    <3> QED
      BY <2>1, <2>2, Induction
  <2> QED
    BY <2>3
<1> HIDE DEF F
<1>5. Eq(g)
  BY <1>3, <1>4
<1>6. PopRun(n) = [k \in 0..n |-> IF k = 0 THEN Start ELSE Pop(PopRun(n)[k - 1])]
  BY <1>5 DEF PopRun
<1>7. PopRun(n)[n] = g[n]
  <2> DEFINE f == PopRun(n)
  <2> HIDE DEF f
  <2>0. f = [k \in 0..n |-> IF k = 0 THEN Start ELSE Pop(f[k - 1])]
    BY <1>6 DEF f
  <2>1. f[0] = g[0]
    BY <1>3, <2>0
  <2>2. \A i \in 1..n : f[i] = Pop(f[i - 1]) /\ g[i] = Pop(g[i - 1])
    BY <1>4, <2>0
  <2>3. \A i \in 1..n : f[i - 1] = g[i - 1] => f[i] = g[i]
    BY <2>2
  <2>4. f[n] = g[n]
    BY <2>1, <2>3, SameRuns
  <2> QED
    BY <2>4 DEF f
<1>8. PopSound(g[n], n)
  BY <1>4
<1> QED
  BY <1>7, <1>8, PoppedIsRun

(* A set of steps that all wait for one of the set. *)
Deadlocked(S) == S # {} /\ \A s \in S : deps[s] \cap S # {}

(* The order is free of repetitions and topological; it has every step, or *)
(* some of the steps wait for each other.                                  *)
LEMMA OrderFacts ==
    ASSUME Graph
    PROVE  /\ topological_order \in Seq(Steps) /\ IsInjective(topological_order)
           /\ Topological(topological_order)
           /\ ~HasCycle => ToSet(topological_order) = Steps
           /\ HasCycle <=> \E S \in SUBSET Steps : Deadlocked(S)
<1> DEFINE N == Len(StepList)
           p == Popped(N)
           o == topological_order
<1>1. N \in Nat
  BY WorkflowAssumption
<1>2. PopSound(p, N) /\ o = p.order
  BY <1>1, PoppedSound DEF topological_order
<1> HIDE DEF p, o, N
<1>3. /\ o \in Seq(Steps) /\ IsInjective(o) /\ Topological(o)
      /\ \A s \in Steps : deps[s] \subseteq ToSet(o) <=> s \in ToSet(o) \cup ToSet(p.queue)
      /\ p.queue = <<>> \/ Len(o) = N
  BY <1>2 DEF PopSound, Popping
<1>4. (Len(o) = N <=> ToSet(o) = Steps) /\ (HasCycle <=> Len(o) # N)
  BY <1>3, CountFacts DEF HasCycle, o, N
<1>5. ASSUME HasCycle
      PROVE  Deadlocked(Steps \ ToSet(o))
  <2>1. ToSet(o) # Steps /\ ToSet(o) \subseteq Steps
    BY <1>3, <1>4, <1>5 DEF ToSet
  <2>2. ToSet(p.queue) = {}
    BY <1>3, <1>4, <1>5 DEF ToSet
  <2>3. \A s \in Steps \ ToSet(o) : deps[s] \subseteq Steps /\ ~(deps[s] \subseteq ToSet(o))
    BY <1>3, <2>2 DEF Graph
  <2> QED
    BY <2>1, <2>3 DEF Deadlocked
<1>6. ASSUME ~HasCycle, NEW S \in SUBSET Steps, Deadlocked(S)
      PROVE  FALSE
  <2> DEFINE I == {i \in 1..Len(o) : o[i] \in S}
  <2>1. ToSet(o) = Steps
    BY <1>4, <1>6
  <2>2. DOMAIN o = 1..Len(o) /\ Len(o) \in Nat
    BY <1>3
  <2>3. I # {} /\ I \subseteq Nat
    <3>1. PICK s \in S : s \in ToSet(o)
      BY <1>6, <2>1 DEF Deadlocked
    <3>2. PICK i \in 1..Len(o) : o[i] = s
      BY <2>2, <3>1 DEF ToSet
    <3> QED
      BY <3>1, <3>2
  <2>4. PICK i \in I : \A j \in I : i <= j
    <3> HIDE DEF I
    <3> QED
      BY <2>3, LeastNatural
  <2>5. PICK d \in deps[o[i]] : d \in S
    BY <1>6, <2>4 DEF Deadlocked
  <2>6. PICK j \in 1..(i - 1) : o[j] = d
    BY <1>3, <2>4, <2>5 DEF Topological
  <2>7. j \in I /\ ~(i <= j)
    BY <2>2, <2>4, <2>5, <2>6
  <2> QED
    BY <2>4, <2>7
<1> QED
  BY <1>3, <1>4, <1>5, <1>6 DEF o
------------------------------------------------------------------------------
(* The layers *)

(* The layers hold each of the first k steps of o once, after the steps it *)
(* depends on.                                                             *)
LayersHold(ls, o, k) ==
    /\ ls \in Seq(SUBSET Steps)
    /\ \A s : (\E i \in 1..Len(ls) : s \in ls[i]) <=> (\E j \in 1..k : o[j] = s)
    /\ \A i, j \in 1..Len(ls) : \A s : s \in ls[i] /\ s \in ls[j] => i = j
    /\ \A i \in 1..Len(ls) : \A s \in ls[i] : \A d \in deps[s] :
          \E j \in 1..(i - 1) : d \in ls[j]

LEMMA InLayerFacts ==
    ASSUME NEW ls \in Seq(SUBSET Steps), NEW i \in 1..(Len(ls) + 1), NEW s \in Steps
    PROVE  /\ InLayer(ls, i, s) \in Seq(SUBSET Steps)
           /\ Len(InLayer(ls, i, s)) >= Len(ls) /\ Len(InLayer(ls, i, s)) >= i
           /\ \A j \in 1..Len(InLayer(ls, i, s)) : \A x :
                x \in InLayer(ls, i, s)[j] <=>
                   (j <= Len(ls) /\ x \in ls[j]) \/ (j = i /\ x = s)
<1>0. Len(ls) \in Nat
  OBVIOUS
<1>1. CASE i > Len(ls)
  <2>1. i = Len(ls) + 1 /\ InLayer(ls, i, s) = Append(ls, {s})
    BY <1>1 DEF InLayer
  <2>2. /\ Append(ls, {s}) \in Seq(SUBSET Steps) /\ Len(Append(ls, {s})) = Len(ls) + 1
        /\ \A j \in 1..Len(ls) : Append(ls, {s})[j] = ls[j]
        /\ Append(ls, {s})[Len(ls) + 1] = {s}
    OBVIOUS
  <2>3. \A j \in 1..(Len(ls) + 1) : (j \in 1..Len(ls) /\ j # i) \/ (j = i /\ ~(j <= Len(ls)))
    BY <1>0, <2>1
  <2> QED
    BY <1>0, <2>1, <2>2, <2>3
<1>2. CASE i <= Len(ls)
  <2>1. InLayer(ls, i, s) = [ls EXCEPT ![i] = @ \cup {s}] /\ i \in 1..Len(ls)
    BY <1>0, <1>2 DEF InLayer
  <2>2. ls \in [1..Len(ls) -> SUBSET Steps]
    OBVIOUS
  <2>3. [ls EXCEPT ![i] = @ \cup {s}] \in [1..Len(ls) -> SUBSET Steps]
    BY <2>1, <2>2
  <2>4. /\ [ls EXCEPT ![i] = @ \cup {s}] \in Seq(SUBSET Steps)
        /\ Len([ls EXCEPT ![i] = @ \cup {s}]) = Len(ls)
    BY <2>3, <1>0
  <2> QED
    BY <1>0, <2>1, <2>2, <2>4
<1> QED
  BY <1>0, <1>1, <1>2

LEMMA PlaceStep ==
    ASSUME Graph, NEW o \in Seq(Steps), IsInjective(o), Topological(o),
           NEW k \in 0..(Len(o) - 1), NEW ls, LayersHold(ls, o, k)
    PROVE  LayersHold(Place(ls, o[k + 1]), o, k + 1)
<1> DEFINE s == o[k + 1]
           held == {i \in DOMAIN ls : deps[s] \cap ls[i] # {}}
           n == IF held = {} THEN 1 ELSE Max(held) + 1
           new == InLayer(ls, n, s)
<1>1. /\ Len(o) \in Nat /\ k \in Nat /\ k + 1 \in 1..Len(o) /\ s \in Steps
      /\ DOMAIN o = 1..Len(o)
  OBVIOUS
<1>2. /\ ls \in Seq(SUBSET Steps)
      /\ \A x : (\E i \in 1..Len(ls) : x \in ls[i]) <=> (\E j \in 1..k : o[j] = x)
      /\ \A i, j \in 1..Len(ls) : \A x : x \in ls[i] /\ x \in ls[j] => i = j
      /\ \A i \in 1..Len(ls) : \A x \in ls[i] : \A d \in deps[x] :
            \E j \in 1..(i - 1) : d \in ls[j]
  BY DEF LayersHold
<1>3. Len(ls) \in Nat /\ DOMAIN ls = 1..Len(ls) /\ held \subseteq 0..Len(ls)
  BY <1>2
<1>4. /\ n \in 1..(Len(ls) + 1)
      /\ \A i \in held : i < n
  <2>1. CASE held = {}
    BY <1>3, <2>1
  <2>2. CASE held # {}
    <3>1. Max(held) \in held /\ \A i \in held : i <= Max(held)
      <4> HIDE DEF held
      <4> QED
        BY <1>3, <2>2, MaxFacts
    <3>2. n = Max(held) + 1 /\ held \subseteq 1..Len(ls)
      BY <1>3, <2>2
    <3> DEFINE m == Max(held)
    <3> HIDE DEF held, n, m
    <3>3. m \in 1..Len(ls) /\ \A i \in held : i \in 1..Len(ls) /\ i <= m
      BY <3>1, <3>2 DEF m
    <3> QED
      BY <1>3, <3>2, <3>3 DEF m
  <2> QED
    BY <2>1, <2>2
<1>5. \A i \in 1..Len(ls) : s \notin ls[i]
  <2>1. \A j \in 1..k : j \in 1..Len(o) /\ j # k + 1
    BY <1>1
  <2>2. \A j \in 1..k : o[j] # s
    BY <1>1, <2>1 DEF IsInjective
  <2> HIDE DEF s
  <2> QED
    BY <1>2, <2>2
<1>6. \A d \in deps[s] : \E j \in 1..(n - 1) : j \in 1..Len(ls) /\ d \in ls[j]
  <2> TAKE d \in deps[s]
  <2>1. PICK j \in 1..((k + 1) - 1) : o[j] = d
    BY <1>1 DEF Topological
  <2>2. PICK i \in 1..Len(ls) : d \in ls[i]
    BY <1>1, <1>2, <2>1
  <2>3. i \in held
    BY <1>3, <2>2
  <2> HIDE DEF held, n, s
  <2> QED
    BY <1>3, <1>4, <2>2, <2>3
<1> HIDE DEF held, n
<1>7. /\ new \in Seq(SUBSET Steps) /\ Len(new) >= Len(ls) /\ Len(new) >= n
      /\ \A j \in 1..Len(new) : \A x :
            x \in new[j] <=> (j <= Len(ls) /\ x \in ls[j]) \/ (j = n /\ x = s)
  <2> HIDE DEF s
  <2> QED
    BY <1>1, <1>2, <1>4, InLayerFacts
<1>8. Place(ls, s) = new
  BY DEF Place, held, n
<1>9. Len(new) \in Nat /\ n \in Nat /\ n >= 1
  BY <1>3, <1>4, <1>7
<1> HIDE DEF s, new
<1>10. \A x : (\E i \in 1..Len(new) : x \in new[i]) <=> (\E j \in 1..(k + 1) : o[j] = x)
  <2>1. \A x : (\E j \in 1..(k + 1) : o[j] = x) <=> (\E j \in 1..k : o[j] = x) \/ x = s
    <3>1. \A j : j \in 1..(k + 1) <=> j \in 1..k \/ j = k + 1
      BY <1>1
    <3> QED
      BY <3>1 DEF s
  <2>2. \A x : (\E i \in 1..Len(new) : x \in new[i]) <=>
                 (\E i \in 1..Len(ls) : x \in ls[i]) \/ x = s
    <3>1. n \in 1..Len(new) /\ \A i \in 1..Len(ls) : i \in 1..Len(new) /\ i <= Len(ls)
      BY <1>3, <1>7, <1>9
    <3>2. \A i \in 1..Len(new) : i <= Len(ls) => i \in 1..Len(ls)
      BY <1>3, <1>9
    <3> QED
      BY <1>7, <3>1, <3>2
  <2> QED
    BY <1>2, <2>1, <2>2
<1>11. \A i, j \in 1..Len(new) : \A x : x \in new[i] /\ x \in new[j] => i = j
  <2>1. \A i \in 1..Len(new) : i <= Len(ls) => i \in 1..Len(ls)
    BY <1>3, <1>9
  <2> QED
    BY <1>2, <1>5, <1>7, <2>1
<1>12. \A i \in 1..Len(new) : \A x \in new[i] : \A d \in deps[x] :
            \E j \in 1..(i - 1) : d \in new[j]
  <2> SUFFICES ASSUME NEW i \in 1..Len(new), NEW x \in new[i], NEW d \in deps[x]
               PROVE  \E j \in 1..(i - 1) : d \in new[j]
    OBVIOUS
  <2>1. \A j : j \in 1..Len(ls) => j \in 1..Len(new) /\ j <= Len(ls)
    BY <1>3, <1>7, <1>9
  <2>2. CASE i <= Len(ls) /\ x \in ls[i]
    <3>1. i \in 1..Len(ls)
      BY <1>3, <1>9, <2>2
    <3>2. PICK j \in 1..(i - 1) : d \in ls[j]
      BY <1>2, <2>2, <3>1
    <3>3. j \in 1..Len(ls)
      BY <1>3, <3>1
    <3> QED
      BY <1>7, <2>1, <3>2, <3>3
  <2>3. CASE i = n /\ x = s
    <3>1. PICK j \in 1..(n - 1) : j \in 1..Len(ls) /\ d \in ls[j]
      BY <1>6, <2>3
    <3> QED
      BY <1>7, <2>1, <2>3, <3>1
  <2> QED
    BY <1>7, <2>2, <2>3
<1> QED
  BY <1>7, <1>8, <1>10, <1>11, <1>12 DEF LayersHold, s

(* GroupIntoLayers, unfolded, and what it computes. *)
GroupRun(o) ==
    CHOOSE grouped : grouped = [k \in 0..Len(o) |->
                        IF k = 0 THEN <<>> ELSE Place(grouped[k - 1], o[k])]

LEMMA GroupIsRun == \A o : GroupIntoLayers(o) = GroupRun(o)[Len(o)]
BY DEF GroupIntoLayers, GroupRun

LEMMA GroupFacts ==
    ASSUME Graph, NEW o \in Seq(Steps), IsInjective(o), Topological(o)
    PROVE  LayersHold(GroupIntoLayers(o), o, Len(o))
<1> DEFINE n == Len(o)
           A == Seq(SUBSET Steps)
           Placed(ls, k) == IF Place(ls, o[k]) \in A THEN Place(ls, o[k]) ELSE <<>>
           F == [x \in A \X Nat |-> Placed(x[1], x[2])]
           Eq(grouped) == grouped = [k \in 0..n |->
                             IF k = 0 THEN <<>> ELSE Place(grouped[k - 1], o[k])]
<1>0. n \in Nat
  OBVIOUS
<1>1. <<>> \in A /\ LayersHold(<<>>, o, 0)
  <2>1. <<>> \in A /\ Len(<<>>) = 0 /\ 1..0 = {}
    OBVIOUS
  <2> QED
    BY <2>1 DEF LayersHold
<1>2. F \in [A \X Nat -> A]
  BY <1>1
<1>3. PICK g \in [0..n -> A] :
         g[0] = <<>> /\ \A i \in 1..n : g[i] = F[<<g[i - 1], i>>]
  <2> HIDE DEF F, A, n
  <2>1. \E g \in [0..n -> A] : Recurs(g, <<>>, F, n)
    BY <1>0, <1>1, <1>2, Recursion
  <2> QED
    BY <2>1 DEF Recurs
<1>4. \A i \in 0..n : LayersHold(g[i], o, i) /\ (i # 0 => g[i] = Place(g[i - 1], o[i]))
  <2> DEFINE N == {i \in Nat : i \in 0..n =>
                     LayersHold(g[i], o, i) /\ (i # 0 => g[i] = Place(g[i - 1], o[i]))}
  <2>1. 0 \in N
    BY <1>1, <1>3
  <2>2. ASSUME NEW i \in Nat, i \in N
        PROVE  i + 1 \in N
    <3> SUFFICES ASSUME i + 1 \in 0..n
                 PROVE  /\ LayersHold(g[i + 1], o, i + 1)
                        /\ g[i + 1] = Place(g[i], o[i + 1])
      OBVIOUS
    <3>1. i \in 0..n /\ i + 1 \in 1..n /\ (i + 1) - 1 = i /\ i \in 0..(Len(o) - 1)
      BY <1>0
    <3>2. LayersHold(g[i], o, i)
      BY <2>2, <3>1
    <3>3. LayersHold(Place(g[i], o[i + 1]), o, i + 1)
      BY <3>1, <3>2, PlaceStep
    <3>4. g[i] \in A /\ i + 1 \in Nat /\ Place(g[i], o[i + 1]) \in A
      BY <1>3, <3>1, <3>3 DEF LayersHold
    <3>5. F[<<g[i], i + 1>>] = Place(g[i], o[i + 1])
      BY <3>4
    <3>6. g[i + 1] = F[<<g[i], i + 1>>]
      <4> HIDE DEF F
      <4> QED
        BY <1>3, <3>1
    <3> QED
      BY <3>3, <3>5, <3>6
  <2>3. Nat \subseteq N
    <3> HIDE DEF N
    <3> QED
      BY <2>1, <2>2, Induction
  <2> QED
    BY <2>3
<1> HIDE DEF F
<1>5. Eq(g)
  BY <1>3, <1>4
<1>6. GroupRun(o) = [k \in 0..n |->
                       IF k = 0 THEN <<>> ELSE Place(GroupRun(o)[k - 1], o[k])]
  BY <1>5 DEF GroupRun
<1>7. GroupRun(o)[n] = g[n]
  <2> DEFINE f == GroupRun(o)
  <2> HIDE DEF f
  <2>0. f = [k \in 0..n |-> IF k = 0 THEN <<>> ELSE Place(f[k - 1], o[k])]
    BY <1>6 DEF f
  <2>1. f[0] = g[0]
    BY <1>0, <1>3, <2>0
  <2>2. \A i \in 1..n : f[i] = Place(f[i - 1], o[i]) /\ g[i] = Place(g[i - 1], o[i])
    BY <1>0, <1>4, <2>0
  <2>3. \A i \in 1..n : f[i - 1] = g[i - 1] => f[i] = g[i]
    BY <2>2
  <2>4. f[n] = g[n]
    <3> HIDE DEF n
    <3> QED
      BY <1>0, <2>1, <2>3, SameRuns
  <2> QED
    BY <2>4 DEF f
<1>8. LayersHold(g[n], o, n)
  BY <1>0, <1>4
<1> QED
  BY <1>7, <1>8, GroupIsRun

(* The layers of a workflow without a cycle: every step is in one of them, *)
(* and its dependencies are in earlier ones.                               *)
Layers == GroupIntoLayers(topological_order)

InEarlier(ls, i, d) == \E j \in 1..(i - 1) : d \in ls[j]

LEMMA LayerFacts ==
    ASSUME Graph, ~HasCycle
    PROVE  /\ Layers \in Seq(SUBSET Steps)
           /\ \A s \in Steps : \E i \in 1..Len(Layers) : s \in Layers[i]
           /\ \A i, j \in 1..Len(Layers) : \A s :
                 s \in Layers[i] /\ s \in Layers[j] => i = j
           /\ \A i \in 1..Len(Layers) : \A s \in Layers[i] : \A d \in deps[s] :
                 InEarlier(Layers, i, d)
<1> DEFINE o == topological_order
<1>1. o \in Seq(Steps) /\ IsInjective(o) /\ Topological(o) /\ ToSet(o) = Steps
  BY OrderFacts
<1>2. LayersHold(Layers, o, Len(o))
  <2> HIDE DEF o
  <2>1. LayersHold(GroupIntoLayers(o), o, Len(o))
    BY <1>1, GroupFacts
  <2> QED
    BY <2>1 DEF o, Layers
<1> HIDE DEF o
<1>3. \A s \in Steps : \E j \in 1..Len(o) : o[j] = s
  BY <1>1 DEF ToSet
<1> QED
  BY <1>2, <1>3 DEF LayersHold, InEarlier

(* A step that leaves the workflow alone leaves order and layers alone. *)
LEMMA SameWorkflow ==
    ASSUME workflow' = workflow
    PROVE  HasCycle' = HasCycle /\ Layers' = Layers
<1>1. deps' = deps
  BY DEF workflow
<1>2. topological_order' = topological_order
  BY <1>1 DEF topological_order, Popped, Pop, Queued
<1>3. \A o : GroupIntoLayers(o)' = GroupIntoLayers(o)
  BY <1>1 DEF GroupIntoLayers, Place
<1> QED
  BY <1>2, <1>3 DEF HasCycle, Layers
------------------------------------------------------------------------------
(* The part of the type invariant that durability depends on. *)
DurableTypes ==
    /\ status \in [Steps -> StepStatus]
    /\ context \in SUBSET Steps
    /\ fatal \in SUBSET Steps
    /\ latest \in Checkpoint \cup {NoCheckpoint}

(* A step that the latest checkpoint has as completed is completed in      *)
(* memory, too, except that an interrupted call has forgotten everything.  *)
Remembered ==
    \A s \in Done :
        status[s] = "COMPLETED" \/ (pc = "idle" /\ status[s] = "PENDING")

(* Only a call that has finished its work leaves a verdict. *)
VerdictAtEnd == Verdict # "open" => pc \in {"idle", "return", "done"}

(* There is a checkpoint to be marked FAILED. *)
AbortSaved == pc = "abort" => latest # NoCheckpoint

DurableInv == DurableTypes /\ Remembered /\ VerdictAtEnd /\ AbortSaved

LEMMA InitDurable == Init => DurableInv
BY WorkflowAssumption
   DEF Init, DurableInv, DurableTypes, Remembered, VerdictAtEnd, AbortSaved,
       Done, Verdict, AllPending, StepStatus

(* Saving the memory of a call keeps what the store had. *)
LEMMA SaveKeeps ==
    ASSUME DurableInv, NEW st \in {"ACTIVE", "COMPLETED", "FAILED"},
           pc # "idle", latest' = CheckpointAs(st)
    PROVE  /\ latest' \in Checkpoint
           /\ Done \subseteq Done'
           /\ Done' = {s \in Steps : status[s] = "COMPLETED"}
           /\ Verdict' = IF st = "ACTIVE" THEN "open" ELSE st
<1>1. latest' \in Checkpoint
  BY DEF CheckpointAs, Checkpoint, DurableInv, DurableTypes
<1>2. latest' # NoCheckpoint
  BY <1>1, WorkflowAssumption
<1>3. latest'.step_status = status /\ latest'.status = st
  BY DEF CheckpointAs
<1>4. Done' = {s \in Steps : status[s] = "COMPLETED"}
  BY <1>2, <1>3 DEF Done
<1>5. Done \subseteq Steps
  BY DEF Done
<1>6. Done \subseteq Done'
  BY <1>4, <1>5 DEF DurableInv, Remembered
<1>7. Verdict' = IF st = "ACTIVE" THEN "open" ELSE st
  BY <1>2, <1>3 DEF Verdict
<1> QED
  BY <1>1, <1>4, <1>6, <1>7

LEMMA NextDurable ==
    ASSUME DurableInv, [Next]_vars
    PROVE  /\ DurableInv'
           /\ Done \subseteq Done'
           /\ Verdict # "open" => Done' = Done /\ Verdict' = Verdict
<1> USE DEF DurableInv
<1>1. Done \subseteq Steps
  BY DEF Done
<1>2. ASSUME latest' = latest
      PROVE  Done' = Done /\ Verdict' = Verdict
  BY <1>2 DEF Done, Verdict
<1>3. CASE Run
  <2>1. Done = {} /\ Verdict = "open"
    BY <1>3 DEF Run, Done, Verdict
  <2>2. latest' = latest /\ fatal' = fatal
    BY <1>3 DEF Run, workflow
  <2>3. status' \in [Steps -> StepStatus] /\ context' \in SUBSET Steps
    BY <1>3 DEF Run, locals, AllPending, StepStatus, DurableTypes
  <2> QED
    BY <1>2, <1>3, <2>1, <2>2, <2>3
    DEF Run, DurableTypes, Remembered, VerdictAtEnd, AbortSaved
<1>4. CASE ResumeFinished \/ Resume
  <2>1. latest \in Checkpoint /\ latest # NoCheckpoint
    BY <1>4 DEF ResumeFinished, Resume, DurableTypes
  <2>2. status' = latest.step_status /\ latest' = latest /\ fatal' = fatal
    BY <1>4 DEF ResumeFinished, Resume, workflow
  <2>3. context' \in SUBSET Steps
    BY <1>4, <2>1 DEF ResumeFinished, Resume, Checkpoint, DurableTypes
  <2>4. DurableTypes'
    BY <2>1, <2>2, <2>3 DEF DurableTypes, Checkpoint
  <2>5. Remembered'
    BY <1>2, <2>1, <2>2 DEF Remembered, Done
  <2>6. VerdictAtEnd' /\ AbortSaved'
    BY <1>2, <1>4, <2>1, <2>2
    DEF ResumeFinished, Resume, VerdictAtEnd, AbortSaved, Verdict
  <2> QED
    BY <1>2, <2>2, <2>4, <2>5, <2>6
<1>5. CASE StartLayer
  <2>1. \A s \in Steps : status[s] = "COMPLETED" => status'[s] = "COMPLETED"
    BY <1>5 DEF StartLayer, Runnable
  <2>2. status' \in [Steps -> StepStatus]
    BY <1>5 DEF StartLayer, StepStatus, DurableTypes
  <2>3. pc = "layer" /\ pc' \in {"layer", "exec"} /\ latest' = latest
    BY <1>5 DEF StartLayer
  <2> QED
    BY <1>1, <1>2, <1>5, <2>1, <2>2, <2>3
    DEF StartLayer, workflow, DurableTypes, Remembered, VerdictAtEnd, AbortSaved
<1>6. CASE SettleLayer
  <2>1. \A s \in Steps : status[s] = "COMPLETED" => status'[s] = "COMPLETED"
    BY <1>6 DEF SettleLayer
  <2>2. status' \in [Steps -> StepStatus]
    BY <1>6 DEF SettleLayer, StepStatus, DurableTypes
  <2>3. context' \in SUBSET Steps
    BY <1>6 DEF SettleLayer, DurableTypes
  <2>4. pc = "exec" /\ pc' \in {"save", "saveabort"} /\ latest' = latest
    BY <1>6 DEF SettleLayer
  <2> QED
    BY <1>1, <1>2, <1>6, <2>1, <2>2, <2>3, <2>4
    DEF SettleLayer, workflow, DurableTypes, Remembered, VerdictAtEnd, AbortSaved
<1>7. CASE SaveLayer
  <2>1. /\ pc \in {"save", "saveabort"} /\ latest' = CheckpointAs("ACTIVE")
        /\ status' = status /\ context' = context /\ fatal' = fatal
    BY <1>7 DEF SaveLayer, workflow
  <2>2. /\ latest' \in Checkpoint /\ Done \subseteq Done'
        /\ Done' = {s \in Steps : status[s] = "COMPLETED"} /\ Verdict' = "open"
    BY <2>1, SaveKeeps
  <2>3. Verdict = "open"
    BY <2>1 DEF VerdictAtEnd
  <2> QED
    BY <2>1, <2>2, <2>3, WorkflowAssumption
    DEF DurableTypes, Remembered, VerdictAtEnd, AbortSaved
<1>8. CASE Abort
  <2>1. latest \in Checkpoint /\ latest # NoCheckpoint
    BY <1>8 DEF Abort, DurableTypes, AbortSaved
  <2>2. /\ latest' \in Checkpoint /\ latest'.step_status = latest.step_status
        /\ pc = "abort" /\ pc' = "return"
    BY <1>8, <2>1 DEF Abort, Checkpoint
  <2>3. Done' = Done
    BY <2>1, <2>2, WorkflowAssumption DEF Done
  <2>4. status' \in [Steps -> StepStatus]
    BY <1>8 DEF Abort, StepStatus, DurableTypes
  <2>5. \A s \in Steps : status[s] = "COMPLETED" => status'[s] = "COMPLETED"
    BY <1>8 DEF Abort
  <2>6. Verdict = "open"
    BY <2>2 DEF VerdictAtEnd
  <2> QED
    BY <1>1, <1>8, <2>2, <2>3, <2>4, <2>5, <2>6
    DEF Abort, workflow, DurableTypes, Remembered, VerdictAtEnd, AbortSaved
<1>9. CASE Finish
  <2>1. pc = "layer" /\ Verdict = "open"
    BY <1>9 DEF Finish, VerdictAtEnd
  <2>2. status' = status /\ context' = context /\ fatal' = fatal
    BY <1>9 DEF Finish, locals, workflow
  <2>3. CASE latest' = CheckpointAs("COMPLETED") /\ pc' = "return"
    <3>1. /\ latest' \in Checkpoint /\ Done \subseteq Done'
          /\ Done' = {s \in Steps : status[s] = "COMPLETED"}
      BY <2>1, <2>3, SaveKeeps
    <3> QED
      BY <2>1, <2>2, <2>3, <3>1
      DEF DurableTypes, Remembered, VerdictAtEnd, AbortSaved
  <2>4. CASE latest' = latest /\ pc' = "done"
    BY <1>1, <1>2, <2>1, <2>2, <2>4
    DEF DurableTypes, Remembered, VerdictAtEnd, AbortSaved
  <2> QED
    BY <1>9, <2>3, <2>4 DEF Finish
<1>10. CASE Return \/ AskAgain
  <2>1. /\ latest' = latest /\ status' = status /\ context' = context
        /\ fatal' = fatal /\ pc \in {"return", "done"} /\ pc' \in {"idle", "done"}
    BY <1>10 DEF Return, AskAgain, locals, workflow
  <2> QED
    BY <1>1, <1>2, <2>1
    DEF DurableTypes, Remembered, VerdictAtEnd, AbortSaved
<1>11. CASE Interrupt
  <2>1. /\ latest' = latest /\ status' = AllPending /\ context' = {}
        /\ fatal' = fatal /\ pc' = "idle"
    BY <1>11 DEF Interrupt, workflow
  <2> QED
    BY <1>1, <1>2, <2>1
    DEF DurableTypes, Remembered, VerdictAtEnd, AbortSaved, AllPending, StepStatus
<1>12. CASE UNCHANGED vars
  <2>1. /\ latest' = latest /\ status' = status /\ context' = context
        /\ fatal' = fatal /\ pc' = pc
    BY <1>12 DEF vars, locals, workflow
  <2> QED
    BY <1>1, <1>2, <2>1
    DEF DurableTypes, Remembered, VerdictAtEnd, AbortSaved
<1> QED
  BY <1>3, <1>4, <1>5, <1>6, <1>7, <1>8, <1>9, <1>10, <1>11, <1>12 DEF Next

(* The invariant is inductive, and with it no step of a durable checkpoint *)
(* runs again: it is completed in memory whenever a call is under way.     *)
THEOREM NeverRerun == Spec => []CompletedNotRerun
<1>1. DurableInv => CompletedNotRerun
  BY DEF DurableInv, Remembered, CompletedNotRerun, Done
<1>2. DurableInv /\ [Next]_vars => DurableInv'
  BY NextDurable
<1> QED
  BY <1>1, <1>2, InitDurable, PTL DEF Spec

(* Completed steps are never lost from the store, and once the workflow    *)
(* has a verdict neither it nor the completed steps ever change: resume    *)
(* does not run a finished workflow again.                                 *)
THEOREM DurableProgress ==
    Spec => [][/\ Done \subseteq Done'
               /\ Verdict # "open" => Done' = Done /\ Verdict' = Verdict]_vars
<1>1. DurableInv /\ [Next]_vars =>
        [/\ Done \subseteq Done'
         /\ Verdict # "open" => Done' = Done /\ Verdict' = Verdict]_vars
  BY NextDurable
<1>2. DurableInv /\ [Next]_vars => DurableInv'
  BY NextDurable
<1> QED
  BY <1>1, <1>2, InitDurable, PTL DEF Spec
------------------------------------------------------------------------------
(* A call of run or resume *)

Working == {"layer", "exec", "save", "saveabort", "abort"}

(* A step that the steps after it need not wait for, nor do without. *)
SettledIn(st, s) == st[s] = "COMPLETED" \/ (st[s] = "FAILED" /\ s \notin fatal)

(* Only a workflow without a cycle gets to work, and on its own layers. *)
LayersRight ==
    /\ latest # NoCheckpoint => ~HasCycle
    /\ pc \in Working => ~HasCycle /\ layers = Layers
    /\ layers = <<>> \/ (~HasCycle /\ layers = Layers)
    /\ pc \in Working \ {"layer"} => layer <= Len(layers)

(* A checkpoint is taken between layers and has the inputs of what is left. *)
StoreSound ==
    latest # NoCheckpoint => \A s \in Steps :
        /\ latest.step_status[s] \notin {"RUNNING", "SKIPPED"}
        /\ SettledIn(latest.step_status, s) => s \in latest.context

(* The layers before the current one are settled, no step was skipped (the *)
(* call would have aborted), and what the store does not know yet as       *)
(* completed is of the current layer.                                      *)
CallSound ==
    pc \in Working =>
        /\ \A i \in 1..(layer - 1) : \A s \in layers[i] : SettledIn(status, s)
        /\ \A s \in Steps : SettledIn(status, s) => s \in context
        /\ \A s \in Steps : status[s] # "SKIPPED"
        /\ \A s \in Steps : status[s] = "COMPLETED" =>
              s \in Done \/ (pc \in {"save", "saveabort"} /\ s \in layers[layer])

(* How far the current layer is. *)
LayerSound ==
    /\ \A s \in Steps : status[s] = "RUNNING" => pc = "exec" /\ s \in layers[layer]
    /\ pc = "exec" => \A s \in layers[layer] : status[s] \in {"RUNNING", "COMPLETED"}
    /\ pc = "save" => \A s \in layers[layer] : SettledIn(status, s)
    /\ pc \in {"saveabort", "abort"} =>
          \E s \in layers[layer] : s \in fatal /\ status[s] = "FAILED"

ResultThere == pc = "return" => latest # NoCheckpoint /\ latest.status # "ACTIVE"

CallInv ==
    /\ TypeOK /\ LayersRight /\ StoreSound /\ CallSound /\ LayerSound
    /\ ResultThere

LEMMA InitCall == ASSUME Init PROVE CallInv
<1>1. TypeOK
  <2>1. <<>> \in Seq(SUBSET Steps) /\ Len(<<>>) = 0 /\ 1 \in 1..(0 + 1)
    OBVIOUS
  <2>2. layers \in Seq(SUBSET Steps) /\ layer \in 1..(Len(layers) + 1)
    BY <2>1 DEF Init
  <2>3. status \in [Steps -> StepStatus] /\ interrupts \in 0..MaxInterrupts
    BY WorkflowAssumption DEF Init, AllPending, StepStatus
  <2>4. context \in SUBSET Steps /\ deps \in [Steps -> SUBSET Steps]
    BY DEF Init
  <2> QED
    BY <2>2, <2>3, <2>4 DEF Init, TypeOK
<1>2. LayersRight /\ StoreSound /\ CallSound /\ LayerSound /\ ResultThere
  BY DEF Init, LayersRight, StoreSound, CallSound, LayerSound, ResultThere,
     Working, AllPending
<1> QED
  BY <1>1, <1>2 DEF CallInv

LEMMA DoneLayersFacts ==
    ASSUME NEW ls \in Seq(SUBSET Steps), NEW st
    PROVE  /\ DoneLayers(ls, st) \in 0..Len(ls)
           /\ \A i \in 1..DoneLayers(ls, st) : \A s \in ls[i] : st[s] = "COMPLETED"
<1> DEFINE S == {n \in 0..Len(ls) : \A i \in 1..n : \A s \in ls[i] : st[s] = "COMPLETED"}
<1>1. Len(ls) \in Nat /\ 0 \in S /\ S \in SUBSET (0..Len(ls))
  OBVIOUS
<1>2. Max(S) \in S
  <2> HIDE DEF S
  <2> QED
    BY <1>1, MaxFacts
<1>3. DoneLayers(ls, st) = Max(S)
  BY DEF DoneLayers
<1> QED
  BY <1>2, <1>3

(* A call begins: run with nothing done, resume behind the layers that are *)
(* done.                                                                   *)
LEMMA BeginCall ==
    ASSUME CallInv, DurableInv, Run \/ Resume
    PROVE  CallInv'
<1> USE DEF CallInv
<1>1. workflow' = workflow /\ latest' = latest /\ interrupts' = interrupts
  BY DEF Run, Resume
<1>2. /\ deps' = deps /\ fatal' = fatal /\ HasCycle' = HasCycle /\ Layers' = Layers
      /\ Done' = Done
  BY <1>1, SameWorkflow DEF workflow, Done
<1>3. StoreSound'
  BY <1>1, <1>2 DEF StoreSound, SettledIn
<1>4. Graph
  BY DEF TypeOK, Graph
<1>5. CASE Run /\ HasCycle
  <2>1. /\ latest = NoCheckpoint /\ pc' = "done" /\ result' = "ValueError"
        /\ locals' = locals /\ pc = "idle"
    BY <1>5 DEF Run
  <2>2. TypeOK'
    BY <1>1, <1>2, <2>1 DEF TypeOK, locals
  <2>3. LayersRight' /\ CallSound' /\ LayerSound' /\ ResultThere'
    BY <1>1, <1>2, <2>1
    DEF LayersRight, CallSound, LayerSound, ResultThere, Working, locals
  <2> QED
    BY <1>3, <2>2, <2>3
<1>6. CASE Run /\ ~HasCycle
  <2>1. /\ latest = NoCheckpoint /\ pc' = "layer" /\ result' = result
        /\ status' = AllPending /\ context' = {} /\ layers' = Layers
        /\ layer' = 1 /\ bound' = FALSE
    BY <1>6 DEF Run, Layers
  <2>2. Layers \in Seq(SUBSET Steps)
    BY <1>4, <1>6, LayerFacts
  <2>3. TypeOK'
    <3>1. layer' \in 1..(Len(layers') + 1) /\ layers' \in Seq(SUBSET Steps)
      BY <2>1, <2>2
    <3> QED
      BY <1>1, <1>2, <2>1, <3>1 DEF TypeOK, AllPending, StepStatus
  <2>4. LayersRight' /\ CallSound' /\ LayerSound' /\ ResultThere'
    BY <1>1, <1>2, <1>6, <2>1
    DEF LayersRight, CallSound, LayerSound, ResultThere, Working, AllPending, SettledIn
  <2> QED
    BY <1>3, <2>3, <2>4
<1>7. CASE Resume
  <2>1. /\ latest # NoCheckpoint /\ latest \in Checkpoint /\ pc' = "layer"
        /\ result' = result /\ status' = latest.step_status
        /\ context' = latest.context /\ layers' = Layers /\ bound' = FALSE
        /\ layer' = DoneLayers(layers', status') + 1
    BY <1>7 DEF Resume, Layers, TypeOK
  <2>2. ~HasCycle /\ Layers \in Seq(SUBSET Steps)
    BY <1>4, <2>1, LayerFacts DEF LayersRight
  <2>3. /\ DoneLayers(layers', status') \in 0..Len(layers')
        /\ \A i \in 1..DoneLayers(layers', status') : \A s \in layers'[i] :
              status'[s] = "COMPLETED"
    BY <2>1, <2>2, DoneLayersFacts
  <2>4. /\ layer' \in 1..(Len(layers') + 1)
        /\ \A i \in 1..(layer' - 1) : \A s \in layers'[i] : status'[s] = "COMPLETED"
    <3>1. Len(layers') \in Nat
      BY <2>1, <2>2
    <3> QED
      BY <2>1, <2>3, <3>1
  <2>5. TypeOK'
    BY <1>1, <1>2, <2>1, <2>2, <2>4 DEF TypeOK, Checkpoint
  <2>6. LayersRight' /\ LayerSound' /\ ResultThere'
    BY <1>1, <1>2, <2>1, <2>2
    DEF LayersRight, LayerSound, ResultThere, Working, StoreSound
  <2>7. CallSound'
    BY <1>1, <1>2, <2>1, <2>4 DEF CallSound, Working, StoreSound, SettledIn, Done
  <2> QED
    BY <1>3, <2>5, <2>6, <2>7
<1> QED
  BY <1>5, <1>6, <1>7

(* All steps of a layer that are not completed run: what they depend on is *)
(* settled, so none is skipped.                                            *)
LEMMA LayerRuns ==
    ASSUME CallInv, pc = "layer", layer <= Len(layers)
    PROVE  /\ layers[layer] \subseteq Steps
           /\ \A s \in layers[layer] : \A d \in deps[s] : SettledIn(status, d)
           /\ Runnable(layers[layer]) = {s \in layers[layer] : status[s] # "COMPLETED"}
<1> USE DEF CallInv
<1>1. ~HasCycle /\ layers = Layers /\ Graph
  BY DEF LayersRight, Working, TypeOK, Graph
<1>2. layer \in 1..Len(layers) /\ layers \in Seq(SUBSET Steps)
  <2>1. layers \in Seq(SUBSET Steps) /\ layer \in 1..(Len(layers) + 1)
    BY DEF TypeOK
  <2>2. Len(layers) \in Nat
    BY <2>1
  <2> QED
    BY <2>1, <2>2
<1>3. layers[layer] \subseteq Steps
  BY <1>2
<1>4. ASSUME NEW s \in layers[layer], NEW d \in deps[s]
      PROVE  SettledIn(status, d)
  <2>1. PICK j \in 1..(layer - 1) : d \in layers[j]
    BY <1>1, <1>2, <1>4, LayerFacts DEF InEarlier
  <2> QED
    BY <2>1 DEF CallSound, Working
<1>5. \A s \in layers[layer] : ~DepsFailed(s)
  BY <1>4 DEF DepsFailed, SettledIn
<1> QED
  BY <1>3, <1>4, <1>5 DEF Runnable

LEMMA StartCall ==
    ASSUME CallInv, StartLayer
    PROVE  CallInv'
<1> USE DEF CallInv
<1> DEFINE L == layers[layer]
           R == {s \in L : status[s] # "COMPLETED"}
<1>1. /\ workflow' = workflow /\ latest' = latest /\ context' = context
      /\ layers' = layers /\ bound' = bound /\ result' = result
      /\ interrupts' = interrupts /\ pc = "layer" /\ layer <= Len(layers)
  BY DEF StartLayer
<1>2. /\ deps' = deps /\ fatal' = fatal /\ HasCycle' = HasCycle /\ Layers' = Layers
      /\ Done' = Done
  BY <1>1, SameWorkflow DEF workflow, Done
<1>3. L \subseteq Steps /\ Runnable(L) = R
  BY <1>1, LayerRuns
<1>4. /\ status' = [s \in Steps |-> IF s \in R THEN "RUNNING" ELSE status[s]]
      /\ \/ R = {} /\ layer' = layer + 1 /\ pc' = pc
         \/ pc' = "exec" /\ layer' = layer
  BY <1>3 DEF StartLayer
<1>5. /\ status \in [Steps -> StepStatus] /\ layers \in Seq(SUBSET Steps)
      /\ layer \in 1..(Len(layers) + 1)
  BY DEF TypeOK
<1>6. Len(layers) \in Nat /\ layer \in 1..Len(layers)
  <2>1. Len(layers) \in Nat
    BY <1>5
  <2> QED
    BY <1>1, <1>5, <2>1
<1>7. ~HasCycle /\ layers = Layers /\ Graph
  BY <1>1 DEF LayersRight, Working, TypeOK, Graph
<1>8. /\ status' \in [Steps -> StepStatus]
      /\ \A s \in Steps : \/ s \in R /\ status'[s] = "RUNNING"
                          \/ s \notin R /\ status'[s] = status[s]
      /\ \A s \in R : status[s] # "COMPLETED"
  BY <1>4, <1>5 DEF StepStatus
<1>9. \A i \in 1..(layer - 1) : \A s \in layers[i] : s \in Steps /\ s \notin R
  <2> SUFFICES ASSUME NEW i \in 1..(layer - 1), NEW s \in layers[i]
               PROVE  s \in Steps /\ s \notin R
    OBVIOUS
  <2>1. i \in 1..Len(layers) /\ i # layer
    BY <1>6
  <2>2. s \in Steps
    BY <1>5, <2>1
  <2>3. s \notin L
    BY <1>6, <1>7, <2>1, LayerFacts
  <2> QED
    BY <2>2, <2>3
<1> HIDE DEF R
<1>10. TypeOK'
  <2>1. layer' \in 1..(Len(layers) + 1) /\ pc' \in {"layer", "exec"}
    BY <1>1, <1>4, <1>6
  <2> QED
    BY <1>1, <1>2, <1>8, <2>1 DEF TypeOK
<1>11. LayersRight' /\ ResultThere'
  BY <1>1, <1>2, <1>4, <1>7 DEF LayersRight, ResultThere, Working
<1>12. StoreSound'
  BY <1>1, <1>2 DEF StoreSound, SettledIn
<1>13. LayerSound'
  <2>1. \A s \in Steps : status[s] # "RUNNING"
    BY <1>1 DEF LayerSound
  <2>2. R = {s \in L : status[s] # "COMPLETED"}
    BY DEF R
  <2> QED
    BY <1>1, <1>2, <1>3, <1>4, <1>8, <2>1, <2>2 DEF LayerSound
<1>14. CallSound'
  <2>1. /\ \A i \in 1..(layer - 1) : \A s \in layers[i] : SettledIn(status, s)
        /\ \A s \in Steps : SettledIn(status, s) => s \in context
        /\ \A s \in Steps : status[s] # "SKIPPED"
        /\ \A s \in Steps : status[s] = "COMPLETED" => s \in Done
    BY <1>1 DEF CallSound, Working
  <2>2. \A i \in 1..(layer - 1) : \A s \in layers[i] : SettledIn(status', s)
    BY <1>8, <1>9, <2>1 DEF SettledIn
  <2>3. \A i \in 1..(layer' - 1) : \A s \in layers[i] : SettledIn(status', s)
    <3>1. CASE layer' = layer
      BY <2>2, <3>1
    <3>2. CASE R = {} /\ layer' = layer + 1
      <4>1. \A s \in L : status'[s] = "COMPLETED"
        BY <1>3, <1>8, <3>2 DEF R
      <4>2. \A i \in 1..(layer' - 1) : i \in 1..(layer - 1) \/ i = layer
        BY <1>6, <3>2
      <4> QED
        BY <2>2, <4>1, <4>2 DEF SettledIn
    <3> QED
      BY <1>4, <3>1, <3>2
  <2>4. /\ \A s \in Steps : SettledIn(status', s) => s \in context
        /\ \A s \in Steps : status'[s] # "SKIPPED"
        /\ \A s \in Steps : status'[s] = "COMPLETED" => s \in Done
    BY <1>8, <2>1 DEF SettledIn
  <2> QED
    BY <1>1, <1>2, <2>3, <2>4 DEF CallSound, SettledIn
<1> QED
  BY <1>10, <1>11, <1>12, <1>13, <1>14

(* The running steps are the ones of the current layer that were not       *)
(* completed before.                                                       *)
LEMMA SettleCall ==
    ASSUME CallInv, SettleLayer
    PROVE  CallInv'
<1> USE DEF CallInv
<1> DEFINE R == {s \in Steps : status[s] = "RUNNING"}
<1>1. /\ workflow' = workflow /\ latest' = latest /\ layers' = layers
      /\ layer' = layer /\ bound' = TRUE /\ result' = result
      /\ interrupts' = interrupts /\ pc = "exec"
  BY DEF SettleLayer
<1>2. /\ deps' = deps /\ fatal' = fatal /\ HasCycle' = HasCycle /\ Layers' = Layers
      /\ Done' = Done
  BY <1>1, SameWorkflow DEF workflow, Done
<1>3. PICK ok \in SUBSET R :
        /\ status' = [s \in Steps |->
                        IF s \notin R THEN status[s]
                        ELSE IF s \in ok THEN "COMPLETED" ELSE "FAILED"]
        /\ context' = context \cup ok \cup (R \ fatal)
        /\ pc' = IF R \cap fatal \subseteq ok THEN "save" ELSE "saveabort"
  BY DEF SettleLayer
<1>4. /\ status \in [Steps -> StepStatus] /\ layers \in Seq(SUBSET Steps)
      /\ layer \in 1..(Len(layers) + 1) /\ context \in SUBSET Steps
  BY DEF TypeOK
<1>5. ~HasCycle /\ layers = Layers /\ Graph /\ layer <= Len(layers)
  BY <1>1 DEF LayersRight, Working, TypeOK, Graph
<1>6. Len(layers) \in Nat /\ layer \in 1..Len(layers)
  <2>1. Len(layers) \in Nat
    BY <1>4
  <2> QED
    BY <1>4, <1>5, <2>1
<1>7. layers[layer] \subseteq Steps
  BY <1>4, <1>6
<1>8. R \subseteq layers[layer] /\ \A s \in layers[layer] \ R : status[s] = "COMPLETED"
  BY <1>1, <1>7 DEF LayerSound
<1>9. /\ status' \in [Steps -> StepStatus]
      /\ \A s \in Steps : \/ s \notin R /\ status'[s] = status[s]
                          \/ s \in R /\ s \in ok /\ status'[s] = "COMPLETED"
                          \/ s \in R /\ s \notin ok /\ status'[s] = "FAILED"
      /\ \A s \in R : status[s] = "RUNNING"
      /\ \A s \in Steps : status[s] = "RUNNING" => s \in R
  BY <1>3, <1>4 DEF StepStatus
<1> HIDE DEF R
<1>10. \A i \in 1..(layer - 1) : \A s \in layers[i] : s \in Steps /\ s \notin R
  <2> SUFFICES ASSUME NEW i \in 1..(layer - 1), NEW s \in layers[i]
               PROVE  s \in Steps /\ s \notin R
    OBVIOUS
  <2>1. i \in 1..Len(layers) /\ i # layer
    BY <1>6
  <2>2. s \in Steps
    BY <1>4, <2>1
  <2>3. s \notin layers[layer]
    BY <1>5, <1>6, <2>1, LayerFacts
  <2> QED
    BY <1>8, <2>2, <2>3
<1>11. TypeOK'
  <2>1. context' \in SUBSET Steps /\ pc' \in {"save", "saveabort"}
    BY <1>3, <1>4, <1>7, <1>8
  <2> QED
    BY <1>1, <1>2, <1>9, <2>1 DEF TypeOK
<1>12. LayersRight' /\ ResultThere' /\ StoreSound'
  BY <1>1, <1>2, <1>3, <1>5
  DEF LayersRight, ResultThere, StoreSound, SettledIn, Working
<1>13. LayerSound'
  <2>1. \A s \in Steps : status'[s] # "RUNNING"
    BY <1>9
  <2>2. pc' = "save" => \A s \in layers[layer] : SettledIn(status', s)
    BY <1>3, <1>7, <1>8, <1>9 DEF SettledIn
  <2>3. pc' # "save" =>
          pc' = "saveabort" /\ \E s \in layers[layer] : s \in fatal /\ status'[s] = "FAILED"
    BY <1>3, <1>7, <1>8, <1>9
  <2> QED
    BY <1>1, <1>2, <2>1, <2>2, <2>3 DEF LayerSound, SettledIn
<1>14. CallSound'
  <2>1. /\ \A i \in 1..(layer - 1) : \A s \in layers[i] : SettledIn(status, s)
        /\ \A s \in Steps : SettledIn(status, s) => s \in context
        /\ \A s \in Steps : status[s] # "SKIPPED"
        /\ \A s \in Steps : status[s] = "COMPLETED" => s \in Done
    BY <1>1 DEF CallSound, Working
  <2>2. \A i \in 1..(layer - 1) : \A s \in layers[i] : SettledIn(status', s)
    BY <1>9, <1>10, <2>1 DEF SettledIn
  <2>3. /\ \A s \in Steps : SettledIn(status', s) => s \in context'
        /\ \A s \in Steps : status'[s] # "SKIPPED"
    BY <1>3, <1>9, <2>1 DEF SettledIn
  <2>4. \A s \in Steps : status'[s] = "COMPLETED" => s \in Done \/ s \in layers[layer]
    BY <1>8, <1>9, <2>1
  <2>5. pc' \in {"save", "saveabort"}
    BY <1>3
  <2> QED
    BY <1>1, <1>2, <2>2, <2>3, <2>4, <2>5 DEF CallSound, SettledIn
<1> QED
  BY <1>11, <1>12, <1>13, <1>14

LEMMA SaveCall ==
    ASSUME CallInv, DurableInv, SaveLayer
    PROVE  CallInv'
<1> USE DEF CallInv
<1>1. /\ workflow' = workflow /\ status' = status /\ context' = context
      /\ layers' = layers /\ bound' = bound /\ result' = result
      /\ interrupts' = interrupts /\ pc \in {"save", "saveabort"}
      /\ latest' = CheckpointAs("ACTIVE")
      /\ \/ pc = "save" /\ pc' = "layer" /\ layer' = layer + 1
         \/ pc = "saveabort" /\ pc' = "abort" /\ layer' = layer
  BY DEF SaveLayer
<1>2. deps' = deps /\ fatal' = fatal /\ HasCycle' = HasCycle /\ Layers' = Layers
  BY <1>1, SameWorkflow DEF workflow
<1>3. latest' \in Checkpoint /\ Done' = {s \in Steps : status[s] = "COMPLETED"}
  BY <1>1, SaveKeeps
<1>4. /\ latest'.step_status = status /\ latest'.context = context
      /\ latest'.status = "ACTIVE"
  BY <1>1 DEF CheckpointAs
<1>5. ~HasCycle /\ layers = Layers /\ layer <= Len(layers)
  BY <1>1 DEF LayersRight, Working
<1>6. Len(layers) \in Nat /\ layer \in 1..Len(layers)
  <2>1. layers \in Seq(SUBSET Steps) /\ layer \in 1..(Len(layers) + 1)
    BY DEF TypeOK
  <2>2. Len(layers) \in Nat
    BY <2>1
  <2> QED
    BY <1>5, <2>1, <2>2
<1>7. /\ \A i \in 1..(layer - 1) : \A s \in layers[i] : SettledIn(status, s)
      /\ \A s \in Steps : SettledIn(status, s) => s \in context
      /\ \A s \in Steps : status[s] # "SKIPPED"
  BY <1>1 DEF CallSound, Working
<1>8. \A s \in Steps : status[s] # "RUNNING"
  BY <1>1 DEF LayerSound
<1>9. TypeOK'
  <2>1. layer' \in 1..(Len(layers) + 1)
    BY <1>1, <1>6
  <2> QED
    BY <1>1, <1>2, <1>3, <2>1 DEF TypeOK
<1>10. LayersRight' /\ ResultThere'
  BY <1>1, <1>2, <1>5 DEF LayersRight, ResultThere, Working
<1>11. StoreSound'
  BY <1>2, <1>4, <1>7, <1>8 DEF StoreSound, SettledIn
<1>12. LayerSound'
  BY <1>1, <1>2, <1>8 DEF LayerSound
<1>13. CallSound'
  <2>1. \A i \in 1..(layer' - 1) : \A s \in layers[i] : SettledIn(status, s)
    <3>1. CASE pc = "save" /\ layer' = layer + 1
      <4>1. \A i \in 1..(layer' - 1) : i \in 1..(layer - 1) \/ i = layer
        BY <1>6, <3>1
      <4> QED
        BY <1>7, <3>1, <4>1 DEF LayerSound
    <3> QED
      BY <1>1, <1>7, <3>1
  <2> QED
    BY <1>1, <1>2, <1>3, <1>7, <2>1 DEF CallSound, SettledIn
<1> QED
  BY <1>9, <1>10, <1>11, <1>12, <1>13

(* The call is over, or forgotten. *)
LEMMA LeaveCall ==
    ASSUME CallInv, DurableInv,
           Abort \/ Finish \/ Return \/ ResumeFinished \/ AskAgain \/ Interrupt
    PROVE  CallInv'
<1> USE DEF CallInv
<1>1. workflow' = workflow
  BY DEF Abort, Finish, Return, ResumeFinished, AskAgain, Interrupt
<1>2. deps' = deps /\ fatal' = fatal /\ HasCycle' = HasCycle /\ Layers' = Layers
  BY <1>1, SameWorkflow DEF workflow
<1>3. ASSUME latest' = latest
      PROVE  StoreSound'
  BY <1>2, <1>3 DEF StoreSound, SettledIn
<1>4. \A s \in Steps : status[s] = "RUNNING" => pc = "exec"
  BY DEF LayerSound
<1>5. CASE Abort
  <2>1. /\ pc = "abort" /\ pc' = "return" /\ context' = context /\ layers' = layers
        /\ layer' = layer /\ bound' = bound /\ result' = result
        /\ interrupts' = interrupts
        /\ status' = [s \in Steps |->
                        IF status[s] = "PENDING" THEN "SKIPPED" ELSE status[s]]
        /\ latest' = [latest EXCEPT !.status = "FAILED"]
    BY <1>5 DEF Abort
  <2>2. latest \in Checkpoint /\ latest # NoCheckpoint
    BY <2>1 DEF TypeOK, DurableInv, AbortSaved
  <2>3. /\ latest' \in Checkpoint /\ latest'.step_status = latest.step_status
        /\ latest'.context = latest.context /\ latest'.status = "FAILED"
    BY <2>1, <2>2 DEF Checkpoint
  <2>4. latest' # NoCheckpoint
    BY <2>3, WorkflowAssumption
  <2>5. status' \in [Steps -> StepStatus]
    BY <2>1 DEF TypeOK, StepStatus
  <2>6. TypeOK'
    BY <1>2, <2>1, <2>3, <2>5 DEF TypeOK
  <2>7. LayersRight' /\ CallSound' /\ ResultThere'
    BY <1>2, <2>1, <2>2, <2>3, <2>4
    DEF LayersRight, CallSound, ResultThere, Working
  <2>8. StoreSound'
    BY <1>2, <2>2, <2>3 DEF StoreSound, SettledIn
  <2>9. \A s \in Steps : status'[s] # "RUNNING"
    BY <1>4, <2>1
  <2>10. LayerSound'
    BY <2>1, <2>9 DEF LayerSound
  <2> QED
    BY <2>6, <2>7, <2>8, <2>10
<1>6. CASE Finish
  <2>1. /\ status' = status /\ context' = context /\ layers' = layers
        /\ layer' = layer /\ bound' = bound /\ interrupts' = interrupts
        /\ pc = "layer" /\ layer > Len(layers)
        /\ \/ /\ latest' = CheckpointAs("COMPLETED") /\ pc' = "return"
              /\ result' = result
           \/ latest' = latest /\ pc' = "done" /\ result' = "UnboundLocalError"
    BY <1>6 DEF Finish, locals
  <2>2. /\ \A s \in Steps : status[s] \notin {"RUNNING", "SKIPPED"}
        /\ \A s \in Steps : SettledIn(status, s) => s \in context
        /\ ~HasCycle /\ (layers = <<>> \/ layers = Layers)
    BY <1>4, <2>1 DEF CallSound, LayersRight, Working
  <2>3. CASE latest' = CheckpointAs("COMPLETED") /\ pc' = "return" /\ result' = result
    <3>1. latest' \in Checkpoint
      BY <2>1, <2>3, SaveKeeps
    <3>2. /\ latest'.step_status = status /\ latest'.context = context
          /\ latest'.status = "COMPLETED"
      BY <2>3 DEF CheckpointAs
    <3>3. latest' # NoCheckpoint
      BY <3>1, WorkflowAssumption
    <3>4. TypeOK'
      BY <1>2, <2>1, <2>3, <3>1 DEF TypeOK
    <3>5. StoreSound'
      BY <1>2, <2>2, <3>2 DEF StoreSound, SettledIn
    <3>6. LayersRight' /\ CallSound' /\ LayerSound' /\ ResultThere'
      BY <1>2, <2>1, <2>2, <2>3, <3>2, <3>3
      DEF LayersRight, CallSound, LayerSound, ResultThere, Working
    <3> QED
      BY <3>4, <3>5, <3>6
  <2>4. CASE latest' = latest /\ pc' = "done" /\ result' = "UnboundLocalError"
    <3>1. TypeOK'
      BY <1>2, <2>1, <2>4 DEF TypeOK
    <3>2. LayersRight' /\ CallSound' /\ LayerSound' /\ ResultThere'
      BY <1>2, <2>1, <2>2, <2>4
      DEF LayersRight, CallSound, LayerSound, ResultThere, Working
    <3> QED
      BY <1>3, <2>4, <3>1, <3>2
  <2> QED
    BY <2>1, <2>3, <2>4
<1>7. CASE Return \/ AskAgain
  <2>1. /\ latest' = latest /\ status' = status /\ context' = context
        /\ layers' = layers /\ layer' = layer /\ bound' = bound
        /\ interrupts' = interrupts /\ pc \in {"return", "done"}
        /\ pc' \in {"idle", "done"}
        /\ result' = result \/ (pc = "return" /\ result' = latest.status)
    BY <1>7 DEF Return, AskAgain, locals
  <2>2. pc = "return" => latest.status \in {"COMPLETED", "FAILED"}
    BY DEF ResultThere, TypeOK, Checkpoint
  <2>3. TypeOK'
    BY <1>2, <2>1, <2>2 DEF TypeOK
  <2>4. LayersRight' /\ CallSound' /\ LayerSound' /\ ResultThere'
    BY <1>2, <1>4, <2>1 DEF LayersRight, CallSound, LayerSound, ResultThere, Working
  <2> QED
    BY <1>3, <2>1, <2>3, <2>4
<1>8. CASE ResumeFinished
  <2>1. /\ latest' = latest /\ latest # NoCheckpoint /\ latest.status # "ACTIVE"
        /\ status' = latest.step_status /\ result' = latest.status /\ pc' = "done"
        /\ context' = context /\ layers' = layers /\ layer' = layer
        /\ bound' = bound /\ interrupts' = interrupts
    BY <1>8 DEF ResumeFinished
  <2>2. latest \in Checkpoint
    BY <2>1 DEF TypeOK
  <2>3. TypeOK'
    BY <1>2, <2>1, <2>2 DEF TypeOK, Checkpoint
  <2>4. LayersRight' /\ CallSound' /\ LayerSound' /\ ResultThere'
    BY <1>2, <2>1
    DEF LayersRight, CallSound, LayerSound, ResultThere, StoreSound, Working
  <2> QED
    BY <1>3, <2>1, <2>3, <2>4
<1>9. CASE Interrupt
  <2>1. /\ latest' = latest /\ result' = result /\ pc' = "idle"
        /\ status' = AllPending /\ context' = {} /\ layers' = <<>> /\ layer' = 1
        /\ bound' = FALSE /\ interrupts < MaxInterrupts
        /\ interrupts' = interrupts + 1
    BY <1>9 DEF Interrupt
  <2>2. layers' \in Seq(SUBSET Steps) /\ layer' \in 1..(Len(layers') + 1)
    <3>1. <<>> \in Seq(SUBSET Steps) /\ Len(<<>>) = 0 /\ 1 \in 1..(0 + 1)
      OBVIOUS
    <3> QED
      BY <2>1, <3>1
  <2>3. status' \in [Steps -> StepStatus] /\ context' \in SUBSET Steps
    BY <2>1 DEF AllPending, StepStatus
  <2>4. interrupts' \in 0..MaxInterrupts
    BY <2>1, WorkflowAssumption DEF TypeOK
  <2>5. /\ pc' \in {"idle", "layer", "exec", "save", "saveabort", "abort",
                    "return", "done"}
        /\ bound' \in BOOLEAN
    BY <2>1
  <2>6. TypeOK'
    BY <1>2, <2>1, <2>2, <2>3, <2>4, <2>5 DEF TypeOK
  <2>7. LayersRight' /\ CallSound' /\ LayerSound' /\ ResultThere'
    BY <1>2, <2>1
    DEF LayersRight, CallSound, LayerSound, ResultThere, Working, AllPending
  <2> QED
    BY <1>3, <2>1, <2>6, <2>7
<1> QED
  BY <1>5, <1>6, <1>7, <1>8, <1>9

Inv == CallInv /\ DurableInv

LEMMA NextCall ==
    ASSUME Inv, [Next]_vars
    PROVE  Inv'
<1> USE DEF Inv
<1>1. DurableInv'
  BY NextDurable
<1>2. CASE UNCHANGED vars
  <2>1. /\ workflow' = workflow /\ latest' = latest /\ pc' = pc /\ status' = status
        /\ context' = context /\ layers' = layers /\ layer' = layer
        /\ bound' = bound /\ result' = result /\ interrupts' = interrupts
        /\ deps' = deps /\ fatal' = fatal
    BY <1>2 DEF vars, locals, workflow
  <2>2. HasCycle' = HasCycle /\ Layers' = Layers
    BY <2>1, SameWorkflow
  <2>3. TypeOK'
    BY <2>1 DEF CallInv, TypeOK
  <2>4. LayersRight' /\ StoreSound' /\ CallSound' /\ LayerSound' /\ ResultThere'
    BY <2>1, <2>2
    DEF CallInv, LayersRight, StoreSound, CallSound, LayerSound, ResultThere,
        SettledIn, Done
  <2> QED
    BY <1>1, <2>3, <2>4 DEF CallInv
<1> QED
  BY <1>1, <1>2, BeginCall, StartCall, SettleCall, SaveCall, LeaveCall DEF Next

(* What the invariant says of the layers, of running steps, of the store.  *)
LEMMA InvLayers == ASSUME Inv PROVE LayersSound
<1>1. Graph
  BY DEF Inv, CallInv, TypeOK, Graph
<1>2. HasCycle <=> \E S \in (SUBSET Steps) \ {{}} : \A s \in S : deps[s] \cap S # {}
  BY <1>1, OrderFacts DEF Deadlocked
<1>3. ASSUME layers # <<>>, NEW s \in Steps
      PROVE  \E i \in DOMAIN layers :
               /\ s \in layers[i]
               /\ \A j \in DOMAIN layers : s \in layers[j] => j = i
               /\ \A d \in deps[s] : \E j \in 1..(i - 1) : d \in layers[j]
  <2>1. ~HasCycle /\ layers = Layers
    BY <1>3 DEF Inv, CallInv, LayersRight
  <2>2. DOMAIN layers = 1..Len(layers)
    BY DEF Inv, CallInv, TypeOK
  <2>3. PICK i \in 1..Len(layers) : s \in layers[i]
    BY <1>1, <2>1, LayerFacts
  <2> QED
    BY <1>1, <2>1, <2>2, <2>3, LayerFacts DEF InEarlier
<1> QED
  BY <1>2, <1>3 DEF LayersSound

(* The dependencies of a step of the current layer. *)
LEMMA DepsSettled ==
    ASSUME Inv, pc \in Working, layer <= Len(layers), NEW s \in layers[layer]
    PROVE  \A d \in deps[s] : /\ d \in Steps /\ SettledIn(status, d)
                              /\ d \notin layers[layer]
<1> USE DEF Inv, CallInv
<1>1. ~HasCycle /\ layers = Layers /\ Graph
  BY DEF LayersRight, TypeOK, Graph
<1>2. layers \in Seq(SUBSET Steps) /\ layer \in 1..Len(layers)
  <2>1. layers \in Seq(SUBSET Steps) /\ layer \in 1..(Len(layers) + 1)
    BY DEF TypeOK
  <2>2. Len(layers) \in Nat
    BY <2>1
  <2> QED
    BY <2>1, <2>2
<1> SUFFICES ASSUME NEW d \in deps[s]
             PROVE  d \in Steps /\ SettledIn(status, d) /\ d \notin layers[layer]
  OBVIOUS
<1>3. PICK j \in 1..(layer - 1) : d \in layers[j]
  BY <1>1, <1>2, LayerFacts DEF InEarlier
<1>4. j \in 1..Len(layers) /\ j # layer
  BY <1>2
<1>5. d \in Steps
  BY <1>2, <1>3, <1>4
<1>6. d \notin layers[layer]
  BY <1>1, <1>2, <1>3, <1>4, LayerFacts
<1>7. SettledIn(status, d)
  BY <1>3 DEF CallSound
<1> QED
  BY <1>5, <1>6, <1>7

LEMMA InvRunning == ASSUME Inv PROVE OrderRespected /\ InputsThere
<1> SUFFICES ASSUME NEW s \in Steps, status[s] = "RUNNING", NEW d \in deps[s]
             PROVE  SettledIn(status, d) /\ d \in context
  BY DEF OrderRespected, InputsThere, SettledIn
<1>1. pc = "exec" /\ s \in layers[layer] /\ layer <= Len(layers)
  BY DEF Inv, CallInv, LayerSound, LayersRight, Working
<1>2. d \in Steps /\ SettledIn(status, d)
  BY <1>1, DepsSettled DEF Working
<1> QED
  BY <1>1, <1>2 DEF Inv, CallInv, CallSound, Working

(* Every step of a call is a step of the abstract workflow or a stutter.   *)
LEMMA StepDurable ==
    ASSUME Inv, [Next]_vars
    PROVE  [W!Next]_<<deps, fatal, Done, Verdict>>
<1> USE DEF Inv
<1>1. deps' = deps /\ fatal' = fatal
  BY DEF Next, Run, ResumeFinished, Resume, StartLayer, SettleLayer, SaveLayer,
     Abort, Finish, Return, Interrupt, AskAgain, vars, workflow
<1>2. ASSUME latest' = latest
      PROVE  Done' = Done /\ Verdict' = Verdict
  BY <1>2 DEF Done, Verdict
<1>3. Done \subseteq {s \in Steps : status[s] = "COMPLETED"} \/ pc = "idle"
  BY DEF DurableInv, Remembered, Done
<1>4. CASE SaveLayer
  <2>1. /\ pc \in {"save", "saveabort"} /\ latest' = CheckpointAs("ACTIVE")
    BY <1>4 DEF SaveLayer
  <2>2. /\ Done \subseteq Done' /\ Done' = {s \in Steps : status[s] = "COMPLETED"}
        /\ Verdict' = "open"
    BY <2>1, SaveKeeps
  <2>3. Verdict = "open"
    BY <2>1 DEF DurableInv, VerdictAtEnd
  <2>4. layer <= Len(layers)
    BY <2>1 DEF CallInv, LayersRight, Working
  <2>5. ASSUME NEW s \in Done' \ Done
        PROVE  deps[s] \cap fatal \subseteq Done
    <3>1. s \in layers[layer]
      BY <2>1, <2>2, <2>5 DEF CallInv, CallSound, Working
    <3>2. ASSUME NEW d \in deps[s], d \in fatal
          PROVE  d \in Done
      <4>1. d \in Steps /\ SettledIn(status, d) /\ d \notin layers[layer]
        BY <2>1, <2>4, <3>1, DepsSettled DEF Working
      <4>2. status[d] = "COMPLETED"
        BY <3>2, <4>1 DEF SettledIn
      <4> QED
        BY <2>1, <4>1, <4>2 DEF CallInv, CallSound, Working
    <3> QED
      BY <3>2
  <2>6. /\ Done' \ Done \in SUBSET (Steps \ Done)
        /\ Done' = Done \cup (Done' \ Done)
    BY <2>2
  <2>7. W!Progress
    BY <1>1, <2>2, <2>3, <2>5, <2>6 DEF W!Progress, W!Ready
  <2> QED
    BY <2>7 DEF W!Next
<1>5. CASE Abort
  <2>1. pc = "abort" /\ latest' = [latest EXCEPT !.status = "FAILED"]
    BY <1>5 DEF Abort
  <2>2. latest \in Checkpoint /\ latest # NoCheckpoint
    BY <2>1 DEF CallInv, TypeOK, DurableInv, AbortSaved
  <2>3. /\ latest' \in Checkpoint /\ latest'.step_status = latest.step_status
        /\ latest'.status = "FAILED"
    BY <2>1, <2>2 DEF Checkpoint
  <2>4. Done' = Done /\ Verdict' = "FAILED"
    BY <2>2, <2>3, WorkflowAssumption DEF Done, Verdict
  <2>5. Verdict = "open"
    BY <2>1 DEF DurableInv, VerdictAtEnd
  <2>6. layer <= Len(layers)
    BY <2>1 DEF CallInv, LayersRight, Working
  <2>7. PICK s \in layers[layer] : s \in fatal /\ status[s] = "FAILED"
    BY <2>1 DEF CallInv, LayerSound
  <2>8. s \in fatal \ Done
    BY <1>3, <2>1, <2>7
  <2>9. ASSUME NEW d \in deps[s], d \in fatal
        PROVE  d \in Done
    <3>1. d \in Steps /\ SettledIn(status, d)
      BY <2>1, <2>6, <2>7, DepsSettled DEF Working
    <3>2. status[d] = "COMPLETED"
      BY <2>9, <3>1 DEF SettledIn
    <3> QED
      BY <2>1, <3>1, <3>2 DEF CallInv, CallSound, Working
  <2>10. W!Conclude
    BY <1>1, <2>4, <2>5, <2>8, <2>9 DEF W!Conclude, W!Ready
  <2> QED
    BY <2>10 DEF W!Next
<1>6. CASE Finish
  <2>1. /\ pc = "layer" /\ layer > Len(layers)
        /\ latest' = CheckpointAs("COMPLETED") \/ latest' = latest
    BY <1>6 DEF Finish
  <2>2. CASE latest' = CheckpointAs("COMPLETED")
    <3>1. /\ Done' = {s \in Steps : status[s] = "COMPLETED"} /\ Done \subseteq Done'
          /\ Verdict' = "COMPLETED"
      BY <2>1, <2>2, SaveKeeps
    <3>2. Done' = Done
      BY <2>1, <3>1 DEF CallInv, CallSound, Working
    <3>3. Verdict = "open"
      BY <2>1 DEF DurableInv, VerdictAtEnd
    <3>4. ASSUME NEW s \in fatal
          PROVE  s \in Done
      <4>1. ~HasCycle /\ layers = Layers /\ Graph /\ s \in Steps
        BY <2>1, <3>4 DEF CallInv, LayersRight, TypeOK, Graph, Working
      <4>2. PICK i \in 1..Len(layers) : s \in layers[i]
        BY <4>1, LayerFacts
      <4>3. i \in 1..(layer - 1)
        <5>1. layers \in Seq(SUBSET Steps) /\ layer \in 1..(Len(layers) + 1)
          BY DEF CallInv, TypeOK
        <5>2. Len(layers) \in Nat
          BY <5>1
        <5> QED
          BY <2>1, <5>1, <5>2
      <4>4. SettledIn(status, s)
        BY <2>1, <4>2, <4>3 DEF CallInv, CallSound, Working
      <4> QED
        BY <3>1, <3>2, <3>4, <4>1, <4>4 DEF SettledIn
    <3>5. W!Conclude
      BY <1>1, <3>1, <3>2, <3>3, <3>4 DEF W!Conclude
    <3> QED
      BY <3>5 DEF W!Next
  <2> QED
    BY <1>1, <1>2, <2>1, <2>2
<1>7. CASE \/ Run \/ ResumeFinished \/ Resume \/ StartLayer \/ SettleLayer
           \/ Return \/ Interrupt \/ AskAgain \/ UNCHANGED vars
  <2>1. latest' = latest
    BY <1>7 DEF Run, ResumeFinished, Resume, StartLayer, SettleLayer, Return,
       Interrupt, AskAgain, vars
  <2> QED
    BY <1>1, <1>2, <2>1
<1> QED
  BY <1>4, <1>5, <1>6, <1>7 DEF Next

(* The inductive invariant of this module. *)
LEMMA AlwaysInv == Spec => []Inv
<1>1. Init => Inv
  BY InitCall, InitDurable DEF Inv
<1>2. Inv /\ [Next]_vars => Inv'
  BY NextCall
<1> QED
  BY <1>1, <1>2, PTL DEF Spec

(* The types, and with them that a call never leaves its layers. *)
THEOREM TypesKept == Spec => []TypeOK
<1>1. Inv => TypeOK
  BY DEF Inv, CallInv
<1> QED
  BY <1>1, AlwaysInv, PTL

(* Kahn's algorithm rejects exactly the workflows in which some steps wait *)
(* for each other, and the layers of the others have every step once,      *)
(* after all of its dependencies.                                          *)
THEOREM LayersAlwaysSound == Spec => []LayersSound
<1>1. Inv => LayersSound
  BY InvLayers
<1> QED
  BY <1>1, AlwaysInv, PTL

(* Whatever was interrupted and resumed, a step runs only after the steps  *)
(* it depends on are settled in its favour ...                             *)
THEOREM OrderKept == Spec => []OrderRespected
<1>1. Inv => OrderRespected
  BY InvRunning
<1> QED
  BY <1>1, AlwaysInv, PTL

(* ... and with their entries in its context. *)
THEOREM InputsKept == Spec => []InputsThere
<1>1. Inv => InputsThere
  BY InvRunning
<1> QED
  BY <1>1, AlwaysInv, PTL

(* run and resume implement the durable workflow. *)
THEOREM ImplementsWorkflow == Spec => IsDurable
<1>1. Init => W!Init
  BY DEF Init, W!Init, Done, Verdict
<1>2. Inv /\ [Next]_vars => [W!Next]_<<deps, fatal, Done, Verdict>>
  BY StepDurable
<1> QED
  BY <1>1, <1>2, AlwaysInv, PTL DEF Spec, W!Spec, IsDurable

------------------------------------------------------------------------------
(* What a checkpoint can say, and when resume fails *)

(* Whatever has run, its dependencies are settled in its favour, or one of *)
(* them that may fail is being tried again.                                *)
ClosedIn(st) ==
    \A s \in Steps : st[s] \in {"COMPLETED", "FAILED"} =>
        \A d \in deps[s] : SettledIn(st, d) \/ (st[d] = "RUNNING" /\ d \notin fatal)

StoreRight ==
    latest # NoCheckpoint =>
        /\ ClosedIn(latest.step_status)
        /\ latest.status = "COMPLETED" =>
              \A s \in Steps : SettledIn(latest.step_status, s)
        /\ latest.status = "FAILED" =>
              \E s \in fatal : latest.step_status[s] = "FAILED"

(* A call that has run no step has only passed completed ones.             *)
MemoryRight ==
    /\ pc \in Working => ClosedIn(status)
    /\ pc = "abort" => status = latest.step_status
    /\ pc \in {"save", "saveabort"} => bound
    /\ pc = "layer" /\ ~bound =>
          \A i \in 1..(layer - 1) : \A s \in layers[i] : status[s] = "COMPLETED"
    /\ \A s \in Steps : status[s] = "SKIPPED" =>
          latest # NoCheckpoint /\ latest.status = "FAILED"

Right == StoreRight /\ MemoryRight

LEMMA InitRight == ASSUME Init PROVE Right
BY DEF Init, Right, StoreRight, MemoryRight, Working, AllPending

(* The graph and the store stay: so does what the store says.              *)
LEMMA SameStore ==
    ASSUME Inv, StoreRight, latest' = latest, workflow' = workflow
    PROVE  StoreRight'
BY DEF StoreRight, ClosedIn, SettledIn, workflow

LEMMA BeginRight ==
    ASSUME Inv, Right, Run \/ ResumeFinished \/ Resume
    PROVE  Right'
<1> USE DEF Inv, CallInv, Right
<1>1. workflow' = workflow /\ latest' = latest /\ deps' = deps /\ fatal' = fatal
  BY DEF Run, ResumeFinished, Resume, workflow
<1>2. StoreRight'
  BY <1>1, SameStore
<1>3. CASE Run
  <2>1. CASE pc' = "done" /\ locals' = locals
    BY <1>1, <1>2, <1>3, <2>1 DEF Run, MemoryRight, Working, locals
  <2>2. CASE pc' = "layer" /\ status' = AllPending /\ layer' = 1
    BY <1>1, <1>2, <2>2 DEF MemoryRight, Working, AllPending, ClosedIn
  <2> QED
    BY <1>3, <2>1, <2>2 DEF Run
<1>4. CASE ResumeFinished
  <2>1. pc' = "done" /\ status' = latest.step_status /\ latest # NoCheckpoint
    BY <1>4 DEF ResumeFinished
  <2> QED
    BY <1>1, <1>2, <2>1 DEF MemoryRight, Working, StoreSound
<1>5. CASE Resume
  <2>1. /\ latest # NoCheckpoint /\ pc' = "layer" /\ status' = latest.step_status
        /\ layers' = Layers /\ layer' = DoneLayers(layers', status') + 1
    BY <1>5 DEF Resume, Layers
  <2>2. Layers \in Seq(SUBSET Steps)
    BY <2>1, LayerFacts DEF LayersRight, TypeOK, Graph
  <2>3. /\ DoneLayers(layers', status') \in 0..Len(layers')
        /\ \A i \in 1..DoneLayers(layers', status') : \A s \in layers'[i] :
              status'[s] = "COMPLETED"
    BY <2>1, <2>2, DoneLayersFacts
  <2>4. \A i \in 1..(layer' - 1) : \A s \in layers'[i] : status'[s] = "COMPLETED"
    <3>1. Len(layers') \in Nat
      BY <2>1, <2>2
    <3> QED
      BY <2>1, <2>3, <3>1
  <2>5. ClosedIn(status)'
    BY <1>1, <2>1 DEF StoreRight, ClosedIn, SettledIn
  <2>6. \A s \in Steps : status'[s] # "SKIPPED"
    BY <2>1 DEF StoreSound
  <2> QED
    BY <1>2, <2>1, <2>4, <2>5, <2>6 DEF MemoryRight
<1> QED
  BY <1>3, <1>4, <1>5

LEMMA StartRight ==
    ASSUME Inv, Right, StartLayer
    PROVE  Right'
<1> USE DEF Inv, CallInv, Right
<1> DEFINE L == layers[layer]
           R == {s \in L : status[s] # "COMPLETED"}
<1>1. /\ workflow' = workflow /\ latest' = latest /\ deps' = deps /\ fatal' = fatal
      /\ layers' = layers /\ bound' = bound /\ pc = "layer" /\ layer <= Len(layers)
  BY DEF StartLayer, workflow
<1>2. StoreRight'
  BY <1>1, SameStore
<1>3. L \subseteq Steps /\ Runnable(L) = R
  BY <1>1, LayerRuns
<1>4. /\ status' = [s \in Steps |-> IF s \in R THEN "RUNNING" ELSE status[s]]
      /\ \/ R = {} /\ layer' = layer + 1 /\ pc' = "layer"
         \/ pc' = "exec"
  BY <1>1, <1>3 DEF StartLayer
<1>5. status \in [Steps -> StepStatus] /\ layer \in Nat \ {0}
  BY DEF TypeOK
<1>6. \A s \in Steps :
        \/ status'[s] = "RUNNING" /\ status[s] # "COMPLETED"
        \/ status'[s] = status[s]
  BY <1>4
<1>7. ClosedIn(status)'
  <2>1. ClosedIn(status)
    BY <1>1 DEF MemoryRight, Working
  <2>2. deps \in [Steps -> SUBSET Steps]
    BY DEF TypeOK
  <2> QED
    BY <1>1, <1>6, <2>1, <2>2 DEF ClosedIn, SettledIn
<1>8. \A s \in Steps : status'[s] # "SKIPPED"
  BY <1>1, <1>6 DEF CallSound, Working
<1>9. pc' = "layer" /\ ~bound' =>
        \A i \in 1..(layer' - 1) : \A s \in layers'[i] : status'[s] = "COMPLETED"
  <2> SUFFICES ASSUME pc' = "layer", ~bound',
                      NEW i \in 1..(layer' - 1), NEW s \in layers[i]
               PROVE  status'[s] = "COMPLETED"
    BY <1>1
  <2>1. R = {} /\ layer' = layer + 1
    BY <1>4
  <2>2. status' = status
    BY <1>4, <1>5, <2>1
  <2>3. i \in 1..(layer - 1) \/ i = layer
    BY <1>5, <2>1
  <2>4. CASE i \in 1..(layer - 1)
    BY <1>1, <2>2, <2>4 DEF MemoryRight
  <2>5. CASE i = layer
    BY <2>1, <2>2, <2>5
  <2> QED
    BY <2>3, <2>4, <2>5
<1> QED
  BY <1>1, <1>2, <1>4, <1>7, <1>8, <1>9 DEF MemoryRight

LEMMA SettleRight ==
    ASSUME Inv, Right, SettleLayer
    PROVE  Right'
<1> USE DEF Inv, CallInv, Right
<1>1. /\ workflow' = workflow /\ latest' = latest /\ deps' = deps /\ fatal' = fatal
      /\ bound' = TRUE /\ pc = "exec" /\ pc' \in {"save", "saveabort"}
  BY DEF SettleLayer, workflow
<1>2. StoreRight'
  BY <1>1, SameStore
<1>3. \A s \in Steps :
        IF status[s] = "RUNNING" THEN status'[s] \in {"COMPLETED", "FAILED"}
        ELSE status'[s] = status[s]
  BY DEF SettleLayer
<1>4. layer <= Len(layers)
  BY <1>1 DEF LayersRight, Working
<1>5. ClosedIn(status)'
  <2>1. ClosedIn(status)
    BY <1>1 DEF MemoryRight, Working
  <2> SUFFICES ASSUME NEW s \in Steps, status'[s] \in {"COMPLETED", "FAILED"},
                      NEW d \in deps[s]
               PROVE  SettledIn(status', d)
    BY <1>1 DEF ClosedIn, SettledIn
  <2>2. d \in Steps
    BY DEF TypeOK
  <2>3. CASE status[s] = "RUNNING"
    <3>1. s \in layers[layer]
      BY <1>1, <2>3 DEF LayerSound
    <3>2. SettledIn(status, d)
      BY <1>1, <1>4, <3>1, DepsSettled DEF Working
    <3> QED
      BY <1>3, <2>2, <3>2 DEF SettledIn
  <2>4. CASE status[s] # "RUNNING"
    <3>1. SettledIn(status, d) \/ (status[d] = "RUNNING" /\ d \notin fatal)
      BY <1>3, <2>1, <2>4 DEF ClosedIn
    <3> QED
      BY <1>3, <2>2, <3>1 DEF SettledIn
  <2> QED
    BY <2>3, <2>4
<1>6. \A s \in Steps : status'[s] # "SKIPPED"
  BY <1>1, <1>3 DEF CallSound, Working
<1> QED
  BY <1>1, <1>2, <1>5, <1>6 DEF MemoryRight

LEMMA SaveRight ==
    ASSUME Inv, Right, SaveLayer
    PROVE  Right'
<1> USE DEF Inv, CallInv, Right
<1>1. /\ workflow' = workflow /\ deps' = deps /\ fatal' = fatal /\ status' = status
      /\ pc \in {"save", "saveabort"} /\ latest' = CheckpointAs("ACTIVE")
      /\ pc' \in {"layer", "abort"} /\ bound' = bound
  BY DEF SaveLayer, workflow
<1>2. latest'.status = "ACTIVE" /\ latest'.step_status = status
  BY <1>1 DEF CheckpointAs
<1>3. ClosedIn(status) /\ \A s \in Steps : status[s] # "SKIPPED"
  BY <1>1 DEF MemoryRight, CallSound, Working
<1>4. StoreRight'
  BY <1>1, <1>2, <1>3 DEF StoreRight, ClosedIn, SettledIn
<1>5. bound
  BY <1>1 DEF MemoryRight
<1> QED
  BY <1>1, <1>2, <1>3, <1>4, <1>5 DEF MemoryRight, ClosedIn, SettledIn

LEMMA LeaveRight ==
    ASSUME Inv, Right, Abort \/ Finish \/ Return \/ Interrupt \/ AskAgain
    PROVE  Right'
<1> USE DEF Inv, CallInv, Right
<1>1. workflow' = workflow /\ deps' = deps /\ fatal' = fatal
  BY DEF Abort, Finish, Return, Interrupt, AskAgain, workflow
<1>2. CASE Abort
  <2>1. /\ pc = "abort" /\ pc' = "return"
        /\ latest' = [latest EXCEPT !.status = "FAILED"]
        /\ status' = [s \in Steps |->
                        IF status[s] = "PENDING" THEN "SKIPPED" ELSE status[s]]
    BY <1>2 DEF Abort
  <2>2. latest \in Checkpoint /\ latest # NoCheckpoint
    BY <2>1 DEF TypeOK, DurableInv, AbortSaved
  <2>3. /\ latest' \in Checkpoint /\ latest'.step_status = latest.step_status
        /\ latest'.status = "FAILED"
    BY <2>1, <2>2 DEF Checkpoint
  <2>4. latest' # NoCheckpoint
    BY <2>3, WorkflowAssumption
  <2>5. \E s \in fatal : latest.step_status[s] = "FAILED"
    BY <2>1 DEF LayerSound, MemoryRight
  <2>6. ClosedIn(latest.step_status)
    BY <2>2 DEF StoreRight
  <2>7. StoreRight'
    BY <1>1, <2>3, <2>4, <2>5, <2>6 DEF StoreRight, ClosedIn, SettledIn
  <2> QED
    BY <2>1, <2>3, <2>4, <2>7 DEF MemoryRight, Working
<1>3. CASE Finish
  <2>1. /\ pc = "layer" /\ layer > Len(layers) /\ locals' = locals
        /\ \/ bound /\ latest' = CheckpointAs("COMPLETED") /\ pc' = "return"
           \/ latest' = latest /\ pc' = "done"
    BY <1>3 DEF Finish
  <2>2. status' = status /\ \A s \in Steps : status[s] # "SKIPPED"
    BY <2>1 DEF locals, CallSound, Working
  <2>3. \A s \in Steps : SettledIn(status, s)
    <3> SUFFICES ASSUME NEW s \in Steps PROVE SettledIn(status, s)
      OBVIOUS
    <3>1. ~HasCycle /\ layers = Layers /\ Graph
      BY <2>1 DEF LayersRight, TypeOK, Graph, Working
    <3>2. PICK i \in 1..Len(layers) : s \in layers[i]
      BY <3>1, LayerFacts
    <3>3. i \in 1..(layer - 1)
      <4>1. layers \in Seq(SUBSET Steps) /\ layer \in 1..(Len(layers) + 1)
        BY DEF TypeOK
      <4>2. Len(layers) \in Nat
        BY <4>1
      <4> QED
        BY <2>1, <4>1, <4>2
    <3> QED
      BY <2>1, <3>2, <3>3 DEF CallSound, Working
  <2>4. CASE latest' = CheckpointAs("COMPLETED") /\ pc' = "return"
    <3>1. latest'.status = "COMPLETED" /\ latest'.step_status = status
      BY <2>4 DEF CheckpointAs
    <3>2. ClosedIn(status)
      BY <2>1 DEF MemoryRight, Working
    <3>3. StoreRight'
      BY <1>1, <2>3, <3>1, <3>2 DEF StoreRight, ClosedIn, SettledIn
    <3> QED
      BY <2>2, <2>4, <3>3 DEF MemoryRight, Working
  <2>5. CASE latest' = latest /\ pc' = "done"
    <3>1. StoreRight'
      BY <1>1, <2>5, SameStore
    <3> QED
      BY <2>2, <2>5, <3>1 DEF MemoryRight, Working
  <2> QED
    BY <2>1, <2>4, <2>5
<1>4. CASE Return \/ AskAgain \/ Interrupt
  <2>1. latest' = latest /\ pc' \in {"idle", "done"}
    BY <1>4 DEF Return, AskAgain, Interrupt
  <2>2. \A s \in Steps : status'[s] = status[s] \/ status'[s] = "PENDING"
    BY <1>4 DEF Return, AskAgain, Interrupt, locals, AllPending
  <2>3. StoreRight'
    BY <1>1, <2>1, SameStore
  <2> QED
    BY <2>1, <2>2, <2>3 DEF MemoryRight, Working
<1> QED
  BY <1>2, <1>3, <1>4

LEMMA NextRight ==
    ASSUME Inv, Right, [Next]_vars
    PROVE  Right'
<1>1. CASE UNCHANGED vars
  <2>1. /\ workflow' = workflow /\ latest' = latest /\ pc' = pc /\ status' = status
        /\ layers' = layers /\ layer' = layer /\ bound' = bound
        /\ deps' = deps /\ fatal' = fatal
    BY <1>1 DEF vars, locals, workflow
  <2>2. StoreRight'
    BY <2>1, SameStore DEF Right
  <2> QED
    BY <2>1, <2>2 DEF Right, MemoryRight, ClosedIn, SettledIn
<1> QED
  BY <1>1, BeginRight, StartRight, SettleRight, SaveRight, LeaveRight DEF Next

LEMMA AlwaysRight == Spec => []Right
<1>1. Init => Right
  BY InitRight
<1>2. Inv /\ Right /\ [Next]_vars => Right'
  BY NextRight
<1> QED
  BY <1>1, <1>2, AlwaysInv, PTL DEF Spec

(* What the latest checkpoint says is consistent, whatever was interrupted *)
(* and resumed: a step that ran has its dependencies settled in its        *)
(* favour; COMPLETED means that every step completed or was allowed to     *)
(* fail; FAILED names a fatal step that failed.                            *)
CheckpointTrue ==
    latest # NoCheckpoint =>
        /\ \A s \in Steps :
              latest.step_status[s] \in {"COMPLETED", "FAILED"} =>
                  \A d \in deps[s] : SettledIn(latest.step_status, d)
        /\ latest.status = "COMPLETED" =>
              \A s \in Steps : SettledIn(latest.step_status, s)
        /\ latest.status = "FAILED" =>
              \E s \in fatal : latest.step_status[s] = "FAILED"

(* The result returned is the verdict of a true checkpoint.                *)
THEOREM CheckpointsTellTheTruth == Spec => []CheckpointTrue
<1>1. Inv /\ Right => CheckpointTrue
  <2> SUFFICES ASSUME Inv, Right, latest # NoCheckpoint
               PROVE  \A s \in Steps :
                        latest.step_status[s] \in {"COMPLETED", "FAILED"} =>
                          \A d \in deps[s] : SettledIn(latest.step_status, d)
    BY DEF Right, StoreRight, CheckpointTrue
  <2>1. \A s \in Steps : deps[s] \subseteq Steps
    BY DEF Inv, CallInv, TypeOK
  <2> QED
    BY <2>1 DEF Inv, CallInv, StoreSound, Right, StoreRight, ClosedIn
<1> QED
  BY <1>1, AlwaysInv, AlwaysRight, PTL

(* A step is skipped by an abort only.                                     *)
SkippedByAbort == \A s \in Steps : status[s] = "SKIPPED" => Verdict = "FAILED"

(* The branch of the layer loop that skips a step because a dependency of  *)
(* it was skipped or failed for good is never taken, in no run and in no   *)
(* resume: whoever fails for good ends the call before the next layer, and *)
(* a resume starts with the layer that failed.                             *)
THEOREM LayersSkipNothing == Spec => []SkippedByAbort
<1>1. Right => SkippedByAbort
  BY DEF Right, MemoryRight, SkippedByAbort, Verdict
<1> QED
  BY <1>1, AlwaysRight, PTL

(* The only way in which a call leaves the layer loop with an exception.   *)
FailsOnFull == [][pc = "layer" /\ pc' = "done" => Done = Steps]_vars

(* resume raises UnboundLocalError (the run workflow_resume) only if every *)
(* step has durably completed: the crash hit between the save of the last  *)
(* layer and the final one (or the workflow has no steps).  No work is     *)
(* lost, only the verdict.                                                 *)
THEOREM OnlyFullCheckpointsFail == Spec => FailsOnFull
<1>1. Inv /\ Right /\ [Next]_vars => [pc = "layer" /\ pc' = "done" => Done = Steps]_vars
  <2> SUFFICES ASSUME Inv, Right, [Next]_vars, pc = "layer", pc' = "done",
                      NEW s \in Steps
               PROVE  s \in Done
    BY DEF Done
  <2>1. Finish
    BY DEF Next, Run, ResumeFinished, Resume, StartLayer, SettleLayer, SaveLayer,
       Abort, Return, Interrupt, AskAgain, vars
  <2>2. layer > Len(layers) /\ ~bound
    BY <2>1 DEF Finish
  <2>3. ~HasCycle /\ layers = Layers /\ Graph
    BY DEF Inv, CallInv, LayersRight, TypeOK, Graph, Working
  <2>4. PICK i \in 1..Len(layers) : s \in layers[i]
    BY <2>3, LayerFacts
  <2>5. i \in 1..(layer - 1)
    <3>1. layers \in Seq(SUBSET Steps) /\ layer \in 1..(Len(layers) + 1)
      BY DEF Inv, CallInv, TypeOK
    <3>2. Len(layers) \in Nat
      BY <3>1
    <3> QED
      BY <2>2, <3>1, <3>2
  <2>6. status[s] = "COMPLETED"
    BY <2>2, <2>4, <2>5 DEF Right, MemoryRight
  <2> QED
    BY <2>6 DEF Inv, CallInv, CallSound, Working
<1> QED
  BY <1>1, AlwaysInv, AlwaysRight, PTL DEF Spec, FailsOnFull

(* Every step is durably completed, the verdict is open, and no call that  *)
(* has run a step is under way.                                            *)
Unfinishable ==
    /\ latest # NoCheckpoint /\ latest.status = "ACTIVE" /\ Done = Steps
    /\ pc \in {"idle", "done"} \/ (pc = "layer" /\ ~bound)

(* Such a workflow has no verdict, ever: however often it is resumed, no   *)
(* resume gets past the exception, and none writes a checkpoint.           *)
THEOREM NeverFinished == Spec => [](Unfinishable => []Unfinishable)
<1>1. Inv /\ Unfinishable /\ [Next]_vars => Unfinishable'
  <2> SUFFICES ASSUME Inv, Unfinishable, [Next]_vars
               PROVE  Unfinishable'
    OBVIOUS
  <2> USE DEF Unfinishable
  <2>1. ASSUME latest' = latest,
               pc' \in {"idle", "done"} \/ (pc' = "layer" /\ ~bound')
        PROVE  Unfinishable'
    BY <2>1 DEF Done
  <2>2. CASE StartLayer
    <3>1. pc = "layer" /\ ~bound /\ layer <= Len(layers)
      BY <2>2 DEF StartLayer
    <3>2. \A s \in Steps : status[s] = "COMPLETED"
      BY <3>1 DEF Inv, DurableInv, Remembered
    <3>3. Runnable(layers[layer]) = {}
      BY <3>1, <3>2, LayerRuns DEF Inv
    <3> QED
      BY <2>1, <2>2, <3>1, <3>3 DEF StartLayer
  <2>3. CASE Finish
    BY <2>1, <2>3 DEF Finish
  <2>4. CASE Run \/ ResumeFinished \/ Resume \/ AskAgain \/ Interrupt
    BY <2>1, <2>4 DEF Run, ResumeFinished, Resume, AskAgain, Interrupt
  <2>5. CASE UNCHANGED vars
    BY <2>1, <2>5 DEF vars, locals
  <2>6. ~(SettleLayer \/ SaveLayer \/ Abort \/ Return)
    BY DEF SettleLayer, SaveLayer, Abort, Return
  <2> QED
    BY <2>2, <2>3, <2>4, <2>5, <2>6 DEF Next
<1> QED
  BY <1>1, AlwaysInv, PTL DEF Spec

------------------------------------------------------------------------------
(* Every call comes to its end *)

PhasesLeft ==
    CASE pc = "layer" -> 6
      [] pc = "exec" -> 5
      [] pc \in {"save", "saveabort"} -> 4
      [] pc = "abort" -> 2
      [] pc = "return" -> 1
      [] OTHER -> 0

(* The steps that a call of run or resume can still make.                  *)
StepsLeft == 3 * (Len(layers) + 1 - layer) + PhasesLeft

CallAdvances ==
    [][pc \notin {"idle", "done"} =>
         \/ pc' \in {"idle", "done"}
         \/ StepsLeft' \in 0..(StepsLeft - 1)
         \/ UNCHANGED vars]_vars

(* A call never goes back to a layer, whatever its steps return: it ends   *)
(* after at most three steps for each layer and six more.                  *)
THEOREM CallsEnd == Spec => CallAdvances
<1>1. Inv /\ Inv' /\ [Next]_vars =>
        [pc \notin {"idle", "done"} =>
           \/ pc' \in {"idle", "done"}
           \/ StepsLeft' \in 0..(StepsLeft - 1)
           \/ UNCHANGED vars]_vars
  <2> SUFFICES ASSUME Inv, Inv', [Next]_vars, pc \notin {"idle", "done"},
                      pc' \notin {"idle", "done"}, ~UNCHANGED vars
               PROVE  StepsLeft' \in 0..(StepsLeft - 1)
    OBVIOUS
  <2>1. Len(layers) \in Nat /\ layer \in 1..(Len(layers) + 1)
    <3>1. layers \in Seq(SUBSET Steps) /\ layer \in 1..(Len(layers) + 1)
      BY DEF Inv, CallInv, TypeOK
    <3> QED
      BY <3>1
  <2>2. layers' = layers
    BY DEF Next, Run, ResumeFinished, Resume, StartLayer, SettleLayer, SaveLayer,
       Abort, Finish, Return, Interrupt, AskAgain, locals
  <2>3. layer' \in 1..(Len(layers) + 1)
    <3>1. layer' \in 1..(Len(layers') + 1)
      BY DEF Inv, CallInv, TypeOK
    <3> QED
      BY <2>2, <3>1
  <2>4. CASE StartLayer
    <3>1. /\ pc = "layer"
          /\ \/ layer' = layer + 1 /\ pc' = "layer"
             \/ layer' = layer /\ pc' = "exec"
      BY <2>4 DEF StartLayer
    <3> QED
      BY <2>1, <2>2, <2>3, <3>1 DEF StepsLeft, PhasesLeft
  <2>5. CASE SettleLayer
    <3>1. pc = "exec" /\ layer' = layer /\ pc' \in {"save", "saveabort"}
      BY <2>5 DEF SettleLayer
    <3> QED
      BY <2>1, <2>2, <2>3, <3>1 DEF StepsLeft, PhasesLeft
  <2>6. CASE SaveLayer
    <3>1. \/ pc = "save" /\ pc' = "layer" /\ layer' = layer + 1
          \/ pc = "saveabort" /\ pc' = "abort" /\ layer' = layer
      BY <2>6 DEF SaveLayer
    <3> QED
      BY <2>1, <2>2, <2>3, <3>1 DEF StepsLeft, PhasesLeft
  <2>7. CASE Abort
    <3>1. pc = "abort" /\ pc' = "return" /\ layer' = layer
      BY <2>7 DEF Abort
    <3> QED
      BY <2>1, <2>2, <2>3, <3>1 DEF StepsLeft, PhasesLeft
  <2>8. CASE Finish
    <3>1. pc = "layer" /\ pc' = "return" /\ layer' = layer
      BY <2>8 DEF Finish, locals
    <3> QED
      BY <2>1, <2>2, <2>3, <3>1 DEF StepsLeft, PhasesLeft
  <2>9. ~(Run \/ ResumeFinished \/ Resume \/ Return \/ Interrupt \/ AskAgain)
    BY DEF Run, ResumeFinished, Resume, Return, Interrupt, AskAgain
  <2> QED
    BY <2>4, <2>5, <2>6, <2>7, <2>8, <2>9 DEF Next
<1> QED
  BY <1>1, AlwaysInv, PTL DEF Spec, CallAdvances

==============================================================================
