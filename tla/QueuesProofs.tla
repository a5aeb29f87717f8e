---------------------------- MODULE QueuesProofs ----------------------------
(***************************************************************************)
(* Induction and recursion over the naturals in a form that the provers    *)
(* can use (about sets and functions, not operators), and with them what   *)
(* Keep computes for every queue.                                          *)
(***************************************************************************)
EXTENDS Queues, FiniteSetTheorems, WellFoundedInduction, TLAPS

(* A set of naturals that is not empty has a least element: the intervals  *)
(* 1..n, ordered by inclusion, are well-founded.                           *)
LEMMA LeastNatural ==
    ASSUME NEW S \in SUBSET Nat, S # {}
    PROVE  \E n \in S : \A m \in S : n <= m
<1> DEFINE T == {1..n : n \in S}
<1>1. T \subseteq FiniteSubsetsOf(Nat) /\ T # {}
  <2>1. ASSUME NEW n \in S PROVE 1..n \in FiniteSubsetsOf(Nat)
    <3>1. IsFiniteSet(1..n)
      BY FS_Interval
    <3>2. 1..n \subseteq Nat
      OBVIOUS
    <3> QED
      BY <3>1, <3>2 DEF FiniteSubsetsOf
  <2> QED
    BY <2>1
<1>2. PICK X \in T : \A Y \in T : <<Y, X>> \notin StrictSubsetOrdering(Nat)
  <2> HIDE DEF T
  <2> QED
    BY <1>1, FS_StrictSubsetOrderingWellFounded, WFMin
<1>3. PICK n \in S : X = 1..n
  OBVIOUS
<1>4. ASSUME NEW m \in S, m < n
      PROVE  FALSE
  <2>1. 1..m \in T /\ 1..m \subseteq 1..n /\ n \notin 1..m /\ n \in 1..n
    BY <1>4
  <2>2. <<1..m, 1..n>> \in StrictSubsetOrdering(Nat)
    BY <2>1 DEF StrictSubsetOrdering
  <2> QED
    BY <1>2, <1>3, <2>1, <2>2
<1> QED
  BY <1>4

LEMMA Induction ==
    ASSUME NEW S, 0 \in S, \A n \in Nat : n \in S => n + 1 \in S
    PROVE  Nat \subseteq S
<1> SUFFICES ASSUME Nat \ S # {} PROVE FALSE
  OBVIOUS
<1>1. PICK n \in Nat \ S : \A m \in Nat \ S : n <= m
  BY LeastNatural
<1>2. n # 0 /\ n - 1 \in S
  BY <1>1
<1> QED
  BY <1>1, <1>2

(* A recursive function over 0..n exists. *)
Recurs(g, a, F, n) == g[0] = a /\ \A i \in 1..n : g[i] = F[<<g[i - 1], i>>]

LEMMA Recursion ==
    ASSUME NEW A, NEW a \in A, NEW F \in [A \X Nat -> A], NEW n \in Nat
    PROVE  \E g \in [0..n -> A] : Recurs(g, a, F, n)
<1> USE DEF Recurs
<1> DEFINE Rec(g, k) == Recurs(g, a, F, k)
           S == {k \in Nat : \E g \in [0..k -> A] : Rec(g, k)}
<1>1. 0 \in S
  <2>1. [i \in 0..0 |-> a] \in [0..0 -> A] /\ Rec([i \in 0..0 |-> a], 0)
    OBVIOUS
  <2> QED
    BY <2>1
<1>2. ASSUME NEW k \in Nat, k \in S
      PROVE  k + 1 \in S
  <2>1. PICK g \in [0..k -> A] : Rec(g, k)
    BY <1>2
  <2> DEFINE h == [i \in 0..(k + 1) |-> IF i <= k THEN g[i] ELSE F[<<g[k], k + 1>>]]
  <2>2. h \in [0..(k + 1) -> A]
    OBVIOUS
  <2>3. h[0] = a
    BY <2>1
  <2>4. ASSUME NEW i \in 1..(k + 1)
        PROVE  h[i] = F[<<h[i - 1], i>>]
    <3>1. i - 1 \in 0..(k + 1) /\ i - 1 <= k /\ h[i - 1] = g[i - 1]
      OBVIOUS
    <3>2. CASE i \in 1..k
      <4>1. h[i] = g[i]
        BY <3>2
      <4> HIDE DEF h
      <4> QED
        BY <2>1, <3>1, <3>2, <4>1
    <3>3. CASE i = k + 1
      <4>1. h[i] = F[<<g[k], k + 1>>]
        BY <3>3
      <4> HIDE DEF h
      <4> QED
        BY <3>1, <3>3, <4>1
    <3> QED
      BY <3>2, <3>3
  <2>5. k + 1 \in Nat
    OBVIOUS
  <2> HIDE DEF h
  <2>6. \E f \in [0..(k + 1) -> A] : Rec(f, k + 1)
    BY <2>2, <2>3, <2>4
  <2> QED
    BY <2>5, <2>6
<1>3. n \in S
  <2> HIDE DEF S
  <2> QED
    BY <1>1, <1>2, Induction
<1> QED
  BY <1>3
------------------------------------------------------------------------------
(* Sequences and the sets of their entries *)

LEMMA AppendFacts ==
    ASSUME NEW T, NEW q \in Seq(T), NEW e \in T
    PROVE  /\ Append(q, e) \in Seq(T)
           /\ \A x : x \in ToSet(Append(q, e)) <=> x \in ToSet(q) \/ x = e
           /\ IsInjective(q) /\ e \notin ToSet(q) => IsInjective(Append(q, e))
<1>1. /\ Append(q, e) \in Seq(T)
      /\ DOMAIN Append(q, e) = 1..(Len(q) + 1) /\ DOMAIN q = 1..Len(q)
      /\ Len(q) \in Nat
      /\ Append(q, e)[Len(q) + 1] = e
      /\ \A i \in 1..Len(q) : Append(q, e)[i] = q[i]
  OBVIOUS
<1>2. \A i : i \in 1..(Len(q) + 1) <=> i \in 1..Len(q) \/ i = Len(q) + 1
  BY <1>1
<1>3. \A x : x \in ToSet(Append(q, e)) <=> x \in ToSet(q) \/ x = e
  BY <1>1, <1>2 DEF ToSet
<1>4. IsInjective(q) /\ e \notin ToSet(q) => IsInjective(Append(q, e))
  BY <1>1, <1>2 DEF ToSet, IsInjective
<1> QED
  BY <1>1, <1>3, <1>4

LEMMA ConcatFacts ==
    ASSUME NEW T, NEW q \in Seq(T), NEW w \in Seq(T)
    PROVE  /\ q \o w \in Seq(T)
           /\ ToSet(q \o w) = ToSet(q) \cup ToSet(w)
           /\ /\ IsInjective(q) /\ IsInjective(w) /\ ToSet(q) \cap ToSet(w) = {}
              => IsInjective(q \o w)
<1>1. /\ q \o w \in Seq(T)
      /\ Len(q) \in Nat /\ Len(w) \in Nat
      /\ DOMAIN q = 1..Len(q) /\ DOMAIN w = 1..Len(w)
      /\ DOMAIN (q \o w) = 1..(Len(q) + Len(w))
      /\ \A i \in 1..(Len(q) + Len(w)) :
            (q \o w)[i] = IF i <= Len(q) THEN q[i] ELSE w[i - Len(q)]
  OBVIOUS
<1>2. \A i \in 1..(Len(q) + Len(w)) :
         IF i <= Len(q) THEN i \in 1..Len(q) ELSE i - Len(q) \in 1..Len(w)
  BY <1>1
<1>3. /\ \A i \in 1..Len(q) : i \in 1..(Len(q) + Len(w)) /\ i <= Len(q)
      /\ \A i \in 1..Len(w) : /\ i + Len(q) \in 1..(Len(q) + Len(w))
                              /\ ~(i + Len(q) <= Len(q))
                              /\ (i + Len(q)) - Len(q) = i
  BY <1>1
<1>4. \A x : x \in ToSet(q \o w) <=> x \in ToSet(q) \/ x \in ToSet(w)
  <2>1. ASSUME NEW i \in 1..(Len(q) + Len(w))
        PROVE  (q \o w)[i] \in ToSet(q) \/ (q \o w)[i] \in ToSet(w)
    BY <1>1, <1>2 DEF ToSet
  <2>2. ASSUME NEW i \in 1..Len(q)
        PROVE  q[i] \in ToSet(q \o w)
    BY <1>1, <1>3 DEF ToSet
  <2>3. ASSUME NEW i \in 1..Len(w)
        PROVE  w[i] \in ToSet(q \o w)
    <3>1. (q \o w)[i + Len(q)] = w[i]
      BY <1>1, <1>3
    <3> QED
      BY <1>1, <1>3, <3>1 DEF ToSet
  <2> QED
    BY <1>1, <2>1, <2>2, <2>3 DEF ToSet
<1>5. ASSUME IsInjective(q), IsInjective(w), ToSet(q) \cap ToSet(w) = {}
      PROVE  IsInjective(q \o w)
  <2> SUFFICES ASSUME NEW i \in 1..(Len(q) + Len(w)), NEW j \in 1..(Len(q) + Len(w)),
                      (q \o w)[i] = (q \o w)[j]
               PROVE  i = j
    BY <1>1 DEF IsInjective
  <2>1. CASE i <= Len(q) /\ j <= Len(q)
    BY <1>1, <1>2, <1>5, <2>1 DEF IsInjective
  <2>2. CASE ~(i <= Len(q)) /\ ~(j <= Len(q))
    BY <1>1, <1>2, <1>5, <2>2 DEF IsInjective
  <2>3. CASE (i <= Len(q) /\ ~(j <= Len(q))) \/ (~(i <= Len(q)) /\ j <= Len(q))
    BY <1>1, <1>2, <1>5, <2>3 DEF ToSet
  <2> QED
    BY <2>1, <2>2, <2>3
<1> QED
  BY <1>1, <1>4, <1>5

(* A prefix holds the same entries at the same places. *)
LEMMA PrefixMeans ==
    ASSUME NEW T, NEW q \in Seq(T), NEW w \in Seq(T)
    PROVE  IsPrefix(q, w) <=> Len(q) <= Len(w) /\ \A i \in 1..Len(q) : q[i] = w[i]
<1> DEFINE n == Len(q)
<1>1. n \in Nat /\ Len(w) \in Nat
  OBVIOUS
<1>2. /\ Len(SubSeq(q, 1, n)) = n /\ SubSeq(q, 1, n) \in Seq(T)
      /\ \A i \in 1..n : SubSeq(q, 1, n)[i] = q[i]
  OBVIOUS
<1>3. ASSUME n <= Len(w)
      PROVE  /\ Len(SubSeq(w, 1, n)) = n /\ SubSeq(w, 1, n) \in Seq(T)
             /\ \A i \in 1..n : SubSeq(w, 1, n)[i] = w[i]
  BY <1>1, <1>3
<1>4. ASSUME n <= Len(w), \A i \in 1..n : q[i] = w[i]
      PROVE  SubSeq(q, 1, n) = SubSeq(w, 1, n)
  <2> DEFINE a == SubSeq(q, 1, n)
             b == SubSeq(w, 1, n)
  <2>1. /\ a \in Seq(T) /\ b \in Seq(T) /\ Len(a) = Len(b)
        /\ \A i \in 1..Len(a) : a[i] = b[i]
    BY <1>2, <1>3, <1>4
  <2> HIDE DEF a, b
  <2>2. a = b
    BY <2>1
  <2> QED
    BY <2>2 DEF a, b
<1>5. ASSUME n <= Len(w), SubSeq(q, 1, n) = SubSeq(w, 1, n), NEW i \in 1..n
      PROVE  q[i] = w[i]
  BY <1>2, <1>3, <1>5
<1> HIDE DEF n
<1> QED
  BY <1>4, <1>5 DEF IsPrefix, n

LEMMA PrefixFacts ==
    ASSUME NEW T, NEW q \in Seq(T)
    PROVE  /\ IsPrefix(<<>>, q) /\ IsPrefix(q, q)
           /\ \A e \in T : IsPrefix(q, Append(q, e))
           /\ \A w \in Seq(T) : IsPrefix(q, q \o w)
           /\ \A w \in Seq(T) : IsPrefix(q, w) => ToSet(q) \subseteq ToSet(w)
           /\ \A v, w \in Seq(T) : IsPrefix(q, v) /\ IsPrefix(v, w) => IsPrefix(q, w)
<1>1. IsPrefix(<<>>, q)
  <2>1. <<>> \in Seq(T) /\ Len(<<>>) = 0 /\ Len(<<>>) <= Len(q) /\ 1..Len(<<>>) = {}
    OBVIOUS
  <2> QED
    BY <2>1, PrefixMeans
<1>2. IsPrefix(q, q)
  BY PrefixMeans
<1>3. ASSUME NEW e \in T
      PROVE  IsPrefix(q, Append(q, e))
  <2>1. /\ Append(q, e) \in Seq(T) /\ Len(q) <= Len(Append(q, e))
        /\ \A i \in 1..Len(q) : q[i] = Append(q, e)[i]
    OBVIOUS
  <2> QED
    BY <2>1, PrefixMeans
<1>4. ASSUME NEW w \in Seq(T)
      PROVE  IsPrefix(q, q \o w)
  <2>1. /\ q \o w \in Seq(T) /\ Len(q) <= Len(q \o w)
        /\ \A i \in 1..Len(q) : q[i] = (q \o w)[i]
    OBVIOUS
  <2> QED
    BY <2>1, PrefixMeans
<1>5. ASSUME NEW w \in Seq(T), IsPrefix(q, w)
      PROVE  ToSet(q) \subseteq ToSet(w)
  <2>1. Len(q) <= Len(w) /\ \A i \in 1..Len(q) : q[i] = w[i]
    BY <1>5, PrefixMeans
  <2>2. /\ DOMAIN q = 1..Len(q) /\ DOMAIN w = 1..Len(w)
        /\ 1..Len(q) \subseteq 1..Len(w)
    BY <2>1
  <2> QED
    BY <2>1, <2>2 DEF ToSet
<1>6. ASSUME NEW v \in Seq(T), NEW w \in Seq(T), IsPrefix(q, v), IsPrefix(v, w)
      PROVE  IsPrefix(q, w)
  <2>1. /\ Len(q) <= Len(v) /\ \A i \in 1..Len(q) : q[i] = v[i]
        /\ Len(v) <= Len(w) /\ \A i \in 1..Len(v) : v[i] = w[i]
    BY <1>6, PrefixMeans
  <2>2. Len(q) <= Len(w) /\ \A i \in 1..Len(q) : q[i] = w[i]
    <3>1. Len(q) \in Nat /\ Len(v) \in Nat /\ Len(w) \in Nat
      OBVIOUS
    <3> QED
      BY <2>1, <3>1
  <2> QED
    BY <2>2, PrefixMeans
<1> QED
  BY <1>1, <1>2, <1>3, <1>4, <1>5, <1>6

------------------------------------------------------------------------------
(* Keep, unfolded: the function it computes with, and its equations. *)
Kept(q, S) ==
    CHOOSE kept : kept = [i \in 0..Len(q) |->
            IF i = 0 THEN <<>>
            ELSE IF q[i] \in S THEN Append(kept[i - 1], q[i]) ELSE kept[i - 1]]

LEMMA KeepIsKept == \A q, S : Keep(q, S) = Kept(q, S)[Len(q)]
BY DEF Keep, Kept

LEMMA KeptEquations ==
    ASSUME NEW T, NEW q \in Seq(T), NEW S
    PROVE  /\ Kept(q, S) \in [0..Len(q) -> Seq(T)]
           /\ Kept(q, S)[0] = <<>>
           /\ \A i \in 1..Len(q) : Kept(q, S)[i] =
                 IF q[i] \in S THEN Append(Kept(q, S)[i - 1], q[i])
                 ELSE Kept(q, S)[i - 1]
<1> DEFINE F == [x \in Seq(T) \X Nat |->
                   IF x[2] \in 1..Len(q) /\ q[x[2]] \in S
                   THEN Append(x[1], q[x[2]]) ELSE x[1]]
           Eq(kept) == kept = [i \in 0..Len(q) |->
                         IF i = 0 THEN <<>>
                         ELSE IF q[i] \in S THEN Append(kept[i - 1], q[i])
                         ELSE kept[i - 1]]
<1>1. F \in [Seq(T) \X Nat -> Seq(T)]
  OBVIOUS
<1>2. <<>> \in Seq(T) /\ Len(q) \in Nat
  OBVIOUS
<1>3. PICK g \in [0..Len(q) -> Seq(T)] :
         g[0] = <<>> /\ \A i \in 1..Len(q) : g[i] = F[<<g[i - 1], i>>]
  <2>1. \E g \in [0..Len(q) -> Seq(T)] : Recurs(g, <<>>, F, Len(q))
    <3> HIDE DEF F
    <3> QED
      BY <1>1, <1>2, Recursion
  <2> QED
    BY <2>1 DEF Recurs
<1>4. ASSUME NEW i \in 1..Len(q)
      PROVE  g[i] = IF q[i] \in S THEN Append(g[i - 1], q[i]) ELSE g[i - 1]
  <2>1. g[i - 1] \in Seq(T) /\ <<g[i - 1], i>> \in Seq(T) \X Nat
    <3>1. i - 1 \in 0..Len(q) /\ i \in Nat
      BY <1>2
    <3> QED
      BY <3>1
  <2>2. F[<<g[i - 1], i>>] =
          IF q[i] \in S THEN Append(g[i - 1], q[i]) ELSE g[i - 1]
    BY <2>1
  <2> QED
    BY <1>3, <2>2
<1>5. Eq(g)
  <2>1. \A i \in 0..Len(q) : g[i] = IF i = 0 THEN <<>>
                         ELSE IF q[i] \in S THEN Append(g[i - 1], q[i])
                         ELSE g[i - 1]
    <3>1. \A i \in 0..Len(q) : i = 0 \/ i \in 1..Len(q)
      BY <1>2
    <3> HIDE DEF F
    <3> QED
      BY <1>3, <1>4, <3>1
  <2> HIDE DEF F
  <2> QED
    BY <2>1
<1>6. Eq(Kept(q, S))
  BY <1>5 DEF Kept
<1> DEFINE k == Kept(q, S)
<1>7. k[0] = <<>>
  BY <1>2, <1>6
<1>8. \A i \in 1..Len(q) : k[i] =
          IF q[i] \in S THEN Append(k[i - 1], q[i]) ELSE k[i - 1]
  <2>1. \A i \in 1..Len(q) : i \in 0..Len(q) /\ i # 0
    BY <1>2
  <2> QED
    BY <1>6, <2>1
<1>9. \A i \in Nat : i \in 0..Len(q) => k[i] \in Seq(T)
  <2> DEFINE N == {i \in Nat : i \in 0..Len(q) => k[i] \in Seq(T)}
  <2> HIDE DEF k
  <2>1. 0 \in N
    BY <1>2, <1>7
  <2>2. \A i \in Nat : i \in N => i + 1 \in N
    <3> SUFFICES ASSUME NEW i \in Nat, i \in N, i + 1 \in 0..Len(q)
                 PROVE  k[i + 1] \in Seq(T)
      OBVIOUS
    <3>1. k[i] \in Seq(T) /\ i + 1 \in 1..Len(q) /\ (i + 1) - 1 = i
      OBVIOUS
    <3>2. q[i + 1] \in T
      BY <3>1
    <3>3. Append(k[i], q[i + 1]) \in Seq(T)
      BY <3>1, <3>2
    <3>4. k[i + 1] = IF q[i + 1] \in S THEN Append(k[i], q[i + 1]) ELSE k[i]
      BY <1>8, <3>1
    <3> QED
      BY <3>1, <3>3, <3>4
  <2> HIDE DEF N
  <2>3. Nat \subseteq N
    BY <2>1, <2>2, Induction
  <2> QED
    BY <2>3 DEF N
<1>10. k \in [0..Len(q) -> Seq(T)]
  <2>1. k = [i \in 0..Len(q) |-> k[i]]
    BY <1>6
  <2> HIDE DEF k
  <2> QED
    BY <1>9, <2>1
<1> QED
  BY <1>7, <1>8, <1>10

(* What Keep keeps: a sequence of the same type, of exactly the entries of *)
(* q that are in S, and without a repetition if q has none.                *)
LEMMA KeepFacts ==
    ASSUME NEW T, NEW q \in Seq(T), NEW S
    PROVE  /\ Keep(q, S) \in Seq(T)
           /\ ToSet(Keep(q, S)) = ToSet(q) \cap S
           /\ IsInjective(q) => IsInjective(Keep(q, S))
<1> DEFINE k == Kept(q, S)
           N == {n \in Nat : n \in 0..Len(q) =>
                   /\ \A e : e \in ToSet(k[n]) <=> e \in S /\ \E i \in 1..n : q[i] = e
                   /\ IsInjective(q) => IsInjective(k[n])}
<1>1. /\ k \in [0..Len(q) -> Seq(T)]
      /\ k[0] = <<>>
      /\ \A i \in 1..Len(q) : k[i] =
            IF q[i] \in S THEN Append(k[i - 1], q[i]) ELSE k[i - 1]
  BY KeptEquations
<1>2. Len(q) \in Nat
  OBVIOUS
<1> HIDE DEF k
<1>3. 0 \in N
  BY <1>1 DEF ToSet, IsInjective
<1>4. ASSUME NEW n \in Nat, n \in N
      PROVE  n + 1 \in N
  <2> SUFFICES ASSUME n + 1 \in 0..Len(q)
               PROVE  /\ \A e : e \in ToSet(k[n + 1]) <=>
                                  e \in S /\ \E i \in 1..(n + 1) : q[i] = e
                      /\ IsInjective(q) => IsInjective(k[n + 1])
    OBVIOUS
  <2>1. /\ k[n] \in Seq(T) /\ n + 1 \in 1..Len(q) /\ (n + 1) - 1 = n
        /\ n \in 0..Len(q)
    BY <1>1, <1>2
  <2>2. k[n + 1] = IF q[n + 1] \in S THEN Append(k[n], q[n + 1]) ELSE k[n]
    BY <1>1, <2>1
  <2>3. /\ \A e : e \in ToSet(k[n]) <=> e \in S /\ \E i \in 1..n : q[i] = e
        /\ IsInjective(q) => IsInjective(k[n])
    BY <1>4, <2>1
  <2>4. \A i : i \in 1..(n + 1) <=> i \in 1..n \/ i = n + 1
    OBVIOUS
  <2> HIDE DEF N
  <2>5. CASE q[n + 1] \in S
    <3>1. q[n + 1] \in T
      BY <2>1
    <3>2. \A e : e \in ToSet(k[n + 1]) <=> e \in ToSet(k[n]) \/ e = q[n + 1]
      BY <2>1, <2>2, <2>5, <3>1, AppendFacts
    <3>3. IsInjective(q) => q[n + 1] \notin ToSet(k[n])
      BY <2>1, <2>3 DEF IsInjective
    <3>4. IsInjective(q) => IsInjective(k[n + 1])
      BY <2>1, <2>2, <2>3, <2>5, <3>1, <3>3, AppendFacts
    <3> QED
      BY <2>3, <2>4, <2>5, <3>2, <3>4
  <2>6. CASE q[n + 1] \notin S
    BY <2>2, <2>3, <2>4, <2>6
  <2> QED
    BY <2>5, <2>6
<1>5. Len(q) \in N
  <2> HIDE DEF N
  <2> QED
    BY <1>2, <1>3, <1>4, Induction
<1>6. /\ \A e : e \in ToSet(k[Len(q)]) <=> e \in S /\ \E i \in 1..Len(q) : q[i] = e
      /\ IsInjective(q) => IsInjective(k[Len(q)])
  BY <1>2, <1>5
<1>7. \A e : e \in ToSet(q) <=> \E i \in 1..Len(q) : q[i] = e
  BY DEF ToSet
<1>8. Keep(q, S) = k[Len(q)] /\ k[Len(q)] \in Seq(T)
  BY <1>1, <1>2, KeepIsKept DEF k
<1> HIDE DEF N
<1> QED
  BY <1>6, <1>7, <1>8
=============================================================================
