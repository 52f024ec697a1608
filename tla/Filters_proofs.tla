--------------------------- MODULE Filters_proofs ----------------------------
(***************************************************************************)
(* What Filter returns, for sequences of any length, and what the proofs   *)
(* need of loops in general.  The recursion is unrolled by an induction    *)
(* over intervals, which is itself proved from the pigeonhole principle    *)
(* for finite sets.                                                        *)
(***************************************************************************)
EXTENDS Filters, Functions, FiniteSets, FiniteSetTheorems, SequenceTheorems, TLAPS

(* A set with 0 that is closed under successor reaches every N: otherwise   *)
(* n -> n - 1 would map the numbers up to N outside the set one-to-one into *)
(* themselves without N.                                                    *)
LEMMA IntervalInduction ==
  ASSUME NEW N \in Nat, NEW A, 0 \in A,
         \A n \in 0 .. N : n \in A /\ n < N => n + 1 \in A
  PROVE  N \in A
<1> SUFFICES ASSUME N \notin A PROVE FALSE
  OBVIOUS
<1> DEFINE B == (0 .. N) \ A
           f == [n \in B |-> n - 1]
<1>1. IsFiniteSet(B) /\ N \in B
  <2>1. IsFiniteSet(0 .. N) /\ B \in SUBSET (0 .. N)
    BY FS_Interval
  <2> QED
    BY <2>1, FS_Subset
<1>2. \A n \in B : n - 1 \in B \ {N}
  <2> TAKE n \in B
  <2>1. n \in Nat /\ n # 0 /\ n <= N
    OBVIOUS
  <2>2. n - 1 \in 0 .. N /\ n - 1 < N /\ (n - 1) + 1 = n
    BY <2>1
  <2>3. n - 1 \notin A
    BY <2>2
  <2> QED
    BY <2>2, <2>3
<1>3. f \in Injection(B, B \ {N})
  <2>1. f \in [B -> B \ {N}]
    BY <1>2
  <2>2. \A x, y \in B : f[x] = f[y] => x = y
    OBVIOUS
  <2> QED
    BY <2>1, <2>2 DEF Injection, IsInjective
<1> HIDE DEF B, f
<1>4. /\ IsFiniteSet(B \ {N}) /\ Cardinality(B \ {N}) = Cardinality(B) - 1
      /\ Cardinality(B) \in Nat
  BY <1>1, FS_RemoveElement, FS_CardinalityType
<1>5. Cardinality(B) <= Cardinality(B \ {N})
  BY <1>3, <1>4, FS_Injection
<1> QED
  BY <1>4, <1>5

(* f holds the intermediate results of a loop of N steps over values of T. *)
IsLoop(f, N, T, base, step) ==
  /\ f \in [0 .. N -> T]
  /\ f[0] = base
  /\ \A i \in 1 .. N : f[i] = step[i][f[i - 1]]

(* They exist, so a recursive definition of them is the equation it states. *)
LEMMA LoopUnrolled ==
  ASSUME NEW N \in Nat, NEW T, NEW base \in T, NEW step \in [1 .. N -> [T -> T]]
  PROVE  \E f : IsLoop(f, N, T, base, step)
<1> DEFINE P(n) == \E f \in [0 .. n -> T] :
                     /\ f[0] = base
                     /\ \A i \in 1 .. n : f[i] = step[i][f[i - 1]]
           A == {n \in 0 .. N : P(n)}
<1>1. 0 \in A
  <2> DEFINE g == [i \in 0 .. 0 |-> base]
  <2>1. g \in [0 .. 0 -> T] /\ g[0] = base /\ \A i \in 1 .. 0 : g[i] = step[i][g[i - 1]]
    OBVIOUS
  <2> HIDE DEF g
  <2> QED
    BY <2>1
<1>2. ASSUME NEW n \in 0 .. N, n \in A, n < N
      PROVE  n + 1 \in A
  <2>1. PICK f \in [0 .. n -> T] :
          f[0] = base /\ \A i \in 1 .. n : f[i] = step[i][f[i - 1]]
    BY <1>2
  <2> DEFINE g == [i \in 0 .. n + 1 |-> IF i <= n THEN f[i] ELSE step[n + 1][f[n]]]
  <2>2. n \in Nat /\ n + 1 \in 1 .. N /\ n + 1 \in 0 .. N
    BY <1>2
  <2>3. step[n + 1][f[n]] \in T
    BY <2>2
  <2>4. g \in [0 .. n + 1 -> T] /\ g[0] = base
    BY <2>1, <2>2, <2>3
  <2>5. ASSUME NEW i \in 1 .. n + 1
        PROVE  g[i] = step[i][g[i - 1]]
    <3>1. CASE i = n + 1
      BY <2>2, <3>1
    <3>2. CASE i <= n
      <4>1. i \in 1 .. n /\ g[i] = f[i] /\ g[i - 1] = f[i - 1]
        BY <2>2, <3>2
      <4> QED
        BY <2>1, <4>1
    <3> QED
      BY <2>2, <3>1, <3>2
  <2> HIDE DEF g
  <2> QED
    BY <2>2, <2>4, <2>5
<1> HIDE DEF A
<1>3. N \in A
  BY <1>1, <1>2, IntervalInduction
<1>4. P(N)
  <2> HIDE DEF P
  <2> QED
    BY <1>3 DEF A
<1> QED
  BY <1>4 DEF IsLoop

(* The least element of a set of positions is one of them. *)
LEMMA LeastExists ==
  ASSUME NEW N \in Nat, NEW S \in SUBSET (0 .. N), S # {}
  PROVE  \E m \in S : \A y \in S : m <= y
<1> SUFFICES ASSUME \A m \in S : \E y \in S : y < m PROVE FALSE
  OBVIOUS
<1> DEFINE A == {n \in 0 .. N : \A y \in S : n <= y}
<1>1. 0 \in A
  OBVIOUS
<1>2. ASSUME NEW n \in 0 .. N, n \in A, n < N
      PROVE  n + 1 \in A
  <2>1. n \notin S
    BY <1>2
  <2> QED
    BY <1>2, <2>1
<1> HIDE DEF A
<1>3. N \in A
  BY <1>1, <1>2, IntervalInduction
<1>4. PICK m \in S : TRUE
  OBVIOUS
<1>5. \A y \in S : y = N
  BY <1>3 DEF A
<1> QED
  BY <1>4, <1>5

(* kept[i] is what Filter has kept after i items. *)
Filtering(kept, T, q, S) ==
  /\ kept \in [0 .. Len(q) -> Seq(T)]
  /\ kept[0] = <<>>
  /\ \A i \in 1 .. Len(q) :
       kept[i] = kept[i - 1] \o (IF q[i] \in S THEN <<q[i]>> ELSE <<>>)
  /\ Filter(q, S) = kept[Len(q)]

(* Filter as the loop it is. *)
LEMMA FilterUnrolled ==
  ASSUME NEW T, NEW q \in Seq(T), NEW S
  PROVE  \E kept : Filtering(kept, T, q, S)
<1> DEFINE N == Len(q)
           item(i) == IF q[i] \in S THEN <<q[i]>> ELSE <<>>
           step == [i \in 1 .. N |-> [k \in Seq(T) |-> k \o item(i)]]
           next(f, i) == IF i = 0 THEN <<>> ELSE f[i - 1] \o item(i)
           kept == CHOOSE f : f = [i \in 0 .. N |-> next(f, i)]
<1>1. N \in Nat /\ <<>> \in Seq(T) /\ \A i \in 1 .. N : item(i) \in Seq(T)
  OBVIOUS
<1> HIDE DEF N, item
<1>2. step \in [1 .. N -> [Seq(T) -> Seq(T)]]
  BY <1>1
<1>3. PICK f : IsLoop(f, N, Seq(T), <<>>, step)
  <2> HIDE DEF step
  <2> QED
    BY <1>1, <1>2, LoopUnrolled
<1>4. ASSUME NEW i \in 1 .. N
      PROVE  f[i] = f[i - 1] \o item(i)
  <2>1. i - 1 \in 0 .. N
    BY <1>1
  <2>2. f[i - 1] \in Seq(T) /\ f[i] = step[i][f[i - 1]]
    BY <1>3, <2>1 DEF IsLoop
  <2> QED
    BY <2>2
<1>5. f = [i \in 0 .. N |-> next(f, i)]
  <2>1. \A i \in 0 .. N : i = 0 \/ i \in 1 .. N
    BY <1>1
  <2>2. f \in [0 .. N -> Seq(T)] /\ f[0] = <<>>
    BY <1>3 DEF IsLoop
  <2>3. \A i \in 0 .. N : f[i] = next(f, i)
    BY <1>4, <2>1, <2>2
  <2> QED
    BY <2>2, <2>3
<1>6. kept = [i \in 0 .. N |-> next(kept, i)]
  BY <1>5
<1>7. Filter(q, S) = kept[N]
  BY DEF Filter, item, N
<1> HIDE DEF kept
<1>8. kept[0] = <<>> /\ \A i \in 1 .. N : kept[i] = kept[i - 1] \o item(i)
  <2>1. 0 \in 0 .. N /\ \A i \in 1 .. N : i \in 0 .. N /\ i # 0
    BY <1>1
  <2> QED
    BY <1>6, <2>1
<1>9. kept \in [0 .. N -> Seq(T)]
  <2> DEFINE C == {n \in 0 .. N : kept[n] \in Seq(T)}
  <2>1. 0 \in C
    <3>1. 0 \in 0 .. N /\ kept[0] \in Seq(T)
      BY <1>1, <1>8
    <3> QED
      BY <3>1
  <2>2. \A n \in 0 .. N : n \in C /\ n < N => n + 1 \in C
    <3> SUFFICES ASSUME NEW n \in 0 .. N, n \in C, n < N PROVE n + 1 \in C
      OBVIOUS
    <3>1. n + 1 \in 1 .. N /\ (n + 1) - 1 = n
      BY <1>1
    <3>2. kept[n + 1] = kept[n] \o item(n + 1)
      BY <1>8, <3>1
    <3>3. kept[n] \in Seq(T) /\ item(n + 1) \in Seq(T)
      BY <1>1, <3>1
    <3>4. kept[n + 1] \in Seq(T)
      BY <3>2, <3>3, ConcatProperties
    <3> QED
      BY <1>1, <3>4
  <2>3. ASSUME NEW n \in 0 .. N PROVE n \in C
    <3>1. n \in Nat /\ \A m \in 0 .. n : m \in C /\ m < n => m + 1 \in C
      BY <1>1, <2>2
    <3> HIDE DEF C
    <3> QED
      BY <2>1, <3>1, IntervalInduction
  <2>4. kept = [i \in 0 .. N |-> kept[i]]
    BY <1>6
  <2> QED
    BY <2>3, <2>4
<1> QED
  BY <1>7, <1>8, <1>9 DEF item, N, Filtering

(* Filter keeps exactly the items that are in S. *)
LEMMA FilterRange ==
  ASSUME NEW T, NEW q \in Seq(T), NEW S
  PROVE  /\ Filter(q, S) \in Seq(T)
         /\ Range(Filter(q, S)) = Range(q) \intersect S
<1> DEFINE N == Len(q)
           item(i) == IF q[i] \in S THEN <<q[i]>> ELSE <<>>
<1>1. N \in Nat /\ \A i \in 1 .. N : q[i] \in T /\ item(i) \in Seq(T)
  OBVIOUS
<1>3. PICK kept \in [0 .. N -> Seq(T)] :
        /\ kept[0] = <<>>
        /\ \A i \in 1 .. N : kept[i] = kept[i - 1] \o item(i)
        /\ Filter(q, S) = kept[N]
  <2>1. PICK kept : Filtering(kept, T, q, S)
    BY FilterUnrolled
  <2> QED
    BY <2>1 DEF Filtering
<1> HIDE DEF item
<1> DEFINE C == {n \in 0 .. N : Range(kept[n]) = {q[i] : i \in 1 .. n} \intersect S}
<1>5. 0 \in C
  <2>1. Range(kept[0]) = {} /\ {q[i] : i \in 1 .. 0} = {}
    BY <1>3 DEF Range
  <2> QED
    BY <1>1, <2>1
<1>6. ASSUME NEW n \in 0 .. N, n \in C, n < N
      PROVE  n + 1 \in C
  <2>1. n \in Nat /\ n + 1 \in 1 .. N /\ n + 1 \in 0 .. N /\ (n + 1) - 1 = n
    BY <1>1, <1>6
  <2>2. kept[n + 1] = kept[n] \o item(n + 1)
    BY <1>3, <2>1
  <2>3. Range(kept[n + 1]) = Range(kept[n]) \union Range(item(n + 1))
    <3>1. kept[n] \in Seq(T) /\ item(n + 1) \in Seq(T)
      BY <1>1, <2>1
    <3> QED
      BY <2>2, <3>1, RangeConcatenation
  <2>4. Range(item(n + 1)) = {q[n + 1]} \intersect S
    BY DEF item, Range
  <2>5. {q[i] : i \in 1 .. n + 1} = {q[i] : i \in 1 .. n} \union {q[n + 1]}
    BY <2>1
  <2> QED
    BY <1>6, <2>1, <2>3, <2>4, <2>5
<1> HIDE DEF C
<1>7. N \in C
  BY <1>1, <1>5, <1>6, IntervalInduction
<1>8. kept[N] \in Seq(T) /\ Range(kept[N]) = {q[i] : i \in 1 .. N} \intersect S
  BY <1>1, <1>7 DEF C
<1> QED
  BY <1>3, <1>8, RangeEquality

(* What has no repetition has none after filtering. *)
LEMMA FilterInjective ==
  ASSUME NEW T, NEW q \in Seq(T), NEW S, IsInjective(q)
  PROVE  IsInjective(Filter(q, S))
<1> DEFINE N == Len(q)
           item(i) == IF q[i] \in S THEN <<q[i]>> ELSE <<>>
<1>1. N \in Nat /\ \A i \in 1 .. N : item(i) \in Seq(T)
  OBVIOUS
<1>2. PICK kept \in [0 .. N -> Seq(T)] :
        /\ kept[0] = <<>>
        /\ \A i \in 1 .. N : kept[i] = kept[i - 1] \o item(i)
        /\ Filter(q, S) = kept[N]
  <2>1. PICK kept : Filtering(kept, T, q, S)
    BY FilterUnrolled
  <2> QED
    BY <2>1 DEF Filtering
<1> DEFINE C == {n \in 0 .. N : /\ IsInjective(kept[n])
                                /\ \A k \in DOMAIN kept[n] : \E i \in 1 .. n : kept[n][k] = q[i]}
<1>3. 0 \in C
  BY <1>1, <1>2 DEF IsInjective
<1>4. ASSUME NEW n \in 0 .. N, n \in C, n < N
      PROVE  n + 1 \in C
  <2>1. n \in Nat /\ n + 1 \in 1 .. N /\ n + 1 \in 0 .. N /\ (n + 1) - 1 = n
    BY <1>1, <1>4
  <2>2. kept[n + 1] = kept[n] \o item(n + 1) /\ kept[n] \in Seq(T)
    BY <1>2, <2>1
  <2>3. CASE q[n + 1] \in S
    <3> DEFINE m == Len(kept[n])
    <3>1. /\ m \in Nat /\ DOMAIN kept[n] = 1 .. m /\ DOMAIN kept[n + 1] = 1 .. m + 1
          /\ kept[n + 1][m + 1] = q[n + 1]
          /\ \A k \in 1 .. m : kept[n + 1][k] = kept[n][k]
      BY <1>1, <2>1, <2>2, <2>3
    <3>2. \A i \in 1 .. n : q[i] # q[n + 1]
      BY <2>1 DEF IsInjective
    <3>3. \A k \in 1 .. m : kept[n + 1][k] # q[n + 1]
      BY <1>4, <3>1, <3>2
    <3>4. \A k \in 1 .. m + 1 : k = m + 1 \/ k \in 1 .. m
      BY <3>1
    <3>5. IsInjective(kept[n + 1])
      <4> SUFFICES ASSUME NEW j \in 1 .. m + 1, NEW k \in 1 .. m + 1,
                          kept[n + 1][j] = kept[n + 1][k]
                   PROVE  j = k
        BY <3>1 DEF IsInjective
      <4>1. \A x, y \in 1 .. m : kept[n][x] = kept[n][y] => x = y
        BY <1>4, <3>1 DEF IsInjective
      <4> QED
        BY <3>1, <3>3, <3>4, <4>1
    <3>6. \A k \in 1 .. m + 1 : \E i \in 1 .. n + 1 : kept[n + 1][k] = q[i]
      <4> SUFFICES ASSUME NEW k \in 1 .. m + 1
                   PROVE  \E i \in 1 .. n + 1 : kept[n + 1][k] = q[i]
        OBVIOUS
      <4>1. CASE k = m + 1
        BY <2>1, <3>1, <4>1
      <4>2. CASE k \in 1 .. m
        <5>1. PICK i \in 1 .. n : kept[n][k] = q[i]
          BY <1>4, <3>1, <4>2
        <5> QED
          BY <2>1, <3>1, <4>2, <5>1
      <4> QED
        BY <3>4, <4>1, <4>2
    <3> QED
      BY <2>1, <3>1, <3>5, <3>6
  <2>4. CASE q[n + 1] \notin S
    <3>1. kept[n + 1] = kept[n]
      BY <2>2, <2>4, ConcatEmptySeq
    <3>2. \A k \in DOMAIN kept[n] : \E i \in 1 .. n + 1 : kept[n][k] = q[i]
      BY <1>4, <2>1
    <3> QED
      BY <1>4, <2>1, <3>1, <3>2
  <2> QED
    BY <2>3, <2>4
<1> HIDE DEF C
<1>5. N \in C
  BY <1>1, <1>3, <1>4, IntervalInduction
<1> QED
  BY <1>2, <1>5 DEF C

(* A list without repetition is as long as the set of its items is large.   *)
LEMMA InjectiveLength ==
  ASSUME NEW T, NEW q \in Seq(T), IsInjective(q), NEW S, IsFiniteSet(S), Range(q) \subseteq S
  PROVE  IsFiniteSet(Range(q)) /\ Len(q) = Cardinality(Range(q)) /\ Len(q) <= Cardinality(S)
<1>1. Len(q) \in Nat /\ DOMAIN q = 1 .. Len(q)
  OBVIOUS
<1>2. IsFiniteSet(1 .. Len(q)) /\ Cardinality(1 .. Len(q)) = Len(q)
  BY <1>1, FS_Interval
<1>3. q \in Injection(1 .. Len(q), Range(q)) /\ q \in Surjection(1 .. Len(q), Range(q))
  BY <1>1 DEF Injection, Surjection, IsInjective, Range
<1>4. IsFiniteSet(Range(q)) /\ Cardinality(Range(q)) <= Cardinality(S)
  BY FS_Subset
<1>5. Cardinality(1 .. Len(q)) = Cardinality(Range(q))
  BY <1>3, <1>4, FS_Injection
<1> QED
  BY <1>2, <1>4, <1>5

=============================================================================
