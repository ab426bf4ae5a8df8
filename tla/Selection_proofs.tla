--------------------------- MODULE Selection_proofs ---------------------------
(***************************************************************************)
(* Facts about sequences that are defined by recursion: what Pick selects  *)
(* and what FlattenSeq concatenates, for sequences of any length.  The     *)
(* induction they need is over a set, and rests on the pigeonhole          *)
(* principle of FiniteSetTheorems.                                         *)
(***************************************************************************)
EXTENDS Selection, Integers, SequencesExt, FiniteSetTheorems, TLAPS

\* A set that has 0, and the successor of each number it has below n, has n:
\* otherwise the successor would map its numbers up to n into one less of them.
LEMMA InductionUpTo ==
  ASSUME NEW n \in Nat, NEW S, 0 \in S, \A i \in 0 .. n - 1 : i \in S => i + 1 \in S
  PROVE  n \in S
<1>1. SUFFICES ASSUME n \notin S PROVE FALSE
  OBVIOUS
<1> DEFINE A == S \cap (0 .. n)
           B == A \ {0}
           f == [i \in A |-> i + 1]
<1>2. IsFiniteSet(A)
  <2>1. IsFiniteSet(0 .. n) /\ A \in SUBSET (0 .. n)
    BY FS_Interval
  <2> HIDE DEF A
  <2> QED
    BY <2>1, FS_Subset
<1>3. IsFiniteSet(B) /\ Cardinality(B) = Cardinality(A) - 1 /\ Cardinality(A) \in Nat
  <2>1. 0 \in A
    OBVIOUS
  <2> HIDE DEF A
  <2> QED
    BY <1>2, <2>1, FS_RemoveElement, FS_CardinalityType
<1>4. f \in [A -> B]
  <2>1. SUFFICES ASSUME NEW i \in A PROVE i + 1 \in B
    OBVIOUS
  <2>2. i \in 0 .. n - 1
    BY <1>1
  <2> QED
    BY <2>2
<1>5. \A i, j \in A : f[i] = f[j] => i = j
  OBVIOUS
<1>6. Cardinality(B) < Cardinality(A)
  BY <1>3
<1> HIDE DEF A, B, f
<1>7. \E i, j \in A : i # j /\ f[i] = f[j]
  BY <1>2, <1>3, <1>4, <1>6, FS_PigeonHole
<1> QED
  BY <1>5, <1>7

-----------------------------------------------------------------------------
(* Recursion.                                                              *)

\* A sequence of values in which each is made from the one before: step is
\* given the position and the last value.
IsStep(step, n, A) == \A i \in 1 .. n, v \in A : step[<<i, v>>] \in A
Made(f, n, A, start, step) ==
  f \in [0 .. n -> A] /\ f[0] = start /\ \A i \in 1 .. n : f[i] = step[<<i, f[i - 1]>>]

LEMMA RecursionExists ==
  ASSUME NEW A, NEW n \in Nat, NEW start \in A, NEW step, IsStep(step, n, A)
  PROVE  \E f : Made(f, n, A, start, step)
<1> DEFINE Upto(f, m) == f[0] = start /\ \A i \in 1 .. m : f[i] = step[<<i, f[i - 1]>>]
           S == {m \in 0 .. n : \E f \in [0 .. n -> A] : Upto(f, m)}
<1>1. 0 \in S
  <2> DEFINE g == [i \in 0 .. n |-> start]
  <2>1. g \in [0 .. n -> A] /\ g[0] = start
    OBVIOUS
  <2> HIDE DEF g
  <2>2. Upto(g, 0)
    BY <2>1
  <2> QED
    BY <2>1, <2>2
<1>2. ASSUME NEW m \in 0 .. n - 1, m \in S PROVE m + 1 \in S
  <2>1. PICK f \in [0 .. n -> A] : Upto(f, m)
    BY <1>2
  <2>2. f[m] \in A /\ m + 1 \in 1 .. n
    BY <1>2
  <2>3. PICK v : v = step[<<m + 1, f[m]>>]
    OBVIOUS
  <2>4. v \in A
    BY <2>2, <2>3 DEF IsStep
  <2> DEFINE g == [f EXCEPT ![m + 1] = v]
  <2>5. g \in [0 .. n -> A] /\ g[m + 1] = v /\ \A i \in 0 .. m : g[i] = f[i]
    BY <2>2, <2>4
  <2> HIDE DEF g
  <2>6. ASSUME NEW i \in 1 .. m + 1 PROVE g[i] = step[<<i, g[i - 1]>>]
    <3>1. CASE i = m + 1
      <4>1. i - 1 = m /\ g[m] = f[m]
        BY <2>5, <3>1
      <4> QED
        BY <2>3, <2>5, <3>1, <4>1
    <3>2. CASE i # m + 1
      <4>1. i \in 1 .. m /\ i \in 0 .. m /\ i - 1 \in 0 .. m
        BY <3>2
      <4> QED
        BY <2>1, <2>5, <4>1
    <3> QED
      BY <3>1, <3>2
  <2>7. Upto(g, m + 1)
    BY <2>1, <2>5, <2>6
  <2> QED
    BY <2>2, <2>5, <2>7
<1> HIDE DEF S
<1>3. n \in S
  BY <1>1, <1>2, InductionUpTo
<1> QED
  BY <1>3 DEF S, Made
-----------------------------------------------------------------------------
(* Pick.                                                                   *)

\* What is picked of each prefix.
Picks(s, S) ==
  LET upto[i \in 0..Len(s)] ==
        IF i = 0 THEN <<>>
        ELSE IF i \in S THEN Append(upto[i - 1], s[i])
        ELSE upto[i - 1]
  IN  upto

LEMMA PickIsLast == ASSUME NEW s, NEW S PROVE Pick(s, S) = Picks(s, S)[Len(s)]
BY DEF Pick, Picks

\* Picks is the function its equation says.
LEMMA PicksDefined ==
  ASSUME NEW E, NEW s \in Seq(E), NEW S
  PROVE  /\ Picks(s, S) \in [0 .. Len(s) -> Seq(E)]
         /\ Picks(s, S)[0] = <<>>
         /\ \A i \in 1 .. Len(s) :
              Picks(s, S)[i] = IF i \in S THEN Append(Picks(s, S)[i - 1], s[i])
                                          ELSE Picks(s, S)[i - 1]
<1> DEFINE n == Len(s)
           body(f, i) == IF i = 0 THEN <<>>
                         ELSE IF i \in S THEN Append(f[i - 1], s[i]) ELSE f[i - 1]
           step == [p \in (1 .. n) \X Seq(E) |-> IF p[1] \in S THEN Append(p[2], s[p[1]]) ELSE p[2]]
<1>1. n \in Nat /\ <<>> \in Seq(E) /\ \A i \in 1 .. n : s[i] \in E
  OBVIOUS
<1>2. \A i \in 1 .. n, t \in Seq(E) : step[<<i, t>>] = IF i \in S THEN Append(t, s[i]) ELSE t
  OBVIOUS
<1>3. IsStep(step, n, Seq(E))
  <2> HIDE DEF step, n
  <2>1. SUFFICES ASSUME NEW i \in 1 .. n, NEW v \in Seq(E) PROVE step[<<i, v>>] \in Seq(E)
    BY DEF IsStep
  <2>2. step[<<i, v>>] = IF i \in S THEN Append(v, s[i]) ELSE v
    BY <1>2
  <2>3. s[i] \in E
    BY <1>1
  <2>4. Append(v, s[i]) \in Seq(E)
    BY <2>3
  <2> QED
    BY <2>2, <2>4
<1> HIDE DEF n, step
<1>4. PICK f : Made(f, n, Seq(E), <<>>, step)
  BY <1>1, <1>3, RecursionExists
<1>5. ASSUME NEW i \in 0 .. n PROVE f[i] = body(f, i)
  <2>1. CASE i = 0
    BY <1>4, <2>1 DEF Made
  <2>2. CASE i # 0
    <3>1. i \in 1 .. n /\ i - 1 \in 0 .. n
      BY <1>1, <2>2
    <3>2. f[i] = step[<<i, f[i - 1]>>] /\ f[i - 1] \in Seq(E)
      BY <1>4, <3>1 DEF Made
    <3>3. f[i] = IF i \in S THEN Append(f[i - 1], s[i]) ELSE f[i - 1]
      BY <1>2, <3>1, <3>2
    <3> QED
      BY <2>2, <3>3
  <2> QED
    BY <2>1, <2>2
<1>6. f = [i \in 0 .. n |-> body(f, i)]
  <2> HIDE DEF body
  <2>1. f = [i \in 0 .. n |-> f[i]]
    BY <1>4 DEF Made
  <2> QED
    BY <1>5, <2>1
<1>7. Picks(s, S) = CHOOSE g : g = [i \in 0 .. n |-> body(g, i)]
  BY DEF Picks, n
<1> DEFINE P == Picks(s, S)
<1>8. P = [i \in 0 .. n |-> body(P, i)]
  <2> HIDE DEF body
  <2> QED
    BY <1>6, <1>7
<1> HIDE DEF P
<1>9. P[0] = <<>> /\ \A i \in 1 .. n : P[i] = IF i \in S THEN Append(P[i - 1], s[i]) ELSE P[i - 1]
  <2>1. \A i \in 0 .. n : P[i] = body(P, i)
    <3> HIDE DEF body
    <3> QED
      BY <1>8
  <2> QED
    BY <1>1, <2>1
<1> DEFINE T == {i \in 0 .. n : P[i] \in Seq(E)}
<1>10. ASSUME NEW k \in 0 .. n PROVE P[k] \in Seq(E)
  <2>1. 0 \in T
    <3>1. P[0] \in Seq(E) /\ 0 \in 0 .. n
      BY <1>1, <1>9
    <3> QED
      BY <3>1
  <2>2. ASSUME NEW i \in 0 .. k - 1, i \in T PROVE i + 1 \in T
    <3>1. i + 1 \in 1 .. n /\ (i + 1) - 1 = i
      BY <1>1, <2>2
    <3>2. P[i + 1] = IF i + 1 \in S THEN Append(P[i], s[i + 1]) ELSE P[i]
      BY <1>9, <3>1
    <3>3. P[i] \in Seq(E) /\ s[i + 1] \in E
      BY <1>1, <2>2, <3>1
    <3>4. P[i + 1] \in Seq(E)
      BY <3>2, <3>3
    <3> QED
      BY <3>1, <3>4
  <2> HIDE DEF T
  <2>3. k \in T
    BY <1>1, <2>1, <2>2, InductionUpTo
  <2> QED
    BY <2>3 DEF T
<1>11. P \in [0 .. n -> Seq(E)]
  BY <1>8, <1>10
<1> QED
  BY <1>9, <1>11 DEF P, n

\* What is picked of a prefix depends on the prefix alone.
LEMMA PicksOfPrefix ==
  ASSUME NEW E, NEW s \in Seq(E), NEW t \in Seq(E), NEW S, NEW T,
         NEW n \in Nat, n <= Len(s), n <= Len(t),
         \A i \in 1 .. n : s[i] = t[i] /\ (i \in S <=> i \in T)
  PROVE  Picks(s, S)[n] = Picks(t, T)[n]
<1> DEFINE P == Picks(s, S)
           Q == Picks(t, T)
           same == {i \in 0 .. n : P[i] = Q[i]}
<1>1. /\ P[0] = <<>>
      /\ \A i \in 1 .. n : P[i] = IF i \in S THEN Append(P[i - 1], s[i]) ELSE P[i - 1]
  BY PicksDefined
<1>2. /\ Q[0] = <<>>
      /\ \A i \in 1 .. n : Q[i] = IF i \in T THEN Append(Q[i - 1], t[i]) ELSE Q[i - 1]
  BY PicksDefined
<1> HIDE DEF P, Q
<1>3. 0 \in same
  BY <1>1, <1>2
<1>4. ASSUME NEW i \in 0 .. n - 1, i \in same PROVE i + 1 \in same
  <2>1. i + 1 \in 1 .. n /\ (i + 1) - 1 = i /\ P[i] = Q[i]
    BY <1>4
  <2>2. P[i + 1] = IF i + 1 \in S THEN Append(P[i], s[i + 1]) ELSE P[i]
    BY <1>1, <2>1
  <2>3. Q[i + 1] = IF i + 1 \in T THEN Append(Q[i], t[i + 1]) ELSE Q[i]
    BY <1>2, <2>1
  <2>4. s[i + 1] = t[i + 1] /\ (i + 1 \in S <=> i + 1 \in T)
    BY <2>1
  <2>5. P[i + 1] = Q[i + 1]
    BY <2>1, <2>2, <2>3, <2>4
  <2> QED
    BY <2>1, <2>5
<1> HIDE DEF same
<1>5. n \in same
  BY <1>3, <1>4, InductionUpTo
<1> QED
  BY <1>5 DEF same, P, Q

\* One element more.
LEMMA PickAppend ==
  ASSUME NEW E, NEW s \in Seq(E), NEW e \in E, NEW S, NEW T,
         \A i \in 1 .. Len(s) : i \in S <=> i \in T
  PROVE  Pick(Append(s, e), T) =
           IF Len(s) + 1 \in T THEN Append(Pick(s, S), e) ELSE Pick(s, S)
<1> DEFINE t == Append(s, e)
           n == Len(s)
<1>1. t \in Seq(E) /\ Len(t) = n + 1 /\ t[n + 1] = e /\ n \in Nat /\ \A i \in 1 .. n : t[i] = s[i]
  OBVIOUS
<1> HIDE DEF t
<1>2. Picks(t, T)[n] = Picks(s, S)[n]
  BY <1>1, PicksOfPrefix
<1>3. Picks(t, T)[n + 1] =
        IF n + 1 \in T THEN Append(Picks(t, T)[n], t[n + 1]) ELSE Picks(t, T)[n]
  <2>1. n + 1 \in 1 .. Len(t) /\ (n + 1) - 1 = n
    BY <1>1
  <2> QED
    BY <1>1, <2>1, PicksDefined
<1>4. Pick(t, T) = IF n + 1 \in T THEN Append(Pick(s, S), e) ELSE Pick(s, S)
  BY <1>1, <1>2, <1>3, PickIsLast
<1> QED
  BY <1>4 DEF t, n

\* Nothing is left out where every position is picked.
LEMMA PickAll ==
  ASSUME NEW E, NEW s \in Seq(E), NEW S, \A i \in 1 .. Len(s) : i \in S
  PROVE  Pick(s, S) = s
<1> DEFINE n == Len(s)
           P == Picks(s, S)
           whole == {i \in 0 .. n : P[i] = SubSeq(s, 1, i)}
<1> HIDE DEF P
<1>1. n \in Nat /\ P[0] = <<>> /\ \A i \in 1 .. n : P[i] = Append(P[i - 1], s[i])
  <2>1. /\ P[0] = <<>>
        /\ \A i \in 1 .. n : P[i] = IF i \in S THEN Append(P[i - 1], s[i]) ELSE P[i - 1]
    BY PicksDefined DEF P
  <2>2. n \in Nat
    OBVIOUS
  <2>3. ASSUME NEW i \in 1 .. n PROVE P[i] = Append(P[i - 1], s[i])
    <3>1. i \in S
      OBVIOUS
    <3> QED
      BY <2>1, <3>1
  <2> QED
    BY <2>1, <2>2, <2>3
<1>2. 0 \in whole
  <2>1. SubSeq(s, 1, 0) = <<>> /\ 0 \in 0 .. n
    BY <1>1
  <2> QED
    BY <1>1, <2>1
<1>3. ASSUME NEW i \in 0 .. n - 1, i \in whole PROVE i + 1 \in whole
  <2>1. i + 1 \in 1 .. n /\ (i + 1) - 1 = i /\ P[i] = SubSeq(s, 1, i)
    BY <1>1, <1>3
  <2>2. P[i + 1] = Append(SubSeq(s, 1, i), s[i + 1])
    BY <1>1, <2>1
  <2>3. SubSeq(s, 1, i + 1) = Append(SubSeq(s, 1, i), s[i + 1])
    BY <1>1, <2>1
  <2>4. P[i + 1] = SubSeq(s, 1, i + 1)
    BY <2>2, <2>3
  <2> QED
    BY <1>1, <2>1, <2>4
<1> HIDE DEF whole
<1>4. n \in whole
  BY <1>1, <1>2, <1>3, InductionUpTo
<1>5. P[n] = SubSeq(s, 1, n)
  BY <1>4 DEF whole
<1> QED
  BY <1>5, PickIsLast DEF P

\* The positions that are picked, in order: place[k] is that of the k-th.
PlacedAt(place, p, s, S) ==
  /\ place \in [1 .. Len(p) -> 1 .. Len(s)]
  /\ \A k \in 1 .. Len(p) : place[k] \in S /\ p[k] = s[place[k]]
  /\ \A k, l \in 1 .. Len(p) : k < l => place[k] < place[l]
  /\ \A i \in 1 .. Len(s) : i \in S => \E k \in 1 .. Len(p) : place[k] = i

IsPlaced(p, s, S) == \E place : PlacedAt(place, p, s, S)

\* Every selection has such places.
LEMMA PickPlaces ==
  ASSUME NEW E, NEW s \in Seq(E), NEW S
  PROVE  Pick(s, S) \in Seq(E) /\ IsPlaced(Pick(s, S), s, S)
<1> DEFINE n == Len(s)
           P == Picks(s, S)
           Upto(m) == {i \in S : i <= m}
           placed == {i \in 0 .. n : IsPlaced(P[i], s, Upto(i))}
<1> HIDE DEF P
<1>1. /\ n \in Nat /\ P \in [0 .. n -> Seq(E)] /\ P[0] = <<>>
      /\ \A i \in 1 .. n : P[i] = IF i \in S THEN Append(P[i - 1], s[i]) ELSE P[i - 1]
  <2>1. n \in Nat
    OBVIOUS
  <2> QED
    BY <2>1, PicksDefined DEF P
<1>2. 0 \in placed
  <2> DEFINE none == [k \in 1 .. 0 |-> 1]
  <2>1. Len(P[0]) = 0
    BY <1>1
  <2>2. \A j \in 1 .. n : j \notin Upto(0)
    BY <1>1
  <2>3. PlacedAt(none, P[0], s, Upto(0))
    BY <2>1, <2>2 DEF PlacedAt
  <2> HIDE DEF none, Upto
  <2>4. IsPlaced(P[0], s, Upto(0))
    BY <2>3 DEF IsPlaced
  <2>5. 0 \in 0 .. n
    BY <1>1
  <2> QED
    BY <2>4, <2>5
<1>3. ASSUME NEW i \in 0 .. n - 1, i \in placed PROVE i + 1 \in placed
  <2>1. /\ i + 1 \in 1 .. n /\ (i + 1) - 1 = i /\ i \in 0 .. n
        /\ P[i + 1] = IF i + 1 \in S THEN Append(P[i], s[i + 1]) ELSE P[i]
    <3>1. i + 1 \in 1 .. n /\ (i + 1) - 1 = i /\ i \in 0 .. n
      BY <1>1
    <3> QED
      BY <1>1, <3>1
  <2>2. PICK place : PlacedAt(place, P[i], s, Upto(i))
    BY <1>3 DEF IsPlaced
  <2>3. P[i] \in Seq(E) /\ Len(P[i]) \in Nat
    BY <1>1, <2>1
  <2>4. CASE i + 1 \notin S
    <3>1. P[i + 1] = P[i]
      BY <2>1, <2>4
    <3>2. \A j \in 1 .. n : j \in Upto(i + 1) <=> j \in Upto(i)
      BY <1>1, <2>4
    <3>3. \A k \in 1 .. Len(P[i]) : place[k] \in 1 .. n
      BY <2>2 DEF PlacedAt
    <3>4. PlacedAt(place, P[i + 1], s, Upto(i + 1))
      BY <2>2, <3>1, <3>2, <3>3 DEF PlacedAt
    <3> HIDE DEF Upto
    <3>5. IsPlaced(P[i + 1], s, Upto(i + 1))
      BY <3>4 DEF IsPlaced
    <3>6. i + 1 \in 0 .. n
      BY <2>1
    <3> QED
      BY <3>5, <3>6
  <2>5. CASE i + 1 \in S
    <3> DEFINE m == Len(P[i]) + 1
               q == P[i + 1]
               next == [k \in 1 .. m |-> IF k = m THEN i + 1 ELSE place[k]]
    <3>1. /\ q \in Seq(E) /\ Len(q) = m /\ q[m] = s[i + 1]
          /\ \A k \in 1 .. Len(P[i]) : q[k] = P[i][k]
      <4>1. q = Append(P[i], s[i + 1]) /\ s[i + 1] \in E
        BY <2>1, <2>5
      <4> QED
        BY <2>3, <4>1
    <3>2. /\ next[m] = i + 1
          /\ \A k \in 1 .. m : k # m =>
               k \in 1 .. Len(P[i]) /\ next[k] = place[k] /\ place[k] \in 1 .. n
               /\ place[k] \in S /\ place[k] <= i /\ P[i][k] = s[place[k]]
      BY <2>2, <2>3 DEF PlacedAt
    <3>3. next \in [1 .. m -> 1 .. n]
      BY <2>1, <3>2
    <3> HIDE DEF next, q
    <3>4. \A k \in 1 .. m : next[k] \in Upto(i + 1) /\ q[k] = s[next[k]]
      <4>1. SUFFICES ASSUME NEW k \in 1 .. m
                     PROVE  next[k] \in Upto(i + 1) /\ q[k] = s[next[k]]
        OBVIOUS
      <4>2. CASE k = m
        BY <2>5, <3>1, <3>2, <4>2
      <4>3. CASE k # m
        BY <3>1, <3>2, <4>3
      <4> QED
        BY <4>2, <4>3
    <3>5. \A k, l \in 1 .. m : k < l => next[k] < next[l]
      <4>1. SUFFICES ASSUME NEW k \in 1 .. m, NEW l \in 1 .. m, k < l
                     PROVE  next[k] < next[l]
        OBVIOUS
      <4>2. k # m /\ next[k] <= i /\ next[k] \in Int
        BY <2>3, <3>2, <4>1
      <4>3. CASE l = m
        BY <3>2, <4>2, <4>3
      <4>4. CASE l # m
        BY <2>2, <3>2, <4>1, <4>2, <4>4 DEF PlacedAt
      <4> QED
        BY <4>3, <4>4
    <3>6. \A j \in 1 .. n : j \in Upto(i + 1) => \E k \in 1 .. m : next[k] = j
      <4>1. SUFFICES ASSUME NEW j \in 1 .. n, j \in Upto(i + 1)
                     PROVE  \E k \in 1 .. m : next[k] = j
        OBVIOUS
      <4>2. CASE j = i + 1
        BY <2>3, <3>2, <4>2
      <4>3. CASE j # i + 1
        <5>1. j \in Upto(i)
          BY <4>1, <4>3
        <5>2. PICK k \in 1 .. Len(P[i]) : place[k] = j
          BY <2>2, <5>1 DEF PlacedAt
        <5>3. k \in 1 .. m /\ k # m
          BY <2>3, <5>2
        <5> QED
          BY <3>2, <5>2, <5>3
      <4> QED
        BY <4>2, <4>3
    <3>7. PlacedAt(next, q, s, Upto(i + 1))
      BY <3>1, <3>3, <3>4, <3>5, <3>6 DEF PlacedAt
    <3> HIDE DEF Upto
    <3>8. IsPlaced(P[i + 1], s, Upto(i + 1))
      BY <3>7 DEF IsPlaced, q
    <3>9. i + 1 \in 0 .. n
      BY <2>1
    <3> QED
      BY <3>8, <3>9
  <2> QED
    BY <2>4, <2>5
<1> HIDE DEF placed
<1>4. n \in placed
  BY <1>1, <1>2, <1>3, InductionUpTo
<1>5. PICK place : PlacedAt(place, P[n], s, Upto(n))
  BY <1>4 DEF placed, IsPlaced
<1>6. P[n] \in Seq(E)
  BY <1>1
<1>7. \A j \in 1 .. n : j \in Upto(n) <=> j \in S
  BY <1>1
<1>8. PlacedAt(place, P[n], s, S)
  BY <1>5, <1>7 DEF PlacedAt
<1> QED
  BY <1>6, <1>8, PickIsLast DEF P, IsPlaced

-----------------------------------------------------------------------------
(* FlattenSeq.                                                             *)

\* The concatenations of its prefixes.
Flattens(f, seqs, E) ==
  /\ f \in [0 .. Len(seqs) -> Seq(E)]
  /\ f[0] = <<>>
  /\ \A i \in 1 .. Len(seqs) : f[i] = f[i - 1] \o seqs[i]
  /\ FlattenSeq(seqs) = f[Len(seqs)]

\* FlattenSeq has them.
LEMMA FlattenDefined ==
  ASSUME NEW E, NEW seqs \in Seq(Seq(E))
  PROVE  \E f : Flattens(f, seqs, E)
<1> DEFINE n == Len(seqs)
           step == [p \in (1 .. n) \X Seq(E) |-> p[2] \o seqs[p[1]]]
           body(g, i) == IF i = 1 THEN seqs[i] ELSE g[i - 1] \o seqs[i]
<1>1. n \in Nat /\ <<>> \in Seq(E) /\ \A i \in 1 .. n : seqs[i] \in Seq(E)
  OBVIOUS
<1>2. \A i \in 1 .. n, t \in Seq(E) : step[<<i, t>>] = t \o seqs[i]
  OBVIOUS
<1>3. IsStep(step, n, Seq(E))
  <2> HIDE DEF step, n
  <2>1. \A i \in 1 .. n, t \in Seq(E) : t \o seqs[i] \in Seq(E)
    BY <1>1
  <2> QED
    BY <1>2, <2>1 DEF IsStep
<1> HIDE DEF n, step
<1>4. PICK f : Made(f, n, Seq(E), <<>>, step)
  BY <1>1, <1>3, RecursionExists
<1>5. /\ f \in [0 .. n -> Seq(E)] /\ f[0] = <<>>
      /\ \A i \in 1 .. n : f[i] = f[i - 1] \o seqs[i]
  <2>1. f \in [0 .. n -> Seq(E)] /\ f[0] = <<>>
    BY <1>4 DEF Made
  <2>2. ASSUME NEW i \in 1 .. n PROVE f[i] = f[i - 1] \o seqs[i]
    <3>1. f[i] = step[<<i, f[i - 1]>>] /\ i - 1 \in 0 .. n
      BY <1>1, <1>4 DEF Made
    <3>2. f[i - 1] \in Seq(E)
      BY <2>1, <3>1
    <3> QED
      BY <1>2, <3>1, <3>2
  <2> QED
    BY <2>1, <2>2
<1>6. CASE n = 0
  <2>1. FlattenSeq(seqs) = seqs /\ seqs = <<>>
    BY <1>6 DEF FlattenSeq, n
  <2> QED
    BY <1>5, <1>6, <2>1 DEF Flattens, n
<1>7. CASE n # 0
  <2> DEFINE F == CHOOSE g : g = [i \in 1 .. n |-> body(g, i)]
             h == [i \in 1 .. n |-> f[i]]
  <2>1. FlattenSeq(seqs) = F[n]
    BY <1>7 DEF FlattenSeq, n
  <2>2. \A i \in 1 .. n : h[i] = body(h, i)
    <3>1. SUFFICES ASSUME NEW i \in 1 .. n PROVE f[i] = body(h, i)
      OBVIOUS
    <3>2. CASE i = 1
      <4> HIDE DEF h, F, body
      <4>0. f[i] = f[i - 1] \o seqs[i]
        BY <1>5
      <4>1. i - 1 = 0
        BY <3>2
      <4>3. seqs[i] \in Seq(E)
        BY <1>1
      <4>4. f[i - 1] = <<>>
        BY <1>5, <4>1
      <4>2. f[i] = seqs[i]
        BY <4>0, <4>3, <4>4
      <4> QED
        BY <3>2, <4>2 DEF body
    <3>3. CASE i # 1
      <4>1. i - 1 \in 1 .. n
        BY <1>1, <3>3
      <4> QED
        BY <1>5, <3>3, <4>1
    <3> QED
      BY <3>2, <3>3
  <2>3. h = [i \in 1 .. n |-> body(h, i)]
    <3>1. h = [i \in 1 .. n |-> h[i]]
      OBVIOUS
    <3> HIDE DEF h, body
    <3> QED
      BY <2>2, <3>1
  <2>4. F = [i \in 1 .. n |-> body(F, i)]
    <3> HIDE DEF h, body
    <3> QED
      BY <2>3
  <2> HIDE DEF F
  <2>5. \A i \in 1 .. n : F[i] = IF i = 1 THEN seqs[i] ELSE F[i - 1] \o seqs[i]
    <3>1. \A i \in 1 .. n : F[i] = body(F, i)
      <4> HIDE DEF body
      <4> QED
        BY <2>4
    <3> QED
      BY <3>1
  <2> DEFINE same == {i \in 0 .. n : i = 0 \/ F[i] = f[i]}
  <2>6. 0 \in same
    BY <1>1
  <2>7. ASSUME NEW i \in 0 .. n - 1, i \in same PROVE i + 1 \in same
    <3>1. i + 1 \in 1 .. n /\ (i + 1) - 1 = i
      BY <1>1
    <3>2. F[i + 1] = IF i + 1 = 1 THEN seqs[i + 1] ELSE F[i] \o seqs[i + 1]
      BY <2>5, <3>1
    <3>3. f[i + 1] = f[i] \o seqs[i + 1]
      BY <1>5, <3>1
    <3>4. CASE i = 0
      <4>1. f[i + 1] = <<>> \o seqs[i + 1] /\ seqs[i + 1] \in Seq(E)
        BY <1>1, <1>5, <3>1, <3>3, <3>4
      <4>2. f[i + 1] = seqs[i + 1]
        BY <4>1
      <4> QED
        BY <3>1, <3>2, <3>4, <4>2
    <3>5. CASE i # 0
      <4>1. F[i] = f[i]
        BY <2>7, <3>5
      <4>0. i + 1 # 1
        BY <3>5
      <4>2. F[i + 1] = F[i] \o seqs[i + 1]
        BY <3>2, <4>0
      <4>3. F[i + 1] = f[i + 1] /\ i + 1 \in 0 .. n
        BY <3>1, <3>3, <4>1, <4>2
      <4> QED
        BY <4>3
    <3> QED
      BY <3>4, <3>5
  <2> HIDE DEF same
  <2>8. n \in same
    BY <1>1, <2>6, <2>7, InductionUpTo
  <2>9. FlattenSeq(seqs) = f[n]
    BY <1>7, <2>1, <2>8 DEF same
  <2> QED
    BY <1>5, <2>9 DEF Flattens, n
<1> QED
  BY <1>6, <1>7

\* Where the parts lie: the i-th part ends at place at[i].
LaidOut(at, seqs, n, t) ==
  /\ at[0] = 0 /\ Len(t) = at[n]
  /\ \A i \in 0 .. n : at[i] \in Nat
  /\ \A i \in 1 .. n : at[i] = at[i - 1] + Len(seqs[i])
  /\ \A i \in 1 .. n : \A q \in 1 .. Len(seqs[i]) : t[at[i - 1] + q] = seqs[i][q]
  /\ \A i, j \in 0 .. n : i <= j => at[i] <= at[j]
  /\ \A p \in 1 .. Len(t) : \E i \in 1 .. n : p \in at[i - 1] + 1 .. at[i]

\* Each prefix is the one before with a part behind it.
Grows(f, at, seqs, n) ==
  /\ at[0] = 0
  /\ \A i \in 0 .. n : at[i] \in Nat /\ Len(f[i]) = at[i]
  /\ \A i \in 1 .. n : /\ Len(seqs[i]) \in Nat /\ at[i] = at[i - 1] + Len(seqs[i])
                       /\ \A p \in 1 .. at[i - 1] : f[i][p] = f[i - 1][p]
                       /\ \A q \in 1 .. Len(seqs[i]) : f[i][at[i - 1] + q] = seqs[i][q]

LEMMA PartsLaidOut ==
  ASSUME NEW n \in Nat, NEW seqs, NEW f, NEW at, Grows(f, at, seqs, n)
  PROVE  LaidOut(at, seqs, n, f[n])
<1>5. at[0] = 0 /\ \A i \in 0 .. n : at[i] \in Nat /\ Len(f[i]) = at[i]
  BY DEF Grows
<1>6. ASSUME NEW k \in 0 .. n - 1
      PROVE  /\ k + 1 \in 1 .. n /\ (k + 1) - 1 = k /\ k \in 0 .. n /\ k + 1 \in 0 .. n
             /\ at[k + 1] = at[k] + Len(seqs[k + 1]) /\ Len(seqs[k + 1]) \in Nat
             /\ \A p \in 1 .. at[k] : f[k + 1][p] = f[k][p]
             /\ \A q \in 1 .. Len(seqs[k + 1]) : f[k + 1][at[k] + q] = seqs[k + 1][q]
  <2>1. k + 1 \in 1 .. n /\ (k + 1) - 1 = k /\ k \in 0 .. n /\ k + 1 \in 0 .. n
    OBVIOUS
  <2>2. k + 1 \in 1 .. n /\ (k + 1) - 1 = k
    BY <2>1
  <2> DEFINE i == k + 1
  <2>3. i \in 1 .. n /\ i - 1 = k
    BY <2>2
  <2> HIDE DEF i
  <2>4. /\ at[i] = at[i - 1] + Len(seqs[i]) /\ Len(seqs[i]) \in Nat
        /\ \A p \in 1 .. at[i - 1] : f[i][p] = f[i - 1][p]
        /\ \A q \in 1 .. Len(seqs[i]) : f[i][at[i - 1] + q] = seqs[i][q]
    BY <2>3 DEF Grows
  <2> QED
    BY <2>1, <2>3, <2>4 DEF i
<1> DEFINE laid == {k \in 0 .. n : LaidOut(at, seqs, k, f[k])}
<1>7. 0 \in laid
  BY <1>5 DEF LaidOut
<1>8. ASSUME NEW k \in 0 .. n - 1, k \in laid PROVE k + 1 \in laid
  <2>1. /\ LaidOut(at, seqs, k, f[k]) /\ k \in Nat /\ k \in 0 .. k
        /\ k + 1 \in 1 .. n /\ k \in 0 .. n /\ k + 1 \in 0 .. n
    BY <1>8
  <2> DEFINE l == k + 1
             a == at[k]
             b == at[l]
             c == Len(seqs[l])
  <2>2. b = a + c /\ a \in Nat /\ b \in Nat /\ c \in Nat
    BY <1>5, <1>6, <2>1
  <2>3. /\ Len(f[k]) = a /\ Len(f[l]) = b
        /\ \A p \in 1 .. a : f[l][p] = f[k][p]
        /\ \A q \in 1 .. c : f[l][a + q] = seqs[l][q]
    BY <1>5, <1>6, <2>1
  <2>4. l - 1 = k /\ l \in Nat /\ \A i \in 0 .. l : i \in 0 .. k \/ i = l
    BY <2>1
  <2>5. /\ at[0] = 0
        /\ \A i \in 0 .. k : at[i] \in Nat /\ at[i] <= a
        /\ \A i \in 1 .. k : at[i] = at[i - 1] + Len(seqs[i])
        /\ \A i \in 1 .. k : \A q \in 1 .. Len(seqs[i]) : f[k][at[i - 1] + q] = seqs[i][q]
        /\ \A i, j \in 0 .. k : i <= j => at[i] <= at[j]
        /\ \A p \in 1 .. Len(f[k]) : \E i \in 1 .. k : p \in at[i - 1] + 1 .. at[i]
    <3>1. \A i \in 0 .. k : i <= k
      BY <2>1
    <3> QED
      BY <2>1, <3>1 DEF LaidOut
  <2> HIDE DEF l, a, b, c
  <2>6. \A i \in 0 .. l : at[i] \in Nat
    BY <2>2, <2>4, <2>5 DEF b
  <2>12. \A i \in 1 .. k : Len(seqs[i]) \in Nat
    <3>1. \A i \in 1 .. k : i \in 1 .. n
      BY <2>1
    <3> QED
      BY <3>1 DEF Grows
  <2>7. ASSUME NEW i \in 1 .. l PROVE at[i] = at[i - 1] + Len(seqs[i])
    <3>1. CASE i = l
      BY <2>2, <2>4, <3>1 DEF a, b, c
    <3>2. CASE i # l
      <4>1. i \in 1 .. k
        BY <2>1, <2>4, <3>2
      <4> QED
        BY <2>5, <4>1
    <3> QED
      BY <3>1, <3>2
  <2>8. ASSUME NEW i \in 0 .. l, NEW j \in 0 .. l, i <= j PROVE at[i] <= at[j]
    <3>1. CASE j = l
      <4>1. CASE i = l
        BY <2>2, <3>1, <4>1 DEF b
      <4>2. CASE i # l
        <5>1. at[i] <= a /\ at[i] \in Nat
          BY <2>4, <2>5, <4>2
        <5>2. at[i] <= b
          BY <2>2, <5>1
        <5> QED
          BY <3>1, <5>2 DEF b
      <4> QED
        BY <4>1, <4>2
    <3>2. CASE j # l
      <4>1. i \in 0 .. k /\ j \in 0 .. k
        BY <2>1, <2>4, <2>8, <3>2
      <4> QED
        BY <2>5, <2>8, <4>1
    <3> QED
      BY <3>1, <3>2
  <2>9. ASSUME NEW i \in 1 .. l, NEW q \in 1 .. Len(seqs[i])
        PROVE  f[l][at[i - 1] + q] = seqs[i][q]
    <3>1. CASE i = l
      BY <2>3, <2>4, <3>1 DEF a, c
    <3>2. CASE i # l
      <4>1. i \in 1 .. k /\ i \in 0 .. k /\ i - 1 \in 0 .. k
        BY <2>1, <2>4, <3>2
      <4> DEFINE d == at[i - 1]
                 e == Len(seqs[i])
                 g == at[i]
      <4>2. g = d + e /\ d \in Nat /\ g \in Nat /\ g <= a
        BY <2>5, <4>1
      <4>3. q \in 1 .. e
        OBVIOUS
      <4> HIDE DEF d, e, g
      <4>7. e \in Nat
        BY <4>1, <2>12 DEF e
      <4>8. q \in Nat /\ 1 <= q /\ q <= e
        BY <4>3, <4>7
      <4>9. d + q \in Nat /\ 1 <= d + q /\ d + q <= a
        BY <2>2, <4>2, <4>7, <4>8
      <4>4. d + q \in 1 .. a
        BY <2>2, <4>9
      <4>5. f[l][d + q] = f[k][d + q]
        BY <2>3, <4>4
      <4>6. f[k][d + q] = seqs[i][q]
        BY <2>5, <4>1 DEF d
      <4> QED
        BY <4>5, <4>6 DEF d
    <3> QED
      BY <3>1, <3>2
  <2>10. ASSUME NEW p \in 1 .. Len(f[l])
         PROVE  \E i \in 1 .. l : p \in at[i - 1] + 1 .. at[i]
    <3>1. CASE p \in 1 .. a
      <4>1. PICK i \in 1 .. k : p \in at[i - 1] + 1 .. at[i]
        BY <2>3, <2>5, <3>1
      <4>2. i \in 1 .. l
        BY <2>1, <2>4
      <4> QED
        BY <4>1, <4>2
    <3>2. CASE ~(p \in 1 .. a)
      <4>1. p \in 1 .. b
        BY <2>3
      <4>2. p \in a + 1 .. b
        BY <2>2, <3>2, <4>1
      <4>3. l \in 1 .. l
        BY <2>1, <2>4
      <4> QED
        BY <2>4, <4>2, <4>3 DEF a, b
    <3> QED
      BY <3>1, <3>2
  <2>11. Len(f[l]) = at[l]
    BY <2>3 DEF b
  <2>13. LaidOut(at, seqs, l, f[l])
    BY <2>5, <2>6, <2>7, <2>8, <2>9, <2>10, <2>11 DEF LaidOut
  <2> QED
    BY <2>1, <2>13 DEF l
<1> HIDE DEF laid
<1>9. n \in laid
  BY <1>7, <1>8, InductionUpTo
<1> QED
  <2>1. n \in 0 .. n
    OBVIOUS
  <2> QED
    BY <1>9, <2>1 DEF laid

LEMMA FlattenPlaces ==
  ASSUME NEW E, NEW seqs \in Seq(Seq(E))
  PROVE  FlattenSeq(seqs) \in Seq(E) /\ \E at : LaidOut(at, seqs, Len(seqs), FlattenSeq(seqs))
<1> DEFINE n == Len(seqs)
<1>1. n \in Nat /\ \A i \in 1 .. n : seqs[i] \in Seq(E) /\ Len(seqs[i]) \in Nat
  OBVIOUS
<1>2. PICK f : Flattens(f, seqs, E)
  BY FlattenDefined
<1>3. /\ f \in [0 .. n -> Seq(E)] /\ f[0] = <<>> /\ FlattenSeq(seqs) = f[n]
      /\ \A i \in 1 .. n : f[i] = f[i - 1] \o seqs[i]
  BY <1>2 DEF Flattens
<1> HIDE DEF n
<1> DEFINE at == [i \in 0 .. n |-> Len(f[i])]
<1>4. \A i \in 0 .. n : at[i] = Len(f[i]) /\ at[i] \in Nat
  BY <1>3
<1>5. at[0] = 0
  BY <1>1, <1>3
<1> HIDE DEF at
<1>6. ASSUME NEW i \in 1 .. n
      PROVE  /\ at[i] = at[i - 1] + Len(seqs[i]) /\ Len(seqs[i]) \in Nat
             /\ \A p \in 1 .. at[i - 1] : f[i][p] = f[i - 1][p]
             /\ \A q \in 1 .. Len(seqs[i]) : f[i][at[i - 1] + q] = seqs[i][q]
  <2>0. i - 1 \in 0 .. n /\ i \in 0 .. n
    BY <1>1
  <2>1. f[i] = f[i - 1] \o seqs[i] /\ f[i - 1] \in Seq(E) /\ seqs[i] \in Seq(E)
    BY <1>1, <1>3, <2>0
  <2>2. at[i - 1] = Len(f[i - 1]) /\ at[i] = Len(f[i])
    BY <1>1, <1>4
  <2>3. \A u, v \in Seq(E) :
          /\ Len(u \o v) = Len(u) + Len(v)
          /\ \A p \in 1 .. Len(u) : (u \o v)[p] = u[p]
          /\ \A q \in 1 .. Len(v) : (u \o v)[Len(u) + q] = v[q]
    OBVIOUS
  <2> DEFINE u == f[i - 1]
             v == seqs[i]
             w == f[i]
  <2>4. u \in Seq(E) /\ v \in Seq(E) /\ w = u \o v
    BY <2>1
  <2>5. /\ Len(w) = Len(u) + Len(v)
        /\ \A p \in 1 .. Len(u) : w[p] = u[p]
        /\ \A q \in 1 .. Len(v) : w[Len(u) + q] = v[q]
    <3> HIDE DEF u, v, w
    <3> QED
      BY <2>3, <2>4
  <2> QED
    BY <1>1, <2>2, <2>5
<1>10. LaidOut(at, seqs, n, f[n])
  <2>1. Grows(f, at, seqs, n)
    BY <1>4, <1>5, <1>6 DEF Grows
  <2> QED
    BY <1>1, <2>1, PartsLaidOut
<1> QED
  <2>1. FlattenSeq(seqs) \in Seq(E)
    BY <1>1, <1>3
  <2> QED
    BY <1>3, <1>10, <2>1 DEF n
================================================================================
