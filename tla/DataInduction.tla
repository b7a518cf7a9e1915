---------------------------- MODULE DataInduction ----------------------------
(***************************************************************************)
(* Induction over data, stated with sets and functions where the library   *)
(* of TLAPS uses operators, which its SMT backend cannot instantiate.      *)
(* All follows from the well-foundedness of < on Nat.                      *)
(***************************************************************************)
EXTENDS Subsequence, TLAPS, WellFoundedInduction, SequenceTheorems

\* A set of natural numbers that is not empty has a least element.
LEMMA LeastNumber ==
    ASSUME NEW T, T \subseteq Nat, T # {}
    PROVE  \E m \in T : \A k \in T : m <= k
<1> DEFINE R == OpToRel(<, Nat)
<1>1. IsWellFoundedOn(R, Nat)
  BY NatLessThanWellFounded
<1>2. PICK m \in T : \A k \in T : ~ (<<k, m>> \in R)
  <2> HIDE DEF R
  <2> QED
    BY <1>1, WFMin
<1>3. \A i, j \in Nat : i < j => <<i, j>> \in R
  BY DEF OpToRel
<1>4. \A k \in T : ~(k < m)
  <2> HIDE DEF R
  <2> QED
    BY <1>2, <1>3
<1>5. \A k \in T : m <= k
  BY <1>4
<1> QED
  BY <1>5

\* Induction: a set that has 0 and the successor of each of its elements is Nat.
LEMMA SetInduction ==
    ASSUME NEW T, T \subseteq Nat, 0 \in T, \A n \in T : n + 1 \in T
    PROVE  T = Nat
<1>1. SUFFICES ASSUME NEW n \in Nat, n \notin T PROVE FALSE
  OBVIOUS
<1>2. PICK m \in Nat \ T : \A k \in Nat \ T : m <= k
  BY <1>1, LeastNumber
<1>3. m - 1 \in T
  BY <1>2
<1> QED
  BY <1>2, <1>3

\* The same up to a bound.
LEMMA BoundedInduction ==
    ASSUME NEW N \in Nat, NEW T, 0 \in T, \A n \in T : n \in Nat /\ n < N => n + 1 \in T
    PROVE  0 .. N \subseteq T
<1> DEFINE U == {n \in Nat : n <= N => n \in T}
<1>1. 0 \in U /\ \A n \in U : n + 1 \in U
  OBVIOUS
<1>2. U = Nat
  <2>1. U \subseteq Nat
    OBVIOUS
  <2> HIDE DEF U
  <2> QED
    BY <1>1, <2>1, SetInduction
<1> QED
  BY <1>2

\* Primitive recursion: a start and a step function, which may look at the
\* index, determine a function on 0 .. N.
LEMMA Recursion ==
    ASSUME NEW S, NEW b \in S, NEW N \in Nat, NEW step \in [1 .. N -> [S -> S]]
    PROVE  \E f \in [0 .. N -> S] : f[0] = b /\ \A k \in 1 .. N : f[k] = step[k][f[k - 1]]
<1> DEFINE Run(f, n) == /\ f \in [0 .. n -> S]
                        /\ f[0] = b
                        /\ \A k \in 1 .. n : f[k] = step[k][f[k - 1]]
           T == {n \in 0 .. N : \E f : Run(f, n)}
<1> HIDE DEF T
<1>1. 0 \in T
  <2>1. 0 \in 0 .. N /\ 0 .. 0 = {0} /\ 1 .. 0 = {}
    OBVIOUS
  <2> DEFINE f == [k \in {0} |-> b]
  <2>2. f \in [{0} -> S] /\ f[0] = b
    OBVIOUS
  <2> HIDE DEF f
  <2>3. Run(f, 0)
    BY <2>1, <2>2
  <2> HIDE DEF Run
  <2> QED
    BY <2>1, <2>3 DEF T
<1>2. ASSUME NEW n \in Nat, n \in T, n < N
      PROVE  n + 1 \in T
  <2>1. PICK f : Run(f, n)
    <3> HIDE DEF Run
    <3> QED
      BY <1>2 DEF T
  <2> DEFINE g == [k \in 0 .. (n + 1) |-> IF k = n + 1 THEN step[n + 1][f[n]] ELSE f[k]]
  <2>0. n + 1 \in 0 .. N /\ n + 1 \in 1 .. N
    BY <1>2
  <2>2. f[n] \in S
    BY <2>1
  <2>3. step[n + 1][f[n]] \in S
    <3>1. step[n + 1] \in [S -> S]
      BY <2>0
    <3> QED
      BY <2>2, <3>1
  <2>4. g \in [0 .. (n + 1) -> S]
    BY <2>1, <2>3
  <2>5. g[0] = b
    BY <2>1
  <2>6. ASSUME NEW k \in 1 .. n + 1
        PROVE  g[k] = step[k][g[k - 1]]
    <3>1. CASE k = n + 1
      BY <3>1
    <3>2. CASE k \in 1 .. n
      <4>1. g[k] = f[k] /\ g[k - 1] = f[k - 1]
        BY <3>2
      <4>2. f[k] = step[k][f[k - 1]]
        BY <2>1, <3>2
      <4> QED
        BY <4>1, <4>2
    <3> QED
      BY <3>1, <3>2
  <2>7. Run(g, n + 1)
    <3> HIDE DEF g
    <3> QED
      BY <2>4, <2>5, <2>6
  <2> HIDE DEF g, Run
  <2> QED
    BY <2>0, <2>7 DEF T
<1>3. N \in T
  <2>1. \A n \in T : n \in Nat /\ n < N => n + 1 \in T
    BY <1>2
  <2>2. 0 .. N \subseteq T
    BY <1>1, <2>1, BoundedInduction
  <2> QED
    BY <2>2
<1>4. \E f : Run(f, N)
  <2> HIDE DEF Run
  <2> QED
    BY <1>3 DEF T
<1> QED
  BY <1>4

\* What holds of the first value of a function on 0 .. N, and is passed on from
\* each value to the next, holds of all.
LEMMA PassedOn ==
    ASSUME NEW N \in Nat, NEW S, NEW g, g[0] \in S,
           \A k \in 1 .. N : g[k - 1] \in S => g[k] \in S
    PROVE  \A k \in 0 .. N : g[k] \in S
<1> DEFINE T == {k \in 0 .. N : g[k] \in S}
<1>1. 0 \in T
  OBVIOUS
<1>2. ASSUME NEW n \in T, n \in Nat, n < N
      PROVE  n + 1 \in T
  <2>1. n + 1 \in 1 .. N /\ n + 1 \in 0 .. N /\ (n + 1) - 1 = n
    BY <1>2
  <2>2. g[n] \in S
    OBVIOUS
  <2> QED
    BY <2>1, <2>2
<1>3. \A n \in T : n \in Nat /\ n < N => n + 1 \in T
  BY <1>2
<1>4. 0 .. N \subseteq T
  <2> HIDE DEF T
  <2> QED
    BY <1>1, <1>3, BoundedInduction
<1> QED
  BY <1>4

\* A name for the integers: where it is not expanded Recursion can be applied.
Ints == Int

\* Recursion over the integers, from 0.
LEMMA IntsRecursion ==
    ASSUME NEW N \in Nat, NEW step \in [1 .. N -> [Ints -> Ints]]
    PROVE  \E f \in [0 .. N -> Ints] : f[0] = 0 /\ \A k \in 1 .. N : f[k] = step[k][f[k - 1]]
<1>1. 0 \in Ints
  BY DEF Ints
<1> QED
  BY <1>1, Recursion

\* Recursion over the integers, from 0.
LEMMA IntRecursion ==
    ASSUME NEW N \in Nat, NEW step \in [1 .. N -> [Int -> Int]]
    PROVE  \E f \in [0 .. N -> Int] : f[0] = 0 /\ \A k \in 1 .. N : f[k] = step[k][f[k - 1]]
<1>1. step \in [1 .. N -> [Ints -> Ints]]
  BY DEF Ints
<1>2. PICK f \in [0 .. N -> Ints] : f[0] = 0 /\ \A k \in 1 .. N : f[k] = step[k][f[k - 1]]
  BY <1>1, IntsRecursion
<1>3. f \in [0 .. N -> Int]
  BY <1>2 DEF Ints
<1> QED
  BY <1>2, <1>3

-----------------------------------------------------------------------------
(* Among.                                                                  *)

\* f picks the elements of S from the first n of s.
Picks(f, s, S, n) ==
    /\ f = [k \in 0 .. n |-> f[k]]
    /\ f[0] = <<>>
    /\ \A k \in 1 .. n : f[k] = IF s[k] \in S THEN Append(f[k - 1], s[k]) ELSE f[k - 1]

\* There is such an f, for any s: the recursive function of Among exists.
LEMMA AmongExist ==
    ASSUME NEW N \in Nat, NEW s, NEW S
    PROVE  \E f : Picks(f, s, S, N)
  <1> DEFINE T == {n \in 0 .. N : \E f : Picks(f, s, S, n)}
  <1>1. 0 \in T
    <2> DEFINE f == [k \in 0 .. 0 |-> <<>>]
    <2>1. f[0] = <<>> /\ 0 \in 0 .. N /\ 1 .. 0 = {}
      OBVIOUS
    <2>2. f = [k \in 0 .. 0 |-> f[k]]
      OBVIOUS
    <2> HIDE DEF f
    <2> QED BY <2>1, <2>2 DEF Picks
  <1>2. ASSUME NEW n \in T, n \in Nat, n < N
        PROVE  n + 1 \in T
    <2>1. PICK f : Picks(f, s, S, n)
      OBVIOUS
    <2> DEFINE next == IF s[n + 1] \in S THEN Append(f[n], s[n + 1]) ELSE f[n]
               g    == [k \in 0 .. n + 1 |-> IF k = n + 1 THEN next ELSE f[k]]
    <2> HIDE DEF next
    <2>2. \A k \in 0 .. n : k # n + 1 /\ k \in 0 .. n + 1
      BY <1>2
    <2>3. 0 \in 0 .. n /\ n \in 0 .. n /\ n + 1 \in 0 .. n + 1 /\ (n + 1) - 1 = n
      BY <1>2
    <2>4. g[n + 1] = next /\ \A k \in 0 .. n : g[k] = f[k]
      BY <2>2, <2>3
    <2>5. g = [k \in 0 .. n + 1 |-> g[k]]
      OBVIOUS
    <2> HIDE DEF g
    <2>6. g[0] = <<>>
      BY <2>1, <2>3, <2>4 DEF Picks
    <2>7. ASSUME NEW k \in 1 .. n + 1
          PROVE  g[k] = IF s[k] \in S THEN Append(g[k - 1], s[k]) ELSE g[k - 1]
      <3>1. CASE k = n + 1
        BY <2>3, <2>4, <3>1 DEF next
      <3>2. CASE k # n + 1
        <4>1. k \in 1 .. n /\ k \in 0 .. n /\ k - 1 \in 0 .. n
          BY <1>2, <3>2
        <4> QED BY <2>1, <2>4, <4>1 DEF Picks
      <3> QED BY <3>1, <3>2
    <2>8. Picks(g, s, S, n + 1)
      BY <2>5, <2>6, <2>7 DEF Picks
    <2>9. n + 1 \in 0 .. N
      BY <1>2
    <2> QED BY <2>8, <2>9
  <1>3. \A n \in T : n \in Nat /\ n < N => n + 1 \in T
    BY <1>2
  <1>4. 0 .. N \subseteq T
    <2> HIDE DEF T
    <2> QED BY <1>1, <1>3, BoundedInduction
  <1>5. N \in T
    BY <1>4
  <1> QED BY <1>5

\* The elements of the first k that are in S.
AmongFirst(s, S) ==
    CHOOSE f : f = [k \in 0 .. Len(s) |->
                      IF k = 0 THEN <<>>
                      ELSE IF s[k] \in S THEN Append(f[k - 1], s[k]) ELSE f[k - 1]]

\* What Among takes over at each place of s.
LEMMA AmongSteps ==
    ASSUME NEW s, Len(s) \in Nat, NEW S
    PROVE  /\ Among(s, S) = AmongFirst(s, S)[Len(s)]
           /\ AmongFirst(s, S)[0] = <<>>
           /\ \A k \in 1 .. Len(s) :
                 AmongFirst(s, S)[k] = IF s[k] \in S THEN Append(AmongFirst(s, S)[k - 1], s[k])
                                       ELSE AmongFirst(s, S)[k - 1]
  <1> DEFINE N == Len(s)
             Is(f) == f = [k \in 0 .. N |->
                             IF k = 0 THEN <<>>
                             ELSE IF s[k] \in S THEN Append(f[k - 1], s[k]) ELSE f[k - 1]]
             g == AmongFirst(s, S)
  <1>1. N \in Nat
    OBVIOUS
  <1>2. Among(s, S) = g[N]
    BY DEF Among, AmongFirst
  <1>3. g = CHOOSE f : Is(f)
    BY DEF AmongFirst
  <1> HIDE DEF N, g
  <1>4. \E f : Is(f)
    <2>1. PICK f : Picks(f, s, S, N)
      BY <1>1, AmongExist
    <2> DEFINE Value(k) == IF k = 0 THEN <<>>
                          ELSE IF s[k] \in S THEN Append(f[k - 1], s[k]) ELSE f[k - 1]
    <2>2. \A k \in 0 .. N : k = 0 \/ (k \in 1 .. N /\ k # 0)
      BY <1>1
    <2>3. \A k \in 0 .. N : f[k] = Value(k)
      BY <2>1, <2>2 DEF Picks
    <2> HIDE DEF Value
    <2>4. f = [k \in 0 .. N |-> Value(k)]
      BY <2>1, <2>3 DEF Picks
    <2> QED BY <2>4 DEF Value
  <1>5. Is(g)
    <2> HIDE DEF Is
    <2> QED BY <1>3, <1>4
  <1>6. g[0] = <<>> /\ \A k \in 1 .. N :
            g[k] = IF s[k] \in S THEN Append(g[k - 1], s[k]) ELSE g[k - 1]
    <2>1. 0 \in 0 .. N /\ \A k \in 1 .. N : k \in 0 .. N /\ k # 0
      BY <1>1
    <2> QED BY <1>5, <2>1
  <1> QED BY <1>2, <1>6 DEF g, N

\* Nothing is among nothing, and one element more at the end is one more at the
\* end, or none.
LEMMA AmongAppend ==
    ASSUME NEW L, NEW s \in Seq(L), NEW x \in L, NEW S
    PROVE  /\ Among(<<>>, S) = <<>>
           /\ Among(Append(s, x), S) = IF x \in S THEN Append(Among(s, S), x) ELSE Among(s, S)
  <1> DEFINE N == Len(s)
             t == Append(s, x)
             f == AmongFirst(s, S)
             g == AmongFirst(t, S)
             T == {k \in 0 .. N : f[k] = g[k]}
  <1>1. /\ N \in Nat /\ t \in Seq(L) /\ Len(t) = N + 1 /\ t[N + 1] = x
        /\ \A k \in 1 .. N : t[k] = s[k]
    BY AppendProperties, LenProperties
  <1>2. /\ Among(s, S) = f[N] /\ f[0] = <<>>
        /\ \A k \in 1 .. N : f[k] = IF s[k] \in S THEN Append(f[k - 1], s[k]) ELSE f[k - 1]
    BY AmongSteps
  <1>3. /\ Among(t, S) = g[N + 1] /\ g[0] = <<>>
        /\ \A k \in 1 .. N + 1 : g[k] = IF t[k] \in S THEN Append(g[k - 1], t[k]) ELSE g[k - 1]
    <2> HIDE DEF t
    <2> QED BY <1>1, AmongSteps
  <1> HIDE DEF N, t, f, g
  <1>4. 0 \in T
    BY <1>1, <1>2, <1>3
  <1>5. ASSUME NEW k \in T, k \in Nat, k < N
        PROVE  k + 1 \in T
    <2>1. k + 1 \in 1 .. N /\ k + 1 \in 1 .. N + 1 /\ k + 1 \in 0 .. N /\ (k + 1) - 1 = k
      BY <1>1, <1>5
    <2>2. f[k] = g[k] /\ t[k + 1] = s[k + 1]
      BY <1>1, <2>1
    <2>3. f[k + 1] = g[k + 1]
      BY <1>2, <1>3, <2>1, <2>2
    <2> QED BY <2>1, <2>3
  <1>6. \A k \in T : k \in Nat /\ k < N => k + 1 \in T
    BY <1>5
  <1>7. 0 .. N \subseteq T
    <2> HIDE DEF T
    <2> QED BY <1>1, <1>4, <1>6, BoundedInduction
  <1>8. f[N] = g[N]
    BY <1>1, <1>7
  <1>9. N + 1 \in 1 .. N + 1 /\ (N + 1) - 1 = N
    BY <1>1
  <1>10. Among(t, S) = IF x \in S THEN Append(Among(s, S), x) ELSE Among(s, S)
    BY <1>1, <1>2, <1>3, <1>8, <1>9
  <1>11. Among(<<>>, S) = <<>>
    <2>1. <<>> \in Seq(L) /\ Len(<<>>) = 0
      BY EmptySeq
    <2> QED BY <2>1, AmongSteps
  <1> QED BY <1>10, <1>11 DEF t

\* What is picked from a sequence over L is a sequence over L.
LEMMA AmongType ==
    ASSUME NEW L, NEW s \in Seq(L), NEW S
    PROVE  Among(s, S) \in Seq(L)
  <1> DEFINE N == Len(s)
             f == AmongFirst(s, S)
  <1>1. N \in Nat /\ \A k \in 1 .. N : s[k] \in L
    BY LenProperties, ElementOfSeq
  <1>2. /\ Among(s, S) = f[N] /\ f[0] = <<>>
        /\ \A k \in 1 .. N : f[k] = IF s[k] \in S THEN Append(f[k - 1], s[k]) ELSE f[k - 1]
    BY <1>1, AmongSteps
  <1> HIDE DEF N, f
  <1>3. f[0] \in Seq(L)
    BY <1>2, EmptySeq
  <1>4. ASSUME NEW k \in 1 .. N, f[k - 1] \in Seq(L)
        PROVE  f[k] \in Seq(L)
    <2>1. Append(f[k - 1], s[k]) \in Seq(L)
      BY <1>1, <1>4, AppendProperties
    <2> QED BY <1>2, <1>4, <2>1
  <1>5. \A k \in 0 .. N : f[k] \in Seq(L)
    <2>1. PICK T : T = Seq(L)
      OBVIOUS
    <2>2. \A k \in 0 .. N : f[k] \in T
      BY <1>1, <1>3, <1>4, <2>1, PassedOn
    <2> QED BY <2>1, <2>2
  <1> QED BY <1>1, <1>2, <1>5
=============================================================================
