----------------------------- MODULE Induction -----------------------------
(***************************************************************************)
(* What the other proofs need of induction.  The induction theorems of the *)
(* library take a predicate as a parameter; here the predicate is a set,   *)
(* so that the theorems can be used by any prover: the least element of    *)
(* what is not in the set would be a contradiction.                        *)
(***************************************************************************)
EXTENDS Integers, SequencesExt, WellFoundedInduction, TLAPS

Below == {ss \in Nat \X Nat : ss[1] < ss[2]}

(* No number has endlessly many below it *)
LEMMA BelowWellFounded == IsWellFoundedOn(Below, Nat)
BY NatLessThanWellFounded, Zenon DEF OpToRel, Below

LEMMA BelowIsLess ==
  ASSUME NEW x \in Nat, NEW y \in Nat, x < y
  PROVE  <<x, y>> \in Below
BY DEF Below

(* A set of numbers that is not empty has a least one *)
LEMMA LeastElement ==
  ASSUME NEW T \in SUBSET Nat, T # {}
  PROVE  \E x \in T : \A y \in T : x <= y
<1>1. PICK x \in T : \A y \in T : ~(<<y, x>> \in Below)
  <2> HIDE DEF Below
  <2> QED
    BY BelowWellFounded, WFMin, Zenon
<1>2. \A y \in T : ~(y < x)
  BY <1>1, BelowIsLess
<1> QED
  BY <1>2

(* A set that holds 0, and n + 1 with n, holds every number *)
LEMMA SetInduction ==
  ASSUME NEW S, 0 \in S, \A n \in Nat : n \in S => n + 1 \in S
  PROVE  Nat \subseteq S
<1> SUFFICES ASSUME Nat \ S # {}
             PROVE  FALSE
  OBVIOUS
<1>1. PICK x \in Nat \ S : \A y \in Nat \ S : x <= y
  BY LeastElement
<1>2. x - 1 \in Nat
  BY <1>1
<1>3. x - 1 \in S
  BY <1>1, <1>2
<1> QED
  BY <1>1, <1>2, <1>3

Stepping(S) == [Nat -> [S -> S]]
Recurs(g, S, c, step) ==
  g \in [Nat -> S] /\ g[0] = c /\ \A n \in Nat : g[n + 1] = step[n][g[n]]

(* Primitive recursion with values in a set *)
LEMMA Recursion ==
  ASSUME NEW S, NEW c \in S, NEW step \in Stepping(S)
  PROVE  \E g : Recurs(g, S, c, step)
<1> DEFINE IsPart(g, n) == /\ g \in [0..n -> S] /\ g[0] = c
                           /\ \A i \in Nat : i < n => g[i + 1] = step[i][g[i]]
           Has == {n \in Nat : \E g : IsPart(g, n)}
           Same == {i \in Nat : \A m, n \in Nat : \A g, h :
                      i <= m /\ i <= n /\ IsPart(g, m) /\ IsPart(h, n) => g[i] = h[i]}
           Whole(n) == CHOOSE g : IsPart(g, n)
           full == [n \in Nat |-> Whole(n)[n]]
<1>0. step \in [Nat -> [S -> S]]
  BY DEF Stepping
<1>1. Nat \subseteq Has
  <2>1. 0 \in Has
    <3>1. IsPart([i \in 0..0 |-> c], 0)
      OBVIOUS
    <3> QED
      BY <3>1
  <2>2. ASSUME NEW n \in Nat, n \in Has
        PROVE  n + 1 \in Has
    <3>1. PICK g : IsPart(g, n)
      BY <2>2
    <3> DEFINE h == [i \in 0..n + 1 |-> IF i = n + 1 THEN step[n][g[n]] ELSE g[i]]
    <3>2. h \in [0..n + 1 -> S]
      BY <1>0, <3>1
    <3>3. h[0] = c
      BY <3>1
    <3>4. ASSUME NEW i \in Nat, i < n + 1
          PROVE  h[i + 1] = step[i][h[i]]
      <4>1. CASE i = n
        BY <4>1
      <4>2. CASE i < n
        BY <3>1, <4>2
      <4> QED
        BY <3>4, <4>1, <4>2
    <3> HIDE DEF h
    <3>5. IsPart(h, n + 1)
      BY <3>2, <3>3, <3>4
    <3> HIDE DEF IsPart
    <3> QED
      BY <3>5
  <2> HIDE DEF Has
  <2> QED
    BY <2>1, <2>2, SetInduction
<1>2. Nat \subseteq Same
  <2>1. 0 \in Same
    <3>1. ASSUME NEW m \in Nat, NEW n \in Nat, NEW g, NEW h, IsPart(g, m), IsPart(h, n)
          PROVE  g[0] = h[0]
      BY <3>1
    <3> HIDE DEF IsPart
    <3> QED
      BY <3>1
  <2>2. ASSUME NEW i \in Nat, i \in Same
        PROVE  i + 1 \in Same
    <3>1. ASSUME NEW m \in Nat, NEW n \in Nat, NEW g, NEW h,
                 i + 1 <= m, i + 1 <= n, IsPart(g, m), IsPart(h, n)
          PROVE  g[i + 1] = h[i + 1]
      <4>1. i <= m /\ i <= n /\ i < m /\ i < n
        BY <3>1
      <4>2. g[i] = h[i]
        <5> HIDE DEF IsPart
        <5> QED
          BY <2>2, <3>1, <4>1, Zenon
      <4>3. g[i + 1] = step[i][g[i]] /\ h[i + 1] = step[i][h[i]]
        BY <3>1, <4>1
      <4> QED
        BY <4>2, <4>3
    <3> HIDE DEF IsPart
    <3> QED
      BY <3>1
  <2> HIDE DEF Same
  <2> QED
    BY <2>1, <2>2, SetInduction
<1>3. ASSUME NEW n \in Nat
      PROVE  IsPart(Whole(n), n)
  <2>1. \E g : IsPart(g, n)
    <3> HIDE DEF IsPart
    <3> QED
      BY <1>1
  <2> HIDE DEF IsPart
  <2> QED
    BY <2>1, Zenon
<1>4. ASSUME NEW n \in Nat
      PROVE  Whole(n)[n] \in S
  <2>1. Whole(n) \in [0..n -> S]
    BY <1>3
  <2> HIDE DEF Whole
  <2> QED
    BY <2>1
<1>5. full \in [Nat -> S]
  <2> HIDE DEF Whole
  <2> QED
    BY <1>4
<1>6. full[0] = c
  BY <1>3
<1>7. ASSUME NEW n \in Nat
      PROVE  full[n + 1] = step[n][full[n]]
  <2>1. full[n] = Whole(n)[n] /\ full[n + 1] = Whole(n + 1)[n + 1]
    <3> HIDE DEF Whole
    <3> QED
      OBVIOUS
  <2>2. IsPart(Whole(n), n) /\ IsPart(Whole(n + 1), n + 1)
    <3> HIDE DEF IsPart
    <3> QED
      BY <1>3
  <2>3. Whole(n)[n] = Whole(n + 1)[n]
    <3>1. n \in Same /\ n + 1 \in Nat /\ n <= n /\ n <= n + 1
      <4> HIDE DEF Same
      <4> QED
        BY <1>2
    <3> DEFINE g == Whole(n)
               h == Whole(n + 1)
    <3>2. IsPart(g, n) /\ IsPart(h, n + 1)
      BY <2>2
    <3> HIDE DEF IsPart, g, h
    <3>3. g[n] = h[n]
      BY <3>1, <3>2
    <3> QED
      BY <3>3 DEF g, h
  <2>4. Whole(n + 1)[n + 1] = step[n][Whole(n + 1)[n]]
    <3> HIDE DEF Whole
    <3> QED
      BY <2>2
  <2> HIDE DEF full, Whole, IsPart
  <2> QED
    BY <2>1, <2>3, <2>4
<1> HIDE DEF full
<1>8. Recurs(full, S, c, step)
  BY <1>5, <1>6, <1>7 DEF Recurs
<1> QED
  BY <1>8, Zenon

(* One sequence after the other *)
LEMMA FlattenIs ==
  ASSUME NEW S, NEW ss, Len(ss) \in Nat \ {0}, \A i \in 1..Len(ss) : ss[i] \in Seq(S)
  PROVE  \E f : /\ f[1] = ss[1] /\ \A i \in 1..Len(ss) : f[i] \in Seq(S)
                /\ \A i \in 1..Len(ss) - 1 : f[i + 1] = f[i] \o ss[i + 1]
                /\ FlattenSeq(ss) = f[Len(ss)]
<1> DEFINE N == Len(ss)
           T == Seq(S)
           IsFlat(f) == f = [i \in 1..N |-> IF i = 1 THEN ss[i] ELSE f[i - 1] \o ss[i]]
           step == [n \in Nat |-> [v \in T |-> IF n + 2 <= N THEN v \o ss[n + 2] ELSE v]]
<1>0. N \in Nat \ {0} /\ ss[1] \in T /\ \A i \in 1..N : ss[i] \in T
  OBVIOUS
<1>1. \A n \in Nat, v \in T : n + 2 <= N => v \o ss[n + 2] \in T
  <2> SUFFICES ASSUME NEW n \in Nat, NEW v \in T, n + 2 <= N
               PROVE  v \o ss[n + 2] \in T
    OBVIOUS
  <2>1. ss[n + 2] \in T
    BY <1>0
  <2> QED
    BY <2>1
<1> HIDE DEF T
<1>2. step \in Stepping(T)
  BY <1>1 DEF Stepping
<1>3. \A n \in Nat, v \in T : n + 2 <= N => step[n][v] = v \o ss[n + 2]
  OBVIOUS
<1> HIDE DEF step
<1>4. PICK g : Recurs(g, T, ss[1], step)
  BY <1>0, <1>2, Recursion, Zenon
<1> DEFINE f == [i \in 1..N |-> g[i - 1]]
<1>5. g \in [Nat -> T] /\ g[0] = ss[1]
  BY <1>4 DEF Recurs
<1>6. f[1] = ss[1]
  BY <1>0, <1>5
<1>7. ASSUME NEW i \in 1..N, i # 1
      PROVE  f[i] = f[i - 1] \o ss[i]
  <2>1. i - 2 \in Nat /\ (i - 2) + 1 = i - 1 /\ (i - 2) + 2 = i /\ i - 1 \in 1..N /\ (i - 1) - 1 = i - 2 /\ i <= N
    BY <1>0, <1>7
  <2>2. g[i - 1] = step[i - 2][g[i - 2]] /\ g[i - 2] \in T
    <3>1. \A n \in Nat : g[n + 1] = step[n][g[n]] /\ g[n] \in T
      BY <1>4, <1>5 DEF Recurs
    <3>2. g[(i - 2) + 1] = step[i - 2][g[i - 2]] /\ g[i - 2] \in T
      BY <2>1, <3>1
    <3> QED
      BY <2>1, <3>2
  <2>3. g[i - 1] = g[i - 2] \o ss[i]
    <3>1. step[i - 2][g[i - 2]] = g[i - 2] \o ss[(i - 2) + 2]
      BY <1>3, <2>1, <2>2
    <3> QED
      BY <2>1, <2>2, <3>1
  <2> QED
    BY <2>1, <2>3
<1>8. f = [i \in 1..N |-> f[i]]
  OBVIOUS
<1> HIDE DEF f, N
<1>9. IsFlat(f)
  <2>1. \A i \in 1..N : f[i] = IF i = 1 THEN ss[i] ELSE f[i - 1] \o ss[i]
    BY <1>6, <1>7
  <2> QED
    BY <1>8, <2>1
<1> DEFINE h == CHOOSE x : IsFlat(x)
<1>10. IsFlat(h)
  <2> HIDE DEF IsFlat
  <2> QED
    BY <1>9, Zenon
<1>11. FlattenSeq(ss) = h[N]
  <2>1. Len(ss) # 0
    BY <1>0 DEF N
  <2> QED
    BY <2>1, Zenon DEF FlattenSeq, N
<1> HIDE DEF h
<1>12. h[1] = ss[1] /\ \A i \in 1..N : i # 1 => h[i] = h[i - 1] \o ss[i]
  <2>1. \A i \in 1..N : h[i] = IF i = 1 THEN ss[i] ELSE h[i - 1] \o ss[i]
    BY <1>10, Zenon
  <2>2. 1 \in 1..N
    BY <1>0
  <2> QED
    BY <2>1, <2>2, Zenon
<1>13. \A i \in 1..N - 1 : h[i + 1] = h[i] \o ss[i + 1]
  <2> SUFFICES ASSUME NEW i \in 1..N - 1
               PROVE  h[i + 1] = h[i] \o ss[i + 1]
    OBVIOUS
  <2>1. i + 1 \in 1..N /\ i + 1 # 1 /\ (i + 1) - 1 = i
    BY <1>0
  <2> QED
    BY <1>12, <2>1
<1>14. \A i \in 1..N : h[i] \in T
  <2> DEFINE Typed == {n \in Nat : n + 1 <= N => h[n + 1] \in T}
  <2>1. 0 \in Typed
    BY <1>0, <1>12
  <2>2. ASSUME NEW n \in Nat, n \in Typed
        PROVE  n + 1 \in Typed
    <3> SUFFICES ASSUME (n + 1) + 1 <= N
                 PROVE  h[(n + 1) + 1] \in T
      OBVIOUS
    <3>1. n + 1 \in 1..N - 1 /\ n + 1 <= N /\ (n + 1) + 1 = n + 2
      BY <1>0
    <3>2. h[(n + 1) + 1] = h[n + 1] \o ss[(n + 1) + 1]
      BY <1>13, <3>1
    <3>3. h[n + 1] \in T
      BY <2>2, <3>1
    <3> QED
      BY <1>1, <3>1, <3>2, <3>3
  <2> HIDE DEF Typed
  <2>3. Nat \subseteq Typed
    BY <2>1, <2>2, SetInduction
  <2>4. ASSUME NEW i \in 1..N
        PROVE  h[i] \in T
    <3>1. i - 1 \in Nat /\ (i - 1) + 1 = i /\ i <= N
      BY <1>0
    <3>2. i - 1 \in Typed
      BY <2>3, <3>1
    <3> QED
      BY <3>1, <3>2 DEF Typed
  <2> QED
    BY <2>4
<1> QED
  BY <1>11, <1>12, <1>13, <1>14, Zenon DEF N, T
=============================================================================
