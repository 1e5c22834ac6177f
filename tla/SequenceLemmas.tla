---------------------------- MODULE SequenceLemmas ----------------------------
(***************************************************************************)
(* What the proofs keep needing of sequences that grow by a record at a    *)
(* time, and of the least and the largest of some numbers.                 *)
(***************************************************************************)
EXTENDS Integers, Sequences, FiniteSetsExt, SequenceTheorems, WellFoundedInduction, TLAPS

\* What appending a record leaves and adds.
LEMMA Appended ==
  ASSUME NEW S, NEW q \in Seq(S), NEW e \in S
  PROVE  /\ Append(q, e) \in Seq(S)
         /\ Len(Append(q, e)) = Len(q) + 1 /\ Len(q) \in Nat /\ DOMAIN q = 1..Len(q)
         /\ Len(q) + 1 \notin DOMAIN q
         /\ DOMAIN Append(q, e) = DOMAIN q \cup {Len(q) + 1}
         /\ \A i \in DOMAIN q : Append(q, e)[i] = q[i]
         /\ Append(q, e)[Len(q) + 1] = e
<1>1. /\ DOMAIN q = 1..Len(q) /\ Len(q) \in Nat
  BY LenProperties
<1>2. /\ Append(q, e) \in Seq(S) /\ Len(Append(q, e)) = Len(q) + 1
      /\ \A i \in 1..Len(q) : Append(q, e)[i] = q[i]
      /\ Append(q, e)[Len(q) + 1] = e
  BY AppendProperties
<1>3. DOMAIN Append(q, e) = 1..Len(Append(q, e))
  BY <1>2, LenProperties
<1> QED
  BY <1>1, <1>2, <1>3

\* A sequence changed element by element is a sequence.
LEMMA Mapped ==
  ASSUME NEW S, NEW q \in Seq(S), NEW T, NEW f \in [DOMAIN q -> T]
  PROVE  f \in Seq(T)
<1>1. /\ DOMAIN q = 1..Len(q) /\ Len(q) \in Nat
  BY LenProperties
<1> QED
  BY <1>1

\* A set of natural numbers has a least one.
LEMMA Least ==
  ASSUME NEW S \in SUBSET Nat, S # {}
  PROVE  /\ \E x \in S : \A y \in S : x <= y
         /\ Min(S) \in S /\ \A y \in S : Min(S) <= y
<1> DEFINE Less == {ss \in Nat \X Nat : ss[1] < ss[2]}
<1>1. IsWellFoundedOn(Less, Nat)
  BY NatLessThanWellFounded, Zenon DEF OpToRel
<1>2. PICK x \in S : \A y \in S : <<y, x>> \notin Less
  <2> HIDE DEF Less
  <2> QED
    BY <1>1, WFMin
<1>3. ASSUME NEW y \in S PROVE x <= y
  <2>1. x \in Nat /\ y \in Nat /\ <<y, x>> \notin Less
    BY <1>2
  <2> QED
    BY <2>1
<1>4. Min(S) \in S /\ \A y \in S : Min(S) =< y
  <2> HIDE DEF Less
  <2> QED
    BY <1>3 DEF Min
<1> QED
  BY <1>3, <1>4

\* Some of the first n numbers have a largest one.
LEMMA Largest ==
  ASSUME NEW n \in Nat, NEW S \in SUBSET (1..n), S # {}
  PROVE  Max(S) \in S /\ \A y \in S : y <= Max(S)
<1> DEFINE T == {n - x : x \in S}
<1>1. \A x \in S : x \in 1..n /\ n - x \in Nat /\ n - x \in T
  OBVIOUS
<1>2. T \in SUBSET Nat /\ T # {}
  BY <1>1
<1>3. PICK t \in T : \A u \in T : t <= u
  <2> HIDE DEF T
  <2> QED
    BY <1>2, Least
<1>4. PICK x \in S : t = n - x
  BY <1>3
<1>5. ASSUME NEW y \in S PROVE x >= y
  <2>1. t <= n - y /\ x \in 1..n /\ y \in 1..n
    BY <1>1, <1>3
  <2> QED
    BY <1>4, <2>1
<1> QED
  BY <1>1, <1>5 DEF Max

-----------------------------------------------------------------------------
(* Induction over the first n numbers, without an operator as a parameter: *)
(* a set stands for what is shown of a number.                             *)

\* What holds of zero, and of a number when it holds of the one before, holds of all.
LEMMA UpTo ==
  ASSUME NEW N \in Nat, NEW S, 0 \in S, \A n \in 1..N : n - 1 \in S => n \in S
  PROVE  0..N \subseteq S
<1> SUFFICES ASSUME NEW x \in 0..N, x \notin S PROVE FALSE
  OBVIOUS
<1> DEFINE B == {n \in 0..N : n \notin S}
<1>1. B \in SUBSET Nat /\ B # {}
  OBVIOUS
<1>2. PICK b \in B : \A y \in B : b <= y
  <2> HIDE DEF B
  <2> QED BY <1>1, Least
<1>3. b \in 1..N /\ b \notin S
  BY <1>2
<1>4. b - 1 \in S
  <2>1. b - 1 \in 0..N /\ ~(b <= b - 1)
    BY <1>3
  <2> QED BY <1>2, <2>1
<1> QED BY <1>3, <1>4

\* A walk that takes a value in each step has a history: the function that a definition
\* by recursion on the number of steps asks for.
IsWalk(f, N, S, start, step) ==
  f \in [0..N -> S] /\ f[0] = start /\ \A n \in 1..N : f[n] = step[n][f[n - 1]]
LEMMA WalkExists ==
  ASSUME NEW N \in Nat, NEW S, NEW start \in S, NEW step \in [1..N -> [S -> S]]
  PROVE  \E f : IsWalk(f, N, S, start, step)
<1> DEFINE Walk(f, m) == /\ f \in [0..m -> S] /\ f[0] = start
                         /\ \A n \in 1..m : f[n] = step[n][f[n - 1]]
           T == {m \in 0..N : \E f : Walk(f, m)}
<1>1. 0 \in T
  <2>1. Walk([i \in 0..0 |-> start], 0)
    OBVIOUS
  <2> HIDE DEF Walk
  <2> QED BY <2>1
<1>2. \A n \in 1..N, v \in S : step[n][v] \in S
  OBVIOUS
<1>3. ASSUME NEW m \in 1..N, NEW f, Walk(f, m - 1)
      PROVE  \E g : Walk(g, m)
  <2> DEFINE g == [i \in 0..m |-> IF i = m THEN step[m][f[m - 1]] ELSE f[i]]
  <2>1. f[m - 1] \in S
    <3>1. m - 1 \in 0..(m - 1)
      OBVIOUS
    <3> QED BY <1>3, <3>1
  <2>2. step[m][f[m - 1]] \in S
    BY <1>2, <2>1
  <2>3. \A i \in 0..m : i # m => i \in 0..(m - 1)
    OBVIOUS
  <2>4. g \in [0..m -> S]
    BY <1>3, <2>2, <2>3
  <2>5. g[0] = start
    <3>1. 0 \in 0..m /\ 0 # m
      OBVIOUS
    <3>2. g[0] = f[0]
      BY <3>1
    <3> QED BY <1>3, <3>2
  <2>6. ASSUME NEW n \in 1..m PROVE g[n] = step[n][g[n - 1]]
    <3>1. n - 1 \in 0..m /\ n \in 0..m /\ n - 1 # m
      OBVIOUS
    <3>2. g[n - 1] = f[n - 1]
      BY <3>1
    <3>3. CASE n = m
      <4>1. g[n] = step[m][f[m - 1]]
        BY <3>1, <3>3
      <4> HIDE DEF g
      <4>2. g[n - 1] = f[m - 1]
        BY <3>2, <3>3
      <4> QED BY <4>1, <4>2, <3>3
    <3>4. CASE n # m
      <4>1. n \in 1..(m - 1) /\ g[n] = f[n]
        BY <3>4
      <4>2. f[n] = step[n][f[n - 1]]
        BY <1>3, <4>1
      <4> HIDE DEF g
      <4> QED BY <4>1, <4>2, <3>2
    <3> QED BY <3>3, <3>4
  <2>7. Walk(g, m)
    <3> HIDE DEF g
    <3> QED BY <2>4, <2>5, <2>6
  <2> QED
    <3> HIDE DEF Walk, g
    <3> QED BY <2>7
<1>4. ASSUME NEW m \in 1..N, m - 1 \in T PROVE m \in T
  <2> HIDE DEF Walk
  <2>1. \E f : Walk(f, m - 1)
    BY <1>4
  <2>2. \E g : Walk(g, m)
    BY <2>1, <1>3
  <2> QED BY <2>2
<1>5. N \in T
  <2> HIDE DEF T
  <2>1. 0..N \subseteq T
    BY <1>1, <1>4, UpTo
  <2> QED BY <2>1
<1>6. \E f : Walk(f, N)
  <2> HIDE DEF Walk
  <2> QED BY <1>5
<1> QED BY <1>6 DEF IsWalk
===============================================================================
