----------------------------- MODULE Rounds_proofs -----------------------------
(***************************************************************************)
(* Loops.  The models write a loop of the code as a recursive function of  *)
(* the number of rounds.  That such a function exists, and that what holds *)
(* at first and is kept by each round holds at the end, is proved here     *)
(* from the least number at which it would fail.                           *)
(***************************************************************************)
EXTENDS Integers, WellFoundedInduction, NaturalsInduction, TLAPS

-------------------------------------------------------------------------------
(***************************************************************************)
(* Numbers.                                                                *)
(***************************************************************************)
\* A set of numbers has a least one.
LEMMA LeastNatural ==
  ASSUME NEW S, S \subseteq Nat, S # {}
  PROVE  \E m \in S : \A k \in S : m <= k
<1> DEFINE R == OpToRel(<, Nat)
<1>1. IsWellFoundedOn(R, Nat)
  BY NatLessThanWellFounded
<1>2. \A k, m \in Nat : k < m => <<k, m>> \in R
  BY DEF OpToRel
<1> HIDE DEF R
<1>3. PICK m \in S : \A k \in S : ~(<<k, m>> \in R)
  BY <1>1, WFMin
<1>4. \A k \in S : ~(k < m)
  BY <1>2, <1>3
<1>5. QED
  BY <1>4

\* What holds of the first round, and of a round if of the one before, holds
\* of every round.
LEMMA EveryRound ==
  ASSUME NEW n \in Nat, NEW S, 0 \in S, \A k \in 1 .. n : k - 1 \in S => k \in S
  PROVE  \A k \in 0 .. n : k \in S
<1> DEFINE Bad == {k \in 0 .. n : k \notin S}
<1>1. SUFFICES ASSUME Bad # {} PROVE FALSE
  OBVIOUS
<1>2. Bad \subseteq Nat
  OBVIOUS
<1>3. PICK m \in Bad : \A k \in Bad : m <= k
  <2> HIDE DEF Bad
  <2>1. QED
    BY <1>1, <1>2, LeastNatural
<1>4. m \in 1 .. n /\ m - 1 \in 0 .. n /\ m - 1 < m
  OBVIOUS
<1>5. m - 1 \notin Bad
  <2> HIDE DEF Bad
  <2>1. QED
    BY <1>2, <1>3, <1>4
<1>6. QED
  BY <1>3, <1>4, <1>5

\* A bounded set of numbers has a greatest one.
LEMMA GreatestNatural ==
  ASSUME NEW n \in Nat, NEW S, S \subseteq 0 .. n, S # {}
  PROVE  \E m \in S : \A k \in S : k <= m
<1> DEFINE T == {n - k : k \in S}
<1>1. T \subseteq Nat /\ T # {}
  <2>1. ASSUME NEW k \in S PROVE n - k \in Nat
    <3>1. k \in 0 .. n
      OBVIOUS
    <3>2. QED
      BY <3>1
  <2>2. QED
    BY <2>1
<1>2. PICK t \in T : \A u \in T : t <= u
  BY <1>1, LeastNatural
<1>3. PICK m \in S : t = n - m
  OBVIOUS
<1>4. \A k \in S : n - m <= n - k
  BY <1>2, <1>3
<1>5. QED
  BY <1>4
-------------------------------------------------------------------------------
(***************************************************************************)
(* Recursive functions.                                                    *)
(***************************************************************************)
\* f is the course of n rounds from a first value.
Rounds(f, n, first, step) == f[0] = first /\ \A i \in 1 .. n : f[i] = step[<<f[i - 1], i>>]
HasRounds(n, T, first, step) == \E f \in [0 .. n -> T] : Rounds(f, n, first, step)

\* Rounds from 0 to n: a function that is given by its first value and by a
\* step from one round to the next exists, and its values are of the type.
LEMMA RoundsExist ==
  ASSUME NEW n \in Nat, NEW T, NEW first \in T, NEW step \in [T \X (1 .. n) -> T]
  PROVE  HasRounds(n, T, first, step)
<1> DEFINE Good(m, f) == f = [i \in 0 .. m |-> IF i = 0 THEN first ELSE step[<<f[i - 1], i>>]]
           Fits(m) == \E f \in [0 .. m -> T] : Good(m, f)
           Bad == {m \in 0 .. n : ~Fits(m)}
<1>1. Bad = {} => Fits(n)
  <2> HIDE DEF Fits
  <2>1. QED
    OBVIOUS
<1>2. ASSUME Bad # {} PROVE FALSE
  <2>1. Bad \subseteq Nat
    OBVIOUS
  <2>2. PICK m \in Bad : \A k \in Bad : m <= k
    <3> HIDE DEF Bad
    <3>1. QED
      BY <1>2, <2>1, LeastNatural
  <2> HIDE DEF Fits
  <2>3. m \in 0 .. n /\ ~Fits(m) /\ (m # 0 => Fits(m - 1))
    <3>1. m \in 0 .. n /\ ~Fits(m)
      OBVIOUS
    <3>2. m # 0 => m - 1 \in 0 .. n /\ m - 1 < m
      BY <3>1
    <3>3. m # 0 => m - 1 \notin Bad
      <4> HIDE DEF Bad
      <4>1. QED
        BY <2>1, <2>2, <3>2
    <3>4. QED
      BY <3>1, <3>2, <3>3
  <2>4. CASE m = 0
    <3> DEFINE f == [i \in 0 .. 0 |-> first]
    <3>1. f \in [0 .. 0 -> T] /\ Good(0, f)
      OBVIOUS
    <3>2. QED
      BY <2>3, <2>4, <3>1 DEF Fits
  <2>5. CASE m # 0
    <3>1. PICK g \in [0 .. m - 1 -> T] : Good(m - 1, g)
      BY <2>3, <2>5 DEF Fits
    <3> DEFINE f == [i \in 0 .. m |-> IF i = m THEN step[<<g[m - 1], m>>] ELSE g[i]]
    <3>2. m - 1 \in 0 .. m - 1 /\ step[<<g[m - 1], m>>] \in T
      BY <2>3, <2>5
    <3>3. f \in [0 .. m -> T]
      BY <3>2, <2>3
    <3>4. ASSUME NEW i \in 0 .. m
          PROVE  f[i] = IF i = 0 THEN first ELSE step[<<f[i - 1], i>>]
      <4>1. CASE i = m
        <5>1. f[i - 1] = g[m - 1] /\ f[i] = step[<<g[m - 1], m>>]
          BY <4>1, <2>3, <2>5
        <5>2. QED
          BY <5>1, <4>1, <2>5
      <4>2. CASE i # m
        <5>1. i \in 0 .. m - 1 /\ (i # 0 => i - 1 \in 0 .. m - 1)
          BY <4>2, <2>3
        <5>2. f[i] = g[i] /\ (i # 0 => f[i - 1] = g[i - 1])
          BY <5>1, <2>3
        <5>3. g[i] = IF i = 0 THEN first ELSE step[<<g[i - 1], i>>]
          BY <3>1, <5>1
        <5>4. QED
          BY <5>2, <5>3
      <4>3. QED
        BY <4>1, <4>2
    <3>5. Good(m, f)
      BY <3>3, <3>4
    <3> HIDE DEF Good, f
    <3>6. QED
      BY <2>3, <3>3, <3>5 DEF Fits
  <2>6. QED
    BY <2>4, <2>5
<1>3. Fits(n)
  BY <1>1, <1>2
<1>4. PICK f \in [0 .. n -> T] : Good(n, f)
  BY <1>3
<1>5. f[0] = first /\ \A i \in 1 .. n : f[i] = step[<<f[i - 1], i>>]
  BY <1>4
<1>6. QED
  BY <1>5 DEF HasRounds, Rounds
================================================================================
