----------------------------- MODULE LoopProofs -----------------------------
(***************************************************************************)
(* What holds of every loop: it is the sequence of its turns, and what     *)
(* each turn keeps holds at the end.  Instances of this module name the    *)
(* step of the loop and what it keeps.                                     *)
(***************************************************************************)
EXTENDS Loop, WellFoundedInduction, TLAPS

CONSTANT Good(_, _)

\* A set of natural numbers that is not empty has a least element.
LEMMA LeastNatural == ASSUME NEW T, T \subseteq Nat, T # {} PROVE \E x \in T : \A y \in T : x <= y
<1> DEFINE R == OpToRel(<, Nat)
<1>1. IsWellFoundedOn(R, Nat) BY NatLessThanWellFounded
<1>2. \A y, x \in Nat : y < x => <<y, x>> \in R BY DEF OpToRel
<1> HIDE DEF R
<1>3. PICK x \in T : \A y \in T : ~(<<y, x>> \in R) BY <1>1, WFMin
<1>4. ASSUME NEW y \in T PROVE x <= y
  <2>1. x \in Nat /\ y \in Nat OBVIOUS
  <2>2. ~(y < x) BY <1>2, <1>3, <2>1
  <2> QED BY <2>1, <2>2
<1> QED BY <1>3, <1>4

\* A set that has 0 and with each number the next one has them all.
LEMMA Upward ==
    ASSUME NEW S, 0 \in S, \A n \in Nat : n \in S => n + 1 \in S PROVE Nat \subseteq S
<1> SUFFICES ASSUME Nat \ S # {} PROVE FALSE OBVIOUS
<1>1. PICK n \in Nat \ S : \A m \in Nat \ S : n <= m BY LeastNatural
<1>2. n # 0 /\ n - 1 \in Nat BY <1>1
<1>3. n - 1 \in S BY <1>1, <1>2
<1> QED BY <1>2, <1>3

\* The states of the loop exist, so they follow from one another.
LEMMA TurnsFollow ==
    ASSUME NEW s, NEW q, Len(q) \in Nat
    PROVE  /\ Turns(s, q)[0] = s
           /\ \A k \in 1..Len(q) : Turns(s, q)[k] = Step(Turns(s, q)[k - 1], q[k])
<1> DEFINE E(t, n) == t = [k \in 0..n |-> IF k = 0 THEN s ELSE Step(t[k - 1], q[k])]
           P(n) == \E t : E(t, n)
           S == {n \in Nat : P(n)}
<1>1. P(0)
  <2> DEFINE t == [k \in 0..0 |-> s]
  <2>1. E(t, 0) OBVIOUS
  <2> QED BY <2>1, Zenon
<1>2. ASSUME NEW n \in Nat, P(n) PROVE P(n + 1)
  <2>1. PICK t : E(t, n) BY <1>2, Zenon
  <2> DEFINE v == Step(t[n], q[n + 1])
             g == [k \in 0..(n + 1) |-> IF k = n + 1 THEN v ELSE t[k]]
  <2>2. \A k \in 0..n : t[k] = IF k = 0 THEN s ELSE Step(t[k - 1], q[k]) BY <2>1
  <2>3. \A k \in 0..(n + 1) : g[k] = IF k = n + 1 THEN v ELSE t[k] OBVIOUS
  <2>4. DOMAIN g = 0..(n + 1) /\ g = [k \in 0..(n + 1) |-> g[k]] OBVIOUS
  <2>5. v = Step(t[n], q[n + 1]) OBVIOUS
  <2> HIDE DEF g, v
  <2>6. ASSUME NEW k \in 0..(n + 1) PROVE g[k] = IF k = 0 THEN s ELSE Step(g[k - 1], q[k])
    <3>1. CASE k = n + 1
      <4>1. g[k] = v /\ k - 1 = n /\ g[n] = t[n] BY <2>3, <3>1
      <4>2. k # 0 BY <3>1
      <4> QED BY <4>1, <4>2, <2>5, <3>1
    <3>2. CASE k = 0
      <4>1. g[0] = t[0] /\ t[0] = s BY <2>2, <2>3
      <4> QED BY <4>1, <3>2
    <3>3. CASE k # n + 1 /\ k # 0
      <4>1. k \in 0..n /\ k - 1 \in 0..n BY <3>3
      <4>2. g[k] = t[k] /\ g[k - 1] = t[k - 1] BY <4>1, <2>3
      <4>3. t[k] = Step(t[k - 1], q[k]) BY <4>1, <2>2, <3>3
      <4> QED BY <4>2, <4>3, <3>3
    <3> QED BY <3>1, <3>2, <3>3
  <2>7. E(g, n + 1) BY <2>4, <2>6
  <2> QED BY <2>7, Zenon
<1>3. P(Len(q))
  <2> HIDE DEF P
  <2>1. 0 \in S BY <1>1
  <2>2. ASSUME NEW n \in Nat, n \in S PROVE n + 1 \in S BY <1>2, <2>2
  <2> HIDE DEF S
  <2>3. Len(q) \in S BY <2>1, <2>2, Upward
  <2> QED BY <2>3 DEF S
<1>4. Turns(s, q) = CHOOSE t : E(t, Len(q)) BY DEF Turns
<1>5. E(Turns(s, q), Len(q)) BY <1>3, <1>4, Zenon
<1>6. \A k \in 0..Len(q) : Turns(s, q)[k] = IF k = 0 THEN s ELSE Step(Turns(s, q)[k - 1], q[k])
  BY <1>5
<1>7. 0 \in 0..Len(q) /\ \A k \in 1..Len(q) : k \in 0..Len(q) /\ k # 0 OBVIOUS
<1> QED BY <1>6, <1>7

\* What holds at first and is kept by every turn holds at the end; a is what
\* does not change.
LEMMA LoopKeeps ==
    ASSUME NEW a, NEW s, NEW q, Len(q) \in Nat, Good(a, s),
           \A x : \A k \in 1..Len(q) : Good(a, x) => Good(a, Step(x, q[k]))
    PROVE  Good(a, Over(s, q))
<1> DEFINE T == Turns(s, q)
           S == {k \in Nat : k <= Len(q) => Good(a, T[k])}
<1>1. T[0] = s /\ \A k \in 1..Len(q) : T[k] = Step(T[k - 1], q[k]) BY TurnsFollow
<1> HIDE DEF T
<1>2. 0 \in S BY <1>1
<1>3. ASSUME NEW k \in Nat, k \in S PROVE k + 1 \in S
  <2>1. CASE k + 1 <= Len(q)
    <3>1. k + 1 \in 1..Len(q) /\ (k + 1) - 1 = k BY <2>1
    <3>2. T[k + 1] = Step(T[k], q[k + 1]) BY <1>1, <3>1
    <3>3. Good(a, T[k]) BY <1>3, <3>1
    <3>4. Good(a, Step(T[k], q[k + 1])) BY <3>1, <3>3
    <3> QED BY <3>2, <3>4
  <2>2. CASE ~(k + 1 <= Len(q)) BY <2>2
  <2> QED BY <2>1, <2>2
<1>4. Len(q) \in S
  <2> HIDE DEF S
  <2> QED BY <1>2, <1>3, Upward
<1> QED BY <1>4 DEF Over, T
=============================================================================
