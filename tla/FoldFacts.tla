------------------------------ MODULE FoldFacts ------------------------------
(***************************************************************************)
(* What the fold of the community modules computes, for any operator: a    *)
(* sequence of values, each made of the one before and the next element.   *)
(* Induction is used in the form of the least member of a set of numbers.  *)
(***************************************************************************)
EXTENDS Integers, SequencesExt, WellFoundedInduction, TLAPS

CONSTANT Op(_, _)

Fold(base, seq) == FoldLeft(Op, base, seq)

(* A set of natural numbers has a least member.                            *)
LEMMA LeastMember ==
  ASSUME NEW S \in SUBSET Nat, S # {}
  PROVE  \E m \in S : \A k \in S : ~(k < m)
  <1>1. \E m \in S : \A k \in S : ~(<<k, m>> \in OpToRel(<, Nat))
    BY NatLessThanWellFounded, WFMin
  <1>2. \A k, m \in Nat : k < m => <<k, m>> \in OpToRel(<, Nat)
    BY DEF OpToRel
  <1> QED BY <1>1, <1>2

(* A set with the successors of its members up to n has the numbers to n.  *)
LEMMA Induct ==
  ASSUME NEW n \in Nat, NEW S, 0 \in S, \A i \in 1 .. n : i - 1 \in S => i \in S
  PROVE  \A i \in 0 .. n : i \in S
  <1> SUFFICES ASSUME NEW x \in 0 .. n, x \notin S PROVE FALSE
    OBVIOUS
  <1> DEFINE T == {i \in 0 .. n : i \notin S}
  <1>0. T \in SUBSET Nat /\ T # {}
    OBVIOUS
  <1> HIDE DEF T
  <1>1. PICK m \in T : \A k \in T : ~(k < m)
    BY <1>0, LeastMember
  <1> USE DEF T
  <1>2. m \in 1 .. n /\ m - 1 \in 0 .. n /\ m - 1 < m
    BY <1>1
  <1> QED BY <1>1, <1>2

(* The largest of the numbers to m that are not all below it is m.         *)
LEMMA MaxIs ==
  ASSUME NEW m \in Nat, NEW s \in SUBSET (1 .. m), m \in s
  PROVE  Max(s) = m
  <1>1. \A y \in s : m >= y /\ (y >= m => y = m)
    OBVIOUS
  <1>2. Max(s) \in s /\ \A y \in s : Max(s) >= y
    BY <1>1, Zenon DEF Max
  <1> QED BY <1>1, <1>2

(* A set of the numbers to m that is not empty has a largest.              *)
LEMMA MaxIn ==
  ASSUME NEW m \in Nat, NEW s \in SUBSET (1 .. m), s # {}
  PROVE  Max(s) \in s
  <1> DEFINE T == {k \in 0 .. m : m - k \in s}
  <1>1. T \in SUBSET Nat
    OBVIOUS
  <1>2. T # {}
    <2>1. PICK x \in s : TRUE
      OBVIOUS
    <2>2. m - x \in 0 .. m /\ m - (m - x) = x
      OBVIOUS
    <2> QED BY <2>2
  <1> HIDE DEF T
  <1>3. PICK k \in T : \A j \in T : ~(j < k)
    BY <1>1, <1>2, LeastMember
  <1>4. k \in 0 .. m /\ m - k \in s
    BY <1>3 DEF T
  <1>5. ASSUME NEW y \in s PROVE m - k >= y
    <2>1. m - y \in 0 .. m /\ m - (m - y) = y
      OBVIOUS
    <2>2. m - y \in T
      BY <2>1 DEF T
    <2> QED BY <2>1, <2>2, <1>3, <1>4
  <1> QED BY <1>4, <1>5, Zenon DEF Max

(* The recursive function the fold is defined by, over the sets of indices *)
(* up to m.                                                                *)
Unfolds(g, base, seq, m) ==
  g = [s \in SUBSET (1 .. m) |->
         IF s = {} THEN base ELSE Op(g[s \ {Max(s)}], seq[Max(s)])]

(* There is such a function.                                               *)
LEMMA UnfoldingExists ==
  ASSUME NEW base, NEW seq, NEW n \in Nat
  PROVE  \E g : Unfolds(g, base, seq, n)
  <1> DEFINE S == {m \in 0 .. n : \E g : Unfolds(g, base, seq, m)}
  <1>1. 0 \in S
    <2> DEFINE g == [s \in SUBSET (1 .. 0) |-> base]
    <2>1. \A s \in SUBSET (1 .. 0) : s = {}
      OBVIOUS
    <2>2. Unfolds(g, base, seq, 0)
      BY <2>1 DEF Unfolds
    <2> QED BY <2>2
  <1>2. ASSUME NEW i \in 1 .. n, i - 1 \in S PROVE i \in S
    <2>1. PICK g : Unfolds(g, base, seq, i - 1)
      BY <1>2
    <2> DEFINE low == SUBSET (1 .. i - 1)
               all == SUBSET (1 .. i)
               h   == [s \in all |-> IF s \in low THEN g[s]
                                     ELSE Op(g[s \ {i}], seq[i])]
    <2>2. \A s \in all : s \in low \/ i \in s
      OBVIOUS
    <2>3. \A s \in all : s \notin low => Max(s) = i /\ s # {} /\ s \ {i} \in low /\ s \ {i} \in all
      BY <2>2, MaxIs
    <2>4. ASSUME NEW s \in low, s # {} PROVE Max(s) \in s
      <3>1. i - 1 \in Nat
        OBVIOUS
      <3> QED BY <2>4, <3>1, MaxIn
    <2>5. \A s \in low : s \in all /\ h[s] = g[s]
      OBVIOUS
    <2>6. \A s \in low : g[s] = IF s = {} THEN base ELSE Op(g[s \ {Max(s)}], seq[Max(s)])
      BY <2>1 DEF Unfolds
    <2>7. \A s \in all : h[s] = IF s \in low THEN g[s] ELSE Op(g[s \ {i}], seq[i])
      OBVIOUS
    <2>8. h = [s \in all |-> h[s]]
      OBVIOUS
    <2> HIDE DEF low, all, h
    <2>9. ASSUME NEW s \in all
          PROVE  h[s] = IF s = {} THEN base ELSE Op(h[s \ {Max(s)}], seq[Max(s)])
      <3>1. CASE s \in low
        <4>1. s # {} => s \ {Max(s)} \in low
          BY <3>1, <2>4 DEF low
        <4> QED BY <3>1, <4>1, <2>5, <2>6
      <3>2. CASE s \notin low
        BY <3>2, <2>3, <2>5, <2>7
      <3> QED BY <3>1, <3>2
    <2>10. h = [s \in all |-> IF s = {} THEN base ELSE Op(h[s \ {Max(s)}], seq[Max(s)])]
      BY <2>8, <2>9
    <2>11. Unfolds(h, base, seq, i)
      BY <2>10 DEF Unfolds, all
    <2> QED BY <2>11
  <1>3. n \in S
    <2> HIDE DEF S
    <2>1. \A i \in 0 .. n : i \in S
      BY <1>1, <1>2, Induct
    <2> QED BY <2>1
  <1> QED BY <1>3

(* A fold passes through the values g[0], g[1], ...: the base, then what   *)
(* the operator makes of the value before and the next element.            *)
Runs(g, base, seq, n) ==
  /\ g[0] = base
  /\ \A i \in 1 .. n : g[i] = Op(g[i - 1], seq[i])
  /\ Fold(base, seq) = g[n]

LEMMA FoldRuns ==
  ASSUME NEW base, NEW seq, NEW n \in Nat, DOMAIN seq = 1 .. n
  PROVE  \E g : Runs(g, base, seq, n)
  <1> DEFINE iter == CHOOSE g : Unfolds(g, base, seq, n)
  <1>1. Fold(base, seq) = iter[1 .. n]
    BY Zenon DEF Fold, FoldLeft, MapThenFoldSet, Unfolds
  <1>2. Unfolds(iter, base, seq, n)
    BY UnfoldingExists, Zenon
  <1> HIDE DEF iter
  <1> DEFINE g == [i \in 0 .. n |-> iter[1 .. i]]
  <1>3. g[0] = base
    <2>1. 1 .. 0 = {} /\ {} \in SUBSET (1 .. n)
      OBVIOUS
    <2> QED BY <2>1, <1>2 DEF Unfolds
  <1>4. ASSUME NEW i \in 1 .. n PROVE g[i] = Op(g[i - 1], seq[i])
    <2>1. Max(1 .. i) = i
      BY MaxIs
    <2>2. /\ \A x : x \in (1 .. i) \ {i} <=> x \in 1 .. i - 1
          /\ i \in 1 .. i /\ \A x \in 1 .. i : x \in 1 .. n
          /\ i \in 0 .. n /\ i - 1 \in 0 .. n
      OBVIOUS
    <2>3. (1 .. i) \ {i} = 1 .. i - 1 /\ 1 .. i # {} /\ 1 .. i \in SUBSET (1 .. n)
      BY <2>2
    <2> QED BY <2>1, <2>2, <2>3, <1>2 DEF Unfolds
  <1>5. g[n] = iter[1 .. n]
    OBVIOUS
  <1> QED BY <1>1, <1>3, <1>4, <1>5 DEF Runs
=============================================================================
