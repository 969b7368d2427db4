---------------------------- MODULE LeastElement ----------------------------
(***************************************************************************)
(* Facts about numbers that the proofs share: descriptors, because the     *)
(* kernel hands out the lowest one, and positions on the command line.     *)
(***************************************************************************)
EXTENDS Integers, FiniteSetsExt, WellFoundedInduction, TLAPS

\* The least of a set of numbers belongs to it.
LEMMA MinIsElement ==
  ASSUME NEW S, S \subseteq Nat, S # {}
  PROVE  Min(S) \in S
<1>1. \E x \in S : \A y \in S : ~(<<y, x>> \in OpToRel(<, Nat))
  BY NatLessThanWellFounded, WFMin
<1>2. PICK x \in S : \A y \in S : ~(<<y, x>> \in OpToRel(<, Nat))
  BY <1>1
<1>3. \A y \in S : <<y, x>> \in OpToRel(<, Nat) <=> y < x
  BY SMT DEF OpToRel
<1>4. \A y \in S : ~(y < x)
  BY <1>2, <1>3, Zenon
<1>5. \A y \in S : x =< y
  BY <1>4, SMT
<1>6. \E m \in S : \A y \in S : m =< y
  BY <1>5
<1>. QED BY <1>6 DEF Min

\* And it is the least.
LEMMA MinIsLeast ==
  ASSUME NEW S, S \subseteq Nat, NEW x \in S
  PROVE  Min(S) <= x
<1>1. \E m \in S : \A y \in S : ~(<<y, m>> \in OpToRel(<, Nat))
  BY NatLessThanWellFounded, WFMin
<1>2. PICK m \in S : \A y \in S : ~(<<y, m>> \in OpToRel(<, Nat))
  BY <1>1
<1>3. \A y \in S : <<y, m>> \in OpToRel(<, Nat) <=> y < m
  BY SMT DEF OpToRel
<1>4. \A y \in S : ~(y < m)
  BY <1>2, <1>3, Zenon
<1>5. \E z \in S : \A y \in S : z <= y
  BY <1>4, SMT
<1>. QED BY <1>5 DEF Min

\* A bounded set has a greatest element too.
LEMMA MaxIsElement ==
  ASSUME NEW n \in Nat, NEW S, S \subseteq 0 .. n, S # {}
  PROVE  Max(S) \in S
<1>. DEFINE gaps == {n - x : x \in S}
<1>1. gaps \subseteq Nat /\ gaps # {}
  <2>1. \A x \in S : n - x \in Nat
    OBVIOUS
  <2>2. PICK x \in S : TRUE
    OBVIOUS
  <2>3. n - x \in gaps
    OBVIOUS
  <2>. QED BY <2>1, <2>3
<1>2. PICK g \in gaps : \A y \in gaps : g <= y
  BY <1>1, MinIsElement, MinIsLeast
<1>3. \E x \in S : \A y \in S : x >= y
  <2>1. PICK x \in S : g = n - x
    BY <1>2
  <2>2. \A y \in S : n - x <= n - y
    BY <1>2, <2>1
  <2>. QED BY <2>2
<1>. QED BY <1>3 DEF Max

\* A number of the set that none exceeds is its greatest.
LEMMA MaxIs ==
  ASSUME NEW S, S \subseteq Nat, NEW x \in S, \A y \in S : y <= x
  PROVE  Max(S) = x
<1>1. \A z \in S : (\A y \in S : z >= y) => z = x
  OBVIOUS
<1>2. \E z \in S : \A y \in S : z >= y
  OBVIOUS
<1>. QED BY <1>1, <1>2 DEF Max

\* Induction, for a property given by the set of numbers that have it.
LEMMA EveryNumber ==
  ASSUME NEW S, 0 \in S, \A n \in Nat : n \in S => n + 1 \in S
  PROVE  \A n \in Nat : n \in S
<1>. SUFFICES ASSUME NEW m \in Nat, m \notin S PROVE FALSE
  OBVIOUS
<1>. DEFINE others == {n \in Nat : n \notin S}
<1>1. Min(others) \in others /\ \A y \in others : Min(others) <= y
  BY MinIsElement, MinIsLeast
<1>2. PICK n \in others : \A y \in others : n <= y
  BY <1>1
<1>3. n # 0 /\ n - 1 \in Nat
  BY <1>2
<1>4. n - 1 \in S
  BY <1>2, <1>3
<1>. QED BY <1>2, <1>3, <1>4
=============================================================================
