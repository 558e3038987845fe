----------------------------- MODULE BasicFacts -----------------------------
(***************************************************************************)
(* Facts that the proofs share: arithmetic, and induction stated about     *)
(* sets, so that the provers can use it (the library's induction theorems  *)
(* quantify over an operator).                                             *)
(***************************************************************************)
EXTENDS Integers, WellFoundedInduction, FiniteSetTheorems, TLAPS

(* Truncated division. *)
LEMMA DivMod ==
    ASSUME NEW v \in Nat, NEW s \in Nat \ {0}
    PROVE  /\ v \div s \in Nat
           /\ v % s \in 0..(s - 1)
           /\ v = (v \div s) * s + (v % s)
BY Z3

(* A quotient and a remainder below the divisor determine each other. *)
LEMMA DivUnique ==
    ASSUME NEW s \in Nat \ {0}, NEW q \in Int, NEW r \in 0..(s - 1)
    PROVE  (q * s + r) \div s = q
BY Z3

LEMMA MulNat ==
    ASSUME NEW a \in Nat, NEW b \in Nat
    PROVE  a * b \in Nat
BY Z3

LEMMA MulInt ==
    ASSUME NEW a \in Int, NEW b \in Int
    PROVE  a * b \in Int
BY Z3

LEMMA Distribute ==
    ASSUME NEW a \in Int, NEW b \in Int, NEW c \in Int
    PROVE  (a + b) * c = a * c + b * c
BY Z3

-----------------------------------------------------------------------------
(* A set of naturals that is not empty has a least element. *)
LEMMA NatLeast ==
    ASSUME NEW S \in SUBSET Nat, S # {}
    PROVE  \E x \in S : \A y \in S : x <= y
<1>1. PICK x \in S : \A y \in S : ~(<<y, x>> \in OpToRel(<, Nat))
  BY WFMin, NatLessThanWellFounded, Zenon
<1>2. \A y \in S : ~(y < x) BY <1>1, Zenon DEF OpToRel
<1>3. \A y \in S : x <= y BY <1>2
<1> QED BY <1>3

(* A set of naturals that holds 0, and n + 1 for each of its n, is Nat. *)
LEMMA NatSetInduction ==
    ASSUME NEW S \in SUBSET Nat, 0 \in S, \A n \in S : n + 1 \in S
    PROVE  S = Nat
<1> DEFINE T == Nat \ S
<1>1. SUFFICES ASSUME T # {} PROVE FALSE OBVIOUS
<1>2. PICK x \in T : \A y \in T : x <= y BY <1>1, NatLeast, Zenon
<1>3. x \in Nat /\ x # 0 /\ x \notin S BY <1>2
<1>4. x - 1 \in Nat /\ x - 1 \notin T BY <1>2, <1>3
<1>5. x - 1 \in S /\ (x - 1) + 1 = x BY <1>3, <1>4
<1> QED BY <1>3, <1>5

(* A collection of subsets of a finite set that holds {}, and every set of *)
(* which it holds what is left without any one element, holds them all.    *)
LEMMA SubsetInduction ==
    ASSUME NEW L, IsFiniteSet(L), NEW P \in SUBSET (SUBSET L), {} \in P,
           \A R \in SUBSET L : R # {} /\ (\A r \in R : R \ {r} \in P) => R \in P
    PROVE  P = SUBSET L
<1> DEFINE N == {n \in Nat : \A R \in SUBSET L : Cardinality(R) = n => R \in P}
<1>1. \A R \in SUBSET L : IsFiniteSet(R) /\ Cardinality(R) \in Nat
  BY FS_Subset, FS_CardinalityType
<1>2. 0 \in N BY <1>1, FS_EmptySet
<1>3. ASSUME NEW n \in N PROVE n + 1 \in N
  <2> SUFFICES ASSUME NEW R \in SUBSET L, Cardinality(R) = n + 1 PROVE R \in P OBVIOUS
  <2>1. R # {} BY FS_EmptySet
  <2>2. ASSUME NEW r \in R PROVE R \ {r} \in P
    <3>1. Cardinality(R \ {r}) = Cardinality(R) - 1 BY <1>1, FS_RemoveElement
    <3>2. Cardinality(R \ {r}) = n BY <3>1
    <3> QED BY <3>2
  <2> QED BY <2>1, <2>2
<1> HIDE DEF N
<1>4. N \in SUBSET Nat BY DEF N
<1>5. N = Nat BY <1>2, <1>3, <1>4, NatSetInduction, Zenon
<1>6. \A R \in SUBSET L : R \in P
  <2> TAKE R \in SUBSET L
  <2>1. Cardinality(R) \in N BY <1>1, <1>5
  <2> QED BY <2>1 DEF N
<1> QED BY <1>6
=============================================================================
