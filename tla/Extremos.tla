------------------------------- MODULE Extremos -------------------------------
(***************************************************************************)
(* The first and the last of a set of numbers, for the modules that prove  *)
(* about searches.                                                         *)
(***************************************************************************)
EXTENDS Integers, FiniteSetTheorems, WellFoundedInduction, TLAPS

\* Every set of naturals that is not empty has a first one.
LEMMA HayPrimero ==
  ASSUME NEW S, S \subseteq Nat, S # {}
  PROVE  \E b \in S : \A c \in S : b <= c
<1>1. IsWellFoundedOn(OpToRel(<, Nat), Nat)
  BY NatLessThanWellFounded
<1>2. PICK b \in S : \A c \in S : ~(<<c, b>> \in OpToRel(<, Nat))
  BY <1>1, WFMin
<1>3. \A c \in S : ~(c < b)
  BY <1>2 DEF OpToRel
<1> QED BY <1>3

\* Every finite set of integers that is not empty has a last one: the smallest
\* set without one would still lack it with an element less.
LEMMA HayUltimo ==
  ASSUME NEW S, S \subseteq Int, S # {}, IsFiniteSet(S)
  PROVE  \E m \in S : \A x \in S : m >= x
<1> DEFINE SinUltimo(T) == /\ T \subseteq Int /\ T # {} /\ IsFiniteSet(T)
                           /\ ~ \E m \in T : \A x \in T : m >= x
           Malos == {n \in Nat : \E T \in SUBSET Int : SinUltimo(T) /\ Cardinality(T) = n}
<1>1. SUFFICES ASSUME SinUltimo(S) PROVE FALSE
  OBVIOUS
<1>2. Cardinality(S) \in Malos
  BY <1>1, FS_CardinalityType
<1>3. PICK n \in Malos : \A k \in Malos : n <= k
  <2> HIDE DEF Malos
  <2>1. Malos \subseteq Nat
    BY DEF Malos
  <2> QED BY <1>2, <2>1, HayPrimero
<1>4. PICK T \in SUBSET Int : SinUltimo(T) /\ Cardinality(T) = n
  BY <1>3
<1>5. PICK x \in T : TRUE
  BY <1>4
<1> DEFINE U == T \ {x}
<1>6. IsFiniteSet(U) /\ Cardinality(U) = n - 1
  BY <1>4, <1>5, FS_RemoveElement
<1>7. CASE U = {}
  <2>1. T = {x} /\ x \in Int
    BY <1>4, <1>5, <1>7
  <2> QED BY <1>4, <2>1
<1>8. CASE U # {}
  <2>1. n \in Nat /\ n - 1 \in Nat
    BY <1>3, <1>6, FS_CardinalityType
  <2>2. n - 1 \notin Malos
    BY <1>3, <2>1
  <2>3. ~SinUltimo(U)
    BY <1>4, <1>6, <2>1, <2>2
  <2>4. PICK m \in U : \A y \in U : m >= y
    BY <1>4, <1>6, <1>8, <2>3
  <2>5. m \in T /\ m \in Int /\ x \in Int
    BY <1>4, <1>5, <2>4
  <2>6. m >= x \/ x >= m
    BY <2>5
  <2>7. \A y \in T : y \in Int /\ (y = x \/ m >= y)
    BY <1>4, <2>4
  <2>8. (\A y \in T : m >= y) \/ (\A y \in T : x >= y)
    BY <2>5, <2>6, <2>7
  <2> QED BY <1>4, <1>5, <2>5, <2>8
<1> QED BY <1>7, <1>8
=============================================================================
