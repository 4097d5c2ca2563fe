------------------------------ MODULE Extrema -------------------------------
(***************************************************************************)
(* What the proofs need of Max and Min: a finite set of integers that is   *)
(* not empty has a largest and a smallest element, and they return these.  *)
(***************************************************************************)
EXTENDS Integers, FiniteSets, FiniteSetsExt, FiniteSetTheorems, WellFoundedInduction, TLAPS

LEMMA LargestOf ==
    ASSUME NEW S \in SUBSET Int, IsFiniteSet(S), S # {}
    PROVE  Max(S) \in S /\ \A x \in S : x <= Max(S)
<1> DEFINE From(s) == {x \in S : x >= s}
           Above == {From(s) : s \in S}
           Order == StrictSubsetOrdering(S)
<1>1. IsWellFoundedOn(Order, SUBSET S)
  BY FS_StrictSubsetOrderingWellFounded, FS_FiniteSubsetsOfFinite
<1>2. Above \subseteq SUBSET S /\ Above # {}
  <2>1. PICK s \in S : TRUE
    OBVIOUS
  <2>2. From(s) \in Above
    OBVIOUS
  <2>3. Above \subseteq SUBSET S
    OBVIOUS
  <2> QED BY <2>2, <2>3
<1>3. PICK least \in Above : \A other \in Above : <<other, least>> \notin Order
  <2> HIDE DEF Above, Order
  <2> QED BY <1>1, <1>2, WFMin
<1>4. PICK top \in S : least = From(top)
  BY <1>3
<1>5. ASSUME NEW s \in S, s > top PROVE FALSE
  <2>1. s \in Int /\ top \in Int /\ \A x \in S : x \in Int
    BY <1>4, <1>5
  <2>2. top \in From(top) /\ top \notin From(s) /\ \A x \in S : x >= s => x >= top
    BY <1>4, <1>5, <2>1
  <2>3. From(s) \subseteq least /\ From(s) # least
    BY <1>4, <2>2
  <2>4. <<From(s), least>> \in Order
    BY <1>2, <1>3, <2>3 DEF StrictSubsetOrdering
  <2> QED BY <1>3, <2>4
<1>6. \A s \in S : top >= s
  BY <1>5
<1>7. Max(S) \in S /\ \A s \in S : Max(S) >= s
  BY <1>6 DEF Max
<1> QED BY <1>7

\* Any set of naturals will do: the order on them is well-founded.
LEMMA SmallestOf ==
    ASSUME NEW S \in SUBSET Nat, S # {}
    PROVE  Min(S) \in S /\ \A x \in S : Min(S) <= x
<1> DEFINE Order == {pair \in Nat \X Nat : pair[1] < pair[2]}
<1>1. IsWellFoundedOn(Order, Nat)
  BY NatLessThanWellFounded DEF OpToRel
<1>2. PICK least \in S : \A x \in S : <<x, least>> \notin Order
  <2> HIDE DEF Order
  <2> QED BY <1>1, WFMin
<1>3. ASSUME NEW x \in S PROVE least <= x
  <2>1. ~(<<x, least>>[1] < <<x, least>>[2])
    BY <1>2
  <2> QED BY <2>1
<1> QED BY <1>3 DEF Min
=============================================================================
