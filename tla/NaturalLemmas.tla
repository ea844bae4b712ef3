--------------------------- MODULE NaturalLemmas ---------------------------
(***************************************************************************)
(* Least elements of sets of naturals, from the well-foundedness of <.     *)
(* A proof by induction is written as the refutation of a least            *)
(* counterexample: LeastNatural of the set of counterexamples.             *)
(***************************************************************************)
EXTENDS Integers, FiniteSetsExt, NaturalsInduction, WellFoundedInduction, TLAPS

(* Every non-empty set of naturals has a least element.                    *)
LEMMA LeastNatural ==
    ASSUME NEW S, S \subseteq Nat, S # {}
    PROVE  \E n \in S : \A m \in S : n <= m
<1> DEFINE R == {ss \in Nat \X Nat : ss[1] < ss[2]}
<1>1. IsWellFoundedOn(R, Nat)
  BY NatLessThanWellFounded, Zenon DEF OpToRel
<1> HIDE DEF R
<1>2. PICK x \in S : \A y \in S : ~(<<y, x>> \in R)
  BY <1>1, WFMin, Zenon
<1>3. \A z, y \in Nat : <<y, z>> \in R <=> y < z
  BY DEF R
<1>4. \A y \in S : ~(y < x)
  BY <1>2, <1>3, Zenon
<1>5. x \in S /\ \A y \in S : x <= y
  BY <1>4
<1> QED BY <1>5, Zenon

(* Min is the least element, for example the page AllocatePage reuses.     *)
LEMMA MinOfNaturals ==
    ASSUME NEW S, S \subseteq Nat, S # {}
    PROVE  Min(S) \in S /\ \A m \in S : Min(S) <= m
<1>1. \E n \in S : \A m \in S : n <= m
  BY LeastNatural
<1> QED BY <1>1 DEF Min

(* Max is the greatest element of a bounded set.                           *)
LEMMA MaxOfBounded ==
    ASSUME NEW n \in Nat, NEW S, S \subseteq 0..n, S # {}
    PROVE  Max(S) \in S /\ \A m \in S : m <= Max(S)
<1> DEFINE D == {n - m : m \in S}
<1>1. D \subseteq Nat /\ D # {}
  OBVIOUS
<1>2. PICK d \in D : \A e \in D : d <= e
  BY <1>1, LeastNatural
<1>3. PICK x \in S : d = n - x
  BY <1>2
<1>4. \A m \in S : m <= x
  BY <1>2, <1>3
<1>5. \E y \in S : \A m \in S : m <= y
  BY <1>4
<1> QED BY <1>5 DEF Max
=============================================================================
