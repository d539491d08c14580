---------------------------- MODULE LeastElement ----------------------------
(***************************************************************************)
(* The least-element principle for the naturals, taken from the            *)
(* well-foundedness of < in WellFoundedInduction.  It stands in for        *)
(* induction in the proofs: a property that fails somewhere fails at a     *)
(* least place, and the proofs show that no place can be the least.        *)
(***************************************************************************)
EXTENDS Naturals, WellFoundedInduction, TLAPS

\* A nonempty set of naturals has a least element.
LEMMA NatHasLeast ==
    ASSUME NEW T \in SUBSET Nat, T # {}
    PROVE  \E x \in T : \A y \in T : x <= y
<1>1. \E x \in T : \A y \in T : ~(<<y, x>> \in OpToRel(<, Nat))
    BY NatLessThanWellFounded, WFMin
<1>2. \A x, y \in Nat : <<y, x>> \in OpToRel(<, Nat) <=> y < x
    BY DEF OpToRel
<1>3. PICK x \in T : \A y \in T : ~(<<y, x>> \in OpToRel(<, Nat))
    BY <1>1
<1>4. \A y \in T : x <= y
    <2> TAKE y \in T
    <2>1. ~(y < x)
        BY <1>2, <1>3
    <2> QED
        BY <2>1
<1> QED
    BY <1>4
=============================================================================
