-------------------------------- MODULE Least --------------------------------
(***************************************************************************)
(* A non-empty set of natural numbers has a least element: the zone that   *)
(* the searches of zController.cpp, which go through the zones in order,   *)
(* come to first.  Stated without an operator argument, which the SMT      *)
(* backend cannot read.                                                    *)
(***************************************************************************)
EXTENDS Naturals, WellFoundedInduction, TLAPS

Below == {ss \in Nat \X Nat : ss[1] < ss[2]}

LEMMA NatOrder == IsWellFoundedOn(Below, Nat)
<1>1. OpToRel(<, Nat) = Below
  BY Zenon DEF OpToRel, Below
<1> QED BY NatLessThanWellFounded, <1>1, Zenon

LEMMA LeastElement ==
  ASSUME NEW S \in SUBSET Nat, S # {}
  PROVE  \E x \in S : \A y \in S : x <= y
<1>1. PICK x \in S : \A y \in S : ~ (<<y, x>> \in Below)
  BY WFMin, NatOrder
<1>2. \A y \in S : x <= y
  <2> TAKE y \in S
  <2>1. x \in Nat /\ y \in Nat /\ ~ (<<y, x>> \in Below)
    BY <1>1
  <2> QED BY <2>1 DEF Below
<1> QED BY <1>2
==============================================================================
