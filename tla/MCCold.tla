------------------------------- MODULE MCCold -------------------------------
(***************************************************************************)
(* ColdRestruct for TLC.  Pages are interchangeable in a safety run; zones *)
(* are not, as they are searched in order.                                 *)
(***************************************************************************)
EXTENDS ColdRestruct, TLC

Symmetry == Permutations(Pages) \cup Permutations(Vals)
==============================================================================
