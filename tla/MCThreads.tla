----------------------------- MODULE MCThreads ------------------------------
(***************************************************************************)
(* ZNSThreads for TLC.  Pages and contents are symmetric; the zones are    *)
(* not, as they are searched in order.                                     *)
(***************************************************************************)
EXTENDS ZNSThreads, TLC

Symmetry == Permutations(Pages) \cup Permutations(Vals)
==============================================================================
