------------------------------ MODULE MCBuffer ------------------------------
(***************************************************************************)
(* BufferManager for TLC.  Each cfg chooses the modes and the sizes of the *)
(* buffer and of its working region; pages and contents are symmetric, as  *)
(* no decision of the manager depends on them.                             *)
(***************************************************************************)
EXTENDS BufferManager, TLC

Symmetry == Permutations(Pages) \cup Permutations(Vals)
==============================================================================
