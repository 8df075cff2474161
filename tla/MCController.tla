---------------------------- MODULE MCController ----------------------------
(***************************************************************************)
(* Instances of ZNSController for TLC.  All of its counters are bounded by *)
(* Cap; the run that has the most zones ends where one is opened early, as *)
(* what it checks is said of the time before that.                         *)
(***************************************************************************)
EXTENDS ZNSController, TLC

(* Pages and contents are interchangeable.                                 *)
Symmetry == Permutations(Pages) \cup Permutations(Vals)

BeforeEarly == ~ early
==============================================================================
