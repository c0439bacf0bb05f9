---------------------------- MODULE MCRequestList ----------------------------
(***************************************************************************)
(* Instances of RequestList for TLC.  Routes are interchangeable, and so   *)
(* are tasks.                                                              *)
(***************************************************************************)
EXTENDS RequestList, TLC

MCSymmetry == Permutations(Route) \cup Permutations(Task)
=============================================================================
