------------------------------ MODULE MCIntercept ------------------------------
(***************************************************************************)
(* Instances of Intercept for TLC.  Connections are interchangeable.       *)
(***************************************************************************)
EXTENDS Intercept, TLC

MCSymmetry == Permutations(Conn)
=============================================================================
