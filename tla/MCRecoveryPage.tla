---------------------------- MODULE MCRecoveryPage ----------------------------
(***************************************************************************)
(* Instances of RecoveryPage for TLC, over those of Registry.              *)
(***************************************************************************)
EXTENDS RecoveryPage, MCRegistry
=============================================================================
