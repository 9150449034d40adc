------------------------------ MODULE MCSupervised ------------------------------
(* Instances of SupervisedActivation for TLC.  Runs with liveness properties    *)
(* take no symmetry.                                                            *)
EXTENDS SupervisedActivation
=============================================================================
