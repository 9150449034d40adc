----------------------------- MODULE MCJobStore -----------------------------
(* Small instances of JobStore for TLC. *)
EXTENDS JobStore, TLC

\* Processes and operation identifiers are interchangeable.
MCSymmetry == Permutations(Procs) \cup Permutations(OpIds)
=============================================================================
