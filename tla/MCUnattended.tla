---------------------------- MODULE MCUnattended ----------------------------
(* Small instances of Unattended for TLC. *)
EXTENDS Unattended

MCOwnNames == [p \in Procs |-> p]

\* The configuration that is shipped: one lease_owner for every launcher.
MCOneName == [p \in Procs |-> "launcher"]
=============================================================================
