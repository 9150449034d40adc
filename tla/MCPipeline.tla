----------------------------- MODULE MCPipeline -----------------------------
(* Small instances of Pipeline for TLC. *)
EXTENDS Pipeline, TLC

\* The commits are interchangeable.
MCSymmetry == Permutations(Heads)

\* Every point of a run at which something has been or may be written.
MCAnywhere == Points \ {"idle"}

\* Every point but the two between the transition to "validating" and the
\* Worker's result, where a crash strands the job.
MCRecoverable == MCAnywhere \ {"run-validation", "worker-result"}
=============================================================================
