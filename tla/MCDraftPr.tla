----------------------------- MODULE MCDraftPr -----------------------------
(* Small instances of DraftPr for TLC. *)
EXTENDS DraftPr

MCPlan(b, c, k) == [branch |-> b, content |-> c, kind |-> k]

\* A plan made anew after a restart, for the same issue branch and for another,
\* and plans to refuse.
MCPlans ==
  {MCPlan("b1", c, "good") : c \in {"c1", "c2"}}
  \cup {MCPlan("b2", "c1", "good")}
  \cup {MCPlan("b1", "c1", k) : k \in {"foreign", "forbidden", "oversized"}}

MCAnywhere == Points \ {"idle"}
=============================================================================
