-------------------------- MODULE MCInfrastructure --------------------------
(* Small instances of Infrastructure for TLC. *)
EXTENDS Infrastructure, TLC

CONSTANTS r1, r2, p1, p2

MCResources == {r1, r2}
MCPodIds    == {p1, p2}

\* A restore is published with the complete state.
MCPublishedComplete == {Json(MCResources)}

Symmetry == Permutations(MCResources) \cup Permutations(MCPodIds)
=============================================================================
