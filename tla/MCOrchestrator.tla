--------------------------- MODULE MCOrchestrator ---------------------------
(* Values for TLC: every identifier set is a set of interchangeable model values. *)
EXTENDS Orchestrator, TLC

Symmetry ==
  Permutations(Handlers) \cup Permutations(Workflows) \cup Permutations(Subjects)
    \cup Permutations(Keys) \cup Permutations(Payloads) \cup Permutations(Claims)
=============================================================================
