--------------------------- MODULE MCClaimsService ---------------------------
(* Instances of ClaimsService for TLC.                                      *)
EXTENDS ClaimsService, TLC

(* Handlers, subjects, keys, payloads and claim identifiers are interchangeable. *)
Symmetry ==
  Permutations(Handlers) \cup Permutations(Subjects) \cup Permutations(Keys)
    \cup Permutations(Payloads) \cup Permutations(Claims)
=============================================================================
