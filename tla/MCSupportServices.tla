------------------------- MODULE MCSupportServices --------------------------
(* The instance of SupportServices that TLC checks: what is ingested and asked for. *)
EXTENDS SupportServices

(* A passage of one policy, and one of one claim under any policy that matches better. *)
MCPassages ==
  {[words |-> {"limit"}, policy |-> "p1", claim |-> Unscoped],
   [words |-> {"limit", "flood"}, policy |-> Unscoped, claim |-> "c1"]}

(* A question that both may answer, the better one only; and one that excludes the first. *)
MCQuestions ==
  {[words |-> {"limit", "flood"}, policy |-> "p1", claim |-> Unscoped, topK |-> 1],
   [words |-> {"limit", "flood"}, policy |-> "p2", claim |-> "c1", topK |-> 2]}
=============================================================================
