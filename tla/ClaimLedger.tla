----------------------------- MODULE ClaimLedger -----------------------------
(***************************************************************************)
(* What the Claims Service promises to the callers of POST /claims: an     *)
(* append-only ledger in which an (authenticated subject, Idempotency-Key) *)
(* pair, the scope, is bound to at most one claim, for ever.               *)
(*                                                                         *)
(* The Orchestrator module uses this ledger in place of the Claims         *)
(* Service; the ClaimsService module shows that the service implements it. *)
(***************************************************************************)
EXTENDS Naturals, FiniteSets

CONSTANTS
  Subjects,   \* authenticated users (the "sub" claim of a token)
  Keys,       \* Idempotency-Key header values
  Payloads,   \* request bodies, told apart as their fingerprints are
  Claims,     \* claim identifiers
  Origins     \* what a POST was sent for (history only: no code reads it)

VARIABLE claims   \* the rows committed in tables claim and claim_idempotency_key

ClaimRow == [id: Claims, subject: Subjects, key: Keys, payload: Payloads, origin: Origins]

TypeOK == claims \subseteq ClaimRow

(* The claim bound to a scope, as a set with at most one element. *)
Bound(s, k) == {c \in claims : c.subject = s /\ c.key = k}

Init == claims = {}

(* A POST whose scope is free creates a claim with a new identifier. *)
Create(s, k, p, o) ==
  /\ Bound(s, k) = {}
  /\ \E id \in Claims :
       /\ \A c \in claims : c.id # id
       /\ claims' = claims \cup
            {[id |-> id, subject |-> s, key |-> k, payload |-> p, origin |-> o]}

(* A POST that repeats an accepted one is answered with the claim it got. *)
Replay(s, k, p) ==
  /\ \E c \in Bound(s, k) : c.payload = p
  /\ UNCHANGED claims

(* What a POST that is not refused does to the ledger. *)
Accept(s, k, p, o) == Create(s, k, p, o) \/ Replay(s, k, p)

Next == \E s \in Subjects, k \in Keys, p \in Payloads, o \in Origins : Create(s, k, p, o)

Spec == Init /\ [][Next]_claims

(* A scope never has two claims and a claim never has two scopes           *)
(* (claims_service/models/idempotency.py, the two unique constraints).     *)
OneClaimPerScope ==
  \A c, d \in claims : c.id = d.id \/ (c.subject = d.subject /\ c.key = d.key) => c = d
=============================================================================
