---------------------------- MODULE ClaimsService ----------------------------
(***************************************************************************)
(* POST /claims of services/claims: create_claim as concurrent handlers    *)
(* run it, each in a database transaction of its own, with the policy      *)
(* check it awaits, the claim reference the database draws and the two     *)
(* unique constraints it meets.  The module implements ClaimLedger, which  *)
(* the Orchestrator module uses in its place.                              *)
(***************************************************************************)
EXTENDS Naturals, FiniteSets

CONSTANTS
  Handlers,      \* concurrent request handlers
  Subjects, Keys, Payloads, Claims,
  Base, Digits,  \* references are written with Digits (6) digits to the base Base (10)
  MaxAttempts,   \* MAX_RETRIES + 1 of policy_client.py (3)
  MaxRequests,   \* bound: requests the clients send
  MaxAborts,     \* bound: handlers that die or raise an unexpected exception
  MaxYears       \* bound: turns of the year

ASSUME ReferenceAssumption == Base \in Nat \ {0, 1} /\ Digits \in Nat \ {0}
ASSUME AttemptAssumption == MaxAttempts \in Nat \ {0}
ASSUME LimitAssumption == MaxRequests \in Nat /\ MaxAborts \in Nat /\ MaxYears \in Nat

VARIABLES
  claim,      \* table claim
  keys,       \* table claim_idempotency_key
  serial,     \* claim_reference_seq: the last value drawn
  year,       \* the calendar of the database server
  session,    \* per handler: the request it serves and its transaction
  answers,    \* history: the 201 answers
  requests, aborts   \* counters of the bounds

tables == <<claim, keys>>
vars == <<claim, keys, serial, year, session, answers, requests, aborts>>

-----------------------------------------------------------------------------
(* Claim references *)

Years == 0..MaxYears

(* format_claim_reference: at least Digits digits, wider when the number needs it. *)
FormatClaimReference(y, n) == [year |-> y, number |-> n]

(* lpad(n::text, Digits, '0') fills up to Digits characters, and cuts a longer text off
   behind its first Digits characters. *)
Pow[k \in Nat] == IF k = 0 THEN 1 ELSE Base * Pow[k - 1]

Lpad(n) ==
  IF n < Pow[Digits] THEN n
  ELSE CHOOSE m \in Pow[Digits - 1] .. Pow[Digits] - 1 :
         \E dropped \in 1..n : m = n \div Pow[dropped]

ClaimReferenceDefault(y, n) == [year |-> y, number |-> Lpad(n)]

References == [year: Years, number: Nat]

-----------------------------------------------------------------------------
(* Rows and sessions *)

Absent == [payload |-> "ABSENT"]   \* no such row

Claim == [payload: Payloads, reference: References, serial: Nat]
Record == [subject: Subjects, key: Keys, fingerprint: Payloads, claim: Claims]

Idle == [pc |-> "idle"]
Asking == [pc: {"policy", "insert"}, caller: Subjects, key: Keys, payload: Payloads,
           year: Years, attempt: 1..MaxAttempts]
Losing == [pc: {"lost"}, caller: Subjects, key: Keys, payload: Payloads]
Writing == [pc: {"drawn", "flushed", "committed"}, caller: Subjects, key: Keys, id: Claims, row: Claim]
Session == {Idle} \cup Asking \cup Losing \cup Writing
Answer == [subject: Subjects, key: Keys, payload: Payloads, claim: Claims]

TypeOK ==
  /\ claim \in [Claims -> Claim \cup {Absent}]
  /\ keys \subseteq Record
  /\ serial \in Nat
  /\ year \in Years
  /\ session \in [Handlers -> Session]
  /\ answers \subseteq Answer
  /\ requests \in 0..MaxRequests
  /\ aborts \in 0..MaxAborts

Init ==
  /\ claim = [c \in Claims |-> Absent]
  /\ keys = {}
  /\ serial = 0
  /\ year = 0
  /\ session = [h \in Handlers |-> Idle]
  /\ answers = {}
  /\ requests = 0
  /\ aborts = 0

-----------------------------------------------------------------------------
(* _existing_idempotent_claim *)

Existing(s, k) == {r \in keys : r.subject = s /\ r.key = k}

Answered(s, k, p, id) ==
  answers \cup {[subject |-> s, key |-> k, payload |-> p, claim |-> id]}

AnswerAnything(s, k, p) ==   \* mutant: the fingerprint is not compared
  \E r \in Existing(s, k) : answers' = Answered(s, k, p, r.claim)

(* The key is known: its claim is returned, or 409 when the request is another one. *)
AnswerExisting(s, k, p) ==
  \E r \in Existing(s, k) :
    answers' = IF r.fingerprint = p THEN Answered(s, k, p, r.claim) ELSE answers

-----------------------------------------------------------------------------
(* create_claim *)

Request == requests < MaxRequests /\ requests' = requests + 1

CreateDuplicate(h, s, k, p) ==
  /\ session[h] = Idle
  /\ Request
  /\ AnswerExisting(s, k, p)
  /\ UNCHANGED <<tables, serial, year, session, aborts>>

(* The lookup opens the transaction, whose now() every later statement sees. *)
CreateNew(h, s, k, p) ==
  /\ session[h] = Idle
  /\ Request
  /\ Existing(s, k) = {}
  /\ session' = [session EXCEPT ![h] = [pc |-> "policy", caller |-> s, key |-> k, payload |-> p,
                                        year |-> year, attempt |-> 1]]
  /\ UNCHANGED <<tables, serial, year, answers, aborts>>

PolicyActive(h) ==
  /\ session[h].pc = "policy"
  /\ session' = [session EXCEPT ![h].pc = "insert"]
  /\ UNCHANGED <<tables, serial, year, answers, requests, aborts>>

RetryOnceMore(me) == me.attempt <= MaxAttempts   \* mutant: off by one

AttemptsLeft(me) == me.attempt < MaxAttempts

NextAttempt(me) == [me EXCEPT !.attempt = me.attempt + 1]

(* Timeout, connection or network error, 5xx: the GET is sent again. *)
PolicyRetried(h) ==
  /\ session[h].pc = "policy"
  /\ AttemptsLeft(session[h])
  /\ session' = [session EXCEPT ![h] = NextAttempt(session[h])]
  /\ UNCHANGED <<tables, serial, year, answers, requests, aborts>>

(* 400: no such policy, or not active.  503: another 4xx, or out of attempts. *)
PolicyRefused(h) ==
  /\ session[h].pc = "policy"
  /\ session' = [session EXCEPT ![h] = Idle]
  /\ UNCHANGED <<tables, serial, year, answers, requests, aborts>>

(* INSERT INTO claim: the default draws from the sequence, which no rollback takes back. *)
Unused(id) ==
  /\ claim[id] = Absent
  /\ \A g \in Handlers : session[g].pc \in {"drawn", "flushed"} => session[g].id # id

Draw(h) ==
  LET me == session[h] IN
  /\ me.pc = "insert"
  /\ serial' = serial + 1
  /\ \E id \in Claims :
       /\ Unused(id)
       /\ session' = [session EXCEPT ![h] =
            [pc |-> "drawn", caller |-> me.caller, key |-> me.key, id |-> id,
             row |-> [payload |-> me.payload, serial |-> serial',
                      reference |-> ClaimReferenceDefault(me.year, serial')]]]
  /\ UNCHANGED <<tables, year, answers, requests, aborts>>

(* The unique index on claim_reference: the insert waits for the transaction that holds
   the same reference, and fails when it is committed. *)
Held(ref) == \E g \in Handlers : session[g].pc = "flushed" /\ session[g].row.reference = ref
Free(ref) == FALSE   \* mutant: no unique index
Taken(ref) == \E c \in Claims : claim[c] # Absent /\ claim[c].reference = ref

Flush(h) ==
  /\ session[h].pc = "drawn"
  /\ ~ Held(session[h].row.reference) /\ ~ Taken(session[h].row.reference)
  /\ session' = [session EXCEPT ![h].pc = "flushed"]
  /\ UNCHANGED <<tables, serial, year, answers, requests, aborts>>

FlushCaught(h) ==   \* mutant: the flush is inside the try
  LET me == session[h] IN
  /\ me.pc = "drawn"
  /\ Taken(me.row.reference)
  /\ session' = [session EXCEPT ![h] = [pc |-> "lost", caller |-> me.caller, key |-> me.key,
                                        payload |-> me.row.payload]]
  /\ UNCHANGED <<tables, serial, year, answers, requests, aborts>>

(* The flush is outside the try: its IntegrityError is a 500. *)
FlushCollides(h) ==
  /\ session[h].pc = "drawn"
  /\ Taken(session[h].row.reference)
  /\ session' = [session EXCEPT ![h] = Idle]
  /\ UNCHANGED <<tables, serial, year, answers, requests, aborts>>

(* INSERT INTO claim_idempotency_key and COMMIT: both rows or none. *)
RecordOf(me) == [subject |-> me.caller, key |-> me.key, fingerprint |-> me.row.payload,
                 claim |-> me.id]

KeyFree(me) == TRUE   \* mutant: no unique constraint on (subject, idempotency_key)
KeyUnique(me) == Existing(me.caller, me.key) = {}

Commit(h) ==
  LET me == session[h] IN
  /\ me.pc = "flushed"
  /\ KeyUnique(me)
  /\ claim' = [claim EXCEPT ![me.id] = me.row]
  /\ keys' = keys \cup {RecordOf(me)}
  /\ session' = [session EXCEPT ![h].pc = "committed"]
  /\ UNCHANGED <<serial, year, answers, requests, aborts>>

(* The refresh reads the row back, and the claim is returned. *)
Refresh(h) ==
  LET me == session[h] IN
  /\ me.pc = "committed"
  /\ answers' = Answered(me.caller, me.key, claim[me.id].payload, me.id)
  /\ session' = [session EXCEPT ![h] = Idle]
  /\ UNCHANGED <<tables, serial, year, requests, aborts>>

KeepClaim(me) == [claim EXCEPT ![me.id] = me.row]   \* mutant: the claim was committed before
RolledBack(me) == claim

(* Another transaction has committed the key: IntegrityError, rollback ... *)
CommitLost(h) ==
  LET me == session[h] IN
  /\ me.pc = "flushed"
  /\ ~ KeyUnique(me)
  /\ claim' = RolledBack(me)
  /\ session' = [session EXCEPT ![h] = [pc |-> "lost", caller |-> me.caller, key |-> me.key,
                                        payload |-> me.row.payload]]
  /\ UNCHANGED <<keys, serial, year, answers, requests, aborts>>

AnswerSame(h) ==   \* mutant: looks up until the request is the same, and never raises the 409
  LET me == session[h] IN
  /\ me.pc = "lost"
  /\ \E r \in Existing(me.caller, me.key) : r.fingerprint = me.payload
  /\ AnswerExisting(me.caller, me.key, me.payload)
  /\ session' = [session EXCEPT ![h] = Idle]
  /\ UNCHANGED <<tables, serial, year, requests, aborts>>

(* ... and the second lookup. *)
AnswerLost(h) ==
  /\ session[h].pc = "lost"
  /\ AnswerExisting(session[h].caller, session[h].key, session[h].payload)
  /\ session' = [session EXCEPT ![h] = Idle]
  /\ UNCHANGED <<tables, serial, year, requests, aborts>>

(* An exception no handler catches, a lost connection, the death of the process: what is
   not committed is rolled back. *)
Abort(h) ==
  /\ session[h] # Idle
  /\ aborts < MaxAborts
  /\ aborts' = aborts + 1
  /\ session' = [session EXCEPT ![h] = Idle]
  /\ UNCHANGED <<tables, serial, year, answers, requests>>

NewYear ==
  /\ year < MaxYears
  /\ year' = year + 1
  /\ UNCHANGED <<tables, serial, session, answers, requests, aborts>>

-----------------------------------------------------------------------------
Receive(h) ==
  \E s \in Subjects, k \in Keys, p \in Payloads :
    CreateDuplicate(h, s, k, p) \/ CreateNew(h, s, k, p)

Proceed(h) ==
  \/ PolicyActive(h) \/ PolicyRetried(h) \/ PolicyRefused(h)
  \/ Draw(h) \/ Flush(h) \/ FlushCollides(h)
  \/ Commit(h) \/ Refresh(h) \/ CommitLost(h) \/ AnswerLost(h)

Next == NewYear \/ \E h \in Handlers : Receive(h) \/ Proceed(h) \/ Abort(h)

Spec == Init /\ [][Next]_vars

(* Every await of a handler ends: the database grants a lock once its holder is done, the
   Policy Service answers or the call times out. *)
FairSpec == Spec /\ \A h \in Handlers : WF_vars(Proceed(h))

-----------------------------------------------------------------------------
(* What the service promises: the ledger it implements *)

LedgerClaims ==
  {[id |-> r.claim, subject |-> r.subject, key |-> r.key, payload |-> claim[r.claim].payload,
    origin |-> "post"] : r \in keys}

Ledger == INSTANCE ClaimLedger WITH claims <- LedgerClaims, Origins <- {"post"}

(* The tables the service commits, read as a ledger, only ever change by the creation of a
   claim under a free scope: requests that race, retry and die change nothing else. *)
LedgerSpec == Ledger!Spec

(* Claims and keys are committed together: every claim in the table has exactly one
   idempotency record, with its fingerprint, and no record names a missing claim
   (claim_service.py:91-105; so line 69 is never reached). *)
KeyedClaims ==
  /\ \A r \in keys : claim[r.claim] # Absent /\ claim[r.claim].payload = r.fingerprint
  /\ \A c \in Claims : claim[c] # Absent => \E r \in keys : r.claim = c
  /\ \A q, r \in keys : q.claim = r.claim => q = r

(* Whoever repeats a request is answered with the claim the first answer named, and a claim
   that was answered is committed with that request (claim_service.py:85-87, 106-111). *)
StableAnswers ==
  /\ \A a, b \in answers : a.subject = b.subject /\ a.key = b.key => a = b
  /\ \A a \in answers : claim[a.claim] # Absent /\ claim[a.claim].payload = a.payload

(* The handler that lost a race finds the winner's record after its rollback: it never
   raises the IntegrityError it caught (claim_service.py:106-111). *)
LostFindsWinner ==
  \A h \in Handlers : session[h].pc = "lost" => Existing(session[h].caller, session[h].key) # {}

(* No two committed claims share a reference: the operators' name for a claim is unique,
   through transactions that overlap and a number that outgrows its width
   (models/claim.py:18-19, 62-68). *)
ReferencesUnique ==
  \A c, d \in Claims :
    claim[c] # Absent /\ claim[d] # Absent /\ claim[c].reference = claim[d].reference => c = d

(* A handler ends, with or without an answer (policy_client.py:44, claim_service.py:89-111). *)
HandlersFinish == \A h \in Handlers : session[h] # Idle ~> session[h] = Idle

-----------------------------------------------------------------------------
(* What the source says and the code does not do: each is refuted by a run *)

(* models/claim.py:38 "Formats a claim reference the same way the database default does". *)
FormattedAsStored ==
  \A c \in Claims : claim[c] # Absent =>
    claim[c].reference = FormatClaimReference(claim[c].reference.year, claim[c].serial)
=============================================================================
