# Verification of the insurance claims orchestration platform

TLA+ models of the platform's services, the TLC runs that check them on small
instances, and TLAPS proofs of the properties that matter most for every
number of handlers, users, workflows and retries. Paths below are relative to
the repository's root; `spec 003:44` is line 44 of `specs/003-orchestrator/spec.md`.

    tlc -workers 2 -config OrchConcurrent.cfg MCOrchestrator.tla    # one run
    tlapm OrchestratorProofs.tla                                    # one proof module

## 1. The system

| Component | State | Operations | What is hard |
|---|---|---|---|
| Orchestrator (`services/orchestrator`) | `workflow`, `workflow_step`, `workflow_idempotency_key`, `workflow_audit_event` | start a claim workflow, retry it, read it | two HTTP calls between two commits; concurrent retries without a lock; ambiguous timeouts; crashes |
| Claims Service (`services/claims`) | `claim`, `claim_idempotency_key`, `audit_record`, `claim_reference_seq` | create a claim, change its status, read | idempotency races; a policy check inside a transaction; a reference that outgrows its width; unlocked status updates |
| Policy Service (`services/policy`) | `policy`, `audit_record` | create, change status, read | unlocked status updates |
| Platform Eventing (`services/eventing`) | `event_outbox` | append, claim a batch under a lease, publish, mark | leases that expire, crashes between delivery and mark, retry without an end |
| Payments (`services/payments`) | SQLite `idempotency` | authorize, capture, refund | the provider is awaited between lookup and save; the process dies after it was called |
| Legacy Adapter (`services/legacy-adapter`) | `legacy_claim` | ingest | duplicates that race; a record committed but never answered |
| Document Intelligence (`services/document-intelligence`) | files, and SQLite `documents`, `idempotency`, `reviews` | upload, download, review, approve | two stores without a common transaction; two ways to recognize a document |
| Copilot (`services/copilot-rag`) | SQLite `knowledge`, `drafts` | ingest, retrieve, draft, approve | knowledge that arrives while an answer is generated; a provider that fails; approvals that overlap |
| Operations Portal (`apps/operations-portal`) | view state in the browser | load, submit, retry, approve | answers out of order, resubmission under a fresh key |
| Token validation (`*/auth/jwt.py`) | the JWKS cache of the process | validate a token, fetch the key set | key rotation against a cache of ten minutes; fetches that overlap and arrive out of order |

How they interact: the Portal calls the Orchestrator with the operator's token
and an Idempotency-Key of its own making; the Orchestrator asks the Policy
Service whether the policy is active and then posts to the Claims Service,
both with the caller's token, the latter with the same key; the Claims Service
asks the Policy Service again before it inserts. Nothing is shared: every
service has its own database, and every handler a session of its own, whose
transaction is READ COMMITTED. No row is ever locked (`FOR UPDATE` occurs in
the outbox only) and no version column is kept, so the order of commits is the
only arbiter between handlers. The Portal calls Payments and the Legacy Adapter
as well; Document Intelligence and the Copilot are called by no code of the
repository but their tests. None of the four shares state with the claim
workflow or with another. Every Python service validates tokens with a copy of the same `jwt.py`.

What makes each part correct:

- *Orchestrator*: a finished workflow is backed by a claim of its own request;
  a key names one workflow; the retry counter is bounded; the audit trail
  accounts for the row; every handler ends with an outcome.
- *Claims creation*: a (subject, key) scope is bound to one claim for ever,
  through races, retries and crashes; no claim without its key; unique
  references.
- *Lifecycles*: following the audit records leads to the status, and the latest
  one tells it unless it overlapped another; only legal transitions; a claim's
  policy was active before the claim was filed.
- *Outbox*: an event is published only if it was delivered, delivered again
  only for a reason, and published in the end.
- *Payments*: all answers to a key report one provider call, and a key that was
  answered is not charged again.
- *Legacy Adapter*: an identity is bound to one record for ever, and every
  answer agrees with it.
- *Documents*: a document that was answered exists as row and as file; the same
  bytes in the same filing are one document.
- *Copilot*: an answer is written with exactly the passages it cites as its
  context, and these are the best of what was known; a request that comes after
  an answered decision does not decide again.
- *Token validation*: a revoked key expires in bounded time, a published one is
  never refused.

## 2. The modules

| Module | Models | Used by |
|---|---|---|
| `ClaimLedger` | the abstract promise of `POST /claims`: an append-only ledger, at most one claim per scope | `Orchestrator` (in place of the service), `ClaimsService` (refined by it) |
| `Orchestrator` | `workflow_service.py`, `claims_client.py`, `policy_client.py`, both POST routes, the four tables | `MCOrchestrator`, `OrchestratorProofs` |
| `ClaimsService` | `create_claim`, its policy client, claim references and both unique constraints | `MCClaimsService`, `ClaimsServiceProofs` |
| `Lifecycles` | `update_claim_status`, `update_policy_status`, `create_policy`, and `create_claim` where it depends on the policy's status: policies and claims composed | its run, `SupportServices`, `LifecyclesProofs` |
| `Outbox` | `EventRepository` and `OutboxWorker` of the eventing service | its run, `OutboxProofs` |
| `Payments` | `server.ts`, `store.ts`, `provider.ts`: the three operations around an awaited provider | `SupportServices`, `ReceiversProofs` |
| `LegacyAdapter` | `ingestion.py` and its table: a second implementation of `ClaimLedger` | `SupportServices`, `ReceiversProofs` |
| `Documents` | `api.py`, `rules.py`: files, rows, keys, reviews | its run, `SupportServices`, `ReceiversProofs` |
| `Copilot` | `main.py`, `generator.py`: knowledge, retrieval, generation with fallback, drafts, approval | `SupportServices`, `CopilotProofs` |
| `JwksCache` | the four copies of `jwt.py` and Keycloak's key set | `SupportServices`, `JwksCacheProofs` |
| `SupportServices` | `Lifecycles` and the five above side by side | `MCSupportServices`, `SupportServicesProofs` |

Orchestrator and Claims Service meet in the ledger: `ClaimsService` implements `ClaimLedger`
(`LedgerSpec`, checked and proved), and `Orchestrator` uses nothing else of the
Claims Service. The refinement speaks of subject, key and payload. The field
`origin`, the workflow a POST was sent for, is history: no code reads it, the
service maps it to a constant.

### Orchestrator

The state is the tables as committed (`workflow`, with both steps in the row;
`idem`; `audit`, each workflow's events in commit order), the ledger `claims`,
and per handler a `session`: the request it serves, the row as it was loaded,
the row as it stands in memory, and the audit events it will insert. A handler
is a coroutine; between two awaits it changes memory only, so an action runs
from one await to the next:

| Action | Code |
|---|---|
| `StartDuplicate`, `StartNew` | `start_claim_workflow` up to the lookup |
| `Insert`, `InsertLost`, `AnswerLost` | the first commit, its IntegrityError, the second lookup |
| `RetryRefused`, `RetryBegin` | `retry_claim_workflow` up to `_execute_workflow` |
| `PolicyVerified`, `PolicyFailed` | the outcome of `policy_client.get_policy` |
| `ClaimStored` | the Claims Service serves the POST in flight |
| `ClaimReturned`, `ClaimRejected`, `ClaimUnrecognizable`, `ClaimServerError`, `ClaimTimeout` | one attempt of `claims_client.create_claim` and how it ends |
| `StrayStored` | the Claims Service serves a POST its sender gave up |
| `Commit` | the last commit and the answer |
| `Abort` | an uncaught exception, a lost connection, the death of the process |

The helpers `SetState`, `SetStep`, `MarkFailure`, `MarkVerified`,
`MarkCompleted`, `MarkRetried` are the functions of `workflow_service.py` on a
unit of work; `Merge` is SQLAlchemy's UPDATE, which writes the columns whose
value differs from the one loaded and leaves the others to whoever wrote them
last. `StepOrder` stands for the relation's `order_by created_at`: both steps
are inserted in one transaction and carry the same `now()`, so a retry may
find them in either order.

`RetryBegin` reads the workflow, its steps and its idempotency record at once. The
code reads them with three SELECTs of one READ COMMITTED transaction
(`workflow_service.py:254`, `:273`, the `selectin` load of `models/workflow.py:31-33`).
The idempotency record is never changed; the steps may be those a concurrent retry
committed after the row was read. This only makes the loaded steps more recent. A
variant of the module with the read split in two was run on the instance of
`OrchConcurrent` with one workflow, and all of the run's properties hold there; the
proofs are about the read as one step.

Abstractions: a payload is a model value, equal when the fingerprints are; the
policy check's own retries are one await with an arbitrary outcome (nothing is
stored on either side); timestamps and texts are left out; authorization is
the choice of the caller.

### ClaimsService

`claim` and `keys` are the committed tables, `serial` the sequence (which no
rollback takes back), `year` the database's calendar as a transaction sees it
in `now()`. A session goes through `policy` (the check is retried up to
`MaxAttempts`), `insert`, `drawn` (a reference is drawn), `flushed` (the claim
row is in the transaction), `committed` (to be refreshed) or `lost` (the
IntegrityError was rolled back). `Flush` waits while another open transaction
holds the same reference, and `FlushCollides` is the 500 when a committed
claim has it.

A reference is a year and a number. `Lpad` does to the number what
PostgreSQL's `lpad` does to its text, by way of `Pow`, the powers of the base as a
recursive function; the width and the base are constants, so that a run outgrows
the width with its third claim instead of its millionth.

### Lifecycles

Policy Service and Claims Service change a status with the same code and
different tables: read the row, check the transition, commit the new status
with an audit record. `Read` and `Save` are the two halves; whatever another
handler commits in between is overwritten. `trail` is the table `audit_record` as
it is stored: per item a set of rows in no order but that of `created`, their
`created_at`, which is the time the transaction began (`models/audit.py:22`). `Read`
is that beginning, and `requests`, which counts them, is the clock. `begun` is history:
how many transactions had begun when the record was committed, so that a record with
`begun < created` was committed before the other one began. The module composes the two
services: `CheckPolicy` and `FileClaim` are the halves of `create_claim` around
its policy check, with the policy's status free to change in between. `cover`
is the claim's `policy_id`; `Missing` is a row that does not exist.

### Outbox

The state is the table `rows` and per worker the batch it works on. `Claim` is
the claiming transaction: it is one action since its rows stay locked from the
SELECT to the COMMIT, and since rows another claim has locked are skipped, a
batch may be any claimable rows up to the limit. Then event by event the worker
calls the publisher (`Publish`, `PublishRaises`), loads the row (`Load`) and
commits the changed columns (`Save`): `mark_published` and `mark_retry` take no
lock, so another worker may come in between. `Die` is whatever ends
`run_forever`. Time is its effect: `Expire` and `BackOffEnds`. `deliveries` and
`trouble` are history variables. `append` is modelled as the row its VALUES
describe: as written, the statement also names `correlation_id` and
`causation_id`, which are no columns of the table (`db.py:50-57`), so it cannot
be compiled; no test executes it, and no other service calls it yet.

### Payments

Node runs one request at a time up to its next `await`, and the only one is the
provider: `PayConflict`, `PayReplay` and `PayBegin` are `store.get` and what
follows it, `ProviderResolves` and `ProviderRejects` the provider,
`SaveAndAnswer` and `SaveFails` the INSERT under the primary key, with the answer.
`PayCrash` takes every request down at any of these points and leaves the table.
The provider is any `PaymentProvider`: the mock of the repository resolves at
once, but the interface is asynchronous. A response is named by the number of the
provider call it reports, so that two calls can be told apart when their texts
could not.

### LegacyAdapter

`DeliverKnown` and `DeliverNew` are the first SELECT, `CommitRecord` and
`CommitCollides` the commit, `FindWinner` the second SELECT. `CommitUnanswered`
is the commit whose answer never arrives: the `refresh` after it fails, or the
process dies. `Imported` maps the table to the claims of `ClaimLedger`.

### Documents

The handlers do not await between opening the database and closing it, so an
upload is one action: `ReplayUpload` (the key is known), `FindCopy` (the bytes
are), `StoreUpload` (file, then both INSERTs and the COMMIT). `CrashUpload` is an
upload that ends between file and COMMIT. A content is the set of words `rules.py`
looks for, so the review's recommendation is computed and not assumed.

### Copilot

FastAPI runs these handlers on threads, each with a connection of its own: a
statement is atomic and nothing else is. `StartDraft` is the SELECT of the
retrieval, `GenerateDraft` the generation (a hosted provider may be asked in
between), `StoreDraft` the INSERT; `StartApproval` and `DecideDraft` are the
SELECT and the UPDATE of an approval. A text is its set of tokens; scope, score,
sort key and cut-off of `retrieve` are modelled as they are. `knowledge` is
ordered by a wall clock that is read before the INSERT, so a new passage may rank
anywhere among the stored ones. `known` is history: what was stored when the
question was asked. An answer records the passages its generator was given
(`context`), whether it is the refusal, and who wrote it. A hosted model is told to
reply with the refusal if its context lacks the answer (`generator.py:33-37`), and
that reply is stored with its citations, so `Completions` leaves the refusal open;
whether a hosted text is true to its context is no property of this code.

### JwksCache

One process and its coroutines, which await nothing but the fetch; Keycloak is a
key set that gains and loses keys (`Publish`, `Retire`). `Serve` and `Receive` are
separate, so an answer may be overtaken. The four copies of the code differ in
when they read the clock for the expiry (`stampedAt`): before the fetch in policy,
claims and orchestrator, after it in the adapter; `map` therefore names lines of all
four. `MaxLatency` bounds a fetch from outside: httpx limits each phase of a
request, not the whole, so the bound is an assumption on the network.

### SupportServices

The six parts have no variable in common, and the services behind them do not call
one another in what is modelled here, but for the Claims Service asking for a policy, which is
inside `Lifecycles`. Their
product has no behaviour that the parts have not, so `exercised` picks the one
that gets requests; the run explores them side by side, with their own
interleavings in full.

## 3. Runs

All runs bound the number of requests, so they all stop in the end:
`CHECK_DEADLOCK FALSE` everywhere. Identifier sets are symmetric in the runs
that check invariants only; a run with a liveness property uses no symmetry.

### Runs that pass

| Run | Checks | Instance, and why it is enough |
|---|---|---|
| `OrchSequential` | types; audit, counter, category and steps agree with the row; at most one claim per workflow and calling user | 2 handlers that never execute the same workflow at once (`CONSTRAINT Undisturbed`), 2 workflows, 2 users, 2 keys, 3 claims, 2 retries, 2 attempts, 1 crash, 4 requests: two workflows under way together, every outcome of an attempt, then two retries by either user and a replay |
| `OrchConcurrent` | the properties that survive overlapping retries; one workflow per key; a completed row is never run again; every handler ends; a pending workflow settles | 2 handlers, 2 workflows, so that both starters could insert one, 1 key, 2 payloads, 1 retry, 2 attempts, 1 crash, 4 requests: a start race and a conflict, then two overlapping retries |
| `ClaimsConcurrent` | types, keyed claims, stable answers, the loser finds the winner, unique references, refinement of the ledger; every handler ends | 2 handlers, 2 keys, 2 payloads, 3 claims, one binary digit, 1 turn of the year, 1 crash, 3 requests: a race on one key, a replay, and a second number that repeats the first reference |
| `SupportServices` | types; the latest record tells the status, records are rooted, a claim's policy was active; payments answer consistently and are not charged again; imports agree with the record and refine the ledger; uploads resolve; drafts are grounded, and after an answered approval no request decides again; revoked keys expire and published ones are accepted | two requests at a time everywhere. Lifecycles: 1 policy, 1 claim, 1 crash, 6 requests: a policy activated by overlapping updates around a claim that is filed and reviewed. Payments: 1 key under 3 operations, 2 bodies (one declined), 2 calls, 1 fault: a race, a conflict, a crash between call and save. Adapter: 2 identities, 2 contents, 1 lost answer: a race with a different content. Documents: 2 contents, 2 keys, 2 file names, 3 documents, 1 review: a repeated upload with and without key, a crash before it. Copilot: 2 passages of which the better may arrive late, 2 questions, `top_k` 1 and 2, 1 draft. Keys: 1 key, 2 fetches, life 2, latency 1, time 4: a key published, cached, taken out, and a late answer |
| `Outbox` | only delivered events are published; duplicates and un-published events have a cause; every event is published | 2 workers, 2 events claimed together, per event one raised publication and one outlived lease, 1 death: a late retry meets the mark of another worker |

`AuditAccountsForRow`, `RetriesAudited` and `OutcomeExplained` hold where no two
handlers execute one workflow at the same time (`Undisturbed`); handlers of different
workflows may overlap as they like. `OrchSequential` explores the states of which
that is true, and so all behaviours in which it is true throughout; the theorems
have it as their hypothesis. The other properties of the saga hold for any overlap, and
all of them but the liveness ones are proved for it.

### Runs that refute a document

| Run | Statement | What the code does |
|---|---|---|
| `OrchStuckPending` | README.md:107, a partial failure is recoverable | a crash between the two commits leaves a pending workflow no operation accepts |
| `OrchParked` | README.md:23, an operator can retry a parked workflow (also :135, :151) | `retry_claim_workflow` takes up `failed` only (`workflow_service.py:261`) and the route answers 409 |
| `OrchTwoClaims` | spec 003:44, no duplicate claims on retry | the key is scoped by the retrying user at the Claims Service |
| `OrchFailedWithClaim` | spec 003:78-83, lost answers are reconciled | a rejection of a later attempt hides that an earlier one was stored |
| `ClaimsFormatted` | `models/claim.py:38`, same format as the database | `lpad` truncates, Python widens |
| `LifecyclesRace` | spec 002:117, spec 001:105, only listed transitions | check and write are not atomic |
| `DocumentsKeys` | `api.py:55`, `document-intelligence/README.md:3`: a key is not used for a different document | an upload recognized by its checksum returns before its key is recorded (`api.py:62-63`); the key is then accepted for other bytes |

### Divergences seen without a run of their own

- Overlapping retries of one workflow: spec 003:51 says a completed workflow is
  returned unchanged, but the retry that commits last writes its changed columns
  over the completed row: its failure category and steps, and
  `reconciliation_required` if its own POST had no known outcome
  (`CompletedIsNeverRerun` is what remains: never a state that is run again); spec 003:54 bounds the retries, but both read the same
  counter and are counted once; spec 003:93 wants an audit event for every
  transition, but each retry records its own view of the row. These are the
  three properties above that need `Undisturbed`, read without it.
- `models/claim.py:18` says concurrent inserts cannot collide; truncated
  references repeat, and the insert that meets one ends in a 500
  (`FlushCollides`).
- A declined payment is answered 402 and its replay 200 (`server.ts:44`, `:48`):
  the response is the saved one, the status code is not.
- Two approvals of one draft may overlap, and both are answered 200; the later
  one stands. `ApprovalsOverlap` permits that and says what remains: a request that
  begins after an approval was answered does not decide again.
- A hosted provider without a key is replaced by the deterministic generator with
  `degraded` false (`generator.py:175-196`): degraded means that the provider was
  asked and failed. `degraded_reason` is returned but not stored.

While modelling we also noted that the category `ClaimsServiceUnavailable`, one
of the two that `retry_claim_workflow` accepts, is never recorded: every path
of `create_claim` that could raise it raises
`ClaimsServiceReconciliationRequired` instead (`claims_client.py:96-110`). In
practice a workflow is retryable only after its policy check failed.

## 4. Fairness

`FairSpec` puts weak fairness on `Proceed(h)` of each handler and on nothing
else. `Proceed` contains what happens once an await ends: every HTTP call has a
timeout of two seconds and a bounded number of attempts, a database call
returns or fails, and a transaction that waits for a unique key is woken when
its holder ends. No client has to send a request, the Claims Service does not
have to serve anything (`ClaimStored` is outside `Proceed`; the attempt times
out instead), nothing has to crash. `PendingSettles`
speaks of behaviours in which no handler has died (`aborts = 0`): after a
crash a workflow may stay pending, as `OrchStuckPending` shows.

In `Outbox` every worker polls again and again and finishes what it has begun,
leases expire and back-offs end, and the publisher raises a bounded number of
times per event: `EventsArePublished` is a promise of the outbox, not of the
broker. A dead worker does not come back.

The parts of `SupportServices` have safety properties only and no fairness: their
requests are served by one process without waiting for one another.

## 5. Proofs

TLAPS checks every theorem for all values of the constants, under the
assumptions the modules name: `NoClaim` is no claim, the limits are natural
numbers, at least one attempt is made, a reference has at least one digit, a
passage has finitely many words, a question asks for one to ten passages, a blob
is made of the scanner's words, and fetching the keys takes less than their
lifetime.

**`OrchestratorProofs`.** None of the safety properties is inductive: a commit
merges a unit of work into whatever row is there by then, so one has to know
how a unit of work relates to the row it was loaded from and how that row may
have changed. `IInv` has three parts besides the types.

- `KeysInv`: a scope and a workflow have one idempotency record each; whatever
  carries a workflow's name (a unit of work, a claim, a stray POST) carries the
  key and the payload of that record. So all claims of a completed workflow's
  key are its own.
- `RunsInv`, per row: what the state says about claim, category, steps and
  counter.
- `RunsInv`, per unit of work: either it is the workflow's first run, which is
  the only run of its workflow and finds the row as it inserted it; or it is a
  retry that was loaded from a failed row with no claim, whose row has had an
  outcome ever since.

With it, the effect of `Merge` is a case analysis (`CommitRow`): a retry that
failed changes neither the state nor the claim it loaded, a retry that
completed writes both. The lemmas `...Edits` state what each helper returns, the lemmas `...Moves` that
a step inside `_execute_workflow` changes one unit of work and nothing else.
Proved: `TypeCorrect`, `CompletedBacked`, `UnfinishedWithoutClaim`,
`RetriesNeverExceed`, `KeyNamesWorkflow`, `CallerGetsOneClaim` and the action
property `CompletedStaysDone`: a commit over a completed row leaves it completed or makes it
`reconciliation_required`, and neither is retried.

`OutcomeInv` is a second invariant on top of the first, about what an outcome
leaves behind: once the POST is on its way the first step is closed, a unit of work
about to be committed has closed steps and, if it needs reconciliation, the alert
in its log; and so has every settled row and its trail. A commit over a row that
another retry settled writes closed steps over closed ones (`MergeSteps`), and an
alert in either part of a trail is one in the whole (`AlertsConcat`). It gives
`NoTornRow` and `ReconciliationRaisesAlert` for any number of overlapping retries.

`StoryInv` is a third, about the audit trail, and needs `Undisturbed` at every step: a
unit of work finds the row as it loaded it. Then the trail committed so far and the
events in memory, put together, tell the row in memory (`Tale`), and a commit merges
nothing but what it tells (`MergeFresh`). What makes this provable is how a trail is
read: `Leads` says of the positions of a kind of event that each one starts from the
state the one before it led to, `Count` is the cardinality of a set of positions. Both
are about index sets and not about filtered sequences, so a concatenation is handled by
shifting one set of positions past the other (`LeadsConcat`, `CountConcat`) without
induction. It gives `TrailAccountsForRow`, `RetriesAreAudited` and
`OutcomeIsExplained`, for any number of handlers; `OneHandlerIsUndisturbed` is the
case that the hypothesis holds by itself.

`SagaKeepsLedger`: seen from the Claims Service, the saga with its timeouts, crashes and
abandoned POSTs is a caller like any other. It closes the argument between the two
services: the Claims Service implements `ClaimLedger` (`ImplementsLedger`), and the
Orchestrator uses it by its rules.

**`ClaimsServiceProofs`.** The invariant joins the two tables (claims and
records are one to one, fingerprints agree), the open transactions (each has an
identifier and, once flushed, a reference of its own) and the answers given.
From it follow `ClaimsAreKeyed`, `AnswersAreStable`, `LoserFindsWinner`,
`ReferencesStayUnique`, and `ImplementsLedger`: initial states map to the empty
ledger, `Commit` to the creation of a claim under a free scope (`CommitCreates`),
every other step to a stutter.

References are the other half. `Pow` and `Lpad` are defined by recursion, and induction
is not available as a rule here (its theorem takes an operator as parameter), so every
induction is written as a least counterexample: a non-empty set of naturals has a
least element (`LeastNatural`, from the library's well-founded relations), and what
holds below it holds of it too. In this way the recursion of `Pow` is shown to define
a function (`PowersExist`, `PowIs`), and `Lpad` to return the number itself while it fits
(`LpadFits`). `TypeCorrect` follows. `SerialInv` adds that no two rows, committed or
in an open transaction, drew the same number: so below the capacity every reference
is its number (`FormattedWhileItFits`), nothing collides or waits on the unique index
of references (`NoCollisionWhileItFits`), and there are never more claims than
references (`ReferencesBoundTheClaims`, by an injection into year and number).

**`LifecyclesProofs`.** `LatestIsStatus`, `RecordsAreRooted` and `CoverIsSound`
for any number of concurrent requests. Since the records have no order, the invariant
says which of them was committed last: there is a record that tells the status, no
record was committed after it, and a record that begins after all others were
committed can only be that one. `Witnessed` says that every set of statuses that holds
the initial one and is closed under the records holds this one too, which is how
"reached by following records" is said without recursion; a set closed under more
records is closed under fewer (`WitnessedStays`), so what a handler has read stays witnessed until it
saves, whoever overwrites the row meanwhile. In the same way the activation of the
policy a handler has checked stays recorded (`CoverIsSound`).

**`OutboxProofs`.** Duplicates are no invariant of one state: the invariant adds
who has an event and how its deliveries are accounted for. `LeaseInv`: while no
lease of an event was outlived, at most one worker has it, the row is pending and
leased, and what the worker has loaded says so too. `CountInv`: all deliveries
but one are covered by a raised publication or a lost worker, and all of them
unless the event is published or about to be. Both are conditional on `late = 0`,
and so are `DuplicatesAreExplained` and `PublishedStaysPublished`. Without the
condition the first is false with three workers: a late mark clears the lease of
the worker that has the event now.

**`ReceiversProofs`.** Payments and imports promise the same thing: what was
answered once is answered for ever. The invariants say that every answer given
agrees with the row under its key (`Agrees`), and that no action changes a
row; races and crashes then need no case of their own. `LegacyImplementsLedger`
maps the commit, answered or not, to the creation of an entry.

The invariant of the documents is about the stores, not the answers: a file
and a row come together under an identifier neither had before, one row per content and
filing, and every key and every answer names a row. A crash leaves a file under an
identifier that is never used again, so `UploadsAlwaysResolve` holds through it.

**`CopilotProofs`.** Two arguments. Retrieval: the sort key leaves no ties
(`RankIsStrict`), so the number of passages above one grows down the order
(`AboveGrows`), the worst passage kept bounds how many are kept
(`RetrievesAtMostTopK`), and the best one cut off shows that `top_k` better ones
were kept (`RetrievesTheBest`). Time: `Remembers`, what a request or a draft cites
is what retrieval makes of the passages known when it was asked, whatever came
since, since identifiers are never reused. That the answer's context is what is cited, and who
may have refused, comes with the row. `DecidedStayDecided` needs that a verdict
names a draft that is decided (`VerdictsDecide`) and that identifiers are unique.

**`JwksCacheProofs`.** The time of each key set is the invariant: in flight, it
holds only keys published after the fetch began or still published then, and lacks
only keys that were out of the set at some time since (`FetchInv`); in the cache,
its expiry lies at most `Honoured` after that time (`CacheInv`). Since every key's
`since` and `until` are set once, what was so at a time in the past stays so
(`PastStays`), and an older answer that arrives last brings its older expiry along
where the clock is read before the fetch; in the adapter `MaxLatency` covers the
difference, under the assumption that it is smaller than the life of the cache.

**`SupportServicesProofs`.** The run checks the six parts on their composition, the
theorems above are about each one's own specification. `PartsAreImplemented` closes
the gap: a step of the whole is a step of one part and a stutter of the others
(`StepsOfParts`), so the composed `Spec` implies each part's, and `TypeCorrect`,
`AnswersAreTrue` and `AnswersStand` carry all their properties over to exactly the
specification the run checks.

### Where the documents are right

Each run that refutes a document has a theorem beside it that says under which condition
the statement does hold, for every number of handlers and through everything the
condition does not exclude. Together they show that the counterexample is the only kind
there is.

| Run | Theorem | Holds if |
|---|---|---|
| `OrchStuckPending` | `OnlyCrashesStrand` | no handler has died yet (`PendingInv`: a pending row is being executed) |
| `OrchTwoClaims` | `OwnRetriesCreateOneClaim` | only the user who started a workflow retries it (`OwnedInv`: what was or may be posted for a workflow is its owner's) |
| `OrchFailedWithClaim` | `OnlyLateRejectionsHideClaims` | no handler has died, and no POST is rejected that was sent before (`DoubtInv`: a workflow something was posted for is finished, or in the hands of a handler that will finish it) |
| `ClaimsFormatted` | `FormattedWhileItFits` | the number has at most as many digits as the reference |
| `LifecyclesRace` | `UnsharedIsLegal` | no two updates of one row are between read and commit (`FreshInv`: the status read is still the status) |
| `DocumentsKeys` | `RecordedKeysNameOneDocument` | no new key meets bytes that are filed already (`KeysRecorded`: a keyed answer is recorded under its key) |

A condition is a hypothesis on the behaviour (`[]Undisturbed`, `[][~ LateRejection]_vars`), not an
assumption on the constants: the unrestricted specification has behaviours that satisfy
it, with crashes, timeouts and races of every other kind.

### Model-checked only

- Liveness (`HandlersFinish`, `PendingSettles`, `EventsArePublished`): out of the prover's reach.

Every other property of every passing run is a theorem. `AuditAccountsForRow`,
`RetriesAudited` and `OutcomeExplained` are theorems under `Undisturbed`, the
constraint of their run.

## 6. Not modelled, and the plan

- **Operations Portal.** Browser code whose promises concern one operator's view:
  a list loaded by an older request may replace a newer one (`main.ts:203-216`), and a
  submission that timed out is sent again under a fresh key (`api.ts:31`), for
  the platform a second workflow. Towards the services it is a client, and the
  models let a client send any request at any time. Both are listed as hazards; a
  module `Portal` is the next one to write.
- **`ClaimsPlatform`**: `Orchestrator` over `ClaimsService` instead of the ledger on
  a small instance. The refinement makes it redundant for safety; it would
  show the liveness of the two together.
- An abstract at-least-once queue refined by the outbox, with its proof; and the same
  question the table above answers for the sagas, for the outbox: which duplicates remain
  once a lease was outlived.

Left out for good: the wording of answers and prompts, views and styles, sample
data, migrations, logging, CI, the specification templates. None of them has a
protocol. The Copilot's `db()` also adds missing columns to an older database, on
whichever connection comes first and without a lock; that happens once per
database and is left out too. Keycloak and
PostgreSQL are modelled from how the services use them.
