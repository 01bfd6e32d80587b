---------------------------- MODULE Orchestrator ----------------------------
(***************************************************************************)
(* The claim-submission saga of services/orchestrator: every request       *)
(* handler of POST /workflows/claims and POST /workflows/{id}/retry, with  *)
(* the database rows it reads and commits, the HTTP calls it makes and the *)
(* failures it meets.                                                      *)
(*                                                                         *)
(* A handler is a coroutine with a database session of its own.  Between   *)
(* two awaits it only changes objects in memory, its unit of work; other   *)
(* handlers see nothing of it until it commits.  The Claims Service is its *)
(* ledger (module ClaimLedger); the Policy Service is an arbitrary answer. *)
(***************************************************************************)
EXTENDS Naturals, Sequences, FiniteSets

CONSTANTS
  Handlers,        \* concurrent request handlers
  Workflows,       \* workflow identifiers
  Subjects, Keys, Payloads, Claims,
  NoClaim,         \* claim_id IS NULL
  MaxRetryCount,   \* MAX_RETRY_COUNT of workflow_service.py (3)
  MaxAttempts,     \* MAX_RETRIES + 1 of claims_client.py (3)
  MaxRequests,     \* bound: requests the clients send
  MaxAborts        \* bound: handlers that die or raise an unexpected exception

ASSUME NoClaimAssumption == NoClaim \notin Claims
ASSUME RetryAssumption == MaxRetryCount \in Nat /\ MaxAttempts \in Nat \ {0}
ASSUME BoundsAssumption == MaxRequests \in Nat /\ MaxAborts \in Nat

VARIABLES
  workflow,    \* table workflow joined with workflow_step
  idem,        \* table workflow_idempotency_key
  audit,       \* table workflow_audit_event, per workflow in commit order
  claims,      \* the Claims Service's ledger
  session,     \* per handler: the request it serves and its unit of work
  stray,       \* POST /claims given up by the caller, that may still be served
  accepted,    \* history: what clients of POST /workflows/claims were answered
  requests, aborts   \* counters of the two bounds

dbVars == <<workflow, idem, audit>>
vars == <<workflow, idem, audit, claims, session, stray, accepted, requests, aborts>>

Ledger == INSTANCE ClaimLedger WITH Origins <- Workflows

-----------------------------------------------------------------------------
(* Rows, audit events and sessions *)

Steps == {"policy_verification", "claim_submission"}
States == {"PENDING", "POLICY_VERIFIED", "CLAIM_SUBMITTED", "COMPLETED", "FAILED",
           "RECONCILIATION_REQUIRED"}
StepStates == {"PENDING", "RUNNING", "SUCCEEDED", "FAILED", "SKIPPED"}

PolicyFailures == {"PolicyNotFound", "PolicyNotActive", "PolicyServiceUnavailable"}
Categories == PolicyFailures \cup {"None", "ClaimsServiceRejected",
                "ClaimsServiceUnavailable", "ClaimsServiceReconciliationRequired"}

Absent == [state |-> "ABSENT"]   \* no such row
Row == [state: States, claim: Claims \cup {NoClaim}, category: Categories,
        retries: Nat, payload: Payloads, steps: [Steps -> [state: StepStates, error: Categories]]]

Key == [subject: Subjects, key: Keys, payload: Payloads, workflow: Workflows]

Markers == {"workflow_created", "reconciliation_required", "retry_started",
            "retry_succeeded", "retry_finished"}
StateChange == [type: {"workflow_state_changed"}, from: States, to: States]
StepChange(n) == [type: {"step_state_changed"}, step: {n}, from: StepStates, to: StepStates]
Event == [type: Markers] \cup StateChange \cup UNION {StepChange(n) : n \in Steps}

(* workflow.steps as the handler holds it.  Both rows carry the same       *)
(* created_at (one transaction), so a query ordered by it returns them in  *)
(* either order.                                                           *)
StepOrder == {<<"policy_verification", "claim_submission">>,
              <<"claim_submission", "policy_verification">>}

Idle == [pc |-> "idle"]
Starting == [pc: {"insert", "relookup"}, caller: Subjects, key: Keys, payload: Payloads]
Executing == [pc: {"policy", "sent", "stored", "commit"}, caller: Subjects, key: Keys,
              wf: Workflows, retry: BOOLEAN, order: StepOrder, attempt: 1..MaxAttempts,
              loaded: Row, row: Row, log: Seq(Event)]

Post == [subject: Subjects, key: Keys, payload: Payloads, workflow: Workflows]

TypeOK ==
  /\ workflow \in [Workflows -> Row \cup {Absent}]
  /\ idem \subseteq Key
  /\ audit \in [Workflows -> Seq(Event)]
  /\ claims \subseteq Ledger!ClaimRow
  /\ session \in [Handlers -> {Idle} \cup Starting \cup Executing]
  /\ stray \subseteq Post
  /\ accepted \subseteq Key
  /\ requests \in 0..MaxRequests
  /\ aborts \in 0..MaxAborts

NewRow(p) ==
  [state |-> "PENDING", claim |-> NoClaim, category |-> "None", retries |-> 0, payload |-> p,
   steps |-> [n \in Steps |-> [state |-> "PENDING", error |-> "None"]]]

Init ==
  /\ workflow = [w \in Workflows |-> Absent]
  /\ idem = {}
  /\ audit = [w \in Workflows |-> <<>>]
  /\ Ledger!Init
  /\ session = [h \in Handlers |-> Idle]
  /\ stray = {}
  /\ accepted = {}
  /\ requests = 0
  /\ aborts = 0

-----------------------------------------------------------------------------
(* Edits of the unit of work u = [row, log]: what the helpers of           *)
(* workflow_service.py do to the objects in memory, and the audit events   *)
(* they add to be inserted with the next commit.                           *)

Marker(type) == [type |-> type]

SetState(u, s) ==
  IF u.row.state = s THEN u
  ELSE [row |-> [u.row EXCEPT !.state = s],
        log |-> Append(u.log, [type |-> "workflow_state_changed", from |-> u.row.state, to |-> s])]

SetStep(u, n, s, err) ==
  IF u.row.steps[n] = [state |-> s, error |-> err] THEN u
  ELSE [row |-> [u.row EXCEPT !.steps[n] = [state |-> s, error |-> err]],
        log |-> Append(u.log, [type |-> "step_state_changed", step |-> n,
                               from |-> u.row.steps[n].state, to |-> s])]

(* Closes a step that is still open. *)
ClosePending(u, n, s, err) ==   \* mutant: a running step stays open
  IF u.row.steps[n].state = "PENDING" THEN SetStep(u, n, s, err) ELSE u

CloseStep(u, n, s, err) ==
  IF u.row.steps[n].state \in {"PENDING", "RUNNING"} THEN SetStep(u, n, s, err) ELSE u

FailSilently(u, order, category, reconciliation) ==   \* mutant: no alert event
  CloseStep(CloseStep(SetState([u EXCEPT !.row.category = category],
                               IF reconciliation THEN "RECONCILIATION_REQUIRED" ELSE "FAILED"),
                      order[1], "FAILED", category), order[2], "SKIPPED", category)
FailSteps(u, order, category, reconciliation) ==   \* mutant: the state is left as it was
  CloseStep(CloseStep(u, order[1], "FAILED", category), order[2], "SKIPPED", category)

(* The first open step of the list fails, the second is skipped. *)
MarkFailure(u, order, category, reconciliation) ==
  LET target == IF reconciliation THEN "RECONCILIATION_REQUIRED" ELSE "FAILED"
      named  == SetState([u EXCEPT !.row.category = category], target)
      first  == CloseStep(named, order[1], "FAILED", category)
      both   == CloseStep(first, order[2], "SKIPPED", category)
  IN  IF reconciliation
      THEN [both EXCEPT !.log = Append(both.log, Marker("reconciliation_required"))]
      ELSE both

MarkVerified(u, order) ==
  SetStep(SetState(SetStep(u, order[1], "SUCCEEDED", "None"), "POLICY_VERIFIED"),
          order[2], "RUNNING", "None")

MarkCompleted(u, order, id) ==
  SetState(SetState(SetStep([u EXCEPT !.row.claim = id], order[2], "SUCCEEDED", "None"),
                    "CLAIM_SUBMITTED"), "COMPLETED")

(* The reset with which a retry begins: the counter, the state, the category ... *)
Uncounted(row) ==   \* mutant: the counter is not incremented
  [SetState([row |-> row, log |-> <<Marker("retry_started")>>], "PENDING")
     EXCEPT !.row.category = "None"]
Unaudited(row) ==   \* mutant: the state is assigned without its audit event
  [row |-> [row EXCEPT !.retries = row.retries + 1, !.state = "PENDING", !.category = "None"],
   log |-> <<Marker("retry_started")>>]
Uncleared(row) ==   \* mutant: the failure category stays
  SetState([row |-> [row EXCEPT !.retries = row.retries + 1], log |-> <<Marker("retry_started")>>],
           "PENDING")

CountRetry(row) ==
  LET counted == [row |-> [row EXCEPT !.retries = row.retries + 1],
                  log |-> <<Marker("retry_started")>>]
  IN  [SetState(counted, "PENDING") EXCEPT !.row.category = "None"]

(* ... and both steps. *)
MarkRetried(row, order) ==
  SetStep(SetStep(CountRetry(row), order[1], "PENDING", "None"), order[2], "PENDING", "None")

(* SQLAlchemy's UPDATE sets the columns whose value differs from the one   *)
(* that was loaded; the other columns keep what the table holds by then.   *)
Written(new, loaded, stored) == IF new # loaded THEN new ELSE stored

Overwrite(stored, loaded, new) == new   \* mutant: every column is written
MergeStale(stored, loaded, new) ==   \* mutant: claim_id is written although unchanged
  [new EXCEPT !.state = Written(new.state, loaded.state, stored.state)]
MergeState(stored, loaded, new) ==   \* mutant: state is written although unchanged
  [new EXCEPT !.claim = Written(new.claim, loaded.claim, stored.claim)]

Merge(stored, loaded, new) ==
  [state    |-> Written(new.state, loaded.state, stored.state),
   claim    |-> Written(new.claim, loaded.claim, stored.claim),
   category |-> Written(new.category, loaded.category, stored.category),
   retries  |-> Written(new.retries, loaded.retries, stored.retries),
   payload  |-> stored.payload,
   steps    |-> [n \in Steps |->
                  [state |-> Written(new.steps[n].state, loaded.steps[n].state,
                                     stored.steps[n].state),
                   error |-> Written(new.steps[n].error, loaded.steps[n].error,
                                     stored.steps[n].error)]]]

-----------------------------------------------------------------------------
(* POST /workflows/claims *)

Existing(s, k) == {r \in idem : r.subject = s /\ r.key = k}

Request == requests < MaxRequests /\ requests' = requests + 1

(* The key is known: the original workflow is returned, or 409 when the    *)
(* request differs from the original one.                                  *)
Accepted(s, k, p, w) ==
  accepted \cup {[subject |-> s, key |-> k, payload |-> p, workflow |-> w]}

AnswerExisting(s, k, p) ==
  \E r \in Existing(s, k) :
     accepted' = IF r.payload = p THEN Accepted(s, k, p, r.workflow) ELSE accepted

StartDuplicate(h, s, k, p) ==
  /\ session[h] = Idle
  /\ Request
  /\ AnswerExisting(s, k, p)
  /\ UNCHANGED <<dbVars, claims, session, stray, aborts>>

StartNew(h, s, k, p) ==
  /\ session[h] = Idle
  /\ Request
  /\ Existing(s, k) = {}
  /\ session' = [session EXCEPT ![h] =
                   [pc |-> "insert", caller |-> s, key |-> k, payload |-> p]]
  /\ UNCHANGED <<dbVars, claims, stray, accepted, aborts>>

KeyUnchecked(s, k) == TRUE   \* mutant: no unique constraint
KeyUnique(s, k) == Existing(s, k) = {}

(* The first commit: workflow, both steps, idempotency record and the audit event. *)
Insert(h) ==
  LET me == session[h] IN
  /\ me.pc = "insert"
  /\ KeyUnique(me.caller, me.key)
  /\ \E w \in Workflows :
       /\ workflow[w] = Absent
       /\ workflow' = [workflow EXCEPT ![w] = NewRow(me.payload)]
       /\ idem' = idem \cup {[subject |-> me.caller, key |-> me.key,
                              payload |-> me.payload, workflow |-> w]}
       /\ audit' = [audit EXCEPT ![w] = <<Marker("workflow_created")>>]
       /\ session' = [session EXCEPT ![h] =
            [pc |-> "policy", caller |-> me.caller, key |-> me.key, wf |-> w, retry |-> FALSE,
             order |-> <<"policy_verification", "claim_submission">>, attempt |-> 1,
             loaded |-> NewRow(me.payload), row |-> NewRow(me.payload), log |-> <<>>]]
  /\ UNCHANGED <<claims, stray, accepted, requests, aborts>>

(* Another handler committed the key first: IntegrityError and rollback. *)
InsertLost(h) ==
  /\ session[h].pc = "insert"
  /\ ~ KeyUnique(session[h].caller, session[h].key)
  /\ session' = [session EXCEPT ![h].pc = "relookup"]
  /\ UNCHANGED <<dbVars, claims, stray, accepted, requests, aborts>>

AnswerLost(h) ==
  /\ session[h].pc = "relookup"
  /\ AnswerExisting(session[h].caller, session[h].key, session[h].payload)
  /\ session' = [session EXCEPT ![h] = Idle]
  /\ UNCHANGED <<dbVars, claims, stray, requests, aborts>>

-----------------------------------------------------------------------------
(* POST /workflows/{id}/retry: any agent, adjuster or admin may call it. *)

RetryableOnceMore(row) ==   \* mutant: > instead of >=
  /\ row.state = "FAILED"
  /\ row.category \in {"ClaimsServiceUnavailable", "PolicyServiceUnavailable"}
  /\ row.retries <= MaxRetryCount

Retryable(row) ==
  /\ row.state = "FAILED"
  /\ row.category \in {"ClaimsServiceUnavailable", "PolicyServiceUnavailable"}
  /\ row.retries < MaxRetryCount

(* 404, 409, or a completed workflow returned as it is. *)
RetryRefused(h, w) ==
  /\ session[h] = Idle
  /\ Request
  /\ ~ Retryable(workflow[w])
  /\ UNCHANGED <<dbVars, claims, session, stray, accepted, aborts>>

(* The row, its steps and its idempotency record are read at once here; the *)
(* code reads them with three SELECTs of one transaction, between which     *)
(* another handler may commit.                                              *)
RetryBegin(h, s, w) ==
  /\ session[h] = Idle
  /\ Request
  /\ Retryable(workflow[w])
  /\ \E r \in idem, order \in StepOrder :
       /\ r.workflow = w
       /\ LET u == MarkRetried(workflow[w], order) IN
          session' = [session EXCEPT ![h] =
            [pc |-> "policy", caller |-> s, key |-> r.key, wf |-> w, retry |-> TRUE,
             order |-> order, attempt |-> 1, loaded |-> workflow[w], row |-> u.row,
             log |-> u.log]]
  /\ UNCHANGED <<dbVars, claims, stray, accepted, aborts>>

-----------------------------------------------------------------------------
(* _execute_workflow, for a new workflow and for a retry *)

InMemory(me) == [row |-> me.row, log |-> me.log]

(* The handler goes on at pc with the unit of work u. *)
Continue(h, pc, u) ==
  session' = [session EXCEPT ![h] = [session[h] EXCEPT !.pc = pc, !.row = u.row, !.log = u.log]]

Fail(h, category, reconciliation) ==
  Continue(h, "commit",
           MarkFailure(InMemory(session[h]), session[h].order, category, reconciliation))

Unreconciled(h) == Fail(h, "ClaimsServiceReconciliationRequired", TRUE)

PolicyVerified(h) ==
  /\ session[h].pc = "policy"
  /\ Continue(h, "sent", MarkVerified(InMemory(session[h]), session[h].order))
  /\ UNCHANGED <<dbVars, claims, stray, accepted, requests, aborts>>

PolicyFailed(h) ==
  /\ session[h].pc = "policy"
  /\ \E category \in PolicyFailures : Fail(h, category, FALSE)
  /\ UNCHANGED <<dbVars, claims, stray, accepted, requests, aborts>>

(* The POST in flight: "sent" until the Claims Service has stored or       *)
(* found the claim, then "stored", with the answer on its way.             *)
Awaiting(h) == session[h].pc \in {"sent", "stored"}

PostAnew(me) ==   \* mutant: each attempt mints a key of its own
  [subject |-> me.caller, key |-> IF me.attempt > 1 THEN CHOOSE k \in Keys : k # me.key ELSE me.key,
   payload |-> me.row.payload, workflow |-> me.wf]

PostOf(me) == [subject |-> me.caller, key |-> me.key, payload |-> me.row.payload,
               workflow |-> me.wf]

ClaimStored(h) ==
  /\ session[h].pc = "sent"
  /\ LET m == PostOf(session[h]) IN Ledger!Accept(m.subject, m.key, m.payload, m.workflow)
  /\ session' = [session EXCEPT ![h].pc = "stored"]
  /\ UNCHANGED <<dbVars, stray, accepted, requests, aborts>>

(* 201 with the claim's id *)
ClaimReturned(h) ==
  /\ session[h].pc = "stored"
  /\ \E c \in Ledger!Bound(PostOf(session[h]).subject, PostOf(session[h]).key) :
       Continue(h, "commit", MarkCompleted(InMemory(session[h]), session[h].order, c.id))
  /\ UNCHANGED <<dbVars, claims, stray, accepted, requests, aborts>>

(* 4xx: the token has expired, the caller is an admin, the policy is no longer active, the
   key is bound to another request.  This POST has stored nothing. *)
ClaimRejected(h) ==
  /\ session[h].pc = "sent"
  /\ Fail(h, "ClaimsServiceRejected", FALSE)
  /\ UNCHANGED <<dbVars, claims, stray, accepted, requests, aborts>>

(* A success whose body is no claim, or a status that is neither 2xx, 4xx nor 5xx. *)
ClaimUnrecognizable(h) ==
  /\ Awaiting(h)
  /\ Unreconciled(h)
  /\ UNCHANGED <<dbVars, claims, stray, accepted, requests, aborts>>

(* The same POST again while attempts are left; then the outcome is unknown. *)
AttemptOnceMore(h) ==   \* mutant: off by one
  IF session[h].attempt <= MaxAttempts
  THEN session' = [session EXCEPT ![h] = [session[h] EXCEPT !.pc = "sent",
                                            !.attempt = session[h].attempt + 1]]
  ELSE Unreconciled(h)
AttemptForever(h) ==   \* mutant: the attempts are not counted
  session' = [session EXCEPT ![h].pc = "sent"]

AttemptAgain(h) ==
  IF session[h].attempt < MaxAttempts
  THEN session' = [session EXCEPT ![h] = [session[h] EXCEPT !.pc = "sent",
                                            !.attempt = session[h].attempt + 1]]
  ELSE Unreconciled(h)

(* 5xx: the Claims Service is done with this POST, before or after its commit. *)
ClaimServerError(h) ==
  /\ Awaiting(h)
  /\ AttemptAgain(h)
  /\ UNCHANGED <<dbVars, claims, stray, accepted, requests, aborts>>

(* A POST that was not served yet is out of its sender's sight, not of the server's. *)
Abandon(h) ==
  stray' = IF session[h].pc = "sent" THEN stray \cup {PostOf(session[h])} ELSE stray

(* Timeout, refused connection or broken connection *)
ClaimTimeout(h) ==
  /\ Awaiting(h)
  /\ AttemptAgain(h)
  /\ Abandon(h)
  /\ UNCHANGED <<dbVars, claims, accepted, requests, aborts>>

(* The Claims Service serves a POST nobody waits for any more. *)
StrayStored(m) ==
  /\ Ledger!Create(m.subject, m.key, m.payload, m.workflow)
  /\ UNCHANGED <<dbVars, session, stray, accepted, requests, aborts>>

(* The last commit writes the changed columns and inserts the audit events. *)
Commit(h) ==
  LET me == session[h]
      finish == IF ~ me.retry THEN <<>>
                ELSE IF me.row.state = "COMPLETED" THEN <<Marker("retry_succeeded")>>
                ELSE <<Marker("retry_finished")>> IN
  /\ me.pc = "commit"
  /\ workflow' = [workflow EXCEPT ![me.wf] = Merge(workflow[me.wf], me.loaded, me.row)]
  /\ audit' = [audit EXCEPT ![me.wf] = audit[me.wf] \o me.log \o finish]
  /\ accepted' = IF me.retry THEN accepted
                 ELSE Accepted(me.caller, me.key, me.row.payload, me.wf)
  /\ session' = [session EXCEPT ![h] = Idle]
  /\ UNCHANGED <<idem, claims, stray, requests, aborts>>

(* An exception no handler catches (httpx.RemoteProtocolError, a 4xx       *)
(* without JSON, a claim id that is no UUID), a lost database connection   *)
(* or the death of the process: the unit of work is rolled back.  A crash  *)
(* of the service is one Abort of each of its handlers.                    *)
Abort(h) ==
  /\ session[h] # Idle
  /\ aborts < MaxAborts
  /\ aborts' = aborts + 1
  /\ session' = [session EXCEPT ![h] = Idle]
  /\ Abandon(h)
  /\ UNCHANGED <<dbVars, claims, accepted, requests>>

-----------------------------------------------------------------------------
Receive(h) ==
  \/ \E s \in Subjects, k \in Keys, p \in Payloads :
       StartDuplicate(h, s, k, p) \/ StartNew(h, s, k, p)
  \/ \E w \in Workflows : RetryRefused(h, w)
  \/ \E s \in Subjects, w \in Workflows : RetryBegin(h, s, w)

(* What a handler does by itself, once the network has answered or timed out. *)
Proceed(h) ==
  \/ Insert(h) \/ InsertLost(h) \/ AnswerLost(h)
  \/ PolicyVerified(h) \/ PolicyFailed(h)
  \/ ClaimReturned(h) \/ ClaimRejected(h) \/ ClaimUnrecognizable(h)
  \/ ClaimServerError(h) \/ ClaimTimeout(h)
  \/ Commit(h)

Next ==
  \/ \E h \in Handlers : Receive(h) \/ Proceed(h) \/ ClaimStored(h) \/ Abort(h)
  \/ \E m \in stray : StrayStored(m)

Spec == Init /\ [][Next]_vars

(* Every await of a handler ends: database calls return, HTTP calls are    *)
(* answered or time out after REQUEST_TIMEOUT_SECONDS.                     *)
FairSpec == Spec /\ \A h \in Handlers : WF_vars(Proceed(h))

-----------------------------------------------------------------------------
(* Safety *)

KeysOf(w) == {r.key : r \in {q \in idem : q.workflow = w}}

(* A completed workflow names a claim that the Claims Service really holds, created from
   this workflow's request and under its idempotency key (workflow_service.py:132-145). *)
Backed(w, r) ==
  \E c \in claims : c.id = r.claim /\ c.payload = r.payload /\ c.key \in KeysOf(w)
CompletedIsBacked ==
  \A w \in Workflows : workflow[w].state = "COMPLETED" => Backed(w, workflow[w])

(* A row that says pending or failed carries no claim, whatever retries ran at the same
   time: the column-wise UPDATE never puts the failure of one handler's unit of work beside
   the claim another one committed (workflow_service.py:237, 309). *)
UnfinishedHasNoClaim ==
  \A w \in Workflows : workflow[w].state \in {"PENDING", "FAILED"} => workflow[w].claim = NoClaim

(* The retry counter of a row never exceeds MAX_RETRY_COUNT (workflow_service.py:270). *)
RetriesBounded ==
  \A w \in Workflows : workflow[w] # Absent => workflow[w].retries <= MaxRetryCount

(* One subject's key names one workflow, for the clients as well as in the tables: whoever
   is answered with a workflow is answered with the one its key and request created, also
   when two first requests race (workflow_service.py:167-234). *)
OneWorkflowPerKey ==
  /\ \A q, r \in idem :
       (q.subject = r.subject /\ q.key = r.key) \/ q.workflow = r.workflow => q = r
  /\ \A a \in accepted : a \in idem /\ workflow[a.workflow].payload = a.payload

(* However often a workflow is attempted, timed out, aborted and retried, its POSTs create
   at most one claim per calling user (workflow_service.py:298: the original key). *)
OneClaimPerCaller ==
  \A c, d \in claims : c.origin = d.origin /\ c.subject = d.subject => c = d

(* A workflow that needs reconciliation has raised the alert event (spec 003, failure
   rules; workflow_service.py:110-116). *)
ReconciliationAlerted ==
  \A w \in Workflows : workflow[w].state = "RECONCILIATION_REQUIRED" =>
    \E i \in DOMAIN audit[w] : audit[w][i].type = "reconciliation_required"

(* Every committed row outside PENDING has its steps closed, and only a row whose handler
   has not committed yet is PENDING: no half-way state is ever visible
   (workflow_service.py:227-237, one commit after both calls). *)
CommittedIsSettled ==
  \A w \in Workflows :
    /\ workflow[w].state \in {"ABSENT", "PENDING", "FAILED", "COMPLETED", "RECONCILIATION_REQUIRED"}
    /\ workflow[w].state \notin {"ABSENT", "PENDING"} =>
         \A n \in Steps : workflow[w].steps[n].state \notin {"PENDING", "RUNNING"}

(* Once completed, a workflow is never run again: a retry that overlapped the one which
   completed it may still commit reconciliation_required over the row, but never a state that
   a later retry would take up and post a claim for (workflow_service.py:258-271, 309). *)
CompletedIsNeverRerun ==
  [][\A w \in Workflows : workflow[w].state = "COMPLETED" =>
       /\ workflow'[w].state \in {"COMPLETED", "RECONCILIATION_REQUIRED"}
       /\ ~ Retryable(workflow'[w])]_workflow

-----------------------------------------------------------------------------
(* Safety of workflows whose handlers do not overlap *)

Executes(h, w) == session[h] # Idle /\ session[h] \notin Starting /\ session[h].wf = w
Undisturbed ==
  \A g, h \in Handlers, w \in Workflows : Executes(g, w) /\ Executes(h, w) => g = h

(* What the events of log at the indices say has become of first. *)
Tells(log, at, first, last) ==
  IF at = {} THEN last = first
  ELSE \E j \in at : (\A i \in at : i <= j) /\ last = log[j].to

(* The changes of a kind lead from one state to another without a gap. *)
Leads(log, kind, first, last) ==
  LET at == {i \in DOMAIN log : log[i] \in kind} IN
  /\ \A i \in at : Tells(log, {j \in at : j < i}, first, log[i].from)
  /\ Tells(log, at, first, last)

(* The audit trail tells the whole story: replaying its events gives the state of the
   workflow and of both steps in the tables (spec 003, FR-007). *)
AuditAccountsForRow ==
  \A w \in Workflows : workflow[w] # Absent =>
    /\ Leads(audit[w], StateChange, "PENDING", workflow[w].state)
    /\ \A n \in Steps : Leads(audit[w], StepChange(n), "PENDING", workflow[w].steps[n].state)

Count(log, types) == Cardinality({i \in DOMAIN log : log[i].type \in types})

(* The counter, the attempts in the audit trail and the outcomes there agree. *)
RetriesAudited ==
  \A w \in Workflows : workflow[w] # Absent =>
    /\ Count(audit[w], {"retry_started"}) = workflow[w].retries
    /\ Count(audit[w], {"retry_succeeded", "retry_finished"}) = workflow[w].retries

(* The failure category explains the state, and the steps agree with it: all of them
   succeeded in a completed workflow, none of them kept an error then. *)
OutcomeExplained ==
  \A w \in Workflows : workflow[w] # Absent =>
    /\ workflow[w].category # "None" <=>
         workflow[w].state \in {"FAILED", "RECONCILIATION_REQUIRED"}
    /\ workflow[w].state = "COMPLETED" <=>
         \A n \in Steps : workflow[w].steps[n] = [state |-> "SUCCEEDED", error |-> "None"]

-----------------------------------------------------------------------------
(* Liveness *)

(* A handler ends: its retry loops are bounded (claims_client.py:66). *)
HandlersFinish == \A h \in Handlers : session[h] # Idle ~> session[h] = Idle

(* As long as no handler dies, a started workflow reaches an outcome: the commit of line 237
   or 309 always follows, whatever the network answers. *)
PendingSettles ==
  \A w \in Workflows :
    workflow[w].state = "PENDING" /\ aborts = 0
      ~> workflow[w].state \notin {"ABSENT", "PENDING"} \/ aborts > 0

-----------------------------------------------------------------------------
(* What the documents say and the code does not do: each is refuted by a run *)

(* README.md:107 "Each step is persisted, so a partial failure is recoverable rather than
   silently lost": a pending workflow is being executed or can be taken up again. *)
PartialFailureIsRecoverable ==
  \A w \in Workflows : workflow[w].state = "PENDING" => \E h \in Handlers : Executes(h, w)

(* README.md:23 "the workflow is parked in a reconciliation_required state [...] An operator
   can then retry it from the console" (also :135 and :151): a parked workflow with retries
   left is one that POST /workflows/{id}/retry takes up. *)
ParkedCanBeRetried ==
  \A w \in Workflows :
    workflow[w].state = "RECONCILIATION_REQUIRED" /\ workflow[w].retries < MaxRetryCount =>
      Retryable(workflow[w])

(* Spec 003:44 "retry a retryable failed workflow without creating duplicate claims". *)
OneClaimPerWorkflow == \A c, d \in claims : c.origin = d.origin => c = d

(* Spec 003:78-83: a claim whose creation succeeded is reconciled, or the workflow becomes
   reconciliation_required; a failed workflow nobody works on has no claim. *)
FailedHasCreatedNothing ==
  \A w \in Workflows :
    workflow[w].state = "FAILED" /\ ~ (\E h \in Handlers : Executes(h, w)) =>
      \A c \in claims : c.origin # w
=============================================================================
