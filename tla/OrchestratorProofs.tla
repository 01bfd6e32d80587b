------------------------- MODULE OrchestratorProofs -------------------------
(***************************************************************************)
(* What holds of the saga for every number of handlers, workflows, users,  *)
(* keys, attempts, retries, requests and crashes.                          *)
(***************************************************************************)
EXTENDS Orchestrator, FiniteSetTheorems, TLAPS

Unit == [row: Row, log: Seq(Event)]

(* The columns of two rows that the edit of a step leaves alone. *)
SameHead(r, q) ==
  /\ r.state = q.state /\ r.claim = q.claim /\ r.category = q.category
  /\ r.retries = q.retries /\ r.payload = q.payload

-----------------------------------------------------------------------------
(* The edits of the unit of work *)

(* Setting the state changes no other column and logs a well-formed event. *)
LEMMA SetStateEdits ==
  ASSUME NEW u \in Unit, NEW s \in States
  PROVE  /\ SetState(u, s) \in Unit
         /\ SetState(u, s).row = [u.row EXCEPT !.state = s]
<1>. DEFINE e == [type |-> "workflow_state_changed", from |-> u.row.state, to |-> s]
<1>1. u.row \in Row /\ u.log \in Seq(Event)
  BY DEF Unit
<1>2. [u.row EXCEPT !.state = s] \in Row
  BY <1>1 DEF Row
<1>3. e \in Event
  <2>1. e \in StateChange
    BY <1>1 DEF StateChange, Row
  <2>. QED  BY <2>1 DEF Event
<1>4. Append(u.log, e) \in Seq(Event)
  BY <1>1, <1>3
<1>5. CASE u.row.state = s
  <2>1. [u.row EXCEPT !.state = s] = u.row
    BY <1>1, <1>5 DEF Row
  <2>. QED  BY <1>5, <2>1 DEF SetState
<1>6. CASE u.row.state # s
  BY <1>2, <1>4, <1>6 DEF SetState, Unit
<1>. QED  BY <1>5, <1>6

(* Setting a step changes no column of the workflow itself. *)
LEMMA SetStepEdits ==
  ASSUME NEW u \in Unit, NEW n \in Steps, NEW s \in StepStates, NEW err \in Categories
  PROVE  /\ SetStep(u, n, s, err) \in Unit
         /\ SameHead(SetStep(u, n, s, err).row, u.row)
<1>. DEFINE e == [type |-> "step_state_changed", step |-> n, from |-> u.row.steps[n].state, to |-> s]
            r == [u.row EXCEPT !.steps[n] = [state |-> s, error |-> err]]
<1>1. u.row \in Row /\ u.log \in Seq(Event)
  BY DEF Unit
<1>2. u.row.steps \in [Steps -> [state: StepStates, error: Categories]]
  BY <1>1 DEF Row
<1>3. r \in Row /\ SameHead(r, u.row)
  BY <1>1, <1>2 DEF Row, SameHead
<1>4. e \in Event
  <2>1. e \in StepChange(n)
    BY <1>2 DEF StepChange
  <2>. QED  BY <2>1 DEF Event
<1>5. Append(u.log, e) \in Seq(Event)
  BY <1>1, <1>4
<1>6. CASE u.row.steps[n] = [state |-> s, error |-> err]
  BY <1>6 DEF SetStep, SameHead
<1>7. CASE u.row.steps[n] # [state |-> s, error |-> err]
  BY <1>3, <1>5, <1>7 DEF SetStep, Unit
<1>. QED  BY <1>6, <1>7

LEMMA CloseStepEdits ==
  ASSUME NEW u \in Unit, NEW n \in Steps, NEW s \in StepStates, NEW err \in Categories
  PROVE  /\ CloseStep(u, n, s, err) \in Unit
         /\ SameHead(CloseStep(u, n, s, err).row, u.row)
BY SetStepEdits DEF CloseStep, SameHead

LEMMA OrderNamesSteps ==
  ASSUME NEW order \in StepOrder
  PROVE  order[1] \in Steps /\ order[2] \in Steps
BY DEF StepOrder, Steps

LEMMA UnitRow == ASSUME NEW u \in Unit PROVE u.row \in Row /\ u.log \in Seq(Event)
BY DEF Unit

(* A failure sets state and category, and leaves claim, counter and request alone. *)
LEMMA MarkFailureEdits ==
  ASSUME NEW u \in Unit, NEW order \in StepOrder, NEW c \in Categories, NEW b \in BOOLEAN
  PROVE  /\ MarkFailure(u, order, c, b) \in Unit
         /\ MarkFailure(u, order, c, b).row.state =
              IF b THEN "RECONCILIATION_REQUIRED" ELSE "FAILED"
         /\ MarkFailure(u, order, c, b).row.claim = u.row.claim
         /\ MarkFailure(u, order, c, b).row.retries = u.row.retries
         /\ MarkFailure(u, order, c, b).row.payload = u.row.payload
<1>. DEFINE target == IF b THEN "RECONCILIATION_REQUIRED" ELSE "FAILED"
            v      == [u EXCEPT !.row.category = c]
            named  == SetState(v, target)
            first  == CloseStep(named, order[1], "FAILED", c)
            both   == CloseStep(first, order[2], "SKIPPED", c)
            alert  == [both EXCEPT !.log = Append(both.log, Marker("reconciliation_required"))]
<1>1. /\ v \in Unit
      /\ v.row.claim = u.row.claim /\ v.row.retries = u.row.retries
      /\ v.row.payload = u.row.payload
  BY UnitRow DEF Unit, Row
<1>2. target \in States /\ "FAILED" \in StepStates /\ "SKIPPED" \in StepStates
  BY DEF States, StepStates
<1>3. named \in Unit /\ named.row = [v.row EXCEPT !.state = target]
  BY <1>1, <1>2, SetStateEdits
<1>4. /\ named.row.state = target /\ named.row.claim = u.row.claim
      /\ named.row.retries = u.row.retries /\ named.row.payload = u.row.payload
  BY <1>1, <1>3, UnitRow DEF Row
<1>5. first \in Unit /\ SameHead(first.row, named.row)
  BY <1>2, <1>3, CloseStepEdits, OrderNamesSteps
<1>6. both \in Unit /\ SameHead(both.row, first.row)
  BY <1>2, <1>5, CloseStepEdits, OrderNamesSteps
<1>7. Marker("reconciliation_required") \in Event
  BY DEF Marker, Event, Markers
<1>8. alert \in Unit /\ alert.row = both.row
  <2>1. Append(both.log, Marker("reconciliation_required")) \in Seq(Event)
    BY <1>6, <1>7, UnitRow
  <2>. HIDE DEF both
  <2>. QED  BY <1>6, <2>1 DEF Unit
<1>9. MarkFailure(u, order, c, b) = IF b THEN alert ELSE both
  BY DEF MarkFailure
<1>. QED  BY <1>4, <1>5, <1>6, <1>8, <1>9 DEF SameHead

LEMMA MarkVerifiedEdits ==
  ASSUME NEW u \in Unit, NEW order \in StepOrder
  PROVE  /\ MarkVerified(u, order) \in Unit
         /\ MarkVerified(u, order).row.state = "POLICY_VERIFIED"
         /\ MarkVerified(u, order).row.claim = u.row.claim
         /\ MarkVerified(u, order).row.retries = u.row.retries
         /\ MarkVerified(u, order).row.payload = u.row.payload
<1>. DEFINE one == SetStep(u, order[1], "SUCCEEDED", "None")
            two == SetState(one, "POLICY_VERIFIED")
            all == SetStep(two, order[2], "RUNNING", "None")
<1>1. /\ "POLICY_VERIFIED" \in States /\ "None" \in Categories
      /\ "SUCCEEDED" \in StepStates /\ "RUNNING" \in StepStates
  BY DEF States, StepStates, Categories
<1>2. one \in Unit /\ SameHead(one.row, u.row)
  BY <1>1, SetStepEdits, OrderNamesSteps
<1>3. two \in Unit /\ two.row = [one.row EXCEPT !.state = "POLICY_VERIFIED"]
  BY <1>1, <1>2, SetStateEdits
<1>4. all \in Unit /\ SameHead(all.row, two.row)
  BY <1>1, <1>3, SetStepEdits, OrderNamesSteps
<1>5. MarkVerified(u, order) = all
  BY DEF MarkVerified
<1>6. /\ two.row.state = "POLICY_VERIFIED" /\ two.row.claim = one.row.claim
      /\ two.row.retries = one.row.retries /\ two.row.payload = one.row.payload
  BY <1>2, <1>3, UnitRow DEF Row
<1>. QED  BY <1>2, <1>4, <1>5, <1>6 DEF SameHead

LEMMA MarkCompletedEdits ==
  ASSUME NEW u \in Unit, NEW order \in StepOrder, NEW id \in Claims
  PROVE  /\ MarkCompleted(u, order, id) \in Unit
         /\ MarkCompleted(u, order, id).row.state = "COMPLETED"
         /\ MarkCompleted(u, order, id).row.claim = id
         /\ MarkCompleted(u, order, id).row.retries = u.row.retries
         /\ MarkCompleted(u, order, id).row.payload = u.row.payload
<1>. DEFINE v   == [u EXCEPT !.row.claim = id]
            one == SetStep(v, order[2], "SUCCEEDED", "None")
            two == SetState(one, "CLAIM_SUBMITTED")
            all == SetState(two, "COMPLETED")
<1>1. /\ "CLAIM_SUBMITTED" \in States /\ "COMPLETED" \in States
      /\ "SUCCEEDED" \in StepStates /\ "None" \in Categories
  BY DEF States, StepStates, Categories
<1>2. /\ v \in Unit /\ v.row.claim = id /\ v.row.retries = u.row.retries
      /\ v.row.payload = u.row.payload
  BY UnitRow DEF Unit, Row
<1>3. one \in Unit /\ SameHead(one.row, v.row)
  BY <1>1, <1>2, SetStepEdits, OrderNamesSteps
<1>4. two \in Unit /\ two.row = [one.row EXCEPT !.state = "CLAIM_SUBMITTED"]
  BY <1>1, <1>3, SetStateEdits
<1>5. all \in Unit /\ all.row = [two.row EXCEPT !.state = "COMPLETED"]
  BY <1>1, <1>4, SetStateEdits
<1>6. MarkCompleted(u, order, id) = all
  BY DEF MarkCompleted
<1>7. /\ all.row.state = "COMPLETED" /\ all.row.claim = one.row.claim
      /\ all.row.retries = one.row.retries /\ all.row.payload = one.row.payload
  BY <1>3, <1>4, <1>5, UnitRow DEF Row
<1>. QED  BY <1>2, <1>3, <1>5, <1>6, <1>7 DEF SameHead

LEMMA MarkRetriedEdits ==
  ASSUME NEW r \in Row, NEW order \in StepOrder
  PROVE  /\ MarkRetried(r, order) \in Unit
         /\ MarkRetried(r, order).row.state = "PENDING"
         /\ MarkRetried(r, order).row.claim = r.claim
         /\ MarkRetried(r, order).row.retries = r.retries + 1
         /\ MarkRetried(r, order).row.payload = r.payload
<1>. DEFINE counted == [row |-> [r EXCEPT !.retries = r.retries + 1],
                        log |-> <<Marker("retry_started")>>]
            reset   == SetState(counted, "PENDING")
            begun   == [reset EXCEPT !.row.category = "None"]
            one     == SetStep(begun, order[1], "PENDING", "None")
            two     == SetStep(one, order[2], "PENDING", "None")
<1>1. "PENDING" \in States /\ "None" \in Categories /\ "PENDING" \in StepStates
  BY DEF States, StepStates, Categories
<1>2. Marker("retry_started") \in Event
  BY DEF Marker, Event, Markers
<1>3. [r EXCEPT !.retries = r.retries + 1] \in Row
  BY DEF Row
<1>4. counted \in Unit
  BY <1>2, <1>3 DEF Unit
<1>5. reset \in Unit /\ reset.row = [counted.row EXCEPT !.state = "PENDING"]
  BY <1>1, <1>4, SetStateEdits
<1>6. /\ reset.row.state = "PENDING" /\ reset.row.claim = r.claim
      /\ reset.row.retries = r.retries + 1 /\ reset.row.payload = r.payload
  BY <1>3, <1>5 DEF Row
<1>7. /\ begun \in Unit /\ begun.row.state = "PENDING" /\ begun.row.claim = r.claim
      /\ begun.row.retries = r.retries + 1 /\ begun.row.payload = r.payload
  BY <1>1, <1>5, <1>6, UnitRow DEF Unit, Row
<1>8. one \in Unit /\ SameHead(one.row, begun.row)
  BY <1>1, <1>7, SetStepEdits, OrderNamesSteps
<1>9. two \in Unit /\ SameHead(two.row, one.row)
  BY <1>1, <1>8, SetStepEdits, OrderNamesSteps
<1>10. MarkRetried(r, order) = two
  BY DEF MarkRetried, CountRetry
<1>. QED  BY <1>7, <1>8, <1>9, <1>10 DEF SameHead

(* A merged row is a row, column by column one of the three it comes from. *)
LEMMA MergeEdits ==
  ASSUME NEW stored \in Row, NEW loaded \in Row, NEW new \in Row
  PROVE  /\ Merge(stored, loaded, new) \in Row
         /\ Merge(stored, loaded, new).state = Written(new.state, loaded.state, stored.state)
         /\ Merge(stored, loaded, new).claim = Written(new.claim, loaded.claim, stored.claim)
         /\ Merge(stored, loaded, new).retries =
              Written(new.retries, loaded.retries, stored.retries)
         /\ Merge(stored, loaded, new).payload = stored.payload
<1>1. ASSUME NEW n \in Steps
      PROVE  [state |-> Written(new.steps[n].state, loaded.steps[n].state, stored.steps[n].state),
              error |-> Written(new.steps[n].error, loaded.steps[n].error, stored.steps[n].error)]
               \in [state: StepStates, error: Categories]
  BY DEF Row, Written
<1>2. Merge(stored, loaded, new).steps \in [Steps -> [state: StepStates, error: Categories]]
  BY <1>1 DEF Merge
<1>. QED  BY <1>2 DEF Merge, Row, Written

-----------------------------------------------------------------------------
(* The inductive invariant: what ties the tables, the ledger, the POSTs in *)
(* flight and the units of work of all handlers together.                  *)

Busy(h) == session[h].pc \in {"policy", "sent", "stored", "commit"}

(* Keys: a workflow has one idempotency record, and whatever was or may    *)
(* still be posted for it carries that record's key and request.           *)
Recorded(w, k, p) == \E r \in idem : r.workflow = w /\ r.key = k /\ r.payload = p

OneRecord ==
  \A q, r \in idem :
    (q.subject = r.subject /\ q.key = r.key) \/ q.workflow = r.workflow => q = r
RecordHasRow(r) == workflow[r.workflow] # Absent /\ workflow[r.workflow].payload = r.payload
RunRecorded(me) ==
  /\ Recorded(me.wf, me.key, me.row.payload)
  /\ me.retry \/ [subject |-> me.caller, key |-> me.key,
                  payload |-> me.row.payload, workflow |-> me.wf] \in idem

KeysInv ==
  /\ OneRecord
  /\ \A r \in idem : RecordHasRow(r)
  /\ accepted \subseteq idem
  /\ \A h \in Handlers : Busy(h) => RunRecorded(session[h])
  /\ \A m \in stray : Recorded(m.workflow, m.key, m.payload)
  /\ \A c \in claims : Recorded(c.origin, c.key, c.payload)
  /\ Ledger!OneClaimPerScope

(* Rows: only outcomes are committed, a claim only with a completed one.   *)
RowInv(w, r) ==
  /\ r.state \in {"PENDING", "FAILED", "COMPLETED", "RECONCILIATION_REQUIRED"}
  /\ r.state \in {"PENDING", "FAILED"} => r.claim = NoClaim
  /\ r.state = "COMPLETED" => Backed(w, r)
  /\ r.retries <= MaxRetryCount

(* Units of work: a first run owns its row, which is still as inserted; a  *)
(* retry was loaded as FAILED, and its row has reached an outcome by now.  *)
UnitInv(me) ==
  /\ workflow[me.wf] # Absent
  /\ me.loaded.claim = NoClaim
  /\ me.pc # "commit" => me.row.claim = NoClaim
  /\ me.pc = "stored" => \E c \in Ledger!Bound(me.caller, me.key) : c.payload = me.row.payload
  /\ me.pc = "commit" =>
       \/ me.row.state \in {"FAILED", "RECONCILIATION_REQUIRED"} /\ me.row.claim = NoClaim
       \/ me.row.state = "COMPLETED" /\ me.row.claim # NoClaim /\ Backed(me.wf, me.row)
  /\ IF me.retry
     THEN /\ me.loaded.state = "FAILED"
          /\ me.loaded.retries < MaxRetryCount
          /\ me.row.retries = me.loaded.retries + 1
          /\ workflow[me.wf].state \in {"FAILED", "COMPLETED", "RECONCILIATION_REQUIRED"}
     ELSE /\ workflow[me.wf] = me.loaded
          /\ me.loaded.state = "PENDING"
          /\ me.row.retries = me.loaded.retries

RunsInv ==
  /\ \A w \in Workflows : workflow[w] # Absent => RowInv(w, workflow[w])
  /\ \A h \in Handlers : Busy(h) => UnitInv(session[h])
  /\ \A g, h \in Handlers :
       Busy(g) /\ Busy(h) /\ session[g].wf = session[h].wf /\ ~ session[g].retry => g = h

IInv == TypeOK /\ KeysInv /\ RunsInv

-----------------------------------------------------------------------------
(* The steps of a handler that only move its unit of work forward *)

BusyPcs == {"policy", "sent", "stored", "commit"}

SameRun(s, me) ==
  /\ s.caller = me.caller /\ s.key = me.key /\ s.wf = me.wf /\ s.retry = me.retry
  /\ s.loaded = me.loaded /\ s.row.payload = me.row.payload /\ s.row.retries = me.row.retries

Moves(s, me) ==
  /\ SameRun(s, me)
  /\ me.pc # "commit"
  /\ s.row.claim = me.row.claim
  /\ s.pc = "sent" \/ (s.pc = "commit" /\ s.row.state \in {"FAILED", "RECONCILIATION_REQUIRED"})

Quiet(h) ==
  \/ PolicyVerified(h) \/ PolicyFailed(h) \/ ClaimRejected(h)
  \/ ClaimUnrecognizable(h) \/ ClaimServerError(h) \/ ClaimTimeout(h)

LEMMA BusyTyped ==
  ASSUME TypeOK, NEW h \in Handlers
  PROVE  /\ Busy(h) <=> session[h] \in Executing
         /\ session[h] \in Executing => session[h].pc \in BusyPcs
BY DEF TypeOK, Busy, BusyPcs, Idle, Starting, Executing

LEMMA ContinueTyped ==
  ASSUME NEW me \in Executing, NEW pc \in BusyPcs, NEW u \in Unit
  PROVE  /\ [me EXCEPT !.pc = pc, !.row = u.row, !.log = u.log] \in Executing
         /\ [me EXCEPT !.pc = pc, !.row = u.row, !.log = u.log].pc = pc
         /\ [me EXCEPT !.pc = pc, !.row = u.row, !.log = u.log].row = u.row
         /\ u.row.payload = me.row.payload /\ u.row.retries = me.row.retries =>
              SameRun([me EXCEPT !.pc = pc, !.row = u.row, !.log = u.log], me)
BY UnitRow DEF Executing, BusyPcs, SameRun

LEMMA InMemoryTyped ==
  ASSUME NEW me \in Executing
  PROVE  InMemory(me) \in Unit /\ InMemory(me).row = me.row /\ me.order \in StepOrder
BY DEF Executing, InMemory, Unit

(* Failing is a move to "commit" with a failed row. *)
LEMMA FailMoves ==
  ASSUME TypeOK, NEW h \in Handlers, Busy(h), session[h].pc # "commit",
         NEW c \in Categories, NEW b \in BOOLEAN, Fail(h, c, b)
  PROVE  \E s \in Executing : Moves(s, session[h]) /\ session' = [session EXCEPT ![h] = s]
<1>. DEFINE me == session[h]
            u  == MarkFailure(InMemory(me), me.order, c, b)
            s  == [me EXCEPT !.pc = "commit", !.row = u.row, !.log = u.log]
<1>1. me \in Executing /\ "commit" \in BusyPcs
  BY BusyTyped DEF BusyPcs
<1>2. /\ u \in Unit /\ u.row.state \in {"FAILED", "RECONCILIATION_REQUIRED"}
      /\ u.row.claim = me.row.claim /\ u.row.retries = me.row.retries
      /\ u.row.payload = me.row.payload
  BY <1>1, InMemoryTyped, MarkFailureEdits
<1>3. s \in Executing /\ s.pc = "commit" /\ s.row = u.row /\ SameRun(s, me)
  BY <1>1, <1>2, ContinueTyped
<1>4. session' = [session EXCEPT ![h] = s]
  BY DEF Fail, Continue
<1>5. Moves(s, me)
  BY <1>2, <1>3 DEF Moves
<1>. QED  BY <1>3, <1>4, <1>5

LEMMA UnreconciledMoves ==
  ASSUME TypeOK, NEW h \in Handlers, Busy(h), session[h].pc # "commit", Unreconciled(h)
  PROVE  \E s \in Executing : Moves(s, session[h]) /\ session' = [session EXCEPT ![h] = s]
<1>1. "ClaimsServiceReconciliationRequired" \in Categories
  BY DEF Categories
<1>. QED  BY <1>1, FailMoves DEF Unreconciled

(* So is another attempt, with the unit of work as it is. *)
LEMMA AttemptMoves ==
  ASSUME TypeOK, NEW h \in Handlers, Busy(h), session[h].pc # "commit", AttemptAgain(h)
  PROVE  \E s \in Executing : Moves(s, session[h]) /\ session' = [session EXCEPT ![h] = s]
<1>. DEFINE me == session[h]
            s  == [me EXCEPT !.pc = "sent", !.attempt = me.attempt + 1]
<1>1. me \in Executing
  BY BusyTyped
<1>2. CASE me.attempt < MaxAttempts
  <2>1. me.attempt \in 1..MaxAttempts
    BY <1>1 DEF Executing
  <2>2. me.attempt + 1 \in 1..MaxAttempts
    BY <1>2, <2>1, RetryAssumption
  <2>3. s \in Executing
    BY <1>1, <2>2 DEF Executing
  <2>4. Moves(s, me)
    BY <1>1 DEF Moves, SameRun, Executing
  <2>5. session' = [session EXCEPT ![h] = s]
    BY <1>2 DEF AttemptAgain
  <2>. QED  BY <2>3, <2>4, <2>5
<1>3. CASE ~ (me.attempt < MaxAttempts)
  BY <1>3, UnreconciledMoves DEF AttemptAgain
<1>. QED  BY <1>2, <1>3

LEMMA VerifiedMoves ==
  ASSUME TypeOK, NEW h \in Handlers, PolicyVerified(h)
  PROVE  \E s \in Executing : Moves(s, session[h]) /\ session' = [session EXCEPT ![h] = s]
<1>. DEFINE me == session[h]
            u  == MarkVerified(InMemory(me), me.order)
            s  == [me EXCEPT !.pc = "sent", !.row = u.row, !.log = u.log]
<1>1. me.pc = "policy" /\ me \in Executing /\ "sent" \in BusyPcs
  BY BusyTyped DEF PolicyVerified, Busy, BusyPcs
<1>2. /\ u \in Unit
      /\ u.row.claim = me.row.claim /\ u.row.retries = me.row.retries
      /\ u.row.payload = me.row.payload
  BY <1>1, InMemoryTyped, MarkVerifiedEdits
<1>3. s \in Executing /\ s.pc = "sent" /\ s.row = u.row /\ SameRun(s, me)
  BY <1>1, <1>2, ContinueTyped
<1>4. session' = [session EXCEPT ![h] = s]
  BY DEF PolicyVerified, Continue
<1>5. Moves(s, me)
  BY <1>1, <1>2, <1>3 DEF Moves
<1>. QED  BY <1>3, <1>4, <1>5

LEMMA QuietMoves ==
  ASSUME TypeOK, NEW h \in Handlers, Quiet(h)
  PROVE  /\ Busy(h)
         /\ \E s \in Executing : Moves(s, session[h]) /\ session' = [session EXCEPT ![h] = s]
         /\ stray' \in {stray, stray \cup {PostOf(session[h])}}
         /\ UNCHANGED <<dbVars, claims, accepted, requests, aborts>>
<1>1. CASE PolicyVerified(h)
  BY <1>1, VerifiedMoves DEF PolicyVerified, Busy
<1>2. CASE PolicyFailed(h)
  <2>1. session[h].pc = "policy" /\ Busy(h)
    BY <1>2 DEF PolicyFailed, Busy
  <2>2. PICK c \in PolicyFailures : Fail(h, c, FALSE)
    BY <1>2 DEF PolicyFailed
  <2>3. c \in Categories
    BY DEF Categories
  <2>. QED  BY <1>2, <2>1, <2>2, <2>3, FailMoves DEF PolicyFailed
<1>3. CASE ClaimRejected(h)
  <2>1. session[h].pc = "sent" /\ Busy(h) /\ "ClaimsServiceRejected" \in Categories
    BY <1>3 DEF ClaimRejected, Busy, Categories
  <2>. QED  BY <1>3, <2>1, FailMoves DEF ClaimRejected
<1>4. CASE ClaimUnrecognizable(h)
  BY <1>4, UnreconciledMoves DEF ClaimUnrecognizable, Awaiting, Busy
<1>5. CASE ClaimServerError(h)
  BY <1>5, AttemptMoves DEF ClaimServerError, Awaiting, Busy
<1>6. CASE ClaimTimeout(h)
  BY <1>6, AttemptMoves DEF ClaimTimeout, Awaiting, Busy, Abandon
<1>. QED  BY <1>1, <1>2, <1>3, <1>4, <1>5, <1>6 DEF Quiet

-----------------------------------------------------------------------------
(* Type correctness *)

LEMMA PostTyped ==
  ASSUME NEW me \in Executing
  PROVE  PostOf(me) \in Post
BY DEF PostOf, Post, Executing, Row

LEMMA NewRowTyped ==
  ASSUME NEW q \in Payloads
  PROVE  NewRow(q) \in Row
BY DEF NewRow, Row, States, StepStates, Categories

LEMMA StartingTyped ==
  ASSUME TypeOK, NEW h \in Handlers, session[h].pc \in {"insert", "relookup"}
  PROVE  session[h] \in Starting
<1>1. session[h] \in {Idle} \cup Starting \cup Executing
  BY DEF TypeOK
<1>2. session[h] # Idle
  BY DEF Idle
<1>3. session[h] \notin Executing
  BY DEF Executing
<1>. QED  BY <1>1, <1>2, <1>3

(* A unit of work has a row to be written to. *)
Inserted == \A h \in Handlers : Busy(h) => workflow[session[h].wf] # Absent

LEMMA TypeInit == Init => TypeOK /\ Inserted
BY BoundsAssumption DEF Init, TypeOK, Ledger!Init, Inserted, Busy, Idle

LEMMA QuietType ==
  ASSUME TypeOK, NEW h \in Handlers, Quiet(h)
  PROVE  TypeOK'
<1>1. PostOf(session[h]) \in Post
  BY QuietMoves, BusyTyped, PostTyped
<1>. QED  BY <1>1, QuietMoves DEF TypeOK, dbVars

(* One step per action: every step keeps the types. *)
LEMMA TypeNext == TypeOK /\ Inserted /\ [Next]_vars => TypeOK'
<1>. SUFFICES ASSUME TypeOK, Inserted, [Next]_vars PROVE TypeOK'
  OBVIOUS
<1>1. ASSUME NEW h \in Handlers, NEW s \in Subjects, NEW k \in Keys, NEW p \in Payloads,
             StartDuplicate(h, s, k, p)
      PROVE  TypeOK'
  <2>1. PICK r \in Existing(s, k) :
          accepted' = IF r.payload = p THEN Accepted(s, k, p, r.workflow) ELSE accepted
    BY <1>1 DEF StartDuplicate, AnswerExisting
  <2>2. accepted' \subseteq Key
    BY <2>1 DEF TypeOK, Existing, Accepted, Key
  <2>. QED  BY <1>1, <2>2, BoundsAssumption DEF StartDuplicate, Request, TypeOK, dbVars
<1>2. ASSUME NEW h \in Handlers, NEW s \in Subjects, NEW k \in Keys, NEW p \in Payloads,
             StartNew(h, s, k, p)
      PROVE  TypeOK'
  <2>1. [pc |-> "insert", caller |-> s, key |-> k, payload |-> p] \in Starting
    BY DEF Starting
  <2>. QED  BY <1>2, <2>1, BoundsAssumption DEF StartNew, Request, TypeOK, dbVars
<1>3. ASSUME NEW h \in Handlers, Insert(h)
      PROVE  TypeOK'
  <2>1. session[h] \in Starting
    BY <1>3, StartingTyped DEF Insert
  <2>2. PICK w \in Workflows :
          /\ workflow' = [workflow EXCEPT ![w] = NewRow(session[h].payload)]
          /\ idem' = idem \cup {[subject |-> session[h].caller, key |-> session[h].key,
                                 payload |-> session[h].payload, workflow |-> w]}
          /\ audit' = [audit EXCEPT ![w] = <<Marker("workflow_created")>>]
          /\ session' = [session EXCEPT ![h] =
               [pc |-> "policy", caller |-> session[h].caller, key |-> session[h].key, wf |-> w,
                retry |-> FALSE, order |-> <<"policy_verification", "claim_submission">>,
                attempt |-> 1, loaded |-> NewRow(session[h].payload),
                row |-> NewRow(session[h].payload), log |-> <<>>]]
    BY <1>3 DEF Insert
  <2>3. NewRow(session[h].payload) \in Row
    BY <2>1, NewRowTyped DEF Starting
  <2>4. <<Marker("workflow_created")>> \in Seq(Event) /\ <<>> \in Seq(Event)
    BY DEF Marker, Event, Markers
  <2>5. <<"policy_verification", "claim_submission">> \in StepOrder /\ 1 \in 1..MaxAttempts
    BY RetryAssumption DEF StepOrder
  <2>6. session'[h] \in Executing
    BY <2>1, <2>2, <2>3, <2>4, <2>5 DEF Executing, Starting, TypeOK
  <2>7. /\ workflow' \in [Workflows -> Row \cup {Absent}]
        /\ idem' \subseteq Key
        /\ audit' \in [Workflows -> Seq(Event)]
    BY <2>1, <2>2, <2>3, <2>4 DEF TypeOK, Starting, Key
  <2>8. session' \in [Handlers -> {Idle} \cup Starting \cup Executing]
    BY <2>2, <2>6 DEF TypeOK
  <2>. QED  BY <1>3, <2>7, <2>8 DEF Insert, TypeOK
<1>4. ASSUME NEW h \in Handlers, InsertLost(h)
      PROVE  TypeOK'
  <2>1. session[h] \in Starting
    BY <1>4, StartingTyped DEF InsertLost
  <2>2. [session[h] EXCEPT !.pc = "relookup"] \in Starting
    BY <2>1 DEF Starting
  <2>. QED  BY <1>4, <2>2 DEF InsertLost, TypeOK, dbVars
<1>5. ASSUME NEW h \in Handlers, AnswerLost(h)
      PROVE  TypeOK'
  <2>1. session[h] \in Starting
    BY <1>5, StartingTyped DEF AnswerLost
  <2>2. PICK r \in Existing(session[h].caller, session[h].key) :
          accepted' = IF r.payload = session[h].payload
                      THEN Accepted(session[h].caller, session[h].key, session[h].payload, r.workflow)
                      ELSE accepted
    BY <1>5 DEF AnswerLost, AnswerExisting
  <2>3. accepted' \subseteq Key
    BY <2>1, <2>2 DEF TypeOK, Existing, Accepted, Key, Starting
  <2>. QED  BY <1>5, <2>3 DEF AnswerLost, TypeOK, dbVars
<1>6. ASSUME NEW h \in Handlers, NEW w \in Workflows, RetryRefused(h, w)
      PROVE  TypeOK'
  BY <1>6, BoundsAssumption DEF RetryRefused, Request, TypeOK, dbVars
<1>7. ASSUME NEW h \in Handlers, NEW s \in Subjects, NEW w \in Workflows, RetryBegin(h, s, w)
      PROVE  TypeOK'
  <2>. DEFINE new(r, order) ==
         [pc |-> "policy", caller |-> s, key |-> r.key, wf |-> w, retry |-> TRUE,
          order |-> order, attempt |-> 1, loaded |-> workflow[w],
          row |-> MarkRetried(workflow[w], order).row, log |-> MarkRetried(workflow[w], order).log]
  <2>1. PICK r \in idem, order \in StepOrder : session' = [session EXCEPT ![h] = new(r, order)]
    BY <1>7 DEF RetryBegin
  <2>2. workflow[w] \in Row
    BY <1>7 DEF RetryBegin, Retryable, TypeOK, Absent
  <2>3. MarkRetried(workflow[w], order) \in Unit
    BY <2>2, MarkRetriedEdits
  <2>4. new(r, order) \in Executing
    BY <2>2, <2>3, UnitRow, RetryAssumption DEF Executing, TypeOK, Key
  <2>5. session' \in [Handlers -> {Idle} \cup Starting \cup Executing]
    <3>. DEFINE s1 == new(r, order)
    <3>1. session' = [session EXCEPT ![h] = s1] /\ s1 \in Executing
      BY <2>1, <2>4
    <3>. HIDE DEF s1
    <3>. QED  BY <3>1 DEF TypeOK
  <2>. QED  BY <1>7, <2>5, BoundsAssumption DEF RetryBegin, Request, TypeOK, dbVars
<1>8. ASSUME NEW h \in Handlers, Quiet(h)
      PROVE  TypeOK'
  BY <1>8, QuietType
<1>9. ASSUME NEW h \in Handlers, ClaimStored(h)
      PROVE  TypeOK'
  <2>1. session[h] \in Executing
    BY <1>9, BusyTyped DEF ClaimStored, Busy
  <2>2. [session[h] EXCEPT !.pc = "stored"] \in Executing
    BY <2>1 DEF Executing
  <2>3. PostOf(session[h]) \in Post
    BY <2>1, PostTyped
  <2>4. claims' \subseteq Ledger!ClaimRow
    BY <1>9, <2>3 DEF ClaimStored, Ledger!Accept, Ledger!Create, Ledger!Replay, Ledger!ClaimRow,
                      Post, TypeOK
  <2>. QED  BY <1>9, <2>2, <2>4 DEF ClaimStored, TypeOK, dbVars
<1>10. ASSUME NEW h \in Handlers, ClaimReturned(h)
       PROVE  TypeOK'
  <2>1. session[h] \in Executing
    BY <1>10, BusyTyped DEF ClaimReturned, Busy
  <2>2. PICK c \in claims :
          Continue(h, "commit", MarkCompleted(InMemory(session[h]), session[h].order, c.id))
    BY <1>10 DEF ClaimReturned, Ledger!Bound
  <2>3. c.id \in Claims
    BY DEF TypeOK, Ledger!ClaimRow
  <2>. DEFINE u == MarkCompleted(InMemory(session[h]), session[h].order, c.id)
  <2>4. u \in Unit
    BY <2>1, <2>3, InMemoryTyped, MarkCompletedEdits
  <2>5. [session[h] EXCEPT !.pc = "commit", !.row = u.row, !.log = u.log] \in Executing
    <3>. HIDE DEF u
    <3>. QED  BY <2>1, <2>4, ContinueTyped DEF BusyPcs
  <2>. QED  BY <1>10, <2>2, <2>5 DEF ClaimReturned, Continue, TypeOK, dbVars
<1>11. ASSUME NEW h \in Handlers, Commit(h)
       PROVE  TypeOK'
  <2>. DEFINE me == session[h]
  <2>1. me \in Executing
    BY <1>11, BusyTyped DEF Commit, Busy
  <2>. DEFINE finish == IF ~ me.retry THEN <<>>
                        ELSE IF me.row.state = "COMPLETED" THEN <<Marker("retry_succeeded")>>
                        ELSE <<Marker("retry_finished")>>
  <2>2. /\ finish \in Seq(Event)
        /\ audit' = [audit EXCEPT ![me.wf] = audit[me.wf] \o me.log \o finish]
    <3>1. Marker("retry_succeeded") \in Event /\ Marker("retry_finished") \in Event
      BY DEF Marker, Event, Markers
    <3>. QED  BY <1>11, <3>1 DEF Commit
  <2>3. audit' \in [Workflows -> Seq(Event)]
    <3>. HIDE DEF finish
    <3>1. audit[me.wf] \in Seq(Event) /\ me.log \in Seq(Event)
      BY <2>1 DEF TypeOK, Executing
    <3>2. audit[me.wf] \o me.log \o finish \in Seq(Event)
      BY <2>2, <3>1
    <3>. QED  BY <2>2, <3>2 DEF TypeOK
  <2>4. accepted' \subseteq Key
    BY <1>11, <2>1 DEF Commit, Accepted, TypeOK, Key, Executing, Row
  <2>5. me.wf \in Workflows /\ workflow[me.wf] \in Row
    BY <1>11, <2>1 DEF TypeOK, Executing, Inserted, Commit, Busy
  <2>6. Merge(workflow[me.wf], me.loaded, me.row) \in Row
    BY <2>1, <2>5, MergeEdits DEF Executing
  <2>7. workflow' \in [Workflows -> Row \cup {Absent}]
    BY <1>11, <2>6 DEF Commit, TypeOK
  <2>. QED  BY <1>11, <2>3, <2>4, <2>7 DEF Commit, TypeOK
<1>12. ASSUME NEW h \in Handlers, Abort(h)
       PROVE  TypeOK'
  <2>1. stray' \subseteq Post
    BY <1>12, BusyTyped, PostTyped DEF Abort, Abandon, Busy, TypeOK
  <2>. QED  BY <1>12, <2>1, BoundsAssumption DEF Abort, TypeOK, dbVars
<1>13. ASSUME NEW m \in stray, StrayStored(m)
       PROVE  TypeOK'
  <2>1. m \in Post
    BY DEF TypeOK
  <2>2. claims' \subseteq Ledger!ClaimRow
    BY <1>13, <2>1 DEF StrayStored, Ledger!Create, Ledger!ClaimRow, Post, TypeOK
  <2>. QED  BY <1>13, <2>2 DEF StrayStored, TypeOK, dbVars
<1>14. CASE UNCHANGED vars
  BY <1>14 DEF vars, TypeOK
<1>. QED
  BY <1>1, <1>2, <1>3, <1>4, <1>5, <1>6, <1>7, <1>8, <1>9, <1>10, <1>11, <1>12, <1>13, <1>14
     DEF Next, Receive, Proceed, Quiet

-----------------------------------------------------------------------------
(* Keys *)

LEMMA KeysInit == Init => KeysInv
BY DEF Init, KeysInv, OneRecord, Busy, Idle, Ledger!Init, Ledger!OneClaimPerScope

(* Steps that touch neither the tables nor the ledger. *)
LEMMA KeysFrame ==
  ASSUME KeysInv, UNCHANGED <<workflow, idem, claims>>,
         accepted' \subseteq idem,
         \A h \in Handlers : Busy(h)' => RunRecorded(session'[h]),
         \A m \in stray' : Recorded(m.workflow, m.key, m.payload)
  PROVE  KeysInv'
BY DEF KeysInv, OneRecord, RecordHasRow, RunRecorded, Recorded, Ledger!OneClaimPerScope

LEMMA PostRecorded ==
  ASSUME TypeOK, KeysInv, NEW h \in Handlers, Busy(h)
  PROVE  LET m == PostOf(session[h]) IN Recorded(m.workflow, m.key, m.payload)
BY DEF KeysInv, RunRecorded, PostOf

(* An answer with an existing workflow names a record that is there. *)
LEMMA AnswerRecorded ==
  ASSUME TypeOK, KeysInv, NEW s \in Subjects, NEW k \in Keys, NEW p \in Payloads,
         AnswerExisting(s, k, p)
  PROVE  accepted' \subseteq idem
<1>1. PICK r \in Existing(s, k) :
        accepted' = IF r.payload = p THEN Accepted(s, k, p, r.workflow) ELSE accepted
  BY DEF AnswerExisting
<1>2. r \in idem /\ r \in Key /\ r.subject = s /\ r.key = k
  BY DEF Existing, TypeOK
<1>3. r = [subject |-> s, key |-> k, payload |-> r.payload, workflow |-> r.workflow]
  BY <1>2 DEF Key
<1>. QED  BY <1>1, <1>2, <1>3 DEF Accepted, KeysInv

(* A new claim of a recorded POST. *)
LEMMA CreateKeys ==
  ASSUME TypeOK, KeysInv, NEW m \in Post, Recorded(m.workflow, m.key, m.payload),
         Ledger!Create(m.subject, m.key, m.payload, m.workflow)
  PROVE  (\A c \in claims' : Recorded(c.origin, c.key, c.payload)) /\ (Ledger!OneClaimPerScope)'
<1>1. PICK id \in Claims :
        /\ \A c \in claims : c.id # id
        /\ claims' = claims \cup {[id |-> id, subject |-> m.subject, key |-> m.key,
                                  payload |-> m.payload, origin |-> m.workflow]}
  BY DEF Ledger!Create
<1>2. \A c \in claims : ~ (c.subject = m.subject /\ c.key = m.key)
  BY DEF Ledger!Create, Ledger!Bound
<1>. QED  BY <1>1, <1>2 DEF KeysInv, Ledger!OneClaimPerScope

LEMMA KeysNext == TypeOK /\ Inserted /\ KeysInv /\ [Next]_vars => KeysInv'
<1>. SUFFICES ASSUME TypeOK, Inserted, KeysInv, [Next]_vars PROVE KeysInv'
  OBVIOUS
<1>. USE DEF dbVars
<1>1. ASSUME NEW h \in Handlers, NEW s \in Subjects, NEW k \in Keys, NEW p \in Payloads,
             StartDuplicate(h, s, k, p)
      PROVE  KeysInv'
  BY <1>1, AnswerRecorded, KeysFrame DEF StartDuplicate, KeysInv, Busy
<1>2. ASSUME NEW h \in Handlers, NEW s \in Subjects, NEW k \in Keys, NEW p \in Payloads,
             StartNew(h, s, k, p)
      PROVE  KeysInv'
  <2>1. \A g \in Handlers : Busy(g)' => RunRecorded(session'[g])
    BY <1>2 DEF StartNew, KeysInv, Busy, TypeOK
  <2>. QED  BY <1>2, <2>1, KeysFrame DEF StartNew, KeysInv
<1>3. ASSUME NEW h \in Handlers, Insert(h)
      PROVE  KeysInv'
  <2>. DEFINE me == session[h]
  <2>1. me \in Starting
    BY <1>3, StartingTyped DEF Insert
  <2>2. PICK w \in Workflows :
          /\ workflow[w] = Absent
          /\ workflow' = [workflow EXCEPT ![w] = NewRow(me.payload)]
          /\ idem' = idem \cup {[subject |-> me.caller, key |-> me.key,
                                 payload |-> me.payload, workflow |-> w]}
          /\ session' = [session EXCEPT ![h] =
               [pc |-> "policy", caller |-> me.caller, key |-> me.key, wf |-> w,
                retry |-> FALSE, order |-> <<"policy_verification", "claim_submission">>,
                attempt |-> 1, loaded |-> NewRow(me.payload), row |-> NewRow(me.payload),
                log |-> <<>>]]
    BY <1>3 DEF Insert
  <2>3. UNCHANGED <<claims, stray, accepted>>
    BY <1>3 DEF Insert
  <2>4. OneRecord'
    <3>1. \A r \in idem : ~ (r.subject = me.caller /\ r.key = me.key)
      BY <1>3 DEF Insert, KeyUnique, Existing
    <3>2. \A r \in idem : r.workflow # w
      BY <2>2 DEF KeysInv, RecordHasRow
    <3>. QED  BY <2>2, <3>1, <3>2 DEF OneRecord, KeysInv
  <2>5. \A r \in idem' : RecordHasRow(r)'
    <3>1. \A r \in idem : r.workflow # w /\ r.workflow \in Workflows
      BY <2>2 DEF KeysInv, RecordHasRow, TypeOK, Key
    <3>2. NewRow(me.payload) # Absent /\ NewRow(me.payload).payload = me.payload
      BY DEF NewRow, Absent
    <3>. QED  BY <2>2, <3>1, <3>2 DEF RecordHasRow, KeysInv, TypeOK
  <2>6. \A g \in Handlers : Busy(g)' => RunRecorded(session[g])'
    <3>1. ASSUME NEW g \in Handlers \ {h}, Busy(g)'
          PROVE  RunRecorded(session[g])'
      BY <2>2, <3>1 DEF Busy, RunRecorded, Recorded, KeysInv, TypeOK
    <3>2. RunRecorded(session[h])'
      <4>1. /\ session'[h].caller = me.caller /\ session'[h].key = me.key
            /\ session'[h].wf = w /\ session'[h].row = NewRow(me.payload)
        BY <2>2 DEF TypeOK
      <4>2. NewRow(me.payload).payload = me.payload
        BY DEF NewRow
      <4>. DEFINE r == [subject |-> me.caller, key |-> me.key, payload |-> me.payload, workflow |-> w]
      <4>3. r \in idem' /\ r.workflow = w /\ r.key = me.key /\ r.payload = me.payload
        BY <2>2
      <4>. QED  BY <4>1, <4>2, <4>3 DEF RunRecorded, Recorded
    <3>. QED  BY <3>1, <3>2
  <2>7. /\ \A m \in stray' : Recorded(m.workflow, m.key, m.payload)'
        /\ \A c \in claims' : Recorded(c.origin, c.key, c.payload)'
    BY <2>2, <2>3 DEF KeysInv, Recorded
  <2>. QED  BY <2>2, <2>3, <2>4, <2>5, <2>6, <2>7 DEF KeysInv, Ledger!OneClaimPerScope
<1>4. ASSUME NEW h \in Handlers, InsertLost(h)
      PROVE  KeysInv'
  <2>1. \A g \in Handlers : Busy(g)' => RunRecorded(session'[g])
    BY <1>4, StartingTyped DEF InsertLost, KeysInv, Busy, TypeOK, Starting
  <2>. QED  BY <1>4, <2>1, KeysFrame DEF InsertLost, KeysInv
<1>5. ASSUME NEW h \in Handlers, AnswerLost(h)
      PROVE  KeysInv'
  <2>1. session[h] \in Starting
    BY <1>5, StartingTyped DEF AnswerLost
  <2>2. accepted' \subseteq idem
    BY <1>5, <2>1, AnswerRecorded DEF AnswerLost, Starting
  <2>3. \A g \in Handlers : Busy(g)' => RunRecorded(session'[g])
    BY <1>5 DEF AnswerLost, KeysInv, Busy, TypeOK, Idle
  <2>. QED  BY <1>5, <2>2, <2>3, KeysFrame DEF AnswerLost, KeysInv
<1>6. ASSUME NEW h \in Handlers, NEW w \in Workflows, RetryRefused(h, w)
      PROVE  KeysInv'
  BY <1>6, KeysFrame DEF RetryRefused, KeysInv, Busy
<1>7. ASSUME NEW h \in Handlers, NEW s \in Subjects, NEW w \in Workflows, RetryBegin(h, s, w)
      PROVE  KeysInv'
  <2>1. workflow[w] \in Row
    BY <1>7 DEF RetryBegin, Retryable, TypeOK, Absent
  <2>2. PICK r \in idem, order \in StepOrder :
          /\ r.workflow = w
          /\ session' = [session EXCEPT ![h] =
               [pc |-> "policy", caller |-> s, key |-> r.key, wf |-> w, retry |-> TRUE,
                order |-> order, attempt |-> 1, loaded |-> workflow[w],
                row |-> MarkRetried(workflow[w], order).row,
                log |-> MarkRetried(workflow[w], order).log]]
    BY <1>7 DEF RetryBegin
  <2>3. MarkRetried(workflow[w], order).row.payload = r.payload
    BY <2>1, <2>2, MarkRetriedEdits DEF KeysInv, RecordHasRow
  <2>4. session'[h].row.payload = r.payload /\ session'[h].wf = w
        /\ session'[h].key = r.key /\ session'[h].retry
    BY <2>2, <2>3 DEF TypeOK
  <2>5. \A g \in Handlers : Busy(g)' => RunRecorded(session'[g])
    <3>1. \A g \in Handlers \ {h} : session'[g] = session[g]
      BY <2>2 DEF TypeOK
    <3>2. RunRecorded(session'[h])
      BY <2>2, <2>4 DEF RunRecorded, Recorded
    <3>. QED  BY <3>1, <3>2 DEF Busy, KeysInv
  <2>. QED  BY <1>7, <2>5, KeysFrame DEF RetryBegin, KeysInv
<1>8. ASSUME NEW h \in Handlers, Quiet(h)
      PROVE  KeysInv'
  <2>1. PICK s \in Executing : Moves(s, session[h]) /\ session' = [session EXCEPT ![h] = s]
    BY <1>8, QuietMoves
  <2>2. \A g \in Handlers : Busy(g)' => RunRecorded(session'[g])
    BY <1>8, <2>1, QuietMoves DEF Busy, Moves, SameRun, RunRecorded, Recorded, KeysInv, TypeOK
  <2>3. \A m \in stray' : Recorded(m.workflow, m.key, m.payload)
    BY <1>8, QuietMoves, PostRecorded DEF KeysInv
  <2>. QED  BY <1>8, <2>2, <2>3, QuietMoves, KeysFrame DEF KeysInv
<1>9. ASSUME NEW h \in Handlers, ClaimStored(h)
      PROVE  KeysInv'
  <2>. DEFINE m == PostOf(session[h])
  <2>1. Busy(h) /\ m \in Post /\ Recorded(m.workflow, m.key, m.payload)
    BY <1>9, BusyTyped, PostTyped, PostRecorded DEF ClaimStored, Busy
  <2>2. (\A c \in claims' : Recorded(c.origin, c.key, c.payload)) /\ (Ledger!OneClaimPerScope)'
    <3>1. CASE Ledger!Create(m.subject, m.key, m.payload, m.workflow)
      BY <2>1, <3>1, CreateKeys
    <3>2. CASE Ledger!Replay(m.subject, m.key, m.payload)
      BY <3>2 DEF Ledger!Replay, KeysInv, Ledger!OneClaimPerScope
    <3>. QED  BY <1>9, <3>1, <3>2 DEF ClaimStored, Ledger!Accept
  <2>3. \A g \in Handlers : Busy(g)' => RunRecorded(session'[g])
    BY <1>9, <2>1, BusyTyped DEF ClaimStored, KeysInv, Busy, TypeOK, RunRecorded, Recorded, Executing
  <2>. QED  BY <1>9, <2>2, <2>3
            DEF ClaimStored, KeysInv, OneRecord, RecordHasRow, RunRecorded, Recorded
<1>10. ASSUME NEW h \in Handlers, ClaimReturned(h)
       PROVE  KeysInv'
  <2>1. session[h] \in Executing /\ Busy(h)
    BY <1>10, BusyTyped DEF ClaimReturned, Busy
  <2>2. PICK c \in claims :
          Continue(h, "commit", MarkCompleted(InMemory(session[h]), session[h].order, c.id))
    BY <1>10 DEF ClaimReturned, Ledger!Bound
  <2>3. c.id \in Claims
    BY DEF TypeOK, Ledger!ClaimRow
  <2>. DEFINE u == MarkCompleted(InMemory(session[h]), session[h].order, c.id)
              s == [session[h] EXCEPT !.pc = "commit", !.row = u.row, !.log = u.log]
  <2>4. u \in Unit /\ u.row.payload = session[h].row.payload /\ u.row.retries = session[h].row.retries
    BY <2>1, <2>3, InMemoryTyped, MarkCompletedEdits
  <2>5. SameRun(s, session[h])
    <3>. HIDE DEF u
    <3>. QED  BY <2>1, <2>4, ContinueTyped DEF BusyPcs
  <2>6. session' = [session EXCEPT ![h] = s]
    BY <2>2 DEF Continue
  <2>7. \A g \in Handlers : Busy(g)' => RunRecorded(session'[g])
    <3>. HIDE DEF s
    <3>. QED  BY <2>1, <2>5, <2>6 DEF Busy, SameRun, RunRecorded, Recorded, KeysInv, TypeOK
  <2>. QED  BY <1>10, <2>7, KeysFrame DEF ClaimReturned, KeysInv
<1>11. ASSUME NEW h \in Handlers, Commit(h)
       PROVE  KeysInv'
  <2>. DEFINE me == session[h]
  <2>1. me \in Executing /\ Busy(h)
    BY <1>11, BusyTyped DEF Commit, Busy
  <2>2. me.wf \in Workflows /\ workflow[me.wf] \in Row
    BY <2>1 DEF TypeOK, Executing, Inserted
  <2>3. /\ Merge(workflow[me.wf], me.loaded, me.row) \in Row
        /\ Merge(workflow[me.wf], me.loaded, me.row).payload = workflow[me.wf].payload
    BY <2>1, <2>2, MergeEdits DEF Executing
  <2>4. /\ workflow' = [workflow EXCEPT ![me.wf] = Merge(workflow[me.wf], me.loaded, me.row)]
        /\ session' = [session EXCEPT ![h] = Idle]
        /\ UNCHANGED <<idem, claims, stray>>
    BY <1>11 DEF Commit
  <2>5. Merge(workflow[me.wf], me.loaded, me.row) # Absent
    BY <2>3 DEF Row, Absent
  <2>6. \A r \in idem' : RecordHasRow(r)'
    BY <2>2, <2>3, <2>4, <2>5 DEF KeysInv, RecordHasRow, TypeOK, Key
  <2>7. accepted' \subseteq idem
    BY <1>11, <2>1 DEF Commit, Accepted, KeysInv, RunRecorded
  <2>8. \A g \in Handlers : Busy(g)' => RunRecorded(session'[g])
    BY <2>4 DEF KeysInv, Busy, TypeOK, Idle
  <2>. QED  BY <2>4, <2>6, <2>7, <2>8
            DEF KeysInv, OneRecord, RunRecorded, Recorded, Ledger!OneClaimPerScope
<1>12. ASSUME NEW h \in Handlers, Abort(h)
       PROVE  KeysInv'
  <2>1. \A g \in Handlers : Busy(g)' => RunRecorded(session'[g])
    BY <1>12 DEF Abort, KeysInv, Busy, TypeOK, Idle
  <2>2. \A m \in stray' : Recorded(m.workflow, m.key, m.payload)
    BY <1>12, PostRecorded DEF Abort, Abandon, Busy, KeysInv
  <2>. QED  BY <1>12, <2>1, <2>2, KeysFrame DEF Abort, KeysInv
<1>13. ASSUME NEW m \in stray, StrayStored(m)
       PROVE  KeysInv'
  <2>1. m \in Post /\ Recorded(m.workflow, m.key, m.payload)
    BY DEF TypeOK, KeysInv
  <2>2. (\A c \in claims' : Recorded(c.origin, c.key, c.payload)) /\ (Ledger!OneClaimPerScope)'
    BY <1>13, <2>1, CreateKeys DEF StrayStored
  <2>. QED  BY <1>13, <2>2
            DEF StrayStored, KeysInv, OneRecord, RecordHasRow, RunRecorded, Recorded, Busy
<1>14. CASE UNCHANGED vars
  BY <1>14, KeysFrame DEF vars, KeysInv, Busy
<1>. QED
  BY <1>1, <1>2, <1>3, <1>4, <1>5, <1>6, <1>7, <1>8, <1>9, <1>10, <1>11, <1>12, <1>13, <1>14
     DEF Next, Receive, Proceed, Quiet

-----------------------------------------------------------------------------
(* Rows and runs *)

Outcomes == {"FAILED", "COMPLETED", "RECONCILIATION_REQUIRED"}

LEMMA RunsInit == Init => RunsInv
BY DEF Init, RunsInv, Busy, Idle

(* Steps that leave the tables alone and make no run busy but those of h.  *)
LEMMA RunsFrame ==
  ASSUME TypeOK, RunsInv, NEW h \in Handlers,
         UNCHANGED <<workflow, idem>>, claims \subseteq claims',
         \A g \in Handlers \ {h} : session'[g] = session[g],
         Busy(h)' => /\ UnitInv(session[h])'
                     /\ \A g \in Handlers \ {h} :
                          Busy(g) /\ session[g].wf = session'[h].wf =>
                            session[g].retry /\ session'[h].retry
  PROVE  RunsInv'
<1>1. \A w \in Workflows : workflow'[w] # Absent => RowInv(w, workflow[w])'
  BY DEF RunsInv, RowInv, Backed, KeysOf
<1>2. \A g \in Handlers : Busy(g)' => UnitInv(session[g])'
  <2>1. ASSUME NEW g \in Handlers \ {h}, Busy(g)'
        PROVE  UnitInv(session[g])'
    BY <2>1 DEF RunsInv, UnitInv, Busy, Backed, KeysOf, Ledger!Bound
  <2>. QED  BY <2>1
<1>3. ASSUME NEW f \in Handlers, NEW g \in Handlers, Busy(f)', Busy(g)',
             session'[f].wf = session'[g].wf, ~ session'[f].retry
      PROVE  f = g
  BY <1>3 DEF RunsInv, Busy
<1>. QED  BY <1>1, <1>2, <1>3 DEF RunsInv

(* A move forward of the unit of work keeps its invariant. *)
LEMMA MoveUnit ==
  ASSUME NEW me, NEW s, UnitInv(me), Moves(s, me)
  PROVE  UnitInv(s)
BY DEF UnitInv, Moves, SameRun

(* What a commit makes of a row: a first run replaces it by its own, a     *)
(* retry adds its outcome or leaves the outcome of another run.            *)
LEMMA CommitRow ==
  ASSUME TypeOK, KeysInv, RunsInv, NEW h \in Handlers, session[h].pc = "commit"
  PROVE  LET me == session[h]
             r  == Merge(workflow[me.wf], me.loaded, me.row)
         IN  RowInv(me.wf, r) /\ r.state \in Outcomes /\ r # Absent /\ me.wf \in Workflows
<1>. DEFINE me == session[h]
            q  == workflow[me.wf]
            r  == Merge(q, me.loaded, me.row)
<1>1. Busy(h) /\ me \in Executing /\ UnitInv(me)
  BY BusyTyped DEF Busy, RunsInv
<1>2. me.wf \in Workflows /\ me.loaded \in Row /\ me.row \in Row /\ q \in Row
  BY <1>1 DEF Executing, UnitInv, TypeOK
<1>3. RowInv(me.wf, q)
  BY <1>1, <1>2 DEF RunsInv, UnitInv
<1>4. /\ r \in Row /\ r.payload = q.payload
      /\ r.state = Written(me.row.state, me.loaded.state, q.state)
      /\ r.claim = Written(me.row.claim, me.loaded.claim, q.claim)
      /\ r.retries = Written(me.row.retries, me.loaded.retries, q.retries)
  BY <1>2, MergeEdits
<1>5. me.row.payload = q.payload
  <2>1. RunRecorded(me)
    BY <1>1 DEF KeysInv
  <2>2. PICK i \in idem : i.workflow = me.wf /\ i.payload = me.row.payload
    BY <2>1 DEF RunRecorded, Recorded
  <2>. QED  BY <2>2 DEF KeysInv, RecordHasRow
<1>6. me.row.state \in Outcomes /\ r.state \in Outcomes
  BY <1>1, <1>4 DEF UnitInv, Outcomes, Written
<1>7. r.retries <= MaxRetryCount
  BY <1>1, <1>2, <1>3, <1>4, RetryAssumption DEF UnitInv, RowInv, Written, Row
<1>8. r.state = "FAILED" => r.claim = NoClaim
  <2>. HIDE DEF r, q
  <2>. SUFFICES ASSUME r.state = "FAILED" PROVE r.claim = NoClaim
    OBVIOUS
  <2>1. q.state = "FAILED" \/ q.state = "PENDING"
    BY <1>1, <1>4 DEF UnitInv, Written, q
  <2>2. me.row.state = "FAILED"
    BY <1>1, <1>4, <2>1 DEF UnitInv, Written, q
  <2>3. me.row.claim = NoClaim /\ me.loaded.claim = NoClaim /\ q.claim = NoClaim
    BY <1>1, <1>3, <2>1, <2>2 DEF UnitInv, RowInv
  <2>. QED  BY <1>4, <2>3 DEF Written
<1>9. r.state = "COMPLETED" => Backed(me.wf, r)
  <2>. SUFFICES ASSUME r.state = "COMPLETED" PROVE Backed(me.wf, r)
    OBVIOUS
  <2>1. CASE me.row.state = "COMPLETED"
    <3>1. r.claim = me.row.claim /\ Backed(me.wf, me.row)
      BY <1>1, <1>4, <2>1 DEF UnitInv, Written
    <3>. QED  BY <1>4, <1>5, <3>1 DEF Backed
  <2>2. CASE me.row.state # "COMPLETED"
    <3>1. me.row.claim = NoClaim /\ me.loaded.claim = NoClaim
      BY <1>1, <2>2 DEF UnitInv
    <3>2. r.claim = q.claim /\ q.state = "COMPLETED"
      BY <1>1, <1>4, <2>2, <3>1 DEF UnitInv, Written
    <3>. QED  BY <1>3, <1>4, <3>2 DEF RowInv, Backed
  <2>. QED  BY <2>1, <2>2
<1>10. r # Absent
  BY <1>4 DEF Row, Absent
<1>. QED  BY <1>2, <1>6, <1>7, <1>8, <1>9, <1>10 DEF RowInv, Outcomes

LEMMA RunsNext == TypeOK /\ KeysInv /\ RunsInv /\ [Next]_vars => RunsInv'
<1>. SUFFICES ASSUME TypeOK, KeysInv, RunsInv, [Next]_vars PROVE RunsInv'
  OBVIOUS
<1>. USE DEF dbVars
<1>1. ASSUME NEW h \in Handlers, NEW s \in Subjects, NEW k \in Keys, NEW p \in Payloads,
             StartDuplicate(h, s, k, p)
      PROVE  RunsInv'
  BY <1>1, RunsFrame DEF StartDuplicate, Busy, Idle
<1>2. ASSUME NEW h \in Handlers, NEW s \in Subjects, NEW k \in Keys, NEW p \in Payloads,
             StartNew(h, s, k, p)
      PROVE  RunsInv'
  BY <1>2, RunsFrame DEF StartNew, Busy, TypeOK
<1>3. ASSUME NEW h \in Handlers, Insert(h)
      PROVE  RunsInv'
  <2>. DEFINE me == session[h]
  <2>1. me \in Starting
    BY <1>3, StartingTyped DEF Insert
  <2>2. PICK w \in Workflows :
          /\ workflow[w] = Absent
          /\ workflow' = [workflow EXCEPT ![w] = NewRow(me.payload)]
          /\ idem' = idem \cup {[subject |-> me.caller, key |-> me.key,
                                 payload |-> me.payload, workflow |-> w]}
          /\ session' = [session EXCEPT ![h] =
               [pc |-> "policy", caller |-> me.caller, key |-> me.key, wf |-> w,
                retry |-> FALSE, order |-> <<"policy_verification", "claim_submission">>,
                attempt |-> 1, loaded |-> NewRow(me.payload), row |-> NewRow(me.payload),
                log |-> <<>>]]
    BY <1>3 DEF Insert
  <2>3. claims' = claims
    BY <1>3 DEF Insert
  <2>4. /\ session'[h].pc = "policy" /\ session'[h].wf = w /\ session'[h].retry = FALSE
        /\ session'[h].loaded = NewRow(me.payload) /\ session'[h].row = NewRow(me.payload)
        /\ \A g \in Handlers \ {h} : session'[g] = session[g]
    BY <2>2 DEF TypeOK
  <2>5. /\ NewRow(me.payload) # Absent
        /\ NewRow(me.payload).state = "PENDING" /\ NewRow(me.payload).claim = NoClaim
        /\ NewRow(me.payload).retries = 0
    BY DEF NewRow, Absent
  <2>6. /\ workflow'[w] = NewRow(me.payload)
        /\ \A v \in Workflows \ {w} : workflow'[v] = workflow[v]
    BY <2>2 DEF TypeOK
  <2>7. ASSUME NEW v \in Workflows, workflow'[v] # Absent
        PROVE  RowInv(v, workflow[v])'
    <3>1. CASE v = w
      BY <2>5, <2>6, <3>1, RetryAssumption DEF RowInv
    <3>2. CASE v # w
      BY <2>2, <2>3, <2>6, <2>7, <3>2 DEF RunsInv, RowInv, Backed, KeysOf
    <3>. QED  BY <3>1, <3>2
  <2>8. ASSUME NEW g \in Handlers \ {h}, Busy(g)
        PROVE  session[g].wf # w /\ session[g].wf \in Workflows
    BY <2>2, <2>8, BusyTyped DEF RunsInv, UnitInv, Executing
  <2>9. ASSUME NEW g \in Handlers, Busy(g)'
        PROVE  UnitInv(session[g])'
    <3>1. CASE g = h
      BY <2>4, <2>5, <2>6, <3>1 DEF UnitInv
    <3>2. CASE g # h
      <4>1. Busy(g) /\ UnitInv(session[g]) /\ session'[g] = session[g]
        BY <2>4, <2>9, <3>2 DEF Busy, RunsInv
      <4>2. workflow'[session[g].wf] = workflow[session[g].wf]
        BY <2>6, <2>8, <3>2, <4>1
      <4>. QED  BY <2>2, <2>3, <4>1, <4>2 DEF UnitInv, Backed, KeysOf, Ledger!Bound
    <3>. QED  BY <3>1, <3>2
  <2>10. ASSUME NEW f \in Handlers, NEW g \in Handlers, Busy(f)', Busy(g)',
                session'[f].wf = session'[g].wf, ~ session'[f].retry
         PROVE  f = g
    BY <2>4, <2>8, <2>10 DEF RunsInv, Busy
  <2>. QED  BY <2>7, <2>9, <2>10 DEF RunsInv
<1>4. ASSUME NEW h \in Handlers, InsertLost(h)
      PROVE  RunsInv'
  BY <1>4, RunsFrame, StartingTyped DEF InsertLost, Busy, TypeOK, Starting
<1>5. ASSUME NEW h \in Handlers, AnswerLost(h)
      PROVE  RunsInv'
  BY <1>5, RunsFrame DEF AnswerLost, Busy, TypeOK, Idle
<1>6. ASSUME NEW h \in Handlers, NEW w \in Workflows, RetryRefused(h, w)
      PROVE  RunsInv'
  BY <1>6, RunsFrame DEF RetryRefused, Busy, Idle
<1>7. ASSUME NEW h \in Handlers, NEW s \in Subjects, NEW w \in Workflows, RetryBegin(h, s, w)
      PROVE  RunsInv'
  <2>1. Retryable(workflow[w]) /\ workflow[w] \in Row /\ workflow[w] # Absent
    BY <1>7 DEF RetryBegin, Retryable, TypeOK, Absent
  <2>2. PICK order \in StepOrder :
          /\ session'[h].pc = "policy" /\ session'[h].wf = w /\ session'[h].retry = TRUE
          /\ session'[h].loaded = workflow[w]
          /\ session'[h].row = MarkRetried(workflow[w], order).row
    BY <1>7 DEF RetryBegin, TypeOK
  <2>3. /\ UNCHANGED <<workflow, idem, claims>>
        /\ \A g \in Handlers \ {h} : session'[g] = session[g]
    BY <1>7 DEF RetryBegin, TypeOK
  <2>4. /\ session'[h].row.claim = workflow[w].claim
        /\ session'[h].row.retries = workflow[w].retries + 1
    BY <2>1, <2>2, MarkRetriedEdits
  <2>5. RowInv(w, workflow[w]) /\ workflow[w].state = "FAILED" /\ workflow[w].retries < MaxRetryCount
    BY <2>1 DEF RunsInv, Retryable
  <2>6. UnitInv(session[h])'
    BY <2>1, <2>2, <2>3, <2>4, <2>5 DEF UnitInv, RowInv
  <2>7. ASSUME NEW g \in Handlers \ {h}, Busy(g), session[g].wf = w
        PROVE  session[g].retry
    BY <2>5, <2>7 DEF RunsInv, UnitInv
  <2>. QED  BY <2>2, <2>3, <2>6, <2>7, RunsFrame
<1>8. ASSUME NEW h \in Handlers, Quiet(h)
      PROVE  RunsInv'
  <2>1. Busy(h) /\ UNCHANGED <<workflow, idem, claims>>
    BY <1>8, QuietMoves
  <2>2. PICK s \in Executing : Moves(s, session[h]) /\ session' = [session EXCEPT ![h] = s]
    BY <1>8, QuietMoves
  <2>3. session'[h] = s /\ \A g \in Handlers \ {h} : session'[g] = session[g]
    BY <2>2 DEF TypeOK
  <2>4. UnitInv(s)
    BY <2>1, <2>2, MoveUnit DEF RunsInv
  <2>5. UnitInv(session[h])'
    BY <2>1, <2>3, <2>4 DEF UnitInv, Backed, KeysOf, Ledger!Bound
  <2>6. ASSUME NEW g \in Handlers \ {h}, Busy(g), session[g].wf = s.wf
        PROVE  session[g].retry /\ s.retry
    BY <2>1, <2>2, <2>6 DEF RunsInv, Moves, SameRun
  <2>. QED  BY <2>1, <2>3, <2>5, <2>6, RunsFrame
<1>9. ASSUME NEW h \in Handlers, ClaimStored(h)
      PROVE  RunsInv'
  <2>. DEFINE me == session[h]
              m  == PostOf(me)
  <2>1. Busy(h) /\ me \in Executing /\ UnitInv(me) /\ me.pc = "sent"
    BY <1>9, BusyTyped DEF ClaimStored, Busy, RunsInv
  <2>2. /\ UNCHANGED <<workflow, idem>>
        /\ session'[h] = [me EXCEPT !.pc = "stored"]
        /\ \A g \in Handlers \ {h} : session'[g] = session[g]
    BY <1>9 DEF ClaimStored, TypeOK
  <2>3. /\ claims \subseteq claims'
        /\ \E c \in claims' : c.subject = me.caller /\ c.key = me.key /\ c.payload = me.row.payload
    <3>1. m.subject = me.caller /\ m.key = me.key /\ m.payload = me.row.payload
      BY DEF PostOf
    <3>2. CASE Ledger!Create(m.subject, m.key, m.payload, m.workflow)
      <4>1. PICK id \in Claims :
              claims' = claims \cup {[id |-> id, subject |-> m.subject, key |-> m.key,
                                     payload |-> m.payload, origin |-> m.workflow]}
        BY <3>2 DEF Ledger!Create
      <4>. DEFINE c == [id |-> id, subject |-> m.subject, key |-> m.key,
                        payload |-> m.payload, origin |-> m.workflow]
      <4>2. c.subject = me.caller /\ c.key = me.key /\ c.payload = me.row.payload
        BY <3>1
      <4>3. c \in claims' /\ claims \subseteq claims'
        BY <4>1
      <4>. HIDE DEF c
      <4>. QED  BY <4>2, <4>3
    <3>3. CASE Ledger!Replay(m.subject, m.key, m.payload)
      BY <3>1, <3>3 DEF Ledger!Replay, Ledger!Bound
    <3>. QED  BY <1>9, <3>2, <3>3 DEF ClaimStored, Ledger!Accept
  <2>4. /\ session'[h].pc = "stored" /\ SameRun(session'[h], me) /\ session'[h].row = me.row
    BY <2>1, <2>2 DEF Executing, SameRun
  <2>5. UnitInv(session[h])'
    BY <2>1, <2>2, <2>3, <2>4 DEF UnitInv, SameRun, Ledger!Bound
  <2>6. ASSUME NEW g \in Handlers \ {h}, Busy(g), session[g].wf = session'[h].wf
        PROVE  session[g].retry /\ session'[h].retry
    BY <2>1, <2>4, <2>6 DEF RunsInv, SameRun
  <2>. QED  BY <2>2, <2>3, <2>5, <2>6, RunsFrame
<1>10. ASSUME NEW h \in Handlers, ClaimReturned(h)
       PROVE  RunsInv'
  <2>. DEFINE me == session[h]
  <2>1. Busy(h) /\ me \in Executing /\ UnitInv(me) /\ me.pc = "stored" /\ RunRecorded(me)
    BY <1>10, BusyTyped DEF ClaimReturned, Busy, RunsInv, KeysInv
  <2>2. PICK c \in Ledger!Bound(me.caller, me.key) :
          Continue(h, "commit", MarkCompleted(InMemory(me), me.order, c.id))
    BY <1>10 DEF ClaimReturned, PostOf
  <2>3. c \in claims /\ c.subject = me.caller /\ c.key = me.key /\ c.id \in Claims
    BY DEF TypeOK, Ledger!ClaimRow, Ledger!Bound
  <2>4. c.payload = me.row.payload
    BY <2>1, <2>3 DEF UnitInv, Ledger!Bound, KeysInv, Ledger!OneClaimPerScope
  <2>. DEFINE u == MarkCompleted(InMemory(me), me.order, c.id)
              s == [me EXCEPT !.pc = "commit", !.row = u.row, !.log = u.log]
  <2>5. /\ u \in Unit /\ u.row.state = "COMPLETED" /\ u.row.claim = c.id
        /\ u.row.payload = me.row.payload /\ u.row.retries = me.row.retries
    BY <2>1, <2>3, InMemoryTyped, MarkCompletedEdits
  <2>6. s.pc = "commit" /\ s.row = u.row /\ SameRun(s, me)
    <3>. HIDE DEF u
    <3>. QED  BY <2>1, <2>5, ContinueTyped DEF BusyPcs
  <2>7. session'[h] = s /\ \A g \in Handlers \ {h} : session'[g] = session[g]
    BY <2>2 DEF Continue, TypeOK
  <2>8. UNCHANGED <<workflow, idem, claims>>
    BY <1>10 DEF ClaimReturned
  <2>. HIDE DEF s, u
  <2>9. Backed(s.wf, s.row)
    BY <2>1, <2>3, <2>4, <2>5, <2>6 DEF Backed, KeysOf, RunRecorded, Recorded, SameRun
  <2>10. s.row.claim # NoClaim
    BY <2>3, <2>5, <2>6, NoClaimAssumption
  <2>11. UnitInv(s)
    BY <2>1, <2>5, <2>6, <2>9, <2>10 DEF UnitInv, SameRun
  <2>12. UnitInv(session[h])'
    BY <2>7, <2>8, <2>11 DEF UnitInv, Backed, KeysOf, Ledger!Bound
  <2>13. ASSUME NEW g \in Handlers \ {h}, Busy(g), session[g].wf = s.wf
         PROVE  session[g].retry /\ s.retry
    BY <2>1, <2>6, <2>13 DEF RunsInv, SameRun
  <2>. QED  BY <2>7, <2>8, <2>12, <2>13, RunsFrame
<1>11. ASSUME NEW h \in Handlers, Commit(h)
       PROVE  RunsInv'
  <2>. DEFINE me == session[h]
              r  == Merge(workflow[me.wf], me.loaded, me.row)
  <2>1. Busy(h) /\ me \in Executing /\ UnitInv(me) /\ me.pc = "commit"
    BY <1>11, BusyTyped DEF Commit, Busy, RunsInv
  <2>2. RowInv(me.wf, r) /\ r.state \in Outcomes /\ r # Absent /\ me.wf \in Workflows
    BY <2>1, CommitRow
  <2>3. /\ workflow' = [workflow EXCEPT ![me.wf] = r]
        /\ session' = [session EXCEPT ![h] = Idle]
        /\ UNCHANGED <<idem, claims>>
    BY <1>11 DEF Commit
  <2>. HIDE DEF r
  <2>4. /\ workflow'[me.wf] = r
        /\ \A v \in Workflows \ {me.wf} : workflow'[v] = workflow[v]
    BY <2>2, <2>3 DEF TypeOK
  <2>5. ~ Busy(h)' /\ \A g \in Handlers \ {h} : session'[g] = session[g]
    BY <2>3 DEF TypeOK, Busy, Idle
  <2>6. ASSUME NEW v \in Workflows, workflow'[v] # Absent
        PROVE  RowInv(v, workflow[v])'
    BY <2>2, <2>3, <2>4, <2>6 DEF RunsInv, RowInv, Backed, KeysOf
  <2>7. ASSUME NEW g \in Handlers, Busy(g)'
        PROVE  UnitInv(session[g])'
    <3>1. g # h /\ Busy(g) /\ UnitInv(session[g]) /\ session'[g] = session[g]
      BY <2>5, <2>7 DEF Busy, RunsInv
    <3>2. session[g].wf \in Workflows
      BY <3>1, BusyTyped DEF Executing
    <3>3. CASE session[g].wf # me.wf
      <4>1. workflow'[session[g].wf] = workflow[session[g].wf]
        BY <2>4, <3>2, <3>3
      <4>. QED  BY <2>3, <3>1, <4>1 DEF UnitInv, Backed, KeysOf, Ledger!Bound
    <3>4. CASE session[g].wf = me.wf
      <4>1. session[g].retry
        BY <2>1, <3>1, <3>4 DEF RunsInv
      <4>. QED  BY <2>2, <2>3, <2>4, <3>1, <3>4, <4>1
                DEF UnitInv, Backed, KeysOf, Ledger!Bound, Outcomes
    <3>. QED  BY <3>3, <3>4
  <2>8. ASSUME NEW f \in Handlers, NEW g \in Handlers, Busy(f)', Busy(g)',
               session'[f].wf = session'[g].wf, ~ session'[f].retry
        PROVE  f = g
    BY <2>5, <2>8 DEF RunsInv, Busy
  <2>. QED  BY <2>6, <2>7, <2>8 DEF RunsInv
<1>12. ASSUME NEW h \in Handlers, Abort(h)
       PROVE  RunsInv'
  BY <1>12, RunsFrame DEF Abort, Busy, TypeOK, Idle
<1>13. ASSUME NEW m \in stray, StrayStored(m)
       PROVE  RunsInv'
  <2>1. claims \subseteq claims' /\ UNCHANGED <<workflow, idem, session>>
    BY <1>13 DEF StrayStored, Ledger!Create
  <2>. QED  BY <2>1 DEF RunsInv, RowInv, UnitInv, Busy, Backed, KeysOf, Ledger!Bound
<1>14. CASE UNCHANGED vars
  BY <1>14 DEF vars, RunsInv, RowInv, UnitInv, Busy, Backed, KeysOf, Ledger!Bound
<1>. QED
  BY <1>1, <1>2, <1>3, <1>4, <1>5, <1>6, <1>7, <1>8, <1>9, <1>10, <1>11, <1>12, <1>13, <1>14
     DEF Next, Receive, Proceed, Quiet

-----------------------------------------------------------------------------
(* The invariance theorem and what follows from it *)

LEMMA RunsInserted == RunsInv => Inserted
BY DEF RunsInv, UnitInv, Inserted

LEMMA InvInit == Init => IInv
BY TypeInit, KeysInit, RunsInit DEF IInv

LEMMA InvNext == IInv /\ [Next]_vars => IInv'
BY RunsInserted, TypeNext, KeysNext, RunsNext DEF IInv

(* Every reachable state of the saga satisfies the inductive invariant, whatever the number
   of handlers, workflows, retries, timeouts and crashes. *)
THEOREM InductiveInvariant == Spec => []IInv
BY InvInit, InvNext, PTL DEF Spec

(* The tables, the sessions, the POSTs in flight and the counters always have their types
   (in particular a handler's attempt counter stays within MaxAttempts). *)
THEOREM TypeCorrect == Spec => []TypeOK
<1>1. IInv => TypeOK
  BY DEF IInv
<1>. QED  BY <1>1, InductiveInvariant, PTL

(* Rows never show an outcome the handlers' interleaved commits could have torn: a pending
   or failed row has no claim id. *)
THEOREM UnfinishedWithoutClaim == Spec => []UnfinishedHasNoClaim
<1>1. IInv => UnfinishedHasNoClaim
  BY DEF IInv, RunsInv, RowInv, UnfinishedHasNoClaim, Absent
<1>. QED  BY <1>1, InductiveInvariant, PTL

(* A completed workflow names a claim the ledger holds, with its request and its key. *)
THEOREM CompletedBacked == Spec => []CompletedIsBacked
<1>1. IInv => CompletedIsBacked
  BY DEF IInv, RunsInv, RowInv, CompletedIsBacked, Absent
<1>. QED  BY <1>1, InductiveInvariant, PTL

(* No row's retry counter exceeds MAX_RETRY_COUNT, concurrent retries included. *)
THEOREM RetriesNeverExceed == Spec => []RetriesBounded
<1>1. IInv => RetriesBounded
  BY DEF IInv, RunsInv, RowInv, RetriesBounded
<1>. QED  BY <1>1, InductiveInvariant, PTL

(* A key of a subject names one workflow for ever, in the tables and in every answer. *)
THEOREM KeyNamesWorkflow == Spec => []OneWorkflowPerKey
<1>1. IInv => OneWorkflowPerKey
  BY DEF IInv, TypeOK, Key, KeysInv, OneRecord, RecordHasRow, OneWorkflowPerKey
<1>. QED  BY <1>1, InductiveInvariant, PTL

(* Two claims posted for one workflow were posted by different users: timeouts, crashes,
   retries and late deliveries alone never create a second one. *)
THEOREM CallerGetsOneClaim == Spec => []OneClaimPerCaller
<1>1. ASSUME IInv, NEW c \in claims, NEW d \in claims,
             c.origin = d.origin, c.subject = d.subject
      PROVE  c = d
  <2>1. PICK q \in idem : q.workflow = c.origin /\ q.key = c.key
    BY <1>1 DEF IInv, KeysInv, Recorded
  <2>2. PICK r \in idem : r.workflow = d.origin /\ r.key = d.key
    BY <1>1 DEF IInv, KeysInv, Recorded
  <2>3. c.key = d.key
    BY <1>1, <2>1, <2>2 DEF IInv, KeysInv, OneRecord
  <2>. QED  BY <1>1, <2>3 DEF IInv, KeysInv, Ledger!OneClaimPerScope
<1>2. IInv => OneClaimPerCaller
  BY <1>1 DEF OneClaimPerCaller
<1>. QED  BY <1>2, InductiveInvariant, PTL

-----------------------------------------------------------------------------
(* The action property *)

Finished(row) == row.state \in {"COMPLETED", "RECONCILIATION_REQUIRED"}

(* A commit over a finished row leaves it finished: the unit of work of a  *)
(* retry either brings an outcome of that kind or does not write the state.*)
LEMMA CommitKeepsFinished ==
  ASSUME IInv, NEW h \in Handlers, Commit(h), NEW w \in Workflows, Finished(workflow[w])
  PROVE  Finished(workflow'[w])
<1>. DEFINE me == session[h]
            q  == workflow[me.wf]
            r  == Merge(q, me.loaded, me.row)
<1>1. TypeOK /\ Busy(h) /\ me \in Executing /\ UnitInv(me) /\ me.pc = "commit"
  BY BusyTyped DEF IInv, Commit, Busy, RunsInv
<1>2. me.wf \in Workflows /\ me.loaded \in Row /\ me.row \in Row /\ q \in Row
  BY <1>1 DEF Executing, UnitInv, TypeOK
<1>3. workflow' = [workflow EXCEPT ![me.wf] = r]
  BY DEF Commit
<1>4. r.state = Written(me.row.state, me.loaded.state, q.state)
  BY <1>2, MergeEdits
<1>. HIDE DEF r
<1>5. CASE w # me.wf
  <2>1. workflow'[w] = workflow[w]
    BY <1>1, <1>3, <1>5 DEF TypeOK
  <2>. QED  BY <2>1
<1>6. CASE w = me.wf
  <2>1. workflow'[w] = r
    BY <1>1, <1>3, <1>6 DEF TypeOK
  <2>2. me.retry /\ me.loaded.state = "FAILED"
    BY <1>1, <1>6 DEF UnitInv, Finished
  <2>3. me.row.state \in {"FAILED", "COMPLETED", "RECONCILIATION_REQUIRED"}
    BY <1>1 DEF UnitInv
  <2>. QED  BY <1>4, <1>6, <2>1, <2>2, <2>3 DEF Finished, Written
<1>. QED  BY <1>5, <1>6

(* An insert takes an unused identifier, and no other step writes the table. *)
LEMMA StepKeepsFinished ==
  ASSUME IInv, [Next]_vars, NEW w \in Workflows, Finished(workflow[w])
  PROVE  Finished(workflow'[w])
<1>1. ASSUME NEW h \in Handlers, Insert(h)
      PROVE  Finished(workflow'[w])
  <2>1. PICK v \in Workflows :
          workflow[v] = Absent /\ workflow' = [workflow EXCEPT ![v] = NewRow(session[h].payload)]
    BY <1>1 DEF Insert
  <2>2. v # w
    BY <2>1 DEF Absent, Finished
  <2>3. workflow'[w] = workflow[w]
    BY <2>1, <2>2 DEF IInv, TypeOK
  <2>. QED  BY <2>3
<1>2. ASSUME NEW h \in Handlers, Commit(h)
      PROVE  Finished(workflow'[w])
  BY <1>2, CommitKeepsFinished
<1>3. CASE UNCHANGED workflow
  BY <1>3
<1>4. UNCHANGED workflow \/ \E h \in Handlers : Insert(h) \/ Commit(h)
  BY DEF Next, vars, Receive, Proceed, dbVars, StartDuplicate, StartNew, RetryRefused,
         RetryBegin, InsertLost, AnswerLost, PolicyVerified, PolicyFailed, ClaimStored,
         ClaimReturned, ClaimRejected, ClaimUnrecognizable, ClaimServerError, ClaimTimeout,
         Abort, StrayStored
<1>. QED  BY <1>1, <1>2, <1>3, <1>4

(* No step, however late a concurrent handler commits, takes a completed workflow to a state
   from which the saga runs again. *)
THEOREM CompletedStaysDone == Spec => CompletedIsNeverRerun
<1>1. IInv /\ [Next]_vars =>
        [\A w \in Workflows : workflow[w].state = "COMPLETED" =>
           /\ workflow'[w].state \in {"COMPLETED", "RECONCILIATION_REQUIRED"}
           /\ ~ Retryable(workflow'[w])]_workflow
  <2>1. ASSUME IInv, [Next]_vars, NEW w \in Workflows, workflow[w].state = "COMPLETED"
        PROVE  /\ workflow'[w].state \in {"COMPLETED", "RECONCILIATION_REQUIRED"}
               /\ ~ Retryable(workflow'[w])
    BY <2>1, StepKeepsFinished DEF Finished, Retryable
  <2>. QED  BY <2>1
<1>. QED  BY <1>1, InductiveInvariant, PTL DEF Spec, CompletedIsNeverRerun

-----------------------------------------------------------------------------
(* What an outcome leaves behind: closed steps, and an alert where somebody *)
(* has to look.  A second invariant on top of the first.                    *)

Open(r, n) == r.steps[n].state \in {"PENDING", "RUNNING"}
Closed(r) == \A n \in Steps : ~ Open(r, n)
Alerts(log) == \E i \in DOMAIN log : log[i].type = "reconciliation_required"

RunOutcome(me) ==
  /\ me.pc \in {"sent", "stored"} => ~ Open(me.row, me.order[1])
  /\ me.pc = "commit" =>
       Closed(me.row) /\ (me.row.state = "RECONCILIATION_REQUIRED" => Alerts(me.log))
RowOutcome(w) ==
  /\ workflow[w].state \in Outcomes => Closed(workflow[w])
  /\ workflow[w].state = "RECONCILIATION_REQUIRED" => Alerts(audit[w])

OutcomeInv ==
  /\ \A h \in Handlers : Busy(h) => RunOutcome(session[h])
  /\ \A w \in Workflows : RowOutcome(w)

(* The steps under the edits *)

LEMMA OrderCoversSteps ==
  ASSUME NEW order \in StepOrder
  PROVE  order[1] # order[2] /\ Steps = {order[1], order[2]}
BY DEF StepOrder, Steps

LEMMA SetStepSteps ==
  ASSUME NEW u \in Unit, NEW n \in Steps, NEW s \in StepStates, NEW err \in Categories
  PROVE  /\ SetStep(u, n, s, err).row.steps[n].state = s
         /\ \A m \in Steps \ {n} : SetStep(u, n, s, err).row.steps[m] = u.row.steps[m]
<1>1. u.row \in Row /\ u.row.steps \in [Steps -> [state: StepStates, error: Categories]]
  BY UnitRow DEF Row
<1>2. CASE u.row.steps[n] = [state |-> s, error |-> err]
  BY <1>2 DEF SetStep
<1>3. CASE u.row.steps[n] # [state |-> s, error |-> err]
  <2>. DEFINE r == [u.row EXCEPT !.steps[n] = [state |-> s, error |-> err]]
  <2>1. SetStep(u, n, s, err).row = r
    BY <1>3 DEF SetStep
  <2>2. r.steps = [u.row.steps EXCEPT ![n] = [state |-> s, error |-> err]]
    BY <1>1 DEF Row
  <2>. HIDE DEF r
  <2>. QED  BY <1>1, <2>1, <2>2
<1>. QED  BY <1>2, <1>3

LEMMA CloseStepSteps ==
  ASSUME NEW u \in Unit, NEW n \in Steps, NEW s \in {"FAILED", "SKIPPED"}, NEW err \in Categories
  PROVE  /\ ~ Open(CloseStep(u, n, s, err).row, n)
         /\ \A m \in Steps \ {n} : CloseStep(u, n, s, err).row.steps[m] = u.row.steps[m]
<1>1. s \in StepStates
  BY DEF StepStates
<1>. QED  BY <1>1, SetStepSteps DEF CloseStep, Open

LEMMA SetStateSteps ==
  ASSUME NEW u \in Unit, NEW s \in States
  PROVE  SetState(u, s).row.steps = u.row.steps
<1>1. u.row \in Row /\ SetState(u, s).row = [u.row EXCEPT !.state = s]
  BY SetStateEdits, UnitRow
<1>2. [u.row EXCEPT !.state = s].steps = u.row.steps
  BY <1>1 DEF Row
<1>. QED  BY <1>1, <1>2

(* A failure closes both steps, and the last event of a reconciliation is the alert. *)
LEMMA MarkFailureCloses ==
  ASSUME NEW u \in Unit, NEW order \in StepOrder, NEW c \in Categories, NEW b \in BOOLEAN
  PROVE  /\ Closed(MarkFailure(u, order, c, b).row)
         /\ b => Alerts(MarkFailure(u, order, c, b).log)
<1>. DEFINE target == IF b THEN "RECONCILIATION_REQUIRED" ELSE "FAILED"
            v      == [u EXCEPT !.row.category = c]
            named  == SetState(v, target)
            first  == CloseStep(named, order[1], "FAILED", c)
            both   == CloseStep(first, order[2], "SKIPPED", c)
            alert  == [both EXCEPT !.log = Append(both.log, Marker("reconciliation_required"))]
<1>1. v \in Unit
  BY UnitRow DEF Unit, Row
<1>2. target \in States /\ "FAILED" \in StepStates /\ "SKIPPED" \in StepStates
  BY DEF States, StepStates
<1>3. named \in Unit
  BY <1>1, <1>2, SetStateEdits
<1>4. first \in Unit /\ ~ Open(first.row, order[1])
  BY <1>2, <1>3, CloseStepEdits, CloseStepSteps, OrderNamesSteps
<1>5. /\ both \in Unit /\ ~ Open(both.row, order[2])
      /\ both.row.steps[order[1]] = first.row.steps[order[1]]
  <2>. HIDE DEF first
  <2>. QED  BY <1>2, <1>4, CloseStepEdits, CloseStepSteps, OrderNamesSteps, OrderCoversSteps
<1>6. Closed(both.row)
  <2>. HIDE DEF first, both
  <2>. QED  BY <1>4, <1>5, OrderCoversSteps DEF Closed, Open
<1>7. alert.row = both.row /\ Alerts(alert.log)
  <2>. HIDE DEF both
  <2>1. both.log \in Seq(Event) /\ alert.row = both.row
        /\ alert.log = Append(both.log, Marker("reconciliation_required"))
    BY <1>5, UnitRow DEF Unit
  <2>2. Len(both.log) + 1 \in DOMAIN alert.log
        /\ alert.log[Len(both.log) + 1] = Marker("reconciliation_required")
    BY <2>1
  <2>. QED  BY <2>1, <2>2 DEF Alerts, Marker
<1>8. MarkFailure(u, order, c, b) = IF b THEN alert ELSE both
  BY DEF MarkFailure
<1>. HIDE DEF both, alert
<1>. QED  BY <1>6, <1>7, <1>8

LEMMA MarkVerifiedCloses ==
  ASSUME NEW u \in Unit, NEW order \in StepOrder
  PROVE  ~ Open(MarkVerified(u, order).row, order[1])
<1>. DEFINE one == SetStep(u, order[1], "SUCCEEDED", "None")
            two == SetState(one, "POLICY_VERIFIED")
            all == SetStep(two, order[2], "RUNNING", "None")
<1>1. /\ "POLICY_VERIFIED" \in States /\ "None" \in Categories
      /\ "SUCCEEDED" \in StepStates /\ "RUNNING" \in StepStates
  BY DEF States, StepStates, Categories
<1>2. one \in Unit /\ one.row.steps[order[1]].state = "SUCCEEDED"
  BY <1>1, SetStepEdits, SetStepSteps, OrderNamesSteps
<1>3. two \in Unit /\ two.row.steps = one.row.steps
  <2>. HIDE DEF one
  <2>. QED  BY <1>1, <1>2, SetStateEdits, SetStateSteps
<1>4. all.row.steps[order[1]] = two.row.steps[order[1]]
  <2>. HIDE DEF two
  <2>. QED  BY <1>1, <1>3, SetStepSteps, OrderNamesSteps, OrderCoversSteps
<1>5. MarkVerified(u, order) = all
  BY DEF MarkVerified
<1>. HIDE DEF one, two, all
<1>. QED  BY <1>2, <1>3, <1>4, <1>5 DEF Open

LEMMA MarkCompletedCloses ==
  ASSUME NEW u \in Unit, NEW order \in StepOrder, NEW id \in Claims, ~ Open(u.row, order[1])
  PROVE  Closed(MarkCompleted(u, order, id).row)
<1>. DEFINE v   == [u EXCEPT !.row.claim = id]
            one == SetStep(v, order[2], "SUCCEEDED", "None")
            two == SetState(one, "CLAIM_SUBMITTED")
            all == SetState(two, "COMPLETED")
<1>1. /\ "CLAIM_SUBMITTED" \in States /\ "COMPLETED" \in States
      /\ "SUCCEEDED" \in StepStates /\ "None" \in Categories
  BY DEF States, StepStates, Categories
<1>2. v \in Unit /\ v.row.steps = u.row.steps
  BY UnitRow DEF Unit, Row
<1>3. /\ one \in Unit /\ one.row.steps[order[2]].state = "SUCCEEDED"
      /\ one.row.steps[order[1]] = v.row.steps[order[1]]
  <2>. HIDE DEF v
  <2>. QED  BY <1>1, <1>2, SetStepEdits, SetStepSteps, OrderNamesSteps, OrderCoversSteps
<1>4. two \in Unit /\ two.row.steps = one.row.steps
  <2>. HIDE DEF one
  <2>. QED  BY <1>1, <1>3, SetStateEdits, SetStateSteps
<1>5. all.row.steps = two.row.steps
  <2>. HIDE DEF two
  <2>. QED  BY <1>1, <1>4, SetStateSteps
<1>6. MarkCompleted(u, order, id) = all
  BY DEF MarkCompleted
<1>. HIDE DEF v, one, two, all
<1>. QED  BY <1>2, <1>3, <1>4, <1>5, <1>6, OrderCoversSteps DEF Closed, Open

LEMMA MergeSteps ==
  ASSUME NEW stored, NEW loaded, NEW new, Closed(new), Closed(stored) \/ stored = loaded
  PROVE  Closed(Merge(stored, loaded, new))
BY DEF Closed, Open, Merge, Written

(* An alert in either part of a log is one in the whole. *)
LEMMA AlertsConcat ==
  ASSUME NEW a \in Seq(Event), NEW b \in Seq(Event), Alerts(a) \/ Alerts(b)
  PROVE  Alerts(a \o b)
<1>1. CASE Alerts(a)
  <2>1. PICK i \in DOMAIN a : a[i].type = "reconciliation_required"
    BY <1>1 DEF Alerts
  <2>2. i \in DOMAIN (a \o b) /\ (a \o b)[i] = a[i]
    OBVIOUS
  <2>. QED  BY <2>1, <2>2 DEF Alerts
<1>2. CASE Alerts(b)
  <2>1. PICK i \in DOMAIN b : b[i].type = "reconciliation_required"
    BY <1>2 DEF Alerts
  <2>2. Len(a) + i \in DOMAIN (a \o b) /\ (a \o b)[Len(a) + i] = b[i]
    OBVIOUS
  <2>. QED  BY <2>1, <2>2 DEF Alerts
<1>. QED  BY <1>1, <1>2

-----------------------------------------------------------------------------
(* The steps of the saga keep it *)

LEMMA OutcomeInit == Init => OutcomeInv
BY DEF Init, OutcomeInv, Busy, Idle, RowOutcome, Absent, Outcomes

(* Steps that leave the tables alone: only the handler that moves matters. *)
LEMMA OutcomeFrame ==
  ASSUME OutcomeInv, NEW h \in Handlers, UNCHANGED <<workflow, audit>>,
         \A g \in Handlers \ {h} : session'[g] = session[g],
         Busy(h)' => RunOutcome(session'[h])
  PROVE  OutcomeInv'
<1>1. \A g \in Handlers : Busy(g)' => RunOutcome(session'[g])
  BY DEF OutcomeInv, Busy
<1>2. \A w \in Workflows : RowOutcome(w)'
  BY DEF OutcomeInv, RowOutcome
<1>. QED  BY <1>1, <1>2 DEF OutcomeInv

LEMMA FailOutcome ==
  ASSUME TypeOK, NEW h \in Handlers, Busy(h), NEW c \in Categories, NEW b \in BOOLEAN,
         Fail(h, c, b)
  PROVE  RunOutcome(session'[h])
<1>. DEFINE me == session[h]
            u  == MarkFailure(InMemory(me), me.order, c, b)
            s  == [me EXCEPT !.pc = "commit", !.row = u.row, !.log = u.log]
<1>1. me \in Executing /\ InMemory(me) \in Unit /\ me.order \in StepOrder
  BY BusyTyped, InMemoryTyped
<1>2. Closed(u.row) /\ (b => Alerts(u.log))
      /\ u.row.state = IF b THEN "RECONCILIATION_REQUIRED" ELSE "FAILED"
  BY <1>1, MarkFailureCloses, MarkFailureEdits
<1>3. session'[h] = s
  BY DEF Fail, Continue, TypeOK
<1>. HIDE DEF u
<1>4. s.pc = "commit" /\ s.row = u.row /\ s.log = u.log
  BY <1>1 DEF Executing
<1>. QED  BY <1>2, <1>3, <1>4 DEF RunOutcome

LEMMA AttemptOutcome ==
  ASSUME TypeOK, OutcomeInv, NEW h \in Handlers, Awaiting(h), AttemptAgain(h)
  PROVE  RunOutcome(session'[h])
<1>. DEFINE me == session[h]
            s  == [me EXCEPT !.pc = "sent", !.attempt = me.attempt + 1]
<1>1. Busy(h) /\ me \in Executing /\ ~ Open(me.row, me.order[1])
  BY BusyTyped DEF Awaiting, Busy, OutcomeInv, RunOutcome
<1>2. CASE me.attempt < MaxAttempts
  <2>1. session'[h] = s
    BY <1>2 DEF AttemptAgain, TypeOK
  <2>2. s.pc = "sent" /\ s.row = me.row /\ s.order = me.order
    BY <1>1 DEF Executing
  <2>. QED  BY <1>1, <2>1, <2>2 DEF RunOutcome
<1>3. CASE ~ (me.attempt < MaxAttempts)
  <2>1. "ClaimsServiceReconciliationRequired" \in Categories
    BY DEF Categories
  <2>. QED  BY <1>1, <1>3, <2>1, FailOutcome DEF AttemptAgain, Unreconciled
<1>. QED  BY <1>2, <1>3

LEMMA QuietOutcome ==
  ASSUME TypeOK, OutcomeInv, NEW h \in Handlers, Quiet(h)
  PROVE  RunOutcome(session'[h])
<1>b. Busy(h)
  BY QuietMoves
<1>c. /\ \A c \in PolicyFailures : c \in Categories
      /\ "ClaimsServiceRejected" \in Categories
      /\ "ClaimsServiceReconciliationRequired" \in Categories
  BY DEF Categories
<1>1. CASE PolicyVerified(h)
  <2>. DEFINE me == session[h]
              u  == MarkVerified(InMemory(me), me.order)
              s  == [me EXCEPT !.pc = "sent", !.row = u.row, !.log = u.log]
  <2>1. me \in Executing /\ InMemory(me) \in Unit /\ me.order \in StepOrder
    BY <1>b, BusyTyped, InMemoryTyped
  <2>2. ~ Open(u.row, me.order[1])
    BY <2>1, MarkVerifiedCloses
  <2>3. session'[h] = s
    BY <1>1 DEF PolicyVerified, Continue, TypeOK
  <2>. HIDE DEF u
  <2>4. s.pc = "sent" /\ s.row = u.row /\ s.order = me.order
    BY <2>1 DEF Executing
  <2>. QED  BY <2>2, <2>3, <2>4 DEF RunOutcome
<1>2. CASE PolicyFailed(h)
  BY <1>2, <1>b, <1>c, FailOutcome DEF PolicyFailed
<1>3. CASE ClaimRejected(h)
  BY <1>3, <1>b, <1>c, FailOutcome DEF ClaimRejected
<1>4. CASE ClaimUnrecognizable(h)
  BY <1>4, <1>b, <1>c, FailOutcome DEF ClaimUnrecognizable, Unreconciled
<1>5. CASE ClaimServerError(h)
  BY <1>5, AttemptOutcome DEF ClaimServerError
<1>6. CASE ClaimTimeout(h)
  BY <1>6, AttemptOutcome DEF ClaimTimeout
<1>. QED  BY <1>1, <1>2, <1>3, <1>4, <1>5, <1>6 DEF Quiet

LEMMA ReturnedOutcome ==
  ASSUME TypeOK, OutcomeInv, NEW h \in Handlers, ClaimReturned(h)
  PROVE  RunOutcome(session'[h])
<1>. DEFINE me == session[h]
<1>1. /\ Busy(h) /\ me \in Executing /\ ~ Open(me.row, me.order[1])
      /\ InMemory(me) \in Unit /\ InMemory(me).row = me.row /\ me.order \in StepOrder
  BY BusyTyped, InMemoryTyped DEF ClaimReturned, Busy, OutcomeInv, RunOutcome
<1>2. PICK c \in Ledger!Bound(me.caller, me.key) :
        Continue(h, "commit", MarkCompleted(InMemory(me), me.order, c.id))
  BY DEF ClaimReturned, PostOf
<1>3. c.id \in Claims
  BY DEF TypeOK, Ledger!ClaimRow, Ledger!Bound
<1>. DEFINE u == MarkCompleted(InMemory(me), me.order, c.id)
            s == [me EXCEPT !.pc = "commit", !.row = u.row, !.log = u.log]
<1>4. Closed(u.row) /\ u.row.state = "COMPLETED"
  BY <1>1, <1>3, MarkCompletedCloses, MarkCompletedEdits
<1>5. session'[h] = s
  BY <1>2 DEF Continue, TypeOK
<1>. HIDE DEF u
<1>6. s.pc = "commit" /\ s.row = u.row
  BY <1>1 DEF Executing
<1>. QED  BY <1>4, <1>5, <1>6 DEF RunOutcome

(* A commit writes closed steps over closed ones, and the alert with the state. *)
LEMMA CommitOutcome ==
  ASSUME IInv, OutcomeInv, NEW h \in Handlers, Commit(h)
  PROVE  \A w \in Workflows : RowOutcome(w)'
<1>. DEFINE me == session[h]
            q  == workflow[me.wf]
            r  == Merge(q, me.loaded, me.row)
<1>1. /\ TypeOK /\ Busy(h) /\ me \in Executing /\ UnitInv(me) /\ me.pc = "commit"
      /\ RunOutcome(me)
  BY BusyTyped DEF IInv, Commit, Busy, RunsInv, OutcomeInv
<1>2. me.wf \in Workflows /\ me.loaded \in Row /\ me.row \in Row /\ q \in Row /\ me.log \in Seq(Event)
  BY <1>1 DEF Executing, UnitInv, TypeOK
<1>3. RowOutcome(me.wf)
  BY <1>2 DEF OutcomeInv
<1>4. Closed(r)
  <2>1. Closed(q) \/ q = me.loaded
    BY <1>1, <1>3 DEF UnitInv, RowOutcome, Outcomes
  <2>. QED  BY <1>1, <2>1, MergeSteps DEF RunOutcome
<1>5. PICK finish \in Seq(Event) :
        audit' = [audit EXCEPT ![me.wf] = audit[me.wf] \o me.log \o finish]
  <2>1. \A m \in Markers : <<Marker(m)>> \in Seq(Event)
    BY DEF Marker, Event
  <2>2. "retry_succeeded" \in Markers /\ "retry_finished" \in Markers /\ <<>> \in Seq(Event)
    BY DEF Markers
  <2>. QED  BY <2>1, <2>2 DEF Commit
<1>6. r.state = "RECONCILIATION_REQUIRED" => Alerts(audit[me.wf] \o me.log \o finish)
  <2>1. r.state = Written(me.row.state, me.loaded.state, q.state)
    BY <1>2, MergeEdits
  <2>2. r.state = "RECONCILIATION_REQUIRED" =>
          me.row.state = "RECONCILIATION_REQUIRED" \/ q.state = "RECONCILIATION_REQUIRED"
    BY <2>1 DEF Written
  <2>3. r.state = "RECONCILIATION_REQUIRED" => Alerts(audit[me.wf]) \/ Alerts(me.log)
    BY <1>1, <1>3, <2>2 DEF RunOutcome, RowOutcome
  <2>4. audit[me.wf] \in Seq(Event)
    BY <1>1, <1>2 DEF TypeOK
  <2>5. audit[me.wf] \o me.log \in Seq(Event)
    BY <1>2, <2>4
  <2>. QED  BY <1>2, <2>3, <2>4, <2>5, AlertsConcat
<1>7. workflow' = [workflow EXCEPT ![me.wf] = r]
  BY DEF Commit
<1>. HIDE DEF r
<1>8. ASSUME NEW w \in Workflows
      PROVE  RowOutcome(w)'
  <2>1. CASE w = me.wf
    <3>1. workflow'[w] = r /\ audit'[w] = audit[me.wf] \o me.log \o finish
      BY <1>1, <1>2, <1>5, <1>7, <2>1 DEF TypeOK
    <3>. QED  BY <1>4, <1>6, <3>1 DEF RowOutcome
  <2>2. CASE w # me.wf
    <3>1. workflow'[w] = workflow[w] /\ audit'[w] = audit[w]
      BY <1>1, <1>5, <1>7, <2>2 DEF TypeOK
    <3>. QED  BY <3>1 DEF OutcomeInv, RowOutcome
  <2>. QED  BY <2>1, <2>2
<1>. QED  BY <1>8

LEMMA OutcomeNext == IInv /\ OutcomeInv /\ [Next]_vars => OutcomeInv'
<1>. SUFFICES ASSUME IInv, OutcomeInv, [Next]_vars PROVE OutcomeInv'
  OBVIOUS
<1>. USE DEF dbVars
<1>t. TypeOK
  BY DEF IInv
<1>1. ASSUME NEW h \in Handlers, NEW s \in Subjects, NEW k \in Keys, NEW p \in Payloads,
             StartDuplicate(h, s, k, p) \/ StartNew(h, s, k, p)
      PROVE  OutcomeInv'
  BY <1>1, <1>t, OutcomeFrame DEF StartDuplicate, StartNew, Busy, TypeOK, Idle
<1>2. ASSUME NEW h \in Handlers, Insert(h)
      PROVE  OutcomeInv'
  <2>1. PICK w \in Workflows :
          /\ workflow[w] = Absent
          /\ workflow' = [workflow EXCEPT ![w] = NewRow(session[h].payload)]
          /\ audit' = [audit EXCEPT ![w] = <<Marker("workflow_created")>>]
          /\ session' = [session EXCEPT ![h] =
               [pc |-> "policy", caller |-> session[h].caller, key |-> session[h].key, wf |-> w,
                retry |-> FALSE, order |-> <<"policy_verification", "claim_submission">>,
                attempt |-> 1, loaded |-> NewRow(session[h].payload),
                row |-> NewRow(session[h].payload), log |-> <<>>]]
    BY <1>2 DEF Insert
  <2>2. session'[h].pc = "policy" /\ \A g \in Handlers \ {h} : session'[g] = session[g]
    BY <2>1, <1>t DEF TypeOK
  <2>3. \A g \in Handlers : Busy(g)' => RunOutcome(session'[g])
    BY <2>2 DEF OutcomeInv, Busy, RunOutcome
  <2>4. ASSUME NEW v \in Workflows
        PROVE  RowOutcome(v)'
    <3>1. CASE v = w
      BY <2>1, <3>1, <1>t DEF TypeOK, RowOutcome, NewRow, Outcomes
    <3>2. CASE v # w
      <4>1. workflow'[v] = workflow[v] /\ audit'[v] = audit[v]
        BY <2>1, <3>2, <1>t DEF TypeOK
      <4>. QED  BY <4>1 DEF OutcomeInv, RowOutcome
    <3>. QED  BY <3>1, <3>2
  <2>. QED  BY <2>3, <2>4 DEF OutcomeInv
<1>3. ASSUME NEW h \in Handlers, InsertLost(h) \/ AnswerLost(h)
      PROVE  OutcomeInv'
  BY <1>3, <1>t, OutcomeFrame, StartingTyped DEF InsertLost, AnswerLost, Busy, TypeOK, Idle, Starting
<1>4. ASSUME NEW h \in Handlers, NEW w \in Workflows, RetryRefused(h, w)
      PROVE  OutcomeInv'
  BY <1>4, OutcomeFrame DEF RetryRefused, Busy, Idle
<1>5. ASSUME NEW h \in Handlers, NEW s \in Subjects, NEW w \in Workflows, RetryBegin(h, s, w)
      PROVE  OutcomeInv'
  <2>1. session'[h].pc = "policy" /\ \A g \in Handlers \ {h} : session'[g] = session[g]
    BY <1>5, <1>t DEF RetryBegin, TypeOK
  <2>2. UNCHANGED <<workflow, audit>>
    BY <1>5 DEF RetryBegin
  <2>. QED  BY <2>1, <2>2, OutcomeFrame DEF RunOutcome
<1>6. ASSUME NEW h \in Handlers, Quiet(h)
      PROVE  OutcomeInv'
  <2>1. PICK s \in Executing : session' = [session EXCEPT ![h] = s]
    BY <1>6, <1>t, QuietMoves
  <2>2. \A g \in Handlers \ {h} : session'[g] = session[g]
    BY <2>1, <1>t DEF TypeOK
  <2>3. UNCHANGED <<workflow, audit>>
    BY <1>6, <1>t, QuietMoves
  <2>. QED  BY <1>6, <1>t, <2>2, <2>3, QuietOutcome, OutcomeFrame
<1>7. ASSUME NEW h \in Handlers, ClaimStored(h)
      PROVE  OutcomeInv'
  <2>1. Busy(h) /\ session[h] \in Executing /\ ~ Open(session[h].row, session[h].order[1])
    BY <1>7, <1>t, BusyTyped DEF ClaimStored, Busy, OutcomeInv, RunOutcome
  <2>2. /\ session'[h] = [session[h] EXCEPT !.pc = "stored"]
        /\ \A g \in Handlers \ {h} : session'[g] = session[g]
    BY <1>7, <1>t DEF ClaimStored, TypeOK
  <2>3. RunOutcome(session'[h])
    BY <2>1, <2>2 DEF Executing, RunOutcome
  <2>4. UNCHANGED <<workflow, audit>>
    BY <1>7 DEF ClaimStored
  <2>. QED  BY <2>2, <2>3, <2>4, OutcomeFrame
<1>8. ASSUME NEW h \in Handlers, ClaimReturned(h)
      PROVE  OutcomeInv'
  <2>1. UNCHANGED <<workflow, audit>> /\ \A g \in Handlers \ {h} : session'[g] = session[g]
    BY <1>8, <1>t DEF ClaimReturned, Continue, TypeOK
  <2>. QED  BY <1>8, <1>t, <2>1, ReturnedOutcome, OutcomeFrame
<1>9. ASSUME NEW h \in Handlers, Commit(h)
      PROVE  OutcomeInv'
  <2>1. ~ Busy(h)' /\ \A g \in Handlers \ {h} : session'[g] = session[g]
    BY <1>9, <1>t DEF Commit, TypeOK, Busy, Idle
  <2>2. \A g \in Handlers : Busy(g)' => RunOutcome(session'[g])
    BY <2>1 DEF OutcomeInv, Busy
  <2>3. \A w \in Workflows : RowOutcome(w)'
    BY <1>9, CommitOutcome
  <2>. QED  BY <2>2, <2>3 DEF OutcomeInv
<1>10. ASSUME NEW h \in Handlers, Abort(h)
       PROVE  OutcomeInv'
  BY <1>10, <1>t, OutcomeFrame DEF Abort, Busy, TypeOK, Idle
<1>11. ASSUME NEW m \in stray, StrayStored(m)
       PROVE  OutcomeInv'
  BY <1>11 DEF StrayStored, OutcomeInv, RowOutcome, Busy
<1>12. CASE UNCHANGED vars
  BY <1>12 DEF vars, OutcomeInv, RowOutcome, Busy
<1>. QED
  BY <1>1, <1>2, <1>3, <1>4, <1>5, <1>6, <1>7, <1>8, <1>9, <1>10, <1>11, <1>12
     DEF Next, Receive, Proceed, Quiet

LEMMA OutcomeInvariant == Spec => [](IInv /\ OutcomeInv)
BY InvInit, InvNext, OutcomeInit, OutcomeNext, PTL DEF Spec

(* A row shows no state the saga passes through, and once it is settled none of its steps is
   open, however retries overlap. *)
THEOREM NoTornRow == Spec => []CommittedIsSettled
<1>1. IInv /\ OutcomeInv => CommittedIsSettled
  BY DEF IInv, RunsInv, RowInv, OutcomeInv, RowOutcome, Outcomes, Closed, Open, Absent,
         CommittedIsSettled
<1>. QED  BY <1>1, OutcomeInvariant, PTL

(* Whoever is to reconcile a workflow has been alerted, whichever of overlapping retries put
   it in that state. *)
THEOREM ReconciliationRaisesAlert == Spec => []ReconciliationAlerted
<1>1. OutcomeInv => ReconciliationAlerted
  BY DEF OutcomeInv, RowOutcome, Alerts, ReconciliationAlerted
<1>. QED  BY <1>1, OutcomeInvariant, PTL

-----------------------------------------------------------------------------
(* Logs: what two parts of a log tell is told by the whole, and the events *)
(* of the whole are those of the parts.                                    *)

At(log, kind) == {i \in DOMAIN log : log[i] \in kind}

LEMMA ConcatIndices ==
  ASSUME NEW a \in Seq(Event), NEW b \in Seq(Event)
  PROVE  /\ a \o b \in Seq(Event) /\ Len(a) \in Nat /\ Len(b) \in Nat
         /\ Len(a \o b) = Len(a) + Len(b)
         /\ DOMAIN a = 1..Len(a) /\ DOMAIN b = 1..Len(b)
         /\ DOMAIN (a \o b) = 1..(Len(a) + Len(b))
         /\ \A i \in DOMAIN a : (a \o b)[i] = a[i]
         /\ \A i \in DOMAIN b : (a \o b)[Len(a) + i] = b[i]
OBVIOUS

LEMMA TellsThrough ==
  ASSUME NEW a \in Seq(Event), NEW b \in Seq(Event), NEW first, NEW mid, NEW last,
         NEW A \in SUBSET DOMAIN a, NEW B \in SUBSET DOMAIN b,
         Tells(a, A, first, mid), Tells(b, B, mid, last)
  PROVE  Tells(a \o b, A \cup {Len(a) + i : i \in B}, first, last)
<1>. DEFINE n == Len(a)
            C == A \cup {n + i : i \in B}
<1>. HIDE DEF n
<1>1. /\ n \in Nat /\ A \subseteq 1..n /\ B \subseteq 1..Len(b) /\ Len(b) \in Nat
      /\ \A i \in A : (a \o b)[i] = a[i]
      /\ \A i \in B : (a \o b)[n + i] = b[i]
  BY ConcatIndices DEF n
<1>2. CASE B = {}
  <2>1. C = A /\ last = mid
    BY <1>2 DEF Tells
  <2>. HIDE DEF C
  <2>2. Tells(a \o b, C, first, last)
    BY <1>1, <2>1 DEF Tells
  <2>. QED  BY <2>2 DEF C, n
<1>3. CASE B # {}
  <2>1. PICK j \in B : (\A i \in B : i <= j) /\ last = b[j].to
    BY <1>3 DEF Tells
  <2>2. n + j \in C /\ last = (a \o b)[n + j].to
    BY <1>1, <2>1
  <2>3. \A i \in C : i <= n + j
    BY <1>1, <2>1
  <2>. HIDE DEF C
  <2>4. Tells(a \o b, C, first, last)
    BY <2>2, <2>3 DEF Tells
  <2>. QED  BY <2>4 DEF C, n
<1>. QED  BY <1>2, <1>3

LEMMA LeadsConcat ==
  ASSUME NEW a \in Seq(Event), NEW b \in Seq(Event), NEW kind, NEW first, NEW mid, NEW last,
         Leads(a, kind, first, mid), Leads(b, kind, mid, last)
  PROVE  Leads(a \o b, kind, first, last)
<1>. DEFINE c == a \o b
            n == Len(a)
            A == At(a, kind)
            B == At(b, kind)
<1>1. /\ n \in Nat /\ DOMAIN a = 1..n /\ DOMAIN b = 1..Len(b) /\ Len(b) \in Nat
      /\ DOMAIN c = 1..(n + Len(b))
      /\ \A i \in DOMAIN a : c[i] = a[i]
      /\ \A i \in DOMAIN b : c[n + i] = b[i]
  BY ConcatIndices
<1>2. /\ \A i \in A : Tells(a, {j \in A : j < i}, first, a[i].from)
      /\ Tells(a, A, first, mid)
      /\ \A i \in B : Tells(b, {j \in B : j < i}, mid, b[i].from)
      /\ Tells(b, B, mid, last)
  BY DEF Leads, At
<1>3. A \in SUBSET DOMAIN a /\ B \in SUBSET DOMAIN b
  BY DEF At
<1>4. At(c, kind) = A \cup {n + i : i \in B}
  <2>. HIDE DEF c, n
  <2>1. ASSUME NEW i \in At(c, kind) PROVE i \in A \cup {n + k : k \in B}
    <3>1. i \in 1..(n + Len(b)) /\ c[i] \in kind
      BY <1>1, <2>1 DEF At
    <3>2. CASE i <= n
      <4>1. i \in DOMAIN a
        BY <1>1, <3>1, <3>2
      <4>. QED  BY <1>1, <3>1, <4>1 DEF At
    <3>3. CASE i > n
      <4>1. i - n \in DOMAIN b /\ i = n + (i - n)
        BY <1>1, <3>1, <3>3
      <4>2. i - n \in B
        BY <1>1, <3>1, <4>1 DEF At
      <4>. QED  BY <4>1, <4>2
    <3>. QED  BY <1>1, <3>1, <3>2, <3>3
  <2>2. ASSUME NEW i \in A PROVE i \in At(c, kind)
    <3>1. i \in DOMAIN a /\ a[i] \in kind
      BY DEF At
    <3>. QED  BY <1>1, <3>1 DEF At
  <2>3. ASSUME NEW k \in B PROVE n + k \in At(c, kind)
    <3>1. k \in DOMAIN b /\ b[k] \in kind
      BY DEF At
    <3>. QED  BY <1>1, <3>1 DEF At
  <2>. QED  BY <2>1, <2>2, <2>3
<1>5. Tells(c, At(c, kind), first, last)
  BY <1>2, <1>3, <1>4, TellsThrough
<1>6. ASSUME NEW i \in A
      PROVE  Tells(c, {j \in At(c, kind) : j < i}, first, c[i].from)
  <2>. DEFINE L == {j \in A : j < i}
  <2>1. {j \in At(c, kind) : j < i} = L
    <3>1. i \in 1..n
      BY <1>1, <1>3
    <3>2. \A k \in B : ~ (n + k < i)
      BY <1>1, <1>3, <3>1
    <3>. QED  BY <1>4, <3>2
  <2>2. c[i] = a[i] /\ \A j \in L : c[j] = a[j]
    BY <1>1, <1>3
  <2>3. Tells(a, L, first, a[i].from)
    BY <1>2
  <2>4. Tells(c, L, first, c[i].from)
    <3>. HIDE DEF L, c
    <3>. QED  BY <2>2, <2>3 DEF Tells
  <2>. QED  BY <2>1, <2>4
<1>7. ASSUME NEW k \in B
      PROVE  Tells(c, {j \in At(c, kind) : j < n + k}, first, c[n + k].from)
  <2>. DEFINE L == {j \in B : j < k}
  <2>1. {j \in At(c, kind) : j < n + k} = A \cup {n + j : j \in L}
    <3>. HIDE DEF c, n, A, B
    <3>1. \A j \in A : j < n + k
      BY <1>1, <1>3
    <3>2. \A j \in B : n + j < n + k <=> j < k
      BY <1>1, <1>3
    <3>. QED  BY <1>4, <3>1, <3>2
  <2>2. Tells(b, L, mid, b[k].from) /\ L \in SUBSET DOMAIN b
    BY <1>2, <1>3
  <2>3. Tells(c, A \cup {n + j : j \in L}, first, b[k].from)
    <3>. HIDE DEF L, A, B
    <3>. QED  BY <1>2, <1>3, <2>2, TellsThrough
  <2>4. c[n + k] = b[k]
    BY <1>1, <1>3
  <2>. QED  BY <2>1, <2>3, <2>4
<1>8. \A i \in At(c, kind) : Tells(c, {j \in At(c, kind) : j < i}, first, c[i].from)
  <2>. HIDE DEF c, n, A, B
  <2>. QED  BY <1>4, <1>6, <1>7
<1>. QED  BY <1>5, <1>8 DEF Leads, At

(* A log of one event, and a log extended by one. *)
LEMMA LeadsOne ==
  ASSUME NEW e \in Event, NEW kind, NEW first
  PROVE  /\ e \notin kind => Leads(<<e>>, kind, first, first)
         /\ e \in kind /\ e.from = first => Leads(<<e>>, kind, first, e.to)
<1>. DEFINE at == {i \in DOMAIN <<e>> : <<e>>[i] \in kind}
<1>1. DOMAIN <<e>> = {1} /\ <<e>>[1] = e
  OBVIOUS
<1>2. CASE e \notin kind
  <2>1. at = {}
    BY <1>1, <1>2
  <2>. QED  BY <1>2, <2>1 DEF Leads, Tells
<1>3. CASE e \in kind
  <2>1. at = {1} /\ {j \in at : j < 1} = {}
    BY <1>1, <1>3
  <2>2. e.from = first => \A i \in at : Tells(<<e>>, {j \in at : j < i}, first, <<e>>[i].from)
    BY <1>1, <2>1 DEF Tells
  <2>3. Tells(<<e>>, at, first, e.to)
    BY <1>1, <2>1 DEF Tells
  <2>. QED  BY <1>3, <2>2, <2>3 DEF Leads
<1>. QED  BY <1>2, <1>3

LEMMA LeadsEmpty ==
  ASSUME NEW kind, NEW first
  PROVE  Leads(<<>>, kind, first, first)
BY DEF Leads, Tells

LEMMA AppendIsConcat ==
  ASSUME NEW log \in Seq(Event), NEW e \in Event
  PROVE  Append(log, e) = log \o <<e>> /\ <<e>> \in Seq(Event)
OBVIOUS

(* Counting the events of some types *)
CountAt(log, types) == {i \in DOMAIN log : log[i].type \in types}

LEMMA CountFinite ==
  ASSUME NEW log \in Seq(Event), NEW types
  PROVE  IsFiniteSet(CountAt(log, types)) /\ Count(log, types) \in Nat
<1>1. DOMAIN log = 1..Len(log) /\ Len(log) \in Nat
  OBVIOUS
<1>2. IsFiniteSet(1..Len(log)) /\ CountAt(log, types) \in SUBSET (1..Len(log))
  BY <1>1, FS_Interval DEF CountAt
<1>. QED  BY <1>2, FS_Subset, FS_CardinalityType DEF Count, CountAt

LEMMA CountConcat ==
  ASSUME NEW a \in Seq(Event), NEW b \in Seq(Event), NEW types
  PROVE  Count(a \o b, types) = Count(a, types) + Count(b, types)
<1>. DEFINE n == Len(a)
            c == a \o b
            A == CountAt(a, types)
            B == CountAt(b, types)
            S == {n + i : i \in B}
<1>1. /\ n \in Nat /\ DOMAIN a = 1..n /\ DOMAIN b = 1..Len(b) /\ Len(b) \in Nat
      /\ DOMAIN c = 1..(n + Len(b))
      /\ \A i \in DOMAIN a : c[i] = a[i]
      /\ \A i \in DOMAIN b : c[n + i] = b[i]
      /\ c \in Seq(Event)
  BY ConcatIndices
<1>2. A \subseteq 1..n /\ B \subseteq 1..Len(b) /\ IsFiniteSet(A) /\ IsFiniteSet(B)
  BY <1>1, CountFinite DEF CountAt
<1>3. CountAt(c, types) = A \cup S
  <2>. HIDE DEF c, n
  <2>1. ASSUME NEW i \in CountAt(c, types) PROVE i \in A \cup S
    <3>1. i \in 1..(n + Len(b)) /\ c[i].type \in types
      BY <1>1, <2>1 DEF CountAt
    <3>2. CASE i <= n
      <4>1. i \in DOMAIN a
        BY <1>1, <3>1, <3>2
      <4>. QED  BY <1>1, <3>1, <4>1 DEF CountAt
    <3>3. CASE i > n
      <4>1. i - n \in DOMAIN b /\ i = n + (i - n)
        BY <1>1, <3>1, <3>3
      <4>2. i - n \in B
        BY <1>1, <3>1, <4>1 DEF CountAt
      <4>. QED  BY <4>1, <4>2
    <3>. QED  BY <1>1, <3>1, <3>2, <3>3
  <2>2. ASSUME NEW i \in A PROVE i \in CountAt(c, types)
    <3>1. i \in DOMAIN a /\ a[i].type \in types
      BY DEF CountAt
    <3>. QED  BY <1>1, <3>1 DEF CountAt
  <2>3. ASSUME NEW k \in B PROVE n + k \in CountAt(c, types)
    <3>1. k \in DOMAIN b /\ b[k].type \in types
      BY DEF CountAt
    <3>. QED  BY <1>1, <3>1 DEF CountAt
  <2>. QED  BY <2>1, <2>2, <2>3
<1>4. IsFiniteSet(S) /\ Cardinality(S) = Cardinality(B)
  <2>. HIDE DEF n, B
  <2>. DEFINE f == [i \in B |-> n + i]
  <2>1. f \in Bijection(B, S)
    <3>1. f \in [B -> S]
      OBVIOUS
    <3>2. \A i, j \in B : f[i] = f[j] => i = j
      BY <1>1, <1>2
    <3>3. \A y \in S : \E i \in B : f[i] = y
      OBVIOUS
    <3>. QED  BY <3>1, <3>2, <3>3 DEF Bijection, Injection, Surjection, IsInjective
  <2>2. ExistsBijection(B, S)
    BY <2>1 DEF ExistsBijection
  <2>. QED  BY <1>2, <2>2, FS_Bijection
<1>5. A \cap S = {}
  BY <1>1, <1>2
<1>. HIDE DEF A, S, B, c
<1>6. Cardinality(A \cup S) = Cardinality(A) + Cardinality(S) - Cardinality({})
  BY <1>2, <1>4, <1>5, FS_Union
<1>7. Cardinality(A) \in Nat /\ Cardinality(B) \in Nat /\ Cardinality({}) = 0
  BY <1>2, FS_CardinalityType, FS_EmptySet
<1>8. Cardinality(CountAt(c, types)) = Cardinality(A) + Cardinality(B)
  BY <1>3, <1>4, <1>6, <1>7
<1>. QED  BY <1>8 DEF Count, CountAt, A, B, c

LEMMA CountOne ==
  ASSUME NEW e \in Event, NEW types
  PROVE  Count(<<e>>, types) = IF e.type \in types THEN 1 ELSE 0
<1>1. DOMAIN <<e>> = {1} /\ <<e>>[1] = e
  OBVIOUS
<1>2. CountAt(<<e>>, types) = IF e.type \in types THEN {1} ELSE {}
  BY <1>1 DEF CountAt
<1>. QED  BY <1>2, FS_EmptySet, FS_Singleton DEF Count, CountAt

LEMMA CountEmpty ==
  ASSUME NEW types
  PROVE  Count(<<>>, types) = 0
<1>1. CountAt(<<>>, types) = {}
  BY DEF CountAt
<1>. QED  BY <1>1, FS_EmptySet DEF Count, CountAt

-----------------------------------------------------------------------------
(* The tale of a unit of work: its log accounts for every change of state, *)
(* step and counter since the row it was loaded from.                      *)

Ends == {"retry_succeeded", "retry_finished"}

Tale(base, u) ==
  /\ Leads(u.log, StateChange, base.state, u.row.state)
  /\ \A n \in Steps : Leads(u.log, StepChange(n), base.steps[n].state, u.row.steps[n].state)
  /\ Count(u.log, {"retry_started"}) + base.retries = u.row.retries
  /\ Count(u.log, Ends) = 0

(* An edit that logs what it changes goes on with the tale. *)
LEMMA TaleGoesOn ==
  ASSUME NEW base \in Row, NEW u \in Unit, NEW v \in Unit, NEW e \in Event, Tale(base, u),
         v.log = Append(u.log, e), v.row.retries = u.row.retries,
         e.type \notin {"retry_started"} \cup Ends,
         IF e \in StateChange THEN e.from = u.row.state /\ e.to = v.row.state
         ELSE v.row.state = u.row.state,
         \A n \in Steps :
           IF e \in StepChange(n)
           THEN e.from = u.row.steps[n].state /\ e.to = v.row.steps[n].state
           ELSE v.row.steps[n].state = u.row.steps[n].state
  PROVE  Tale(base, v)
<1>1. u.log \in Seq(Event) /\ u.row \in Row /\ v.row \in Row
  BY UnitRow
<1>2. v.log = u.log \o <<e>> /\ <<e>> \in Seq(Event)
  BY <1>1, AppendIsConcat
<1>3. Leads(<<e>>, StateChange, u.row.state, v.row.state)
  BY LeadsOne
<1>4. \A n \in Steps : Leads(<<e>>, StepChange(n), u.row.steps[n].state, v.row.steps[n].state)
  BY LeadsOne
<1>5. Leads(v.log, StateChange, base.state, v.row.state)
  BY <1>1, <1>2, <1>3, LeadsConcat DEF Tale
<1>6. \A n \in Steps : Leads(v.log, StepChange(n), base.steps[n].state, v.row.steps[n].state)
  BY <1>1, <1>2, <1>4, LeadsConcat DEF Tale
<1>7. Count(<<e>>, {"retry_started"}) = 0 /\ Count(<<e>>, Ends) = 0
  BY CountOne
<1>8. /\ Count(v.log, {"retry_started"}) = Count(u.log, {"retry_started"}) + 0
      /\ Count(v.log, Ends) = Count(u.log, Ends) + 0
  <2>1. \A types : Count(u.log \o <<e>>, types) = Count(u.log, types) + Count(<<e>>, types)
    BY <1>1, <1>2, CountConcat
  <2>. QED  BY <1>2, <1>7, <2>1
<1>9. Count(u.log, {"retry_started"}) \in Nat /\ Count(u.log, Ends) \in Nat
  BY <1>1, CountFinite
<1>10. Count(v.log, {"retry_started"}) + base.retries = v.row.retries /\ Count(v.log, Ends) = 0
  BY <1>8, <1>9 DEF Tale
<1>. QED  BY <1>5, <1>6, <1>10 DEF Tale

(* Claim, category and request are no part of it. *)
LEMMA TaleIgnores ==
  ASSUME NEW base, NEW u, NEW v, Tale(base, u),
         v.log = u.log, v.row.state = u.row.state, v.row.steps = u.row.steps,
         v.row.retries = u.row.retries
  PROVE  Tale(base, v)
BY DEF Tale

LEMMA SetStateTale ==
  ASSUME NEW base \in Row, NEW u \in Unit, NEW s \in States, Tale(base, u)
  PROVE  Tale(base, SetState(u, s))
<1>. DEFINE e == [type |-> "workflow_state_changed", from |-> u.row.state, to |-> s]
            v == SetState(u, s)
<1>1. CASE u.row.state = s
  BY <1>1 DEF SetState
<1>2. CASE u.row.state # s
  <2>1. v.log = Append(u.log, e)
    BY <1>2 DEF SetState
  <2>2. v \in Unit /\ v.row = [u.row EXCEPT !.state = s] /\ v.row.steps = u.row.steps
    BY SetStateEdits, SetStateSteps
  <2>3. u.row \in Row
    BY UnitRow
  <2>4. v.row.state = s /\ v.row.retries = u.row.retries
    BY <2>2, <2>3 DEF Row
  <2>5. e \in StateChange /\ e \in Event
    <3>1. e \in StateChange
      BY <2>3 DEF StateChange, Row
    <3>. QED  BY <3>1 DEF Event
  <2>6. \A n \in Steps : e \notin StepChange(n)
    BY DEF StepChange
  <2>7. e.type \notin {"retry_started"} \cup Ends /\ e.from = u.row.state /\ e.to = s
    BY DEF Ends
  <2>. HIDE DEF e, v
  <2>8. Tale(base, v)
    BY <2>1, <2>2, <2>4, <2>5, <2>6, <2>7, TaleGoesOn
  <2>. QED  BY <2>8 DEF v
<1>. QED  BY <1>1, <1>2

LEMMA SetStepTale ==
  ASSUME NEW base \in Row, NEW u \in Unit, NEW n \in Steps, NEW s \in StepStates,
         NEW err \in Categories, Tale(base, u)
  PROVE  Tale(base, SetStep(u, n, s, err))
<1>. DEFINE e == [type |-> "step_state_changed", step |-> n,
                  from |-> u.row.steps[n].state, to |-> s]
            v == SetStep(u, n, s, err)
<1>1. CASE u.row.steps[n] = [state |-> s, error |-> err]
  BY <1>1 DEF SetStep
<1>2. CASE u.row.steps[n] # [state |-> s, error |-> err]
  <2>1. v.log = Append(u.log, e)
    BY <1>2 DEF SetStep
  <2>2. /\ v \in Unit /\ SameHead(v.row, u.row) /\ v.row.steps[n].state = s
        /\ \A m \in Steps \ {n} : v.row.steps[m] = u.row.steps[m]
    BY SetStepEdits, SetStepSteps
  <2>3. u.row.steps[n].state \in StepStates
    BY UnitRow DEF Row
  <2>4. e \in StepChange(n) /\ e \in Event
    <3>1. e \in StepChange(n)
      BY <2>3 DEF StepChange
    <3>. QED  BY <3>1 DEF Event
  <2>5. e \notin StateChange /\ \A m \in Steps : e \in StepChange(m) => m = n
    BY DEF StateChange, StepChange
  <2>6. e.type \notin {"retry_started"} \cup Ends /\ e.from = u.row.steps[n].state /\ e.to = s
    BY DEF Ends
  <2>. HIDE DEF e, v
  <2>7. v.row.state = u.row.state /\ v.row.retries = u.row.retries
    BY <2>2 DEF SameHead
  <2>8. \A m \in Steps :
          IF e \in StepChange(m)
          THEN e.from = u.row.steps[m].state /\ e.to = v.row.steps[m].state
          ELSE v.row.steps[m].state = u.row.steps[m].state
    BY <2>2, <2>4, <2>5, <2>6
  <2>9. Tale(base, v)
    BY <2>1, <2>2, <2>4, <2>5, <2>6, <2>7, <2>8, TaleGoesOn
  <2>. QED  BY <2>9 DEF v
<1>. QED  BY <1>1, <1>2

LEMMA CloseStepTale ==
  ASSUME NEW base \in Row, NEW u \in Unit, NEW n \in Steps, NEW s \in StepStates,
         NEW err \in Categories, Tale(base, u)
  PROVE  Tale(base, CloseStep(u, n, s, err))
BY SetStepTale DEF CloseStep

LEMMA MarkFailureTale ==
  ASSUME NEW base \in Row, NEW u \in Unit, NEW order \in StepOrder, NEW c \in Categories,
         NEW b \in BOOLEAN, Tale(base, u)
  PROVE  Tale(base, MarkFailure(u, order, c, b))
<1>. DEFINE target == IF b THEN "RECONCILIATION_REQUIRED" ELSE "FAILED"
            v      == [u EXCEPT !.row.category = c]
            named  == SetState(v, target)
            first  == CloseStep(named, order[1], "FAILED", c)
            both   == CloseStep(first, order[2], "SKIPPED", c)
            alert  == [both EXCEPT !.log = Append(both.log, Marker("reconciliation_required"))]
<1>1. /\ v \in Unit /\ v.log = u.log /\ v.row.state = u.row.state
      /\ v.row.steps = u.row.steps /\ v.row.retries = u.row.retries
  BY UnitRow DEF Unit, Row
<1>2. target \in States /\ "FAILED" \in StepStates /\ "SKIPPED" \in StepStates
  BY DEF States, StepStates
<1>3. Tale(base, v)
  <2>. HIDE DEF v
  <2>. QED  BY <1>1, TaleIgnores
<1>4. named \in Unit /\ Tale(base, named)
  <2>. HIDE DEF v, target
  <2>. QED  BY <1>1, <1>2, <1>3, SetStateEdits, SetStateTale
<1>5. first \in Unit /\ Tale(base, first)
  <2>. HIDE DEF named
  <2>. QED  BY <1>2, <1>4, CloseStepEdits, CloseStepTale, OrderNamesSteps
<1>6. both \in Unit /\ Tale(base, both)
  <2>. HIDE DEF first
  <2>. QED  BY <1>2, <1>5, CloseStepEdits, CloseStepTale, OrderNamesSteps
<1>7. Tale(base, alert)
  <2>. DEFINE e == Marker("reconciliation_required")
  <2>. HIDE DEF both
  <2>1. both.log \in Seq(Event) /\ both.row \in Row
    BY <1>6, UnitRow
  <2>2. e \in Event /\ e \notin StateChange /\ (\A n \in Steps : e \notin StepChange(n))
        /\ e.type \notin {"retry_started"} \cup Ends
    BY DEF Marker, Event, Markers, StateChange, StepChange, Ends
  <2>3. alert.log = Append(both.log, e) /\ alert.row = both.row
    BY <1>6 DEF Unit
  <2>4. alert \in Unit
    <3>1. Append(both.log, e) \in Seq(Event)
      BY <2>1, <2>2
    <3>. QED  BY <1>6, <3>1 DEF Unit
  <2>. HIDE DEF alert, e
  <2>. QED  BY <1>6, <2>2, <2>3, <2>4, TaleGoesOn
<1>8. MarkFailure(u, order, c, b) = IF b THEN alert ELSE both
  BY DEF MarkFailure
<1>. HIDE DEF both, alert
<1>. QED  BY <1>6, <1>7, <1>8

LEMMA MarkVerifiedTale ==
  ASSUME NEW base \in Row, NEW u \in Unit, NEW order \in StepOrder, Tale(base, u)
  PROVE  Tale(base, MarkVerified(u, order))
<1>. DEFINE one == SetStep(u, order[1], "SUCCEEDED", "None")
            two == SetState(one, "POLICY_VERIFIED")
<1>1. /\ "POLICY_VERIFIED" \in States /\ "None" \in Categories
      /\ "SUCCEEDED" \in StepStates /\ "RUNNING" \in StepStates
  BY DEF States, StepStates, Categories
<1>2. one \in Unit /\ Tale(base, one)
  BY <1>1, SetStepEdits, SetStepTale, OrderNamesSteps
<1>3. two \in Unit /\ Tale(base, two)
  <2>. HIDE DEF one
  <2>. QED  BY <1>1, <1>2, SetStateEdits, SetStateTale
<1>4. MarkVerified(u, order) = SetStep(two, order[2], "RUNNING", "None")
  BY DEF MarkVerified
<1>. HIDE DEF two
<1>. QED  BY <1>1, <1>3, <1>4, SetStepTale, OrderNamesSteps

LEMMA MarkCompletedTale ==
  ASSUME NEW base \in Row, NEW u \in Unit, NEW order \in StepOrder, NEW id \in Claims, Tale(base, u)
  PROVE  Tale(base, MarkCompleted(u, order, id))
<1>. DEFINE v   == [u EXCEPT !.row.claim = id]
            one == SetStep(v, order[2], "SUCCEEDED", "None")
            two == SetState(one, "CLAIM_SUBMITTED")
<1>1. /\ "CLAIM_SUBMITTED" \in States /\ "COMPLETED" \in States
      /\ "SUCCEEDED" \in StepStates /\ "None" \in Categories
  BY DEF States, StepStates, Categories
<1>2. /\ v \in Unit /\ v.log = u.log /\ v.row.state = u.row.state
      /\ v.row.steps = u.row.steps /\ v.row.retries = u.row.retries
  BY UnitRow DEF Unit, Row
<1>3. one \in Unit /\ Tale(base, one)
  <2>. HIDE DEF v
  <2>1. Tale(base, v)
    BY <1>2, TaleIgnores
  <2>. QED  BY <1>1, <1>2, <2>1, SetStepEdits, SetStepTale, OrderNamesSteps
<1>4. two \in Unit /\ Tale(base, two)
  <2>. HIDE DEF one
  <2>. QED  BY <1>1, <1>3, SetStateEdits, SetStateTale
<1>5. MarkCompleted(u, order, id) = SetState(two, "COMPLETED")
  BY DEF MarkCompleted
<1>. HIDE DEF two
<1>. QED  BY <1>1, <1>4, <1>5, SetStateTale

(* A retry opens the tale with its marker, and with the counter that goes with it. *)
LEMMA MarkRetriedTale ==
  ASSUME NEW r \in Row, NEW order \in StepOrder
  PROVE  Tale(r, MarkRetried(r, order))
<1>. DEFINE e       == Marker("retry_started")
            counted == [row |-> [r EXCEPT !.retries = r.retries + 1], log |-> <<e>>]
            reset   == SetState(counted, "PENDING")
            begun   == [reset EXCEPT !.row.category = "None"]
            one     == SetStep(begun, order[1], "PENDING", "None")
<1>1. "PENDING" \in States /\ "None" \in Categories /\ "PENDING" \in StepStates
  BY DEF States, StepStates, Categories
<1>2. /\ e \in Event /\ e \notin StateChange /\ (\A n \in Steps : e \notin StepChange(n))
      /\ e.type = "retry_started" /\ e.type \notin Ends
  BY DEF Marker, Event, Markers, StateChange, StepChange, Ends
<1>3. counted \in Unit
  <2>1. [r EXCEPT !.retries = r.retries + 1] \in Row
    BY DEF Row
  <2>2. <<e>> \in Seq(Event)
    BY <1>2
  <2>. HIDE DEF e
  <2>. QED  BY <2>1, <2>2 DEF Unit
<1>4. /\ counted.log = <<e>> /\ counted.row.state = r.state /\ counted.row.steps = r.steps
      /\ counted.row.retries = r.retries + 1 /\ r.retries \in Nat
  BY DEF Row
<1>5. Tale(r, counted)
  <2>. HIDE DEF counted, e
  <2>1. Leads(<<e>>, StateChange, r.state, r.state)
    BY <1>2, LeadsOne
  <2>2. \A n \in Steps : Leads(<<e>>, StepChange(n), r.steps[n].state, r.steps[n].state)
    BY <1>2, LeadsOne
  <2>3. Count(<<e>>, {"retry_started"}) = 1 /\ Count(<<e>>, Ends) = 0
    BY <1>2, CountOne
  <2>. QED  BY <1>4, <2>1, <2>2, <2>3 DEF Tale
<1>6. reset \in Unit /\ Tale(r, reset)
  <2>. HIDE DEF counted
  <2>. QED  BY <1>1, <1>3, <1>5, SetStateEdits, SetStateTale
<1>7. begun \in Unit /\ Tale(r, begun)
  <2>. HIDE DEF reset
  <2>1. /\ begun \in Unit /\ begun.log = reset.log /\ begun.row.state = reset.row.state
        /\ begun.row.steps = reset.row.steps /\ begun.row.retries = reset.row.retries
    BY <1>1, <1>6, UnitRow DEF Unit, Row
  <2>. HIDE DEF begun
  <2>. QED  BY <1>6, <2>1, TaleIgnores
<1>8. one \in Unit /\ Tale(r, one)
  <2>. HIDE DEF begun
  <2>. QED  BY <1>1, <1>7, SetStepEdits, SetStepTale, OrderNamesSteps
<1>9. MarkRetried(r, order) = SetStep(one, order[2], "PENDING", "None")
  BY DEF MarkRetried, CountRetry
<1>. HIDE DEF one
<1>. QED  BY <1>1, <1>8, <1>9, SetStepTale, OrderNamesSteps

-----------------------------------------------------------------------------
(* The unit of work between two awaits: which state, category and step     *)
(* belong together.                                                        *)

Done == [state |-> "SUCCEEDED", error |-> "None"]
Waiting == [state |-> "PENDING", error |-> "None"]
Running == [state |-> "RUNNING", error |-> "None"]

RowExplained(r) ==
  /\ r.category # "None" <=> r.state \in {"FAILED", "RECONCILIATION_REQUIRED"}
  /\ r.state = "COMPLETED" <=> \A n \in Steps : r.steps[n] = Done

RunExplained(me) ==
  /\ me.pc = "policy" =>
       me.row.category = "None" /\ \A n \in Steps : me.row.steps[n] = Waiting
  /\ me.pc \in {"sent", "stored"} =>
       /\ me.row.category = "None"
       /\ me.row.steps[me.order[1]] = Done
       /\ me.row.steps[me.order[2]] = Running
  /\ me.pc = "commit" => RowExplained(me.row)

LEMMA SetStepWrites ==
  ASSUME NEW u \in Unit, NEW n \in Steps, NEW s \in StepStates, NEW err \in Categories
  PROVE  /\ SetStep(u, n, s, err).row.steps[n] = [state |-> s, error |-> err]
         /\ \A m \in Steps \ {n} : SetStep(u, n, s, err).row.steps[m] = u.row.steps[m]
         /\ SetStep(u, n, s, err).row.category = u.row.category
<1>1. u.row \in Row /\ u.row.steps \in [Steps -> [state: StepStates, error: Categories]]
  BY UnitRow DEF Row
<1>2. CASE u.row.steps[n] = [state |-> s, error |-> err]
  BY <1>2 DEF SetStep
<1>3. CASE u.row.steps[n] # [state |-> s, error |-> err]
  <2>. DEFINE r == [u.row EXCEPT !.steps[n] = [state |-> s, error |-> err]]
  <2>1. SetStep(u, n, s, err).row = r
    BY <1>3 DEF SetStep
  <2>2. /\ r.steps = [u.row.steps EXCEPT ![n] = [state |-> s, error |-> err]]
        /\ r.category = u.row.category
    BY <1>1 DEF Row
  <2>. HIDE DEF r
  <2>. QED  BY <1>1, <2>1, <2>2
<1>. QED  BY <1>2, <1>3

LEMMA SetStateKeeps ==
  ASSUME NEW u \in Unit, NEW s \in States
  PROVE  /\ SetState(u, s).row.steps = u.row.steps
         /\ SetState(u, s).row.category = u.row.category
<1>1. u.row \in Row /\ SetState(u, s).row = [u.row EXCEPT !.state = s]
  BY SetStateEdits, UnitRow
<1>2. [u.row EXCEPT !.state = s].category = u.row.category
  BY <1>1 DEF Row
<1>. QED  BY <1>1, <1>2, SetStateSteps

LEMMA CloseStepWrites ==
  ASSUME NEW u \in Unit, NEW n \in Steps, NEW s \in {"FAILED", "SKIPPED"}, NEW err \in Categories
  PROVE  /\ Open(u.row, n) => CloseStep(u, n, s, err).row.steps[n].state = s
         /\ \A m \in Steps \ {n} : CloseStep(u, n, s, err).row.steps[m] = u.row.steps[m]
         /\ CloseStep(u, n, s, err).row.category = u.row.category
<1>1. s \in StepStates
  BY DEF StepStates
<1>2. /\ SetStep(u, n, s, err).row.steps[n].state = s
      /\ \A m \in Steps \ {n} : SetStep(u, n, s, err).row.steps[m] = u.row.steps[m]
      /\ SetStep(u, n, s, err).row.category = u.row.category
  <2>1. SetStep(u, n, s, err).row.category = u.row.category
    BY <1>1, SetStepWrites
  <2>. QED  BY <1>1, <2>1, SetStepSteps
<1>. QED  BY <1>2 DEF CloseStep, Open

(* A failure names its category, and the step that was still open has not succeeded. *)
LEMMA MarkFailureExplained ==
  ASSUME NEW u \in Unit, NEW order \in StepOrder, NEW c \in Categories \ {"None"},
         NEW b \in BOOLEAN, Open(u.row, order[2])
  PROVE  RowExplained(MarkFailure(u, order, c, b).row)
<1>. DEFINE target == IF b THEN "RECONCILIATION_REQUIRED" ELSE "FAILED"
            v      == [u EXCEPT !.row.category = c]
            named  == SetState(v, target)
            first  == CloseStep(named, order[1], "FAILED", c)
            both   == CloseStep(first, order[2], "SKIPPED", c)
            failed == MarkFailure(u, order, c, b)
<1>1. v \in Unit /\ v.row.category = c /\ v.row.steps = u.row.steps
  BY UnitRow DEF Unit, Row
<1>2. /\ target \in States /\ "FAILED" \in StepStates /\ "SKIPPED" \in StepStates
      /\ order[1] \in Steps /\ order[2] \in Steps /\ order[1] # order[2] /\ c \in Categories
  BY OrderNamesSteps, OrderCoversSteps DEF States, StepStates
<1>3. named \in Unit /\ named.row.category = c /\ named.row.steps = u.row.steps
  <2>. HIDE DEF v, target
  <2>. QED  BY <1>1, <1>2, SetStateEdits, SetStateKeeps
<1>4. first \in Unit /\ first.row.category = c /\ first.row.steps[order[2]] = u.row.steps[order[2]]
  <2>. HIDE DEF named
  <2>1. first \in Unit
    BY <1>2, <1>3, CloseStepEdits
  <2>2. first.row.category = named.row.category
        /\ \A m \in Steps \ {order[1]} : first.row.steps[m] = named.row.steps[m]
    BY <1>2, <1>3, CloseStepWrites
  <2>. HIDE DEF first
  <2>. QED  BY <1>2, <1>3, <2>1, <2>2
<1>5. both \in Unit /\ both.row.category = c /\ both.row.steps[order[2]].state = "SKIPPED"
  <2>. HIDE DEF first
  <2>1. Open(first.row, order[2])
    BY <1>4 DEF Open
  <2>2. both \in Unit
    BY <1>2, <1>4, CloseStepEdits
  <2>3. both.row.category = first.row.category /\ both.row.steps[order[2]].state = "SKIPPED"
    BY <1>2, <1>4, <2>1, CloseStepWrites
  <2>. HIDE DEF both
  <2>. QED  BY <1>4, <2>2, <2>3
<1>6. failed.row = both.row
  <2>1. [both EXCEPT !.log = Append(both.log, Marker("reconciliation_required"))].row = both.row
    <3>. HIDE DEF both
    <3>. QED  BY <1>5 DEF Unit
  <2>. HIDE DEF both
  <2>2. failed = IF b THEN [both EXCEPT !.log = Append(both.log, Marker("reconciliation_required"))]
                 ELSE both
    BY DEF MarkFailure, both
  <2>. HIDE DEF failed
  <2>. QED  BY <2>1, <2>2
<1>7. failed.row.state = target
  BY MarkFailureEdits
<1>. HIDE DEF both, failed
<1>8. RowExplained(failed.row)
  BY <1>2, <1>5, <1>6, <1>7 DEF RowExplained, Done
<1>. QED  BY <1>8 DEF failed

LEMMA MarkVerifiedExplained ==
  ASSUME NEW u \in Unit, NEW order \in StepOrder
  PROVE  /\ MarkVerified(u, order).row.category = u.row.category
         /\ MarkVerified(u, order).row.steps[order[1]] = Done
         /\ MarkVerified(u, order).row.steps[order[2]] = Running
<1>. DEFINE one == SetStep(u, order[1], "SUCCEEDED", "None")
            two == SetState(one, "POLICY_VERIFIED")
            all == SetStep(two, order[2], "RUNNING", "None")
<1>1. /\ "POLICY_VERIFIED" \in States /\ "None" \in Categories
      /\ "SUCCEEDED" \in StepStates /\ "RUNNING" \in StepStates
      /\ order[1] \in Steps /\ order[2] \in Steps /\ order[1] # order[2]
  BY OrderNamesSteps, OrderCoversSteps DEF States, StepStates, Categories
<1>2. /\ one \in Unit /\ one.row.category = u.row.category
      /\ one.row.steps[order[1]] = Done
  BY <1>1, SetStepEdits, SetStepWrites DEF Done
<1>3. two \in Unit /\ two.row.steps = one.row.steps /\ two.row.category = one.row.category
  <2>. HIDE DEF one
  <2>. QED  BY <1>1, <1>2, SetStateEdits, SetStateKeeps
<1>4. /\ all.row.steps[order[1]] = two.row.steps[order[1]] /\ all.row.steps[order[2]] = Running
      /\ all.row.category = two.row.category
  <2>. HIDE DEF two
  <2>. QED  BY <1>1, <1>3, SetStepWrites DEF Running
<1>5. MarkVerified(u, order) = all
  BY DEF MarkVerified
<1>. HIDE DEF one, two, all
<1>. QED  BY <1>2, <1>3, <1>4, <1>5

LEMMA MarkCompletedExplained ==
  ASSUME NEW u \in Unit, NEW order \in StepOrder, NEW id \in Claims,
         u.row.category = "None", u.row.steps[order[1]] = Done
  PROVE  RowExplained(MarkCompleted(u, order, id).row)
<1>. DEFINE v   == [u EXCEPT !.row.claim = id]
            one == SetStep(v, order[2], "SUCCEEDED", "None")
            two == SetState(one, "CLAIM_SUBMITTED")
            all == SetState(two, "COMPLETED")
<1>1. /\ "CLAIM_SUBMITTED" \in States /\ "COMPLETED" \in States
      /\ "SUCCEEDED" \in StepStates /\ "None" \in Categories
      /\ order[1] \in Steps /\ order[2] \in Steps /\ order[1] # order[2]
      /\ Steps = {order[1], order[2]}
  BY OrderNamesSteps, OrderCoversSteps DEF States, StepStates, Categories
<1>2. v \in Unit /\ v.row.category = "None" /\ v.row.steps = u.row.steps
  BY UnitRow DEF Unit, Row
<1>3. /\ one \in Unit /\ one.row.category = "None"
      /\ one.row.steps[order[1]] = Done /\ one.row.steps[order[2]] = Done
  <2>. HIDE DEF v
  <2>. QED  BY <1>1, <1>2, SetStepEdits, SetStepWrites DEF Done
<1>4. two \in Unit /\ two.row.steps = one.row.steps /\ two.row.category = "None"
  <2>. HIDE DEF one
  <2>. QED  BY <1>1, <1>3, SetStateEdits, SetStateKeeps
<1>5. all.row.steps = one.row.steps /\ all.row.category = "None"
  <2>. HIDE DEF two
  <2>. QED  BY <1>1, <1>4, SetStateKeeps
<1>6. MarkCompleted(u, order, id) = all /\ all.row.state = "COMPLETED"
  BY MarkCompletedEdits DEF MarkCompleted
<1>. HIDE DEF v, one, two, all
<1>7. \A n \in Steps : all.row.steps[n] = Done
  BY <1>1, <1>3, <1>5
<1>. QED  BY <1>5, <1>6, <1>7 DEF RowExplained

LEMMA MarkRetriedExplained ==
  ASSUME NEW r \in Row, NEW order \in StepOrder
  PROVE  /\ MarkRetried(r, order).row.category = "None"
         /\ \A n \in Steps : MarkRetried(r, order).row.steps[n] = Waiting
<1>. DEFINE counted == [row |-> [r EXCEPT !.retries = r.retries + 1],
                        log |-> <<Marker("retry_started")>>]
            reset   == SetState(counted, "PENDING")
            begun   == [reset EXCEPT !.row.category = "None"]
            one     == SetStep(begun, order[1], "PENDING", "None")
            two     == SetStep(one, order[2], "PENDING", "None")
<1>1. /\ "PENDING" \in States /\ "None" \in Categories /\ "PENDING" \in StepStates
      /\ order[1] \in Steps /\ order[2] \in Steps /\ order[1] # order[2]
      /\ Steps = {order[1], order[2]}
  BY OrderNamesSteps, OrderCoversSteps DEF States, StepStates, Categories
<1>2. counted \in Unit
  <2>1. [r EXCEPT !.retries = r.retries + 1] \in Row
    BY DEF Row
  <2>2. Marker("retry_started") \in Event
    BY DEF Marker, Event, Markers
  <2>. QED  BY <2>1, <2>2 DEF Unit
<1>3. reset \in Unit
  <2>. HIDE DEF counted
  <2>. QED  BY <1>1, <1>2, SetStateEdits
<1>4. begun \in Unit /\ begun.row.category = "None"
  <2>. HIDE DEF reset
  <2>. QED  BY <1>1, <1>3, UnitRow DEF Unit, Row
<1>5. one \in Unit /\ one.row.category = "None" /\ one.row.steps[order[1]] = Waiting
  <2>. HIDE DEF begun
  <2>. QED  BY <1>1, <1>4, SetStepEdits, SetStepWrites DEF Waiting
<1>6. /\ two.row.category = "None" /\ two.row.steps[order[1]] = Waiting
      /\ two.row.steps[order[2]] = Waiting
  <2>. HIDE DEF one
  <2>. QED  BY <1>1, <1>5, SetStepWrites DEF Waiting
<1>7. MarkRetried(r, order) = two
  BY DEF MarkRetried, CountRetry
<1>. HIDE DEF two
<1>. QED  BY <1>1, <1>6, <1>7

-----------------------------------------------------------------------------
(* The invariant of undisturbed workflows: whoever runs a workflow works   *)
(* on the row as it stands in the table, and log and trail tell its tale.  *)

RunTold(me) ==
  /\ me.loaded = workflow[me.wf]
  /\ Tale(me.loaded, InMemory(me))
  /\ RunExplained(me)

RowTold(w) ==
  workflow[w] # Absent =>
    /\ Leads(audit[w], StateChange, "PENDING", workflow[w].state)
    /\ \A n \in Steps : Leads(audit[w], StepChange(n), "PENDING", workflow[w].steps[n].state)
    /\ Count(audit[w], {"retry_started"}) = workflow[w].retries
    /\ Count(audit[w], Ends) = workflow[w].retries
    /\ RowExplained(workflow[w])

StoryInv ==
  /\ \A h \in Handlers : Busy(h) => RunTold(session[h])
  /\ \A w \in Workflows : RowTold(w)

LEMMA StoryInit == Init => StoryInv
BY DEF Init, StoryInv, Busy, Idle, RowTold

(* Steps that leave the tables alone: only the handler that moves matters. *)
LEMMA StoryFrame ==
  ASSUME StoryInv, NEW h \in Handlers, UNCHANGED <<workflow, audit>>,
         \A g \in Handlers \ {h} : session'[g] = session[g],
         Busy(h)' => RunTold(session[h])'
  PROVE  StoryInv'
<1>1. \A g \in Handlers : Busy(g)' => RunTold(session[g])'
  BY DEF StoryInv, Busy, RunTold
<1>2. \A w \in Workflows : RowTold(w)'
  BY DEF StoryInv, RowTold
<1>. QED  BY <1>1, <1>2 DEF StoryInv

(* A run that goes on with the unit of work u, on the row it has loaded. *)
LEMMA StoryContinue ==
  ASSUME TypeOK, StoryInv, NEW h \in Handlers, Busy(h), UNCHANGED workflow,
         NEW pc \in BusyPcs, NEW u \in Unit, Continue(h, pc, u),
         Tale(session[h].loaded, u),
         RunExplained([session[h] EXCEPT !.pc = pc, !.row = u.row, !.log = u.log])
  PROVE  RunTold(session[h])'
<1>. DEFINE me == session[h]
            s  == [me EXCEPT !.pc = pc, !.row = u.row, !.log = u.log]
<1>1. me \in Executing /\ RunTold(me)
  BY BusyTyped DEF StoryInv
<1>2. session'[h] = s
  BY DEF Continue, TypeOK
<1>3. s.loaded = me.loaded /\ s.wf = me.wf /\ s.row = u.row /\ s.log = u.log
  BY <1>1 DEF Executing
<1>4. Tale(s.loaded, InMemory(s))
  BY <1>3, TaleIgnores DEF InMemory
<1>5. s.loaded = workflow[s.wf]
  BY <1>1, <1>3 DEF RunTold
<1>. HIDE DEF s
<1>. QED  BY <1>2, <1>4, <1>5 DEF s, RunTold

LEMMA FailStory ==
  ASSUME TypeOK, StoryInv, NEW h \in Handlers, Busy(h), session[h].pc # "commit",
         UNCHANGED workflow, NEW c \in Categories \ {"None"}, NEW b \in BOOLEAN, Fail(h, c, b)
  PROVE  RunTold(session[h])'
<1>. DEFINE me == session[h]
            u  == MarkFailure(InMemory(me), me.order, c, b)
            s  == [me EXCEPT !.pc = "commit", !.row = u.row, !.log = u.log]
<1>1. /\ me \in Executing /\ InMemory(me) \in Unit /\ InMemory(me).row = me.row
      /\ me.order \in StepOrder /\ me.loaded \in Row /\ RunTold(me) /\ me.pc \in BusyPcs
      /\ me.order[1] \in Steps /\ me.order[2] \in Steps
  BY BusyTyped, InMemoryTyped, OrderNamesSteps DEF StoryInv, Executing
<1>2. Open(me.row, me.order[2])
  BY <1>1 DEF RunTold, RunExplained, BusyPcs, Open, Waiting, Running
<1>3. u \in Unit /\ RowExplained(u.row) /\ Tale(me.loaded, u)
  BY <1>1, <1>2, MarkFailureEdits, MarkFailureExplained, MarkFailureTale DEF RunTold
<1>4. Continue(h, "commit", u) /\ "commit" \in BusyPcs
  BY DEF Fail, BusyPcs
<1>. HIDE DEF u
<1>5. s.pc = "commit" /\ s.row = u.row
  BY <1>1 DEF Executing
<1>6. RunExplained(s)
  BY <1>3, <1>5 DEF RunExplained
<1>. QED  BY <1>3, <1>4, <1>6, StoryContinue

LEMMA AttemptStory ==
  ASSUME TypeOK, StoryInv, NEW h \in Handlers, Awaiting(h), UNCHANGED workflow, AttemptAgain(h)
  PROVE  RunTold(session[h])'
<1>. DEFINE me == session[h]
            s  == [me EXCEPT !.pc = "sent", !.attempt = me.attempt + 1]
<1>1. Busy(h) /\ me \in Executing /\ RunTold(me) /\ me.pc \in {"sent", "stored"}
  BY BusyTyped DEF Awaiting, Busy, StoryInv
<1>2. CASE me.attempt < MaxAttempts
  <2>1. session'[h] = s
    BY <1>2 DEF AttemptAgain, TypeOK
  <2>2. /\ s.pc = "sent" /\ s.row = me.row /\ s.order = me.order /\ s.loaded = me.loaded
        /\ s.wf = me.wf /\ s.log = me.log
    BY <1>1 DEF Executing
  <2>3. RunExplained(s)
    BY <1>1, <2>2 DEF RunTold, RunExplained
  <2>4. Tale(s.loaded, InMemory(s)) /\ s.loaded = workflow[s.wf]
    BY <1>1, <2>2 DEF RunTold, InMemory
  <2>. HIDE DEF s
  <2>. QED  BY <2>1, <2>3, <2>4 DEF RunTold
<1>3. CASE ~ (me.attempt < MaxAttempts)
  <2>1. "ClaimsServiceReconciliationRequired" \in Categories \ {"None"}
    BY DEF Categories
  <2>. QED  BY <1>1, <1>3, <2>1, FailStory DEF AttemptAgain, Unreconciled
<1>. QED  BY <1>2, <1>3

LEMMA QuietStory ==
  ASSUME TypeOK, StoryInv, NEW h \in Handlers, Quiet(h)
  PROVE  RunTold(session[h])'
<1>b. Busy(h) /\ UNCHANGED workflow
  BY QuietMoves DEF dbVars
<1>c. /\ \A c \in PolicyFailures : c \in Categories \ {"None"}
      /\ "ClaimsServiceRejected" \in Categories \ {"None"}
      /\ "ClaimsServiceReconciliationRequired" \in Categories \ {"None"}
  BY DEF Categories, PolicyFailures
<1>1. CASE PolicyVerified(h)
  <2>. DEFINE me == session[h]
              u  == MarkVerified(InMemory(me), me.order)
              s  == [me EXCEPT !.pc = "sent", !.row = u.row, !.log = u.log]
  <2>1. /\ me \in Executing /\ InMemory(me) \in Unit /\ InMemory(me).row = me.row
        /\ me.order \in StepOrder /\ me.loaded \in Row /\ RunTold(me) /\ me.pc = "policy"
    BY <1>1, <1>b, BusyTyped, InMemoryTyped DEF StoryInv, Executing, PolicyVerified
  <2>2. /\ u \in Unit /\ Tale(me.loaded, u) /\ u.row.category = me.row.category
        /\ u.row.steps[me.order[1]] = Done /\ u.row.steps[me.order[2]] = Running
    BY <2>1, MarkVerifiedEdits, MarkVerifiedTale, MarkVerifiedExplained DEF RunTold
  <2>3. Continue(h, "sent", u) /\ "sent" \in BusyPcs
    BY <1>1 DEF PolicyVerified, BusyPcs
  <2>. HIDE DEF u
  <2>4. s.pc = "sent" /\ s.row = u.row /\ s.order = me.order
    BY <2>1 DEF Executing
  <2>5. RunExplained(s)
    BY <2>1, <2>2, <2>4 DEF RunTold, RunExplained
  <2>. QED  BY <1>b, <2>2, <2>3, <2>5, StoryContinue
<1>2. CASE PolicyFailed(h)
  BY <1>2, <1>b, <1>c, FailStory DEF PolicyFailed
<1>3. CASE ClaimRejected(h)
  BY <1>3, <1>b, <1>c, FailStory DEF ClaimRejected
<1>4. CASE ClaimUnrecognizable(h)
  BY <1>4, <1>b, <1>c, FailStory DEF ClaimUnrecognizable, Unreconciled, Awaiting
<1>5. CASE ClaimServerError(h)
  BY <1>5, <1>b, AttemptStory DEF ClaimServerError
<1>6. CASE ClaimTimeout(h)
  BY <1>6, <1>b, AttemptStory DEF ClaimTimeout
<1>. QED  BY <1>1, <1>2, <1>3, <1>4, <1>5, <1>6 DEF Quiet

LEMMA ReturnedStory ==
  ASSUME TypeOK, StoryInv, NEW h \in Handlers, ClaimReturned(h)
  PROVE  RunTold(session[h])'
<1>. DEFINE me == session[h]
<1>1. /\ Busy(h) /\ me \in Executing /\ InMemory(me) \in Unit /\ InMemory(me).row = me.row
      /\ me.order \in StepOrder /\ me.loaded \in Row /\ RunTold(me) /\ me.pc = "stored"
      /\ UNCHANGED workflow
  BY BusyTyped, InMemoryTyped DEF ClaimReturned, Busy, StoryInv, Executing, dbVars
<1>2. PICK c \in Ledger!Bound(me.caller, me.key) :
        Continue(h, "commit", MarkCompleted(InMemory(me), me.order, c.id))
  BY DEF ClaimReturned, PostOf
<1>3. c.id \in Claims
  BY DEF TypeOK, Ledger!ClaimRow, Ledger!Bound
<1>. DEFINE u == MarkCompleted(InMemory(me), me.order, c.id)
            s == [me EXCEPT !.pc = "commit", !.row = u.row, !.log = u.log]
<1>4. me.row.category = "None" /\ me.row.steps[me.order[1]] = Done
  BY <1>1 DEF RunTold, RunExplained
<1>5. u \in Unit /\ RowExplained(u.row) /\ Tale(me.loaded, u)
  BY <1>1, <1>3, <1>4, MarkCompletedEdits, MarkCompletedExplained, MarkCompletedTale DEF RunTold
<1>6. Continue(h, "commit", u) /\ "commit" \in BusyPcs
  BY <1>2 DEF BusyPcs
<1>. HIDE DEF u
<1>7. s.pc = "commit" /\ s.row = u.row
  BY <1>1 DEF Executing
<1>8. RunExplained(s)
  BY <1>5, <1>7 DEF RunExplained
<1>. QED  BY <1>1, <1>5, <1>6, <1>8, StoryContinue

(* Over the row it was loaded from, a unit of work is written as it is. *)
LEMMA MergeFresh ==
  ASSUME NEW q \in Row, NEW new \in Row
  PROVE  /\ Merge(q, q, new).state = new.state
         /\ Merge(q, q, new).category = new.category
         /\ Merge(q, q, new).retries = new.retries
         /\ \A n \in Steps : Merge(q, q, new).steps[n] = new.steps[n]
<1>1. \A a, b : Written(a, b, b) = a
  BY DEF Written
<1>2. \A n \in Steps : new.steps[n] = [state |-> new.steps[n].state, error |-> new.steps[n].error]
  BY DEF Row
<1>. QED  BY <1>1, <1>2 DEF Merge

(* The event with which a retry ends changes nothing and is counted once. *)
LEMMA FinishTold ==
  ASSUME NEW me \in Executing
  PROVE  LET finish == IF ~ me.retry THEN <<>>
                       ELSE IF me.row.state = "COMPLETED" THEN <<Marker("retry_succeeded")>>
                       ELSE <<Marker("retry_finished")>> IN
         /\ finish \in Seq(Event)
         /\ \A x : Leads(finish, StateChange, x, x)
         /\ \A n \in Steps : \A x : Leads(finish, StepChange(n), x, x)
         /\ Count(finish, {"retry_started"}) = 0
         /\ Count(finish, Ends) = IF me.retry THEN 1 ELSE 0
<1>. DEFINE finish == IF ~ me.retry THEN <<>>
                      ELSE IF me.row.state = "COMPLETED" THEN <<Marker("retry_succeeded")>>
                      ELSE <<Marker("retry_finished")>>
<1>1. me.retry \in BOOLEAN
  BY DEF Executing
<1>2. CASE ~ me.retry
  <2>1. finish = <<>>
    BY <1>2
  <2>2. finish \in Seq(Event)
    BY <2>1
  <2>3. Count(<<>>, {"retry_started"}) = 0 /\ Count(<<>>, Ends) = 0
    BY CountEmpty
  <2>4. /\ \A x : Leads(<<>>, StateChange, x, x)
        /\ \A n \in Steps : \A x : Leads(<<>>, StepChange(n), x, x)
    BY LeadsEmpty
  <2>. HIDE DEF finish
  <2>. QED  BY <1>2, <2>1, <2>2, <2>3, <2>4 DEF finish
<1>3. CASE me.retry
  <2>1. PICK m \in Ends : finish = <<Marker(m)>>
    BY <1>3 DEF Ends
  <2>2. /\ Marker(m) \in Event /\ Marker(m) \notin StateChange
        /\ (\A n \in Steps : Marker(m) \notin StepChange(n))
        /\ Marker(m).type \notin {"retry_started"} /\ Marker(m).type \in Ends
    BY DEF Marker, Event, Markers, StateChange, StepChange, Ends
  <2>3. /\ \A x : Leads(<<Marker(m)>>, StateChange, x, x)
        /\ \A n \in Steps : \A x : Leads(<<Marker(m)>>, StepChange(n), x, x)
    BY <2>2, LeadsOne
  <2>4. Count(<<Marker(m)>>, {"retry_started"}) = 0 /\ Count(<<Marker(m)>>, Ends) = 1
    BY <2>2, CountOne
  <2>5. finish \in Seq(Event)
    BY <2>1, <2>2
  <2>. HIDE DEF finish
  <2>. QED  BY <1>3, <2>1, <2>3, <2>4, <2>5 DEF finish
<1>. QED  BY <1>1, <1>2, <1>3

(* A commit that nobody came before appends the tale of its run to the trail. *)
LEMMA CommitStory ==
  ASSUME IInv, StoryInv, NEW h \in Handlers, Commit(h),
         NEW v \in Workflows, v = session[h].wf
  PROVE  /\ RowTold(v)'
         /\ \A w \in Workflows \ {v} : workflow'[w] = workflow[w] /\ audit'[w] = audit[w]
<1>. DEFINE me == session[h]
            q  == workflow[me.wf]
            r  == Merge(q, me.loaded, me.row)
            finish == IF ~ me.retry THEN <<>>
                      ELSE IF me.row.state = "COMPLETED" THEN <<Marker("retry_succeeded")>>
                      ELSE <<Marker("retry_finished")>>
            trail == audit[me.wf] \o me.log \o finish
<1>1. /\ TypeOK /\ Busy(h) /\ me \in Executing /\ UnitInv(me) /\ me.pc = "commit" /\ RunTold(me)
  BY BusyTyped DEF IInv, Commit, Busy, RunsInv, StoryInv
<1>2. /\ me.wf \in Workflows /\ me.row \in Row /\ q \in Row /\ q # Absent /\ me.loaded = q
      /\ me.log \in Seq(Event) /\ audit[me.wf] \in Seq(Event) /\ me.retry \in BOOLEAN
  BY <1>1 DEF Executing, UnitInv, TypeOK, RunTold
<1>3. RowTold(me.wf) /\ Tale(q, InMemory(me)) /\ RowExplained(me.row)
  BY <1>1, <1>2 DEF StoryInv, RunTold, RunExplained
<1>4. /\ r.state = me.row.state /\ r.category = me.row.category /\ r.retries = me.row.retries
      /\ \A n \in Steps : r.steps[n] = me.row.steps[n]
  BY <1>2, MergeFresh
<1>5. workflow' = [workflow EXCEPT ![me.wf] = r] /\ audit' = [audit EXCEPT ![me.wf] = trail]
  BY DEF Commit
<1>6. /\ finish \in Seq(Event)
      /\ \A x : Leads(finish, StateChange, x, x)
      /\ \A n \in Steps : \A x : Leads(finish, StepChange(n), x, x)
      /\ Count(finish, {"retry_started"}) = 0
      /\ Count(finish, Ends) = IF me.retry THEN 1 ELSE 0
  BY <1>1, FinishTold
<1>. HIDE DEF finish, r
<1>7. audit[me.wf] \o me.log \in Seq(Event)
  BY <1>2
<1>8. Leads(trail, StateChange, "PENDING", me.row.state)
  <2>1. Leads(audit[me.wf], StateChange, "PENDING", q.state)
    BY <1>2, <1>3 DEF RowTold
  <2>2. Leads(me.log, StateChange, q.state, me.row.state)
    BY <1>3 DEF Tale, InMemory
  <2>3. Leads(audit[me.wf] \o me.log, StateChange, "PENDING", me.row.state)
    BY <1>2, <2>1, <2>2, LeadsConcat
  <2>. QED  BY <1>6, <1>7, <2>3, LeadsConcat
<1>9. ASSUME NEW n \in Steps
      PROVE  Leads(trail, StepChange(n), "PENDING", me.row.steps[n].state)
  <2>1. Leads(audit[me.wf], StepChange(n), "PENDING", q.steps[n].state)
    BY <1>2, <1>3 DEF RowTold
  <2>2. Leads(me.log, StepChange(n), q.steps[n].state, me.row.steps[n].state)
    BY <1>3 DEF Tale, InMemory
  <2>3. Leads(audit[me.wf] \o me.log, StepChange(n), "PENDING", me.row.steps[n].state)
    BY <1>2, <2>1, <2>2, LeadsConcat
  <2>. QED  BY <1>6, <1>7, <2>3, LeadsConcat
<1>10. ASSUME NEW types
       PROVE  Count(trail, types) = Count(audit[me.wf], types) + Count(me.log, types)
                                      + Count(finish, types)
  <2>1. Count(audit[me.wf] \o me.log, types) = Count(audit[me.wf], types) + Count(me.log, types)
    BY <1>2, CountConcat
  <2>. QED  BY <1>6, <1>7, <2>1, CountConcat
<1>11. /\ Count(audit[me.wf], {"retry_started"}) = q.retries
       /\ Count(audit[me.wf], Ends) = q.retries
       /\ Count(me.log, {"retry_started"}) + q.retries = me.row.retries
       /\ Count(me.log, Ends) = 0
       /\ Count(me.log, {"retry_started"}) \in Nat
       /\ q.retries \in Nat /\ me.row.retries \in Nat
       /\ me.row.retries = IF me.retry THEN q.retries + 1 ELSE q.retries
  BY <1>1, <1>2, <1>3, CountFinite DEF RowTold, Tale, InMemory, UnitInv, Row
<1>12. Count(trail, {"retry_started"}) = me.row.retries
  BY <1>6, <1>10, <1>11
<1>13. Count(trail, Ends) = me.row.retries
  BY <1>2, <1>6, <1>10, <1>11
<1>14. RowExplained(r)
  BY <1>3, <1>4 DEF RowExplained
<1>. HIDE DEF trail
<1>15. workflow'[v] = r /\ audit'[v] = trail
  BY <1>1, <1>2, <1>5 DEF TypeOK
<1>16. RowTold(v)'
  BY <1>4, <1>8, <1>9, <1>12, <1>13, <1>14, <1>15 DEF RowTold
<1>17. ASSUME NEW w \in Workflows \ {v}
       PROVE  workflow'[w] = workflow[w] /\ audit'[w] = audit[w]
  BY <1>1, <1>5 DEF TypeOK
<1>. QED  BY <1>16, <1>17

LEMMA UndisturbedRuns ==
  ASSUME TypeOK, Undisturbed, NEW g \in Handlers, NEW h \in Handlers, Busy(g), Busy(h),
         session[g].wf = session[h].wf
  PROVE  g = h
<1>1. session[g] \in Executing /\ session[h] \in Executing
  BY BusyTyped
<1>2. Executes(g, session[h].wf) /\ Executes(h, session[h].wf) /\ session[h].wf \in Workflows
  BY <1>1 DEF Executes, Executing, Starting, Idle
<1>. QED  BY <1>2 DEF Undisturbed

LEMMA StoryNext == IInv /\ StoryInv /\ Undisturbed /\ [Next]_vars => StoryInv'
<1>. SUFFICES ASSUME IInv, StoryInv, Undisturbed, [Next]_vars PROVE StoryInv'
  OBVIOUS
<1>. USE DEF dbVars
<1>t. TypeOK
  BY DEF IInv
<1>1. ASSUME NEW h \in Handlers, NEW s \in Subjects, NEW k \in Keys, NEW p \in Payloads,
             StartDuplicate(h, s, k, p) \/ StartNew(h, s, k, p)
      PROVE  StoryInv'
  BY <1>1, <1>t, StoryFrame DEF StartDuplicate, StartNew, Busy, TypeOK, Idle
<1>2. ASSUME NEW h \in Handlers, Insert(h)
      PROVE  StoryInv'
  <2>. DEFINE row == NewRow(session[h].payload)
              new(w) == [pc |-> "policy", caller |-> session[h].caller, key |-> session[h].key,
                         wf |-> w, retry |-> FALSE,
                         order |-> <<"policy_verification", "claim_submission">>,
                         attempt |-> 1, loaded |-> row, row |-> row, log |-> <<>>]
  <2>1. PICK w \in Workflows :
          /\ workflow[w] = Absent
          /\ workflow' = [workflow EXCEPT ![w] = row]
          /\ audit' = [audit EXCEPT ![w] = <<Marker("workflow_created")>>]
          /\ session' = [session EXCEPT ![h] = new(w)]
    BY <1>2 DEF Insert
  <2>2. /\ session'[h] = new(w) /\ \A g \in Handlers \ {h} : session'[g] = session[g]
        /\ workflow'[w] = row /\ audit'[w] = <<Marker("workflow_created")>>
        /\ \A v \in Workflows \ {w} : workflow'[v] = workflow[v] /\ audit'[v] = audit[v]
    BY <2>1, <1>t DEF TypeOK
  <2>3. /\ row.category = "None" /\ row.state = "PENDING" /\ row.retries = 0
        /\ \A n \in Steps : row.steps[n] = Waiting
    BY DEF NewRow, Waiting
  <2>. HIDE DEF row
  <2>4. /\ new(w).wf = w /\ new(w).loaded = row /\ new(w).row = row /\ new(w).log = <<>>
        /\ new(w).pc = "policy"
    OBVIOUS
  <2>5. Tale(row, InMemory(new(w)))
    <3>1. /\ Leads(<<>>, StateChange, row.state, row.state)
          /\ \A n \in Steps : Leads(<<>>, StepChange(n), row.steps[n].state, row.steps[n].state)
      BY LeadsEmpty
    <3>2. Count(<<>>, {"retry_started"}) = 0 /\ Count(<<>>, Ends) = 0
      BY CountEmpty
    <3>3. InMemory(new(w)).row = row /\ InMemory(new(w)).log = <<>>
      BY DEF InMemory
    <3>. HIDE DEF new
    <3>. QED  BY <2>3, <3>1, <3>2, <3>3 DEF Tale
  <2>6. RunExplained(new(w))
    <3>. HIDE DEF new
    <3>. QED  BY <2>3, <2>4 DEF RunExplained
  <2>. HIDE DEF new
  <2>7. ASSUME NEW g \in Handlers, Busy(g)'
        PROVE  RunTold(session[g])'
    <3>1. CASE g = h
      BY <2>2, <2>4, <2>5, <2>6, <3>1 DEF RunTold
    <3>2. CASE g # h
      <4>1. Busy(g) /\ session'[g] = session[g] /\ RunTold(session[g])
        BY <2>2, <2>7, <3>2 DEF Busy, StoryInv
      <4>2. session[g] \in Executing
        BY <4>1, <1>t, BusyTyped
      <4>3. session[g].wf \in Workflows /\ session[g].loaded \in Row
        BY <4>2 DEF Executing
      <4>4. session[g].wf # w
        BY <2>1, <4>1, <4>3 DEF RunTold, Row, Absent, States
      <4>5. workflow'[session[g].wf] = workflow[session[g].wf]
        BY <2>2, <4>3, <4>4
      <4>. QED  BY <4>1, <4>5 DEF RunTold
    <3>. QED  BY <3>1, <3>2
  <2>8. RowTold(w)'
    <3>. DEFINE e == Marker("workflow_created")
    <3>1. /\ e \in Event /\ e \notin StateChange /\ (\A n \in Steps : e \notin StepChange(n))
          /\ e.type \notin {"retry_started"} /\ e.type \notin Ends
      BY DEF Marker, Event, Markers, StateChange, StepChange, Ends
    <3>. HIDE DEF e
    <3>2. /\ Leads(<<e>>, StateChange, "PENDING", "PENDING")
          /\ \A n \in Steps : Leads(<<e>>, StepChange(n), "PENDING", "PENDING")
      BY <3>1, LeadsOne
    <3>3. Count(<<e>>, {"retry_started"}) = 0 /\ Count(<<e>>, Ends) = 0
      BY <3>1, CountOne
    <3>4. row.steps["policy_verification"] = Waiting /\ "policy_verification" \in Steps
      BY <2>3 DEF Steps
    <3>5. RowExplained(row)
      BY <2>3, <3>4 DEF RowExplained, Waiting, Done
    <3>6. \A n \in Steps : row.steps[n].state = "PENDING"
      BY <2>3 DEF Waiting
    <3>. QED  BY <2>2, <2>3, <3>2, <3>3, <3>5, <3>6 DEF RowTold, e
  <2>9. \A v \in Workflows \ {w} : RowTold(v)'
    BY <2>2 DEF StoryInv, RowTold
  <2>. QED  BY <2>7, <2>8, <2>9 DEF StoryInv
<1>3. ASSUME NEW h \in Handlers, InsertLost(h) \/ AnswerLost(h)
      PROVE  StoryInv'
  BY <1>3, <1>t, StoryFrame, StartingTyped DEF InsertLost, AnswerLost, Busy, TypeOK, Idle, Starting
<1>4. ASSUME NEW h \in Handlers, NEW w \in Workflows, RetryRefused(h, w)
      PROVE  StoryInv'
  BY <1>4, StoryFrame DEF RetryRefused, Busy, Idle
<1>5. ASSUME NEW h \in Handlers, NEW s \in Subjects, NEW w \in Workflows, RetryBegin(h, s, w)
      PROVE  StoryInv'
  <2>1. PICK r \in idem, order \in StepOrder :
          session' = [session EXCEPT ![h] =
            [pc |-> "policy", caller |-> s, key |-> r.key, wf |-> w, retry |-> TRUE,
             order |-> order, attempt |-> 1, loaded |-> workflow[w],
             row |-> MarkRetried(workflow[w], order).row,
             log |-> MarkRetried(workflow[w], order).log]]
    BY <1>5 DEF RetryBegin
  <2>. DEFINE u == MarkRetried(workflow[w], order)
  <2>2. workflow[w] \in Row
    BY <1>5, <1>t DEF RetryBegin, Retryable, TypeOK, Absent
  <2>3. /\ Tale(workflow[w], u) /\ u.row.category = "None"
        /\ \A n \in Steps : u.row.steps[n] = Waiting
    BY <2>2, MarkRetriedTale, MarkRetriedExplained
  <2>. DEFINE s2 == session'[h]
  <2>4. /\ s2.pc = "policy" /\ s2.wf = w /\ s2.loaded = workflow[w] /\ s2.row = u.row
        /\ s2.log = u.log /\ \A g \in Handlers \ {h} : session'[g] = session[g]
    BY <2>1, <1>t DEF TypeOK
  <2>5. UNCHANGED <<workflow, audit>>
    BY <1>5 DEF RetryBegin
  <2>. HIDE DEF u, s2
  <2>6. Tale(workflow[w], InMemory(s2)) /\ RunExplained(s2)
    BY <2>3, <2>4, TaleIgnores DEF InMemory, RunExplained
  <2>7. RunTold(session[h])'
    BY <2>4, <2>5, <2>6 DEF RunTold, s2
  <2>. QED  BY <2>4, <2>5, <2>7, StoryFrame
<1>6. ASSUME NEW h \in Handlers, Quiet(h)
      PROVE  StoryInv'
  <2>1. PICK s \in Executing : session' = [session EXCEPT ![h] = s]
    BY <1>6, <1>t, QuietMoves
  <2>2. \A g \in Handlers \ {h} : session'[g] = session[g]
    BY <2>1, <1>t DEF TypeOK
  <2>3. UNCHANGED <<workflow, audit>>
    BY <1>6, <1>t, QuietMoves
  <2>. QED  BY <1>6, <1>t, <2>2, <2>3, QuietStory, StoryFrame
<1>7. ASSUME NEW h \in Handlers, ClaimStored(h)
      PROVE  StoryInv'
  <2>. DEFINE me == session[h]
              s  == [me EXCEPT !.pc = "stored"]
  <2>1. me \in Executing /\ RunTold(me) /\ me.pc = "sent"
    BY <1>7, <1>t, BusyTyped DEF ClaimStored, Busy, StoryInv
  <2>2. session'[h] = s /\ \A g \in Handlers \ {h} : session'[g] = session[g]
    BY <1>7, <1>t DEF ClaimStored, TypeOK
  <2>3. /\ s.pc = "stored" /\ s.row = me.row /\ s.order = me.order /\ s.loaded = me.loaded
        /\ s.wf = me.wf /\ s.log = me.log
    BY <2>1 DEF Executing
  <2>4. UNCHANGED <<workflow, audit>>
    BY <1>7 DEF ClaimStored
  <2>5. RunExplained(s) /\ Tale(s.loaded, InMemory(s)) /\ s.loaded = workflow[s.wf]
    BY <2>1, <2>3 DEF RunTold, RunExplained, InMemory
  <2>. HIDE DEF s
  <2>6. RunTold(session[h])'
    BY <2>2, <2>4, <2>5 DEF RunTold
  <2>. QED  BY <2>2, <2>4, <2>6, StoryFrame
<1>8. ASSUME NEW h \in Handlers, ClaimReturned(h)
      PROVE  StoryInv'
  <2>1. UNCHANGED <<workflow, audit>> /\ \A g \in Handlers \ {h} : session'[g] = session[g]
    BY <1>8, <1>t DEF ClaimReturned, Continue, TypeOK
  <2>. QED  BY <1>8, <1>t, <2>1, ReturnedStory, StoryFrame
<1>9. ASSUME NEW h \in Handlers, Commit(h)
      PROVE  StoryInv'
  <2>. DEFINE v == session[h].wf
  <2>1. Busy(h) /\ session[h] \in Executing
    BY <1>9, <1>t, BusyTyped DEF Commit, Busy
  <2>2. v \in Workflows
    BY <2>1 DEF Executing
  <2>3. PICK w \in Workflows : w = v
    BY <2>2
  <2>4. RowTold(w)' /\ \A x \in Workflows \ {w} : workflow'[x] = workflow[x] /\ audit'[x] = audit[x]
    BY <1>9, <2>3, CommitStory
  <2>5. ~ Busy(h)' /\ \A g \in Handlers \ {h} : session'[g] = session[g]
    BY <1>9, <1>t DEF Commit, TypeOK, Busy, Idle
  <2>6. ASSUME NEW g \in Handlers, Busy(g)'
        PROVE  RunTold(session[g])'
    <3>1. g # h /\ Busy(g) /\ session'[g] = session[g] /\ RunTold(session[g])
      BY <2>5, <2>6 DEF Busy, StoryInv
    <3>2. session[g].wf # w
      BY <1>t, <2>1, <2>3, <3>1, UndisturbedRuns
    <3>3. session[g].wf \in Workflows
      BY <1>t, <3>1, BusyTyped DEF Executing
    <3>4. workflow'[session[g].wf] = workflow[session[g].wf]
      BY <2>4, <3>2, <3>3
    <3>. QED  BY <3>1, <3>4 DEF RunTold
  <2>7. \A x \in Workflows \ {w} : RowTold(x)'
    BY <2>4 DEF StoryInv, RowTold
  <2>. QED  BY <2>4, <2>6, <2>7 DEF StoryInv
<1>10. ASSUME NEW h \in Handlers, Abort(h)
       PROVE  StoryInv'
  BY <1>10, <1>t, StoryFrame DEF Abort, Busy, TypeOK, Idle
<1>11. ASSUME NEW m \in stray, StrayStored(m)
       PROVE  StoryInv'
  BY <1>11 DEF StrayStored, StoryInv, RowTold, RunTold, Busy
<1>12. CASE UNCHANGED vars
  BY <1>12 DEF vars, StoryInv, RowTold, RunTold, Busy
<1>. QED
  BY <1>1, <1>2, <1>3, <1>4, <1>5, <1>6, <1>7, <1>8, <1>9, <1>10, <1>11, <1>12
     DEF Next, Receive, Proceed, Quiet

LEMMA StoryInvariant == Spec /\ []Undisturbed => []StoryInv
BY StoryInit, StoryNext, InductiveInvariant, PTL DEF Spec

(* As long as no two handlers run one workflow at the same time, its audit trail replays to its
   row, however many retries, crashes and unknown outcomes it has seen. *)
THEOREM TrailAccountsForRow == Spec /\ []Undisturbed => []AuditAccountsForRow
<1>1. StoryInv => AuditAccountsForRow
  BY DEF StoryInv, RowTold, AuditAccountsForRow
<1>. QED  BY <1>1, StoryInvariant, PTL

(* Under the same condition every retry that was committed is counted once, began once and
   ended once. *)
THEOREM RetriesAreAudited == Spec /\ []Undisturbed => []RetriesAudited
<1>1. StoryInv => RetriesAudited
  BY DEF StoryInv, RowTold, RetriesAudited, Ends
<1>. QED  BY <1>1, StoryInvariant, PTL

(* Under the same condition category, state and steps of a row tell one and the same outcome. *)
THEOREM OutcomeIsExplained == Spec /\ []Undisturbed => []OutcomeExplained
<1>1. StoryInv => OutcomeExplained
  BY DEF StoryInv, RowTold, RowExplained, Done, OutcomeExplained
<1>. QED  BY <1>1, StoryInvariant, PTL

(* One handler never disturbs itself: a service that runs one request at a time keeps all three. *)
THEOREM OneHandlerIsUndisturbed ==
  ASSUME NEW h, Handlers = {h}
  PROVE  Spec => [](AuditAccountsForRow /\ RetriesAudited /\ OutcomeExplained)
<1>1. Undisturbed
  BY DEF Undisturbed
<1>. QED  BY <1>1, TrailAccountsForRow, RetriesAreAudited, OutcomeIsExplained, PTL

-----------------------------------------------------------------------------
(* The saga and the ledger *)

(* The two places where the saga touches the Claims Service are steps of its ledger. *)
LEMMA LedgerStep == IInv /\ [Next]_vars => [Ledger!Next]_claims
<1> SUFFICES ASSUME IInv, [Next]_vars
             PROVE  Ledger!Next \/ UNCHANGED claims
  OBVIOUS
<1>1. ASSUME NEW m \in Post, Ledger!Create(m.subject, m.key, m.payload, m.workflow)
      PROVE  Ledger!Next
  BY <1>1 DEF Post, Ledger!Next
<1>2. ASSUME NEW h \in Handlers, ClaimStored(h)
      PROVE  Ledger!Next \/ UNCHANGED claims
  <2>1. PostOf(session[h]) \in Post
    BY <1>2, BusyTyped, PostTyped DEF ClaimStored, Busy, IInv
  <2>. QED  BY <1>1, <1>2, <2>1 DEF ClaimStored, Ledger!Accept, Ledger!Replay
<1>3. ASSUME NEW m \in stray, StrayStored(m)
      PROVE  Ledger!Next
  <2>1. m \in Post
    BY DEF IInv, TypeOK
  <2>. QED  BY <1>1, <1>3, <2>1 DEF StrayStored
<1>4. ASSUME NEW h \in Handlers, Receive(h) \/ Proceed(h) \/ Abort(h)
      PROVE  UNCHANGED claims
  BY <1>4 DEF Receive, StartDuplicate, StartNew, RetryRefused, RetryBegin, Proceed, Insert,
              InsertLost, AnswerLost, PolicyVerified, PolicyFailed, ClaimReturned, ClaimRejected,
              ClaimUnrecognizable, ClaimServerError, ClaimTimeout, Commit, Abort
<1>5. CASE UNCHANGED vars
  BY <1>5 DEF vars
<1>. QED  BY <1>2, <1>3, <1>4, <1>5 DEF Next

(* Seen from the Claims Service the whole saga, its timeouts, retries, crashes and the POSTs it
   gave up included, is a caller of POST /claims like any other: claims are only ever added,
   under a free scope each (the specification ClaimsService implements). *)
THEOREM SagaKeepsLedger == Spec => Ledger!Spec /\ []Ledger!OneClaimPerScope
<1>1. Init => Ledger!Init
  BY DEF Init
<1>2. IInv => Ledger!OneClaimPerScope
  BY DEF IInv, KeysInv
<1>. QED  BY <1>1, <1>2, LedgerStep, InductiveInvariant, PTL DEF Spec, Ledger!Spec

-----------------------------------------------------------------------------
(* Where the documents are right: under which condition what a run refutes holds *)

(* Every workflow is executed, and so retried, only by the user who started it. *)
OwnRetries ==
  \A h \in Handlers : Busy(h) =>
    \E r \in idem : r.workflow = session[h].wf /\ r.subject = session[h].caller

(* Then whatever was or may still be posted for a workflow is its owner's. *)
OwnedInv ==
  /\ \A m \in stray, r \in idem : r.workflow = m.workflow => r.subject = m.subject
  /\ \A c \in claims, r \in idem : r.workflow = c.origin => r.subject = c.subject

(* A new record is one of a workflow nothing was posted for. *)
LEMMA OwnedByRecords ==
  ASSUME IInv, OwnedInv, NEW h \in Handlers, Insert(h)
  PROVE  OwnedInv'
<1>1. PICK w \in Workflows :
        /\ workflow[w] = Absent
        /\ idem' = idem \cup {[subject |-> session[h].caller, key |-> session[h].key,
                               payload |-> session[h].payload, workflow |-> w]}
  BY DEF Insert
<1>2. UNCHANGED <<claims, stray>>
  BY DEF Insert
<1>3. /\ \A m \in stray : m.workflow # w
      /\ \A c \in claims : c.origin # w
  BY <1>1 DEF IInv, KeysInv, Recorded, RecordHasRow
<1>. QED  BY <1>1, <1>2, <1>3 DEF OwnedInv

(* What a handler gives up is its owner's. *)
LEMMA OwnedAbandoned ==
  ASSUME IInv, OwnedInv, OwnRetries, NEW h \in Handlers, Busy(h), Abandon(h),
         UNCHANGED <<idem, claims>>
  PROVE  OwnedInv'
<1> DEFINE m == PostOf(session[h])
<1>1. m.subject = session[h].caller /\ m.workflow = session[h].wf
  BY DEF PostOf
<1>2. \A r \in idem : r.workflow = m.workflow => r.subject = m.subject
  BY <1>1 DEF OwnRetries, IInv, KeysInv, OneRecord
<1>3. stray' = stray \/ stray' = stray \cup {m}
  BY DEF Abandon
<1>. HIDE DEF m
<1>. QED  BY <1>2, <1>3 DEF OwnedInv

(* So is what it posts. *)
LEMMA OwnedCreated ==
  ASSUME OwnedInv, NEW m, UNCHANGED <<idem, stray>>,
         Ledger!Create(m.subject, m.key, m.payload, m.workflow),
         \A r \in idem : r.workflow = m.workflow => r.subject = m.subject
  PROVE  OwnedInv'
BY DEF OwnedInv, Ledger!Create

LEMMA OwnedNext == IInv /\ OwnedInv /\ OwnRetries /\ [Next]_vars => OwnedInv'
<1> SUFFICES ASSUME IInv, OwnedInv, OwnRetries, [Next]_vars
             PROVE  OwnedInv'
  OBVIOUS
<1>1. ASSUME NEW h \in Handlers, Receive(h) PROVE OwnedInv'
  BY <1>1 DEF Receive, StartDuplicate, StartNew, RetryRefused, RetryBegin, dbVars, OwnedInv
<1>2. ASSUME NEW h \in Handlers, Insert(h) PROVE OwnedInv'
  BY <1>2, OwnedByRecords
<1>3. ASSUME NEW h \in Handlers, ClaimTimeout(h) PROVE OwnedInv'
  BY <1>3, OwnedAbandoned DEF ClaimTimeout, Awaiting, Busy, dbVars
<1>4. ASSUME NEW h \in Handlers, Abort(h) PROVE OwnedInv'
  <2>1. CASE Busy(h)
    BY <1>4, <2>1, OwnedAbandoned DEF Abort, dbVars
  <2>2. CASE ~ Busy(h)
    BY <1>4, <2>2 DEF Abort, Abandon, Busy, dbVars, OwnedInv
  <2>. QED  BY <2>1, <2>2
<1>5. ASSUME NEW h \in Handlers, InsertLost(h) \/ AnswerLost(h) \/ PolicyVerified(h)
             \/ PolicyFailed(h) \/ ClaimReturned(h) \/ ClaimRejected(h) \/ ClaimUnrecognizable(h)
             \/ ClaimServerError(h) \/ Commit(h)
      PROVE  OwnedInv'
  <2>1. UNCHANGED <<idem, claims, stray>>
    BY <1>5 DEF InsertLost, AnswerLost, PolicyVerified, PolicyFailed, ClaimReturned,
                ClaimRejected, ClaimUnrecognizable, ClaimServerError, Commit, dbVars
  <2>. QED  BY <2>1 DEF OwnedInv
<1>6. ASSUME NEW h \in Handlers, ClaimStored(h) PROVE OwnedInv'
  <2> DEFINE m == PostOf(session[h])
  <2>1. m.subject = session[h].caller /\ m.workflow = session[h].wf /\ Busy(h)
    BY <1>6 DEF PostOf, ClaimStored, Busy
  <2>2. \A r \in idem : r.workflow = m.workflow => r.subject = m.subject
    BY <2>1 DEF OwnRetries, IInv, KeysInv, OneRecord
  <2>3. UNCHANGED <<idem, stray>>
    BY <1>6 DEF ClaimStored, dbVars
  <2>4. Ledger!Create(m.subject, m.key, m.payload, m.workflow) \/ UNCHANGED claims
    BY <1>6 DEF ClaimStored, Ledger!Accept, Ledger!Replay
  <2>. HIDE DEF m
  <2>5. CASE Ledger!Create(m.subject, m.key, m.payload, m.workflow)
    BY <2>2, <2>3, <2>5, OwnedCreated
  <2>. QED  BY <2>3, <2>4, <2>5 DEF OwnedInv
<1>7. ASSUME NEW m \in stray, StrayStored(m) PROVE OwnedInv'
  <2>1. \A r \in idem : r.workflow = m.workflow => r.subject = m.subject
    BY DEF OwnedInv
  <2>. QED  BY <1>7, <2>1, OwnedCreated DEF StrayStored, dbVars
<1>8. CASE UNCHANGED vars
  BY <1>8 DEF vars, OwnedInv
<1>. QED  BY <1>1, <1>2, <1>3, <1>4, <1>5, <1>6, <1>7, <1>8 DEF Next, Proceed

(* Spec 003:44 promises retries without duplicate claims.  It holds, through any timeouts,
   crashes and overlapping retries, if only the owner of a workflow retries it: the endpoint
   does not ask for that (api/routes.py:70-85), and the run OrchTwoClaims shows what follows. *)
THEOREM OwnRetriesCreateOneClaim == Spec /\ []OwnRetries => []OneClaimPerWorkflow
<1>1. Init => OwnedInv
  BY DEF Init, OwnedInv, Ledger!Init
<1>2. IInv /\ OwnedInv /\ OneClaimPerCaller => OneClaimPerWorkflow
  <2> SUFFICES ASSUME IInv, OwnedInv, OneClaimPerCaller, NEW c \in claims, NEW d \in claims,
                      c.origin = d.origin
               PROVE  c = d
    BY DEF OneClaimPerWorkflow
  <2>1. PICK r \in idem : r.workflow = c.origin
    BY DEF IInv, KeysInv, Recorded
  <2>2. c.subject = d.subject
    BY <2>1 DEF OwnedInv
  <2>. QED  BY <2>2 DEF OneClaimPerCaller
<1>. QED  BY <1>1, <1>2, OwnedNext, CallerGetsOneClaim, InductiveInvariant, PTL DEF Spec

(* A pending row is being executed, as long as no handler died. *)
Runs(h, w) == Busy(h) /\ session[h].wf = w
PendingInv ==
  aborts = 0 => \A w \in Workflows : workflow[w].state = "PENDING" => \E h \in Handlers : Runs(h, w)

(* A step that neither writes the row of w nor ends a run of it. *)
LEMMA PendingFrame ==
  ASSUME PendingInv, aborts = 0, NEW w \in Workflows, workflow'[w] = workflow[w],
         workflow'[w].state = "PENDING", \A g \in Handlers : Runs(g, w) => Runs(g, w)'
  PROVE  \E g \in Handlers : Runs(g, w)'
BY DEF PendingInv

LEMMA PendingNext == IInv /\ PendingInv /\ [Next]_vars => PendingInv'
<1> SUFFICES ASSUME IInv, PendingInv, [Next]_vars, aborts' = 0,
                    NEW w \in Workflows, workflow'[w].state = "PENDING"
             PROVE  \E g \in Handlers : Runs(g, w)'
  BY DEF PendingInv
<1>t. TypeOK /\ KeysInv /\ RunsInv
  BY DEF IInv
<1>1. ASSUME NEW h \in Handlers, Abort(h) PROVE FALSE
  BY <1>t, <1>1 DEF Abort, TypeOK
<1>2. ASSUME NEW h \in Handlers, Receive(h) PROVE \E g \in Handlers : Runs(g, w)'
  <2>1. workflow' = workflow /\ aborts' = aborts
    BY <1>2 DEF Receive, StartDuplicate, StartNew, RetryRefused, RetryBegin, dbVars
  <2>2. session' = session \/ (session[h] = Idle /\ \E s : session' = [session EXCEPT ![h] = s])
    <3>1. CASE \E s \in Subjects, v \in Workflows : RetryBegin(h, s, v)
      <4>1. PICK s \in Subjects, v \in Workflows : RetryBegin(h, s, v)
        BY <3>1
      <4>. QED  BY <4>1 DEF RetryBegin
    <3>2. CASE \E s \in Subjects, k \in Keys, p \in Payloads : StartNew(h, s, k, p)
      BY <3>2 DEF StartNew
    <3>3. CASE UNCHANGED session
      BY <3>3
    <3>. QED  BY <1>2, <3>1, <3>2, <3>3 DEF Receive, StartDuplicate, RetryRefused
  <2>3. \A g \in Handlers : Runs(g, w) => session'[g] = session[g]
    BY <1>t, <2>2 DEF TypeOK, Runs, Busy, Idle
  <2>. QED  BY <2>1, <2>3, PendingFrame DEF Runs, Busy
<1>3. ASSUME NEW h \in Handlers, Insert(h) PROVE \E g \in Handlers : Runs(g, w)'
  <2>1. PICK v \in Workflows :
          /\ workflow' = [workflow EXCEPT ![v] = NewRow(session[h].payload)]
          /\ session' = [session EXCEPT ![h] =
               [pc |-> "policy", caller |-> session[h].caller, key |-> session[h].key, wf |-> v,
                retry |-> FALSE, order |-> <<"policy_verification", "claim_submission">>,
                attempt |-> 1, loaded |-> NewRow(session[h].payload),
                row |-> NewRow(session[h].payload), log |-> <<>>]]
    BY <1>3 DEF Insert
  <2>2. session'[h].pc = "policy" /\ session'[h].wf = v
    BY <1>t, <2>1 DEF TypeOK
  <2>3. CASE w = v
    BY <2>2, <2>3 DEF Runs, Busy
  <2>4. CASE w # v
    <3>1. workflow'[w] = workflow[w] /\ aborts' = aborts
      BY <1>3, <1>t, <2>1, <2>4 DEF Insert, TypeOK
    <3>2. \A g \in Handlers : Runs(g, w) => session'[g] = session[g]
      BY <1>3, <1>t, <2>1 DEF Insert, TypeOK, Runs, Busy
    <3>. QED  BY <3>1, <3>2, PendingFrame DEF Runs, Busy
  <2>. QED  BY <2>3, <2>4
<1>4. ASSUME NEW h \in Handlers, InsertLost(h) \/ AnswerLost(h)
      PROVE  \E g \in Handlers : Runs(g, w)'
  <2>1. workflow' = workflow /\ aborts' = aborts /\ session[h].pc \in {"insert", "relookup"}
    BY <1>4 DEF InsertLost, AnswerLost, dbVars
  <2>2. \A g \in Handlers : Runs(g, w) => session'[g] = session[g]
    BY <1>4, <1>t, <2>1 DEF InsertLost, AnswerLost, TypeOK, Runs, Busy
  <2>. QED  BY <2>1, <2>2, PendingFrame DEF Runs, Busy
<1>5. ASSUME NEW h \in Handlers, NEW s, session' = [session EXCEPT ![h] = s],
             s.pc \in BusyPcs, s.wf = session[h].wf, UNCHANGED <<workflow, aborts>>
      PROVE  \E g \in Handlers : Runs(g, w)'
  <2>1. \A g \in Handlers : session'[g] = IF g = h THEN s ELSE session[g]
    BY <1>5, <1>t DEF TypeOK
  <2>2. \A g \in Handlers : Runs(g, w) => Runs(g, w)'
    BY <1>5, <2>1 DEF Runs, Busy, BusyPcs
  <2>. QED  BY <1>5, <2>2, PendingFrame
<1>6. ASSUME NEW h \in Handlers, Quiet(h) PROVE \E g \in Handlers : Runs(g, w)'
  BY <1>t, <1>5, <1>6, QuietMoves DEF Moves, SameRun, BusyPcs, dbVars
<1>7. ASSUME NEW h \in Handlers, ClaimStored(h) PROVE \E g \in Handlers : Runs(g, w)'
  <2>1. session[h] \in Executing
    BY <1>7, <1>t, BusyTyped DEF ClaimStored, Busy
  <2> DEFINE s == [session[h] EXCEPT !.pc = "stored"]
  <2>2. s.pc \in BusyPcs /\ s.wf = session[h].wf
    BY <2>1 DEF Executing, BusyPcs
  <2>3. session' = [session EXCEPT ![h] = s] /\ UNCHANGED <<workflow, aborts>>
    BY <1>7 DEF ClaimStored, dbVars
  <2> HIDE DEF s
  <2>. QED  BY <1>5, <2>2, <2>3
<1>8. ASSUME NEW h \in Handlers, ClaimReturned(h) PROVE \E g \in Handlers : Runs(g, w)'
  <2>1. session[h] \in Executing
    BY <1>8, <1>t, BusyTyped DEF ClaimReturned, Busy
  <2>2. PICK u : Continue(h, "commit", u)
    BY <1>8 DEF ClaimReturned
  <2> DEFINE s == [session[h] EXCEPT !.pc = "commit", !.row = u.row, !.log = u.log]
  <2>3. s.pc \in BusyPcs /\ s.wf = session[h].wf
    BY <2>1 DEF Executing, BusyPcs
  <2>4. session' = [session EXCEPT ![h] = s] /\ UNCHANGED <<workflow, aborts>>
    BY <1>8, <2>2 DEF ClaimReturned, Continue, dbVars
  <2> HIDE DEF s
  <2>. QED  BY <1>5, <2>3, <2>4
<1>9. ASSUME NEW h \in Handlers, Commit(h) PROVE \E g \in Handlers : Runs(g, w)'
  <2> DEFINE v == session[h].wf
  <2>1. /\ Merge(workflow[v], session[h].loaded, session[h].row).state \in Outcomes
        /\ v \in Workflows
    BY <1>t, <1>9, CommitRow DEF Commit
  <2>2. workflow'[v].state \in Outcomes
    BY <1>9, <1>t, <2>1 DEF Commit, TypeOK
  <2>3. w # v
    BY <2>2 DEF Outcomes
  <2>4. workflow'[w] = workflow[w] /\ aborts' = aborts
    BY <1>9, <1>t, <2>3 DEF Commit, TypeOK
  <2>5. \A g \in Handlers : Runs(g, w) => session'[g] = session[g]
    BY <1>9, <1>t, <2>3 DEF Commit, TypeOK, Runs
  <2>. QED  BY <2>4, <2>5, PendingFrame DEF Runs, Busy
<1>10. ASSUME NEW m \in stray, StrayStored(m) PROVE \E g \in Handlers : Runs(g, w)'
  BY <1>10, PendingFrame DEF StrayStored, Runs, Busy, dbVars
<1>11. CASE UNCHANGED vars
  BY <1>11, PendingFrame DEF vars, Runs, Busy
<1>. QED  BY <1>1, <1>2, <1>3, <1>4, <1>6, <1>7, <1>8, <1>9, <1>10, <1>11
          DEF Next, Proceed, Quiet

(* README.md:107 promises that no partial failure is silently lost.  Until the first handler
   dies that is so: every pending workflow is being executed, whatever the network did.  What
   the run OrchStuckPending shows takes a crash, and no code takes the row up after it. *)
THEOREM OnlyCrashesStrand == Spec => [](aborts = 0 => PartialFailureIsRecoverable)
<1>1. Init => PendingInv
  BY DEF Init, PendingInv, Absent
<1>2. IInv /\ PendingInv => (aborts = 0 => PartialFailureIsRecoverable)
  <2> SUFFICES ASSUME IInv, PendingInv, aborts = 0, NEW w \in Workflows,
                      workflow[w].state = "PENDING"
               PROVE  \E h \in Handlers : Executes(h, w)
    BY DEF PartialFailureIsRecoverable
  <2>1. PICK h \in Handlers : Busy(h) /\ session[h].wf = w
    BY DEF PendingInv, Runs
  <2>2. session[h] \in Executing
    BY <2>1, BusyTyped DEF IInv
  <2>. QED  BY <2>1, <2>2 DEF Executes, Executing, Starting, Idle
<1>. QED  BY <1>1, <1>2, PendingNext, InductiveInvariant, PTL DEF Spec

-----------------------------------------------------------------------------
(* A failed workflow has created nothing, unless a repeated POST was rejected *)

(* A handler whose POST may have been stored before its last attempt, and what has become of
   a workflow it was sent for. *)
Settles(me) ==
  \/ me.pc = "stored"
  \/ me.pc = "sent" /\ me.attempt > 1
  \/ me.pc = "commit" /\ Finished(me.row)
Posted(w) == (\E c \in claims : c.origin = w) \/ (\E m \in stray : m.workflow = w)
Settled(w) == Finished(workflow[w]) \/ \E h \in Handlers : Runs(h, w) /\ Settles(session[h])
DoubtInv == aborts = 0 => \A w \in Workflows : Posted(w) => Settled(w)

(* The 4xx answers a POST that was sent before (claims_client.py:75-79). *)
LateRejection == \E h \in Handlers : ClaimRejected(h) /\ session[h].attempt > 1

(* A step that ends no run that settles w, or ends it with the row finished. *)
LEMMA SettledFrame ==
  ASSUME IInv, DoubtInv, aborts = 0, [Next]_vars, NEW w \in Workflows, Posted(w),
         \A g \in Handlers : Runs(g, w) /\ Settles(session[g]) =>
           Finished(workflow'[w]) \/ (Runs(g, w)' /\ Settles(session'[g]))
  PROVE  Settled(w)'
<1>1. CASE Finished(workflow[w])
  BY <1>1, StepKeepsFinished DEF Settled
<1>2. CASE ~ Finished(workflow[w])
  BY <1>2 DEF DoubtInv, Settled
<1>. QED  BY <1>1, <1>2

(* A handler that comes to settle its workflow, whatever it posted for it. *)
LEMMA NowSettles ==
  ASSUME IInv, DoubtInv, aborts = 0, [Next]_vars, NEW w \in Workflows, NEW h \in Handlers,
         NEW s, session' = [session EXCEPT ![h] = s],
         s.pc \in BusyPcs, s.wf = session[h].wf, Settles(s),
         Posted(w)' => Posted(w) \/ w = session[h].wf, Posted(w)'
  PROVE  Settled(w)'
<1>1. \A g \in Handlers : session'[g] = IF g = h THEN s ELSE session[g]
  BY DEF IInv, TypeOK
<1>2. CASE w = session[h].wf
  <2>1. Runs(h, w)' /\ Settles(session'[h])
    BY <1>1, <1>2 DEF Runs, Busy, BusyPcs
  <2>. QED  BY <2>1 DEF Settled, Settles
<1>3. CASE w # session[h].wf
  BY <1>1, <1>3, SettledFrame DEF Runs, Busy
<1>. QED  BY <1>2, <1>3

(* To give up for good, or to send the POST once more, settles. *)
LEMMA UnreconciledSettles ==
  ASSUME TypeOK, NEW h \in Handlers, Awaiting(h), Unreconciled(h)
  PROVE  \E s : /\ session' = [session EXCEPT ![h] = s]
                /\ s.pc \in BusyPcs /\ s.wf = session[h].wf /\ Settles(s)
<1> DEFINE me == session[h]
           c  == "ClaimsServiceReconciliationRequired"
           u  == MarkFailure(InMemory(me), me.order, c, TRUE)
           s  == [me EXCEPT !.pc = "commit", !.row = u.row, !.log = u.log]
<1>1. me \in Executing /\ InMemory(me) \in Unit /\ me.order \in StepOrder
  BY BusyTyped, InMemoryTyped DEF Awaiting, Busy
<1>2. u.row.state = "RECONCILIATION_REQUIRED"
  <2>1. c \in Categories
    BY DEF Categories
  <2>. QED  BY <1>1, <2>1, MarkFailureEdits
<1>3. session' = [session EXCEPT ![h] = s]
  BY DEF Unreconciled, Fail, Continue
<1>. HIDE DEF u
<1>4. s.pc = "commit" /\ s.row = u.row /\ s.wf = me.wf
  BY <1>1 DEF Executing
<1>5. Settles(s) /\ s.pc \in BusyPcs
  BY <1>2, <1>4 DEF Settles, Finished, BusyPcs
<1>. QED  BY <1>3, <1>4, <1>5

LEMMA AttemptSettles ==
  ASSUME TypeOK, NEW h \in Handlers, Awaiting(h), AttemptAgain(h)
  PROVE  \E s : /\ session' = [session EXCEPT ![h] = s]
                /\ s.pc \in BusyPcs /\ s.wf = session[h].wf /\ Settles(s)
<1> DEFINE me == session[h]
           s  == [me EXCEPT !.pc = "sent", !.attempt = me.attempt + 1]
<1>1. me \in Executing /\ me.attempt \in 1..MaxAttempts
  BY BusyTyped DEF Awaiting, Busy, Executing
<1>2. CASE me.attempt < MaxAttempts
  <2>1. s.pc = "sent" /\ s.attempt = me.attempt + 1 /\ s.wf = me.wf
    BY <1>1 DEF Executing
  <2>2. s.attempt > 1
    BY <1>1, <2>1, RetryAssumption
  <2>3. session' = [session EXCEPT ![h] = s]
    BY <1>2 DEF AttemptAgain
  <2>. QED  BY <2>1, <2>2, <2>3 DEF Settles, BusyPcs
<1>3. CASE ~ (me.attempt < MaxAttempts)
  BY <1>3, UnreconciledSettles DEF AttemptAgain
<1>. QED  BY <1>2, <1>3

LEMMA DoubtNext ==
  IInv /\ DoubtInv /\ [Next]_vars /\ [~ LateRejection]_vars => DoubtInv'
<1> SUFFICES ASSUME IInv, DoubtInv, [Next]_vars, [~ LateRejection]_vars, aborts' = 0,
                    NEW w \in Workflows, Posted(w)'
             PROVE  Settled(w)'
  BY DEF DoubtInv
<1>t. TypeOK /\ KeysInv /\ RunsInv
  BY DEF IInv
<1>1. ASSUME NEW h \in Handlers, Abort(h) PROVE FALSE
  BY <1>t, <1>1 DEF Abort, TypeOK
<1>0. aborts = 0
  BY <1>1 DEF Next, vars, Receive, Proceed, StartDuplicate, StartNew, RetryRefused, RetryBegin,
              Insert, InsertLost, AnswerLost, PolicyVerified, PolicyFailed, ClaimStored,
              ClaimReturned, ClaimRejected, ClaimUnrecognizable, ClaimServerError, ClaimTimeout,
              StrayStored, Commit
(* Steps of a handler that does not settle anything. *)
<1>2. ASSUME NEW h \in Handlers, ~ (Busy(h) /\ Settles(session[h])),
             \A g \in Handlers \ {h} : session'[g] = session[g], UNCHANGED <<claims, stray>>
      PROVE  Settled(w)'
  <2>1. Posted(w)
    BY <1>2 DEF Posted
  <2>2. \A g \in Handlers : Runs(g, w) /\ Settles(session[g]) =>
          Runs(g, w)' /\ Settles(session'[g])
    BY <1>2 DEF Runs, Busy
  <2>. QED  BY <1>0, <2>1, <2>2, SettledFrame
<1>3. ASSUME NEW h \in Handlers, Receive(h) PROVE Settled(w)'
  <2>1. UNCHANGED <<claims, stray>>
    BY <1>3 DEF Receive, StartDuplicate, StartNew, RetryRefused, RetryBegin
  <2>2. session[h] = Idle /\ \A g \in Handlers \ {h} : session'[g] = session[g]
    BY <1>3, <1>t DEF Receive, StartDuplicate, StartNew, RetryRefused, RetryBegin, TypeOK
  <2>. QED  BY <1>2, <2>1, <2>2 DEF Busy, Idle
<1>4. ASSUME NEW h \in Handlers, Insert(h) \/ InsertLost(h) \/ AnswerLost(h)
      PROVE  Settled(w)'
  <2>1. UNCHANGED <<claims, stray>> /\ session[h].pc \in {"insert", "relookup"}
    BY <1>4 DEF Insert, InsertLost, AnswerLost
  <2>2. \A g \in Handlers \ {h} : session'[g] = session[g]
    BY <1>4, <1>t DEF Insert, InsertLost, AnswerLost, TypeOK
  <2>. QED  BY <1>2, <2>1, <2>2 DEF Busy
<1>5. ASSUME NEW h \in Handlers, PolicyVerified(h) \/ PolicyFailed(h) PROVE Settled(w)'
  <2>1. UNCHANGED <<claims, stray>> /\ session[h].pc = "policy"
    BY <1>5 DEF PolicyVerified, PolicyFailed
  <2>2. \A g \in Handlers \ {h} : session'[g] = session[g]
    BY <1>5, <1>t, QuietMoves DEF Quiet, TypeOK
  <2>. QED  BY <1>2, <2>1, <2>2 DEF Settles
<1>6. ASSUME NEW h \in Handlers, ClaimRejected(h), ~ LateRejection PROVE Settled(w)'
  <2>1. UNCHANGED <<claims, stray>> /\ session[h].pc = "sent" /\ ~ (session[h].attempt > 1)
    BY <1>6 DEF ClaimRejected, LateRejection
  <2>2. \A g \in Handlers \ {h} : session'[g] = session[g]
    BY <1>6, <1>t DEF ClaimRejected, Fail, Continue, TypeOK
  <2>. QED  BY <1>2, <2>1, <2>2 DEF Settles
(* Steps after which their handler settles its workflow. *)
<1>7. ASSUME NEW h \in Handlers, ClaimUnrecognizable(h) \/ ClaimServerError(h) \/ ClaimTimeout(h)
      PROVE  Settled(w)'
  <2>1. Awaiting(h) /\ (Unreconciled(h) \/ AttemptAgain(h)) /\ UNCHANGED claims
    BY <1>7 DEF ClaimUnrecognizable, ClaimServerError, ClaimTimeout
  <2>2. PICK s : /\ session' = [session EXCEPT ![h] = s]
                 /\ s.pc \in BusyPcs /\ s.wf = session[h].wf /\ Settles(s)
    BY <1>t, <2>1, UnreconciledSettles, AttemptSettles
  <2>3. stray' = stray \/ stray' = stray \cup {PostOf(session[h])}
    BY <1>7 DEF ClaimUnrecognizable, ClaimServerError, ClaimTimeout, Abandon
  <2>4. PostOf(session[h]).workflow = session[h].wf
    BY DEF PostOf
  <2>5. Posted(w)' => Posted(w) \/ w = session[h].wf
    BY <2>1, <2>3, <2>4 DEF Posted
  <2>. QED  BY <1>0, <2>2, <2>5, NowSettles
<1>8. ASSUME NEW h \in Handlers, ClaimStored(h) PROVE Settled(w)'
  <2> DEFINE m == PostOf(session[h])
             s == [session[h] EXCEPT !.pc = "stored"]
  <2>1. session[h] \in Executing /\ session' = [session EXCEPT ![h] = s] /\ stray' = stray
    BY <1>8, <1>t, BusyTyped DEF ClaimStored, Busy
  <2>2. s.pc = "stored" /\ s.wf = session[h].wf
    BY <2>1 DEF Executing
  <2>3. m.workflow = session[h].wf
    BY DEF PostOf
  <2>4. Ledger!Create(m.subject, m.key, m.payload, m.workflow) \/ UNCHANGED claims
    BY <1>8 DEF ClaimStored, Ledger!Accept, Ledger!Replay
  <2> HIDE DEF m, s
  <2>5. Posted(w)' => Posted(w) \/ w = session[h].wf
    BY <2>1, <2>3, <2>4 DEF Posted, Ledger!Create
  <2>. QED  BY <1>0, <2>1, <2>2, <2>5, NowSettles DEF Settles, BusyPcs
<1>9. ASSUME NEW h \in Handlers, ClaimReturned(h) PROVE Settled(w)'
  <2> DEFINE me == session[h]
  <2>1. /\ me \in Executing /\ InMemory(me) \in Unit /\ me.order \in StepOrder
        /\ UNCHANGED <<claims, stray>>
    BY <1>9, <1>t, BusyTyped, InMemoryTyped DEF ClaimReturned, Busy
  <2>2. PICK c \in Ledger!Bound(me.caller, me.key) :
          Continue(h, "commit", MarkCompleted(InMemory(me), me.order, c.id))
    BY <1>9 DEF ClaimReturned, PostOf
  <2>3. c.id \in Claims
    BY <1>t, <2>2 DEF TypeOK, Ledger!ClaimRow, Ledger!Bound
  <2> DEFINE u == MarkCompleted(InMemory(me), me.order, c.id)
             s == [me EXCEPT !.pc = "commit", !.row = u.row, !.log = u.log]
  <2>4. u.row.state = "COMPLETED"
    BY <2>1, <2>3, MarkCompletedEdits
  <2>5. session' = [session EXCEPT ![h] = s]
    BY <2>2 DEF Continue
  <2> HIDE DEF u
  <2>6. s.pc = "commit" /\ s.row = u.row /\ s.wf = me.wf
    BY <2>1 DEF Executing
  <2>7. Settles(s) /\ s.pc \in BusyPcs
    BY <2>4, <2>6 DEF Settles, Finished, BusyPcs
  <2>8. Posted(w)' => Posted(w)
    BY <2>1 DEF Posted
  <2> HIDE DEF s
  <2>. QED  BY <1>0, <2>5, <2>6, <2>7, <2>8, NowSettles
(* The commit of a handler that settles finishes the row. *)
<1>10. ASSUME NEW h \in Handlers, Commit(h) PROVE Settled(w)'
  <2> DEFINE me == session[h]
             q  == workflow[me.wf]
             r  == Merge(q, me.loaded, me.row)
  <2>1. UNCHANGED <<claims, stray>> /\ \A g \in Handlers \ {h} : session'[g] = session[g]
    BY <1>10, <1>t DEF Commit, TypeOK
  <2>2. Busy(h) /\ me \in Executing /\ UnitInv(me) /\ me.pc = "commit"
    BY <1>10, <1>t, BusyTyped DEF Commit, Busy, RunsInv
  <2>3. me.wf \in Workflows /\ me.loaded \in Row /\ me.row \in Row /\ q \in Row
    BY <1>t, <2>2 DEF Executing, UnitInv, TypeOK
  <2>4. workflow'[me.wf] = r
    BY <1>10, <1>t, <2>3 DEF Commit, TypeOK
  <2>5. r.state = Written(me.row.state, me.loaded.state, q.state)
    BY <2>3, MergeEdits
  <2> HIDE DEF r
  <2>6. Finished(me.row) => Finished(workflow'[me.wf])
    BY <2>2, <2>4, <2>5 DEF Finished, Written, UnitInv
  <2>7. Posted(w)
    BY <2>1 DEF Posted
  <2>8. \A g \in Handlers : Runs(g, w) /\ Settles(session[g]) =>
          Finished(workflow'[w]) \/ (Runs(g, w)' /\ Settles(session'[g]))
    BY <2>1, <2>2, <2>6 DEF Runs, Busy, Settles
  <2>. QED  BY <1>0, <2>7, <2>8, SettledFrame
<1>11. ASSUME NEW m \in stray, StrayStored(m) PROVE Settled(w)'
  <2>1. session' = session /\ Posted(w)
    BY <1>11 DEF StrayStored, Posted, Ledger!Create
  <2>. QED  BY <1>0, <2>1, SettledFrame DEF Runs, Busy
<1>12. CASE UNCHANGED vars
  <2>1. session' = session /\ Posted(w)
    BY <1>12 DEF vars, Posted
  <2>. QED  BY <1>0, <2>1, SettledFrame DEF Runs, Busy
<1>13. CASE Next /\ ~ LateRejection
  BY <1>13, <1>1, <1>3, <1>4, <1>5, <1>6, <1>7, <1>8, <1>9, <1>10, <1>11 DEF Next, Proceed
<1>. QED  BY <1>12, <1>13

(* Spec 003:78-83 wants a claim that was created although its answer was lost to be
   reconciled.  Where no handler dies and no POST is rejected that was sent before, that is so:
   through timeouts, 5xx answers, overlapping retries and POSTs that are served late, a failed
   workflow nobody works on has no claim and never gets one.  The run OrchFailedWithClaim needs
   the rejection of a repeated POST. *)
THEOREM OnlyLateRejectionsHideClaims ==
  Spec /\ [][~ LateRejection]_vars => [](aborts = 0 => FailedHasCreatedNothing)
<1>1. Init => DoubtInv
  BY DEF Init, DoubtInv, Posted, Ledger!Init
<1>2. IInv /\ DoubtInv => (aborts = 0 => FailedHasCreatedNothing)
  <2> SUFFICES ASSUME IInv, DoubtInv, aborts = 0, NEW w \in Workflows,
                      workflow[w].state = "FAILED", ~ (\E h \in Handlers : Executes(h, w)),
                      NEW c \in claims, c.origin = w
               PROVE  FALSE
    BY DEF FailedHasCreatedNothing
  <2>1. ~ Finished(workflow[w])
    BY DEF Finished
  <2>2. PICK h \in Handlers : Runs(h, w)
    BY <2>1 DEF DoubtInv, Posted, Settled
  <2>3. session[h] \in Executing
    BY <2>2, BusyTyped DEF IInv, Runs
  <2>4. Executes(h, w)
    BY <2>2, <2>3 DEF Executes, Executing, Starting, Idle, Runs
  <2>. QED  BY <2>4
<1>. QED  BY <1>1, <1>2, DoubtNext, InductiveInvariant, PTL DEF Spec
=============================================================================
