----------------------------- MODULE Lifecycles -----------------------------
(***************************************************************************)
(* The status of policies and claims: POST /policies and PATCH             *)
(* /policies/{id}/status of services/policy, PATCH /claims/{id}/status of  *)
(* services/claims, and the creation of a claim where it depends on the    *)
(* status of its policy.                                                   *)
(*                                                                         *)
(* To change a status both services read the row, check the transition and *)
(* commit the new status together with an audit record, in one transaction *)
(* that locks nothing; only their transition tables differ.  To create a   *)
(* claim the Claims Service asks the Policy Service for the policy and     *)
(* commits later, whatever became of the policy.                           *)
(***************************************************************************)
EXTENDS Naturals

CONSTANTS
  Policies, Claims,
  Handlers,      \* concurrent request handlers of both services
  MaxRequests,   \* bound: requests that read a row
  MaxAborts      \* bound: handlers that die or whose commit fails

ASSUME ItemsAssumption == Policies \cap Claims = {}
ASSUME BoundsAssumption == MaxRequests \in Nat /\ MaxAborts \in Nat

Items == Policies \cup Claims

VARIABLES
  status,    \* column status of tables policy and claim
  cover,     \* column policy_id of table claim
  trail,     \* the two tables audit_record, per item a set of rows: they have no order
  session,   \* per handler: what it is about to commit
  requests,  \* transactions begun so far: a bound, and the clock of created_at
  aborts     \* counter of the other bound

lifecyclesVars == <<status, cover, trail, session, requests, aborts>>

-----------------------------------------------------------------------------
ClaimTransitions ==
  [submitted    |-> {"under_review"},
   under_review |-> {"approved", "denied", "closed"},
   approved     |-> {"paid"},
   denied       |-> {},
   paid         |-> {},
   closed       |-> {}]

PolicyTransitions ==
  [draft                |-> {"pending_underwriting"},
   pending_underwriting |-> {"active"},
   active               |-> {"cancelled", "expired", "renewed"},
   cancelled            |-> {},
   expired              |-> {"renewed"},
   renewed              |-> {"pending_underwriting"}]

Statuses == DOMAIN ClaimTransitions \cup DOMAIN PolicyTransitions
Transitions(i) == IF i \in Claims THEN ClaimTransitions ELSE PolicyTransitions
StatusesOf(i) == DOMAIN Transitions(i)
Initial(i) == IF i \in Claims THEN "submitted" ELSE "draft"
Missing == "missing"   \* no such row

Unchecked(i, current, target) == target # current   \* mutant: only a change is demanded
IsValidStatusTransition(i, current, target) == target \in Transitions(i)[current]

-----------------------------------------------------------------------------
Idle == [pc |-> "idle"]
Filing == [pc: {"file"}, policy: Policies]
Saving == [pc: {"save"}, item: Items, old: Statuses, new: Statuses, created: Nat]

(* created_at is now(), the time the transaction began; begun is history: the transactions
   that had begun when this one was committed. *)
Record == [old: Statuses, new: Statuses, created: Nat, begun: Nat]

LifecyclesTypeOK ==
  /\ status \in [Items -> Statuses \cup {Missing}]
  /\ \A i \in Items : status[i] \in StatusesOf(i) \cup {Missing}
  /\ cover \in [Claims -> Policies \cup {Missing}]
  /\ trail \in [Items -> SUBSET Record]
  /\ session \in [Handlers -> {Idle} \cup Filing \cup Saving]
  /\ requests \in 0..MaxRequests
  /\ aborts \in 0..MaxAborts

LifecyclesInit ==
  /\ status = [i \in Items |-> Missing]
  /\ cover = [c \in Claims |-> Missing]
  /\ trail = [i \in Items |-> {}]
  /\ session = [h \in Handlers |-> Idle]
  /\ requests = 0
  /\ aborts = 0

(* create_policy, in one transaction *)
CreatePolicy(p) ==
  /\ status[p] = Missing
  /\ status' = [status EXCEPT ![p] = "draft"]
  /\ UNCHANGED <<cover, trail, session, requests, aborts>>

Request == requests < MaxRequests /\ requests' = requests + 1

-----------------------------------------------------------------------------
(* create_claim: the policy has been read and is active ... *)
AnyPolicy(p) == status[p] # Missing   \* mutant: the status is not looked at
PolicyActive(p) == status[p] = "active"

CheckPolicy(h, p) ==
  /\ session[h] = Idle
  /\ Request
  /\ PolicyActive(p)
  /\ session' = [session EXCEPT ![h] = [pc |-> "file", policy |-> p]]
  /\ UNCHANGED <<status, cover, trail, aborts>>

(* ... or it is not: 400. *)
RefuseClaim(h, p) ==
  /\ session[h] = Idle
  /\ Request
  /\ ~ PolicyActive(p)
  /\ UNCHANGED <<status, cover, trail, session, aborts>>

(* The claim is committed. *)
FileClaim(h) ==
  /\ session[h].pc = "file"
  /\ \E c \in Claims :
       /\ status[c] = Missing
       /\ status' = [status EXCEPT ![c] = "submitted"]
       /\ cover' = [cover EXCEPT ![c] = session[h].policy]
  /\ session' = [session EXCEPT ![h] = Idle]
  /\ UNCHANGED <<trail, requests, aborts>>

-----------------------------------------------------------------------------
(* update_claim_status and update_policy_status: the transaction begins with the read of
   the row, and the transition is valid for the status it has now. *)
Read(h, i, target) ==
  /\ session[h] = Idle
  /\ Request
  /\ status[i] # Missing
  /\ IsValidStatusTransition(i, status[i], target)
  /\ session' = [session EXCEPT ![h] =
                   [pc |-> "save", item |-> i, old |-> status[i], new |-> target,
                    created |-> requests']]
  /\ UNCHANGED <<status, cover, trail, aborts>>

(* 404 or 400 *)
Refuse(h, i, target) ==
  /\ session[h] = Idle
  /\ Request
  /\ status[i] # Missing => ~ IsValidStatusTransition(i, status[i], target)
  /\ UNCHANGED <<status, cover, trail, session, aborts>>

RecordCurrent(me) ==   \* mutant: old_status is what the row holds at the commit
  [old |-> status[me.item], new |-> me.new, created |-> me.created, begun |-> requests]
RecordOf(me) == [old |-> me.old, new |-> me.new, created |-> me.created, begun |-> requests]

(* UPDATE ... WHERE id = ..., INSERT INTO audit_record, COMMIT *)
Save(h) ==
  LET me == session[h] IN
  /\ me.pc = "save"
  /\ status' = [status EXCEPT ![me.item] = me.new]
  /\ trail' = [trail EXCEPT ![me.item] = @ \cup {RecordOf(me)}]
  /\ session' = [session EXCEPT ![h] = Idle]
  /\ UNCHANGED <<cover, requests, aborts>>

AbortRecorded(h) ==   \* mutant: the audit record is committed in a transaction of its own
  /\ session[h] # Idle
  /\ aborts < MaxAborts
  /\ aborts' = aborts + 1
  /\ session' = [session EXCEPT ![h] = Idle]
  /\ trail' = IF session[h].pc = "file" THEN trail
              ELSE [trail EXCEPT ![session[h].item] = @ \cup {RecordOf(session[h])}]
  /\ UNCHANGED <<status, cover, requests>>

(* The commit fails, or the process dies: everything is rolled back. *)
Abort(h) ==
  /\ session[h] # Idle
  /\ aborts < MaxAborts
  /\ aborts' = aborts + 1
  /\ session' = [session EXCEPT ![h] = Idle]
  /\ UNCHANGED <<status, cover, trail, requests>>

LifecyclesNext ==
  \/ \E p \in Policies : CreatePolicy(p)
  \/ \E h \in Handlers, p \in Policies : CheckPolicy(h, p) \/ RefuseClaim(h, p)
  \/ \E h \in Handlers, i \in Items : \E target \in StatusesOf(i) :
       Read(h, i, target) \/ Refuse(h, i, target)
  \/ \E h \in Handlers : FileClaim(h) \/ Save(h) \/ Abort(h)

LifecyclesSpec == LifecyclesInit /\ [][LifecyclesNext]_lifecyclesVars

-----------------------------------------------------------------------------
(* Safety under concurrent requests *)

(* An auditor who sorts the records by created_at and finds one whose update overlapped no
   earlier one of the row may rely on it: it tells the status, whatever was rolled back in
   between (claim_service.py:140-153, policy_service.py:66-79).  Where updates overlapped,
   the latest record may be another one than the last committed. *)
LatestTellsStatus ==
  \A i \in Items :
    /\ trail[i] = {} => status[i] \in {Missing, Initial(i)}
    /\ \A r \in trail[i] : (\A q \in trail[i] \ {r} : q.begun < r.created) => status[i] = r.new

(* The statuses one can come to from the initial one by following records. *)
Closed(i) ==
  {S \in SUBSET StatusesOf(i) :
     Initial(i) \in S /\ \A r \in trail[i] : r.old \in S => r.new \in S}
Witnessed(i, s) == \A S \in Closed(i) : s \in S

(* Even where two adjusters overwrote each other, every record is a legal transition, and
   following the records leads from the initial status to the start of each of them and to
   the status of the row (claim_service.py:136-148; spec 001:111-116). *)
TrailIsRooted ==
  \A i \in Items :
    /\ \A r \in trail[i] : r.new \in Transitions(i)[r.old] /\ Witnessed(i, r.old)
    /\ status[i] # Missing => Witnessed(i, status[i])

(* A claim is filed against a policy that has been active before, and the policy's audit
   trail proves it, although the policy may be cancelled while the claim is on its way
   (claim_service.py:89-105, spec 002:73). *)
WasActive(p) == \E r \in trail[p] : r.new = "active"
CoverWasActive ==
  \A c \in Claims : status[c] # Missing => cover[c] \in Policies /\ WasActive(cover[c])

-----------------------------------------------------------------------------
(* What the documents say and the code does not do: refuted by a run *)

(* Spec 002:118 "Valid transitions are strictly", spec 001:106: the status only moves along
   the lifecycle. *)
LegalSteps ==
  [][\A i \in Items : status[i] # Missing /\ status'[i] # status[i] =>
       status'[i] \in Transitions(i)[status[i]]]_status
=============================================================================
