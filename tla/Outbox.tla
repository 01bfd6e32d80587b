------------------------------- MODULE Outbox -------------------------------
(***************************************************************************)
(* The outbox of services/eventing: producers append events, and several   *)
(* workers claim them under a lease, hand them to a publisher and mark the *)
(* outcome, each of the three in a transaction of its own.                 *)
(*                                                                         *)
(* Time is what it does to a row: a lease expires, a back-off ends.  An    *)
(* event stands for its scope (producer, idempotency_key), which names one *)
(* event_id and one row.                                                   *)
(***************************************************************************)
EXTENDS Naturals, FiniteSets

CONSTANTS
  Events, Workers,
  Limit,         \* events claimed at once
  MaxTroubles,   \* bound: publications that raise, and leases that expire too early, per event
  MaxDeaths      \* bound: workers that end

ASSUME LimitAssumption == Limit \in Nat \ {0}
ASSUME TroubleAssumption == MaxTroubles \in Nat /\ MaxDeaths \in Nat

VARIABLES
  rows,         \* table event_outbox
  session,      \* per worker: the batch it works on
  deliveries,   \* history: how often the publisher delivered an event
  trouble,      \* history, per event: publications raised, leases outlived, workers lost
  deaths        \* counter of the bound

vars == <<rows, session, deliveries, trouble, deaths>>

-----------------------------------------------------------------------------
Absent == [status |-> "absent"]   \* no such row

(* locked_until is NULL, in the future or past; due is available_at <= now. *)
Row == [status: {"pending", "published"}, attempts: Nat, due: BOOLEAN,
        lease: {"none", "held", "expired"}]

Idle == [pc |-> "idle"]
Dead == [pc |-> "dead"]
Delivering == [pc: {"publish", "delivered", "raised"}, event: Events, rest: SUBSET Events]
Marking == [pc: {"published", "retry"}, event: Events, rest: SUBSET Events, loaded: Row]

Trouble == [raised: Nat, late: Nat, lost: Nat]

TypeOK ==
  /\ rows \in [Events -> Row \cup {Absent}]
  /\ session \in [Workers -> {Idle, Dead} \cup Delivering \cup Marking]
  /\ deliveries \in [Events -> Nat]
  /\ trouble \in [Events -> Trouble]
  /\ deaths \in 0..MaxDeaths

Init ==
  /\ rows = [e \in Events |-> Absent]
  /\ session = [w \in Workers |-> Idle]
  /\ deliveries = [e \in Events |-> 0]
  /\ trouble = [e \in Events |-> [raised |-> 0, late |-> 0, lost |-> 0]]
  /\ deaths = 0

-----------------------------------------------------------------------------
(* append: the row of its VALUES, or ON CONFLICT DO NOTHING and the row that is there. *)
Append(e) ==
  /\ rows[e] = Absent
  /\ rows' = [rows EXCEPT ![e] = [status |-> "pending", attempts |-> 0, due |-> TRUE,
                                  lease |-> "none"]]
  /\ UNCHANGED <<session, deliveries, trouble, deaths>>

-----------------------------------------------------------------------------
(* claim: SELECT ... FOR UPDATE SKIP LOCKED, the lease and the attempt, COMMIT *)

AnyPending(r) == r.status = "pending" /\ r.due   \* mutant: locked_until is not looked at
NeverLocked(r) == r.status = "pending" /\ r.due /\ r.lease = "none"   \* mutant: no expiry

Claimable(r) == r.status = "pending" /\ r.due /\ r.lease # "held"

Processing(r) ==   \* mutant: a status of its own
  [r EXCEPT !.status = "processing", !.lease = "held", !.attempts = r.attempts + 1]
Claimed(r) == [r EXCEPT !.lease = "held", !.attempts = r.attempts + 1]

(* The rows another claim has locked are skipped, so a batch may be any of the rows. *)
Claim(w) ==
  /\ session[w] = Idle
  /\ \E batch \in SUBSET {e \in Events : Claimable(rows[e])} :
       /\ Cardinality(batch) <= Limit
       /\ rows' = [e \in Events |-> IF e \in batch THEN Claimed(rows[e]) ELSE rows[e]]
       /\ \E e \in batch :
            session' = [session EXCEPT ![w] = [pc |-> "publish", event |-> e, rest |-> batch \ {e}]]
  /\ UNCHANGED <<deliveries, trouble, deaths>>

-----------------------------------------------------------------------------
(* run_once, event by event *)

Goes(w, pc) ==
  session' = [session EXCEPT ![w] =
    [pc |-> pc, event |-> session[w].event, rest |-> session[w].rest]]

Publish(w) ==
  /\ session[w].pc = "publish"
  /\ deliveries' = [deliveries EXCEPT ![session[w].event] = @ + 1]
  /\ Goes(w, "delivered")
  /\ UNCHANGED <<rows, trouble, deaths>>

AfterAll == "delivered"   \* mutant: mark_published in a finally instead of an else
AfterRaise == "raised"

(* The publisher raises, having delivered the event or not. *)
PublishRaises(w) ==
  LET e == session[w].event IN
  /\ session[w].pc = "publish"
  /\ trouble[e].raised < MaxTroubles
  /\ trouble' = [trouble EXCEPT ![e].raised = @ + 1]
  /\ \E n \in {0, 1} : deliveries' = [deliveries EXCEPT ![e] = @ + n]
  /\ Goes(w, AfterRaise)
  /\ UNCHANGED <<rows, deaths>>

(* mark_published and mark_retry: the row is loaded ... *)
Load(w) ==
  LET me == session[w] IN
  /\ me.pc \in {"delivered", "raised"}
  /\ session' = [session EXCEPT ![w] =
       [pc |-> IF me.pc = "delivered" THEN "published" ELSE "retry", event |-> me.event,
        rest |-> me.rest, loaded |-> rows[me.event]]]
  /\ UNCHANGED <<rows, deliveries, trouble, deaths>>

(* ... changed in memory, and the columns that differ from the loaded ones are written. *)
Write(current, loaded, new) == IF loaded = new THEN current ELSE new

Marked(r, me) ==
  [r EXCEPT !.status = Write(r.status, me.loaded.status,
                             IF me.pc = "published" THEN "published" ELSE "pending"),
            !.lease = Write(r.lease, me.loaded.lease, "none"),
            !.due = IF me.pc = "retry" THEN FALSE ELSE r.due]

Save(w) ==
  LET me == session[w] IN
  /\ me.pc \in {"published", "retry"}
  /\ rows' = [rows EXCEPT ![me.event] = Marked(rows[me.event], me)]
  /\ \/ /\ me.rest = {}
        /\ session' = [session EXCEPT ![w] = Idle]
     \/ \E e \in me.rest :
          session' = [session EXCEPT ![w] = [pc |-> "publish", event |-> e, rest |-> me.rest \ {e}]]
  /\ UNCHANGED <<deliveries, trouble, deaths>>

(* A database error (run_forever catches nothing), a stop, the end of the process: the
   leases stay where they are. *)
Batch(w) == IF session[w] \in {Idle, Dead} THEN {} ELSE {session[w].event} \cup session[w].rest

Die(w) ==
  /\ session[w] # Dead
  /\ deaths < MaxDeaths
  /\ deaths' = deaths + 1
  /\ trouble' = [e \in Events |-> IF e \in Batch(w) THEN [trouble[e] EXCEPT !.lost = @ + 1]
                                  ELSE trouble[e]]
  /\ session' = [session EXCEPT ![w] = Dead]
  /\ UNCHANGED <<rows, deliveries>>

-----------------------------------------------------------------------------
(* Time passes. *)

(* lock_seconds after the claim, whether its worker is done with the batch or not *)
Expire(e) ==
  /\ rows[e] # Absent /\ rows[e].lease = "held"
  /\ rows' = [rows EXCEPT ![e].lease = "expired"]
  /\ IF \E w \in Workers : e \in Batch(w)
     THEN /\ trouble[e].late < MaxTroubles
          /\ trouble' = [trouble EXCEPT ![e].late = @ + 1]
     ELSE UNCHANGED trouble
  /\ UNCHANGED <<session, deliveries, deaths>>

(* delay_seconds after the failure *)
BackOffEnds(e) ==
  /\ rows[e] # Absent /\ ~ rows[e].due
  /\ rows' = [rows EXCEPT ![e].due = TRUE]
  /\ UNCHANGED <<session, deliveries, trouble, deaths>>

-----------------------------------------------------------------------------
Proceed(w) == Publish(w) \/ PublishRaises(w) \/ Load(w) \/ Save(w)

Next ==
  \/ \E e \in Events : Append(e) \/ Expire(e) \/ BackOffEnds(e)
  \/ \E w \in Workers : Claim(w) \/ Proceed(w) \/ Die(w)

Spec == Init /\ [][Next]_vars

(* run_forever polls; publisher and database return; time passes. *)
FairSpec ==
  /\ Spec
  /\ \A w \in Workers : WF_vars(Claim(w)) /\ WF_vars(Proceed(w))
  /\ \A e \in Events : WF_vars(Expire(e)) /\ WF_vars(BackOffEnds(e))

-----------------------------------------------------------------------------
(* Only what the publisher has delivered is ever marked published, whichever worker's
   columns win (worker.py:29-38, db.py:91-101). *)
PublishedIsDelivered ==
  \A e \in Events : rows[e].status = "published" => deliveries[e] > 0

(* While no worker outlives its lease, each publication that raised and each worker lost
   accounts for one duplicate at most (worker.py:22-41).  With leases outlived it does not:
   a late mark may clear the lease of a third worker (db.py:94, 101). *)
DuplicatesExplained ==
  \A e \in Events :
    trouble[e].late = 0 => deliveries[e] <= 1 + trouble[e].raised + trouble[e].lost

(* A published event falls back to pending only if a worker outlived its lease before:
   mark_retry does not look at the status (db.py:96-101). *)
PublishedStays ==
  [][\A e \in Events :
       rows[e].status = "published" /\ rows'[e].status # "published" => trouble[e].late > 0]_rows

(* Every appended event is published in the end, whichever worker dies with its lease, as
   long as one is left and the publisher stops raising (worker.py:43-49). *)
EventsArePublished ==
  \A e \in Events :
    rows[e].status = "pending"
      ~> rows[e].status = "published" \/ \A w \in Workers : session[w] = Dead
=============================================================================
