---------------------------- MODULE OutboxProofs ----------------------------
(***************************************************************************)
(* Proofs about the outbox, for every number of events, workers and        *)
(* troubles.                                                               *)
(***************************************************************************)
EXTENDS Outbox, TLAPS

-----------------------------------------------------------------------------
(* The inductive invariant *)

(* What a worker has in its batch is a row of the table, and in the batch once. *)
BatchInv ==
  \A w \in Workers :
    /\ \A e \in Batch(w) : rows[e] # Absent
    /\ Batch(w) # {} => session[w].event \notin session[w].rest

(* Who is about to mark an event published has delivered it, and so has whoever marked it. *)
HasDelivered(w, e) == session[w].pc \in {"delivered", "published"} /\ session[w].event = e

DeliveryInv ==
  \A e \in Events :
    rows[e].status = "published" \/ (\E w \in Workers : HasDelivered(w, e)) => deliveries[e] > 0

(* As long as no lease of an event was outlived, one worker has it, under a lease, and
   what that worker has loaded is what the row still says. *)
Leased(w, e) ==
  /\ rows[e].status = "pending" /\ rows[e].lease = "held"
  /\ session[w].pc \in {"published", "retry"} /\ session[w].event = e =>
       session[w].loaded.status = "pending"

LeaseInv ==
  \A e \in Events : trouble[e].late = 0 =>
    \A w \in Workers : e \in Batch(w) =>
      /\ Leased(w, e)
      /\ \A v \in Workers : e \in Batch(v) => v = w

(* One delivery is the one that counts, the others are accounted for. *)
Counts(e) ==
  rows[e].status = "published" \/ \E w \in Workers : HasDelivered(w, e)

CountInv ==
  \A e \in Events : trouble[e].late = 0 =>
    deliveries[e] <= trouble[e].raised + trouble[e].lost + (IF Counts(e) THEN 1 ELSE 0)

IInv == TypeOK /\ BatchInv /\ DeliveryInv /\ LeaseInv /\ CountInv

-----------------------------------------------------------------------------
(* Facts about sessions *)

LEMMA SessionKinds ==
  ASSUME TypeOK, NEW w \in Workers
  PROVE  /\ session[w].pc \in {"publish", "delivered", "raised"} => session[w] \in Delivering
         /\ session[w].pc \in {"published", "retry"} => session[w] \in Marking
         /\ session[w] \in Delivering \cup Marking \/ session[w] = Idle \/ session[w] = Dead
BY DEF TypeOK, Idle, Dead, Delivering, Marking

LEMMA BatchOf ==
  ASSUME TypeOK, NEW w \in Workers
  PROVE  /\ session[w] \in Delivering \cup Marking => Batch(w) = {session[w].event} \cup session[w].rest
         /\ session[w] = Idle \/ session[w] = Dead => Batch(w) = {}
         /\ Batch(w) \subseteq Events
<1>1. session[w] \in Delivering \cup Marking => session[w] # Idle /\ session[w] # Dead
  BY DEF Delivering, Marking, Idle, Dead
<1>2. CASE session[w] \in Delivering \cup Marking
  BY <1>1, <1>2 DEF Batch, Delivering, Marking
<1>3. CASE session[w] = Idle \/ session[w] = Dead
  BY <1>1, <1>3 DEF Batch
<1>. QED  BY <1>2, <1>3, SessionKinds

LEMMA RowKinds ==
  ASSUME TypeOK, NEW e \in Events
  PROVE  /\ rows[e] # Absent => rows[e] \in Row
         /\ rows[e].status \in {"pending", "published"} => rows[e] \in Row
BY DEF TypeOK, Absent, Row

-----------------------------------------------------------------------------
(* Initially *)

LEMMA InitInv == Init => IInv
<1> SUFFICES ASSUME Init PROVE IInv
  OBVIOUS
<1>1. TypeOK
  BY TroubleAssumption DEF Init, TypeOK, Trouble
<1>2. \A w \in Workers : Batch(w) = {} /\ session[w].pc = "idle"
  BY DEF Init, Batch, Idle
<1>3. \A e \in Events : rows[e].status = "absent" /\ deliveries[e] = 0
  BY DEF Init, Absent
<1>4. BatchInv /\ LeaseInv
  BY <1>2 DEF BatchInv, LeaseInv
<1>5. DeliveryInv
  BY <1>2, <1>3 DEF DeliveryInv, HasDelivered
<1>6. CountInv
  BY <1>3 DEF CountInv, Init
<1>. QED  BY <1>1, <1>4, <1>5, <1>6 DEF IInv

-----------------------------------------------------------------------------
(* What a change of one session leaves alone *)

LEMMA OthersStay ==
  ASSUME TypeOK, NEW w \in Workers, NEW x, session' = [session EXCEPT ![w] = x],
         NEW v \in Workers, v # w
  PROVE  /\ session'[v] = session[v]
         /\ Batch(v)' = Batch(v)
         /\ \A e \in Events : HasDelivered(v, e)' <=> HasDelivered(v, e)
BY DEF TypeOK, Batch, HasDelivered

LEMMA OwnChange ==
  ASSUME TypeOK, NEW w \in Workers, NEW x, session' = [session EXCEPT ![w] = x]
  PROVE  session'[w] = x
BY DEF TypeOK

(* A worker that has delivered an event still has it in its batch. *)
LEMMA DeliveredInBatch ==
  ASSUME TypeOK, NEW w \in Workers, NEW e \in Events, HasDelivered(w, e)
  PROVE  e \in Batch(w)
BY SessionKinds, BatchOf DEF HasDelivered

-----------------------------------------------------------------------------
(* Actions of producers and of time *)

LEMMA AppendInv == ASSUME IInv, NEW e \in Events, Append(e) PROVE IInv'
<1>. USE DEF IInv
<1>1. rows'[e] = [status |-> "pending", attempts |-> 0, due |-> TRUE, lease |-> "none"]
      /\ \A d \in Events \ {e} : rows'[d] = rows[d]
  BY DEF Append, TypeOK
<1>2. UNCHANGED <<session, deliveries, trouble, deaths>> /\ rows[e] = Absent
  BY DEF Append
<1>3. TypeOK'
  BY DEF Append, TypeOK, Row
<1>4. \A w \in Workers : e \notin Batch(w) /\ Batch(w)' = Batch(w)
  BY <1>2 DEF BatchInv, Batch
<1>5. BatchInv'
  BY <1>1, <1>2, <1>4, BatchOf DEF BatchInv
<1>6. \A w \in Workers, d \in Events : HasDelivered(w, d)' <=> HasDelivered(w, d)
  BY <1>2 DEF HasDelivered
<1>7. DeliveryInv'
  BY <1>1, <1>2, <1>6 DEF DeliveryInv
<1>8. LeaseInv'
  BY <1>1, <1>2, <1>4 DEF LeaseInv, Leased
<1>9. CountInv'
  <2>1. \A d \in Events : Counts(d)' <=> Counts(d)
    BY <1>1, <1>2, <1>6 DEF Counts, Absent
  <2>. QED  BY <1>2, <2>1 DEF CountInv
<1>. QED  BY <1>3, <1>5, <1>7, <1>8, <1>9

LEMMA ExpireInv == ASSUME IInv, NEW e \in Events, Expire(e) PROVE IInv'
<1>. USE DEF IInv
<1>1. rows[e] \in Row /\ rows'[e] = [rows[e] EXCEPT !.lease = "expired"]
      /\ \A d \in Events \ {e} : rows'[d] = rows[d]
  BY RowKinds DEF Expire, TypeOK
<1>2. rows'[e].status = rows[e].status /\ rows'[e] # Absent
  BY <1>1 DEF Row, Absent
<1>3. UNCHANGED <<session, deliveries, deaths>>
  BY DEF Expire
<1>4. \A w \in Workers : Batch(w)' = Batch(w)
  BY <1>3 DEF Batch
<1>5. /\ \A d \in Events : trouble'[d].raised = trouble[d].raised /\ trouble'[d].lost = trouble[d].lost
      /\ \A d \in Events : trouble'[d].late = 0 => trouble[d].late = 0
      /\ trouble'[e].late = 0 => \A w \in Workers : e \notin Batch(w)
      /\ trouble' \in [Events -> Trouble]
  <2>1. CASE \E w \in Workers : e \in Batch(w)
    BY <2>1 DEF Expire, TypeOK, Trouble
  <2>2. CASE ~ \E w \in Workers : e \in Batch(w)
    BY <2>2 DEF Expire, TypeOK
  <2>. QED  BY <2>1, <2>2
<1>6. TypeOK'
  <2>1. rows' \in [Events -> Row \cup {Absent}]
    BY <1>1 DEF Expire, TypeOK, Row
  <2>. QED  BY <1>3, <1>5, <2>1 DEF TypeOK
<1>7. BatchInv'
  BY <1>1, <1>2, <1>3, <1>4, BatchOf DEF BatchInv
<1>8. \A w \in Workers, d \in Events : HasDelivered(w, d)' <=> HasDelivered(w, d)
  BY <1>3 DEF HasDelivered
<1>9. DeliveryInv'
  BY <1>1, <1>2, <1>3, <1>8 DEF DeliveryInv
<1>10. LeaseInv'
  BY <1>1, <1>3, <1>4, <1>5 DEF LeaseInv, Leased
<1>11. CountInv'
  <2>1. \A d \in Events : Counts(d)' <=> Counts(d)
    BY <1>1, <1>2, <1>8 DEF Counts
  <2>. QED  BY <1>3, <1>5, <2>1 DEF CountInv
<1>. QED  BY <1>6, <1>7, <1>9, <1>10, <1>11

LEMMA BackOffInv == ASSUME IInv, NEW e \in Events, BackOffEnds(e) PROVE IInv'
<1>. USE DEF IInv
<1>1. rows[e] \in Row /\ rows'[e] = [rows[e] EXCEPT !.due = TRUE]
      /\ \A d \in Events \ {e} : rows'[d] = rows[d]
  BY RowKinds DEF BackOffEnds, TypeOK
<1>2. rows'[e].status = rows[e].status /\ rows'[e].lease = rows[e].lease /\ rows'[e] # Absent
  BY <1>1 DEF Row, Absent
<1>3. UNCHANGED <<session, deliveries, trouble, deaths>>
  BY DEF BackOffEnds
<1>4. \A w \in Workers : Batch(w)' = Batch(w)
  BY <1>3 DEF Batch
<1>5. TypeOK'
  BY <1>1, <1>3 DEF BackOffEnds, TypeOK, Row
<1>6. BatchInv'
  BY <1>1, <1>2, <1>3, <1>4, BatchOf DEF BatchInv
<1>7. \A w \in Workers, d \in Events : HasDelivered(w, d)' <=> HasDelivered(w, d)
  BY <1>3 DEF HasDelivered
<1>8. DeliveryInv'
  BY <1>1, <1>2, <1>3, <1>7 DEF DeliveryInv
<1>9. LeaseInv'
  <2>1. \A d \in Events : rows'[d].status = rows[d].status /\ rows'[d].lease = rows[d].lease
    BY <1>1, <1>2
  <2>2. \A w \in Workers, d \in Events : Leased(w, d) => Leased(w, d)'
    BY <1>3, <2>1 DEF Leased
  <2>. QED  BY <1>3, <1>4, <2>2 DEF LeaseInv
<1>10. CountInv'
  <2>1. \A d \in Events : Counts(d)' <=> Counts(d)
    BY <1>1, <1>2, <1>7 DEF Counts
  <2>. QED  BY <1>3, <2>1 DEF CountInv
<1>. QED  BY <1>5, <1>6, <1>8, <1>9, <1>10

-----------------------------------------------------------------------------
(* Actions of workers *)

LEMMA ClaimInv == ASSUME IInv, NEW w \in Workers, Claim(w) PROVE IInv'
<1>. USE DEF IInv
<1>1. PICK batch \in SUBSET {e \in Events : Claimable(rows[e])} :
        /\ rows' = [e \in Events |-> IF e \in batch THEN Claimed(rows[e]) ELSE rows[e]]
        /\ \E e \in batch :
             session' = [session EXCEPT ![w] = [pc |-> "publish", event |-> e, rest |-> batch \ {e}]]
  BY DEF Claim
<1>2. PICK e \in batch :
        session' = [session EXCEPT ![w] = [pc |-> "publish", event |-> e, rest |-> batch \ {e}]]
  BY <1>1
<1>3. session[w] = Idle /\ UNCHANGED <<deliveries, trouble, deaths>>
  BY DEF Claim
<1>4. session'[w] = [pc |-> "publish", event |-> e, rest |-> batch \ {e}] /\ session'[w] \in Delivering
  <2>1. session'[w] = [pc |-> "publish", event |-> e, rest |-> batch \ {e}]
    BY <1>2, OwnChange
  <2>2. e \in Events /\ batch \ {e} \in SUBSET Events
    OBVIOUS
  <2>. QED  BY <2>1, <2>2 DEF Delivering
<1>5. Batch(w)' = batch
  BY <1>2, <1>4 DEF Batch, Idle, Dead
<1>6. \A v \in Workers \ {w} : session'[v] = session[v] /\ Batch(v)' = Batch(v)
  BY <1>2, OthersStay
<1>7. \A d \in batch : /\ rows[d] \in Row /\ rows[d].status = "pending" /\ rows[d].lease # "held"
                       /\ rows'[d] \in Row /\ rows'[d].status = "pending" /\ rows'[d].lease = "held"
  <2> SUFFICES ASSUME NEW d \in batch
               PROVE  /\ rows[d] \in Row /\ rows[d].status = "pending" /\ rows[d].lease # "held"
                      /\ rows'[d] \in Row /\ rows'[d].status = "pending" /\ rows'[d].lease = "held"
    OBVIOUS
  <2>1. d \in Events /\ rows[d].status = "pending" /\ rows[d].lease # "held"
    BY DEF Claimable
  <2>2. rows[d] \in Row
    BY <2>1, RowKinds
  <2>3. rows'[d] = [status |-> rows[d].status, attempts |-> rows[d].attempts + 1,
                    due |-> rows[d].due, lease |-> "held"]
    BY <1>1, <2>1, <2>2 DEF Claimed, Row
  <2>4. rows'[d] \in Row /\ rows'[d].status = rows[d].status /\ rows'[d].lease = "held"
    BY <2>2, <2>3 DEF Row
  <2>. QED  BY <2>1, <2>2, <2>4
<1>8. \A d \in Events \ batch : rows'[d] = rows[d]
  BY <1>1
<1>9. \A d \in Events : rows'[d].status = rows[d].status
  BY <1>7, <1>8
<1>10. TypeOK'
  <2>1. rows' \in [Events -> Row \cup {Absent}]
    BY <1>1, <1>7, <1>8 DEF TypeOK
  <2>2. session' \in [Workers -> {Idle, Dead} \cup Delivering \cup Marking]
    BY <1>2, <1>4 DEF TypeOK
  <2>. QED  BY <1>3, <2>1, <2>2 DEF TypeOK
<1>11. BatchInv'
  <2>1. \A d \in Events : rows[d] # Absent => rows'[d] # Absent
    BY <1>7, <1>8 DEF Row, Absent
  <2>2. \A d \in batch : rows'[d] # Absent
    BY <1>7 DEF Row, Absent
  <2>. QED  BY <1>4, <1>5, <1>6, <2>1, <2>2, BatchOf DEF BatchInv
<1>12. \A v \in Workers, d \in Events : HasDelivered(v, d)' <=> HasDelivered(v, d)
  BY <1>3, <1>4, <1>6 DEF HasDelivered, Idle
<1>13. DeliveryInv'
  BY <1>3, <1>9, <1>12 DEF DeliveryInv
<1>14. LeaseInv'
  <2> SUFFICES ASSUME NEW d \in Events, trouble[d].late = 0, NEW v \in Workers, d \in Batch(v)'
               PROVE  Leased(v, d)' /\ \A u \in Workers : d \in Batch(u)' => u = v
    BY <1>3 DEF LeaseInv
  <2>1. CASE d \in batch
    <3>1. \A u \in Workers : d \notin Batch(u)
      BY <1>7, <2>1 DEF LeaseInv, Leased
    <3>2. v = w
      BY <1>6, <3>1
    <3>. QED  BY <1>4, <1>6, <1>7, <2>1, <3>1, <3>2 DEF Leased
  <2>2. CASE d \notin batch
    <3>1. v # w /\ d \in Batch(v)
      BY <1>5, <1>6, <2>2
    <3>2. Leased(v, d) /\ \A u \in Workers : d \in Batch(u) => u = v
      BY <3>1 DEF LeaseInv
    <3>3. Leased(v, d)'
      BY <1>6, <1>8, <2>2, <3>1, <3>2 DEF Leased
    <3>. QED  BY <1>5, <1>6, <2>2, <3>2, <3>3
  <2>. QED  BY <2>1, <2>2
<1>15. CountInv'
  <2>1. \A d \in Events : Counts(d)' <=> Counts(d)
    BY <1>9, <1>12 DEF Counts
  <2>. QED  BY <1>3, <2>1 DEF CountInv
<1>. QED  BY <1>10, <1>11, <1>13, <1>14, <1>15

(* A worker that goes on to another pc has the same batch. *)
LEMMA SameBatch ==
  ASSUME TypeOK, NEW w \in Workers, session[w] \in Delivering \cup Marking, NEW x,
         x \in Delivering \cup Marking, x.event = session[w].event, x.rest = session[w].rest,
         session' = [session EXCEPT ![w] = x]
  PROVE  /\ \A v \in Workers : Batch(v)' = Batch(v)
         /\ \A v \in Workers : session'[v].event = session[v].event /\ session'[v].rest = session[v].rest
         /\ session' \in [Workers -> {Idle, Dead} \cup Delivering \cup Marking]
<1>1. session'[w] = x /\ \A v \in Workers \ {w} : session'[v] = session[v]
  BY OwnChange, OthersStay
<1>2. x # Idle /\ x # Dead /\ session[w] # Idle /\ session[w] # Dead
  BY DEF Delivering, Marking, Idle, Dead
<1>3. Batch(w)' = Batch(w)
  BY <1>1, <1>2 DEF Batch
<1>4. \A v \in Workers \ {w} : Batch(v)' = Batch(v)
  BY OthersStay
<1>5. session' \in [Workers -> {Idle, Dead} \cup Delivering \cup Marking]
  BY DEF TypeOK
<1>. QED  BY <1>1, <1>3, <1>4, <1>5

(* The publisher has had its turn, whatever came of it. *)
LEMMA PublishInv ==
  ASSUME IInv, NEW w \in Workers, Publish(w) \/ PublishRaises(w)
  PROVE  IInv'
<1>. USE DEF IInv
<1>0. session[w] \in Delivering /\ session[w].pc = "publish"
  BY SessionKinds DEF Publish, PublishRaises
<1>e. PICK e \in Events : e = session[w].event
  BY <1>0 DEF Delivering
<1>1. session[w] \in Delivering /\ session[w].pc = "publish" /\ session[w].event = e
      /\ session[w].rest \in SUBSET Events
  BY <1>0, <1>e DEF Delivering
<1>2. PICK p \in {"delivered", "raised"} :
        /\ session' = [session EXCEPT ![w] = [pc |-> p, event |-> e, rest |-> session[w].rest]]
        /\ p = "delivered" => deliveries' = [deliveries EXCEPT ![e] = @ + 1] /\ UNCHANGED trouble
        /\ p = "raised" =>
             /\ \E n \in {0, 1} : deliveries' = [deliveries EXCEPT ![e] = @ + n]
             /\ trouble' = [trouble EXCEPT ![e].raised = @ + 1]
  BY <1>1 DEF Publish, PublishRaises, Goes, AfterRaise
<1>3. UNCHANGED <<rows, deaths>>
  BY DEF Publish, PublishRaises
<1>4. session'[w] = [pc |-> p, event |-> e, rest |-> session[w].rest]
      /\ \A v \in Workers \ {w} : session'[v] = session[v]
  BY <1>2, OwnChange, OthersStay
<1>5. /\ \A v \in Workers : Batch(v)' = Batch(v)
      /\ \A v \in Workers : session'[v].event = session[v].event /\ session'[v].rest = session[v].rest
      /\ session' \in [Workers -> {Idle, Dead} \cup Delivering \cup Marking]
  <2>. DEFINE x == [pc |-> p, event |-> e, rest |-> session[w].rest]
  <2>1. x \in Delivering /\ x.event = session[w].event /\ x.rest = session[w].rest
    BY <1>1 DEF Delivering
  <2>2. session' = [session EXCEPT ![w] = x]
    BY <1>2
  <2>. HIDE DEF x
  <2>. QED  BY <1>1, <2>1, <2>2, SameBatch
<1>6. /\ deliveries' \in [Events -> Nat] /\ trouble' \in [Events -> Trouble]
      /\ \A d \in Events : d # e => deliveries'[d] = deliveries[d] /\ trouble'[d] = trouble[d]
      /\ trouble'[e].late = trouble[e].late /\ trouble'[e].lost = trouble[e].lost
      /\ p = "delivered" => deliveries'[e] = deliveries[e] + 1 /\ trouble'[e].raised = trouble[e].raised
      /\ p = "raised" => deliveries[e] <= deliveries'[e] /\ deliveries'[e] <= deliveries[e] + 1
                       /\ trouble'[e].raised = trouble[e].raised + 1
  <2>1. CASE p = "delivered"
    BY <1>1, <1>2, <2>1 DEF TypeOK, Trouble
  <2>2. CASE p = "raised"
    <3>1. PICK n \in {0, 1} : deliveries' = [deliveries EXCEPT ![e] = @ + n]
      BY <1>2, <2>2
    <3>2. deliveries' \in [Events -> Nat] /\ \A d \in Events : d # e => deliveries'[d] = deliveries[d]
      BY <1>1, <3>1 DEF TypeOK
    <3>3. deliveries'[e] = deliveries[e] + n /\ deliveries[e] \in Nat
      BY <1>1, <3>1 DEF TypeOK
    <3>4. trouble' = [trouble EXCEPT ![e].raised = @ + 1]
      BY <1>2, <2>2
    <3>. QED  BY <1>1, <2>2, <3>2, <3>3, <3>4 DEF TypeOK, Trouble
  <2>. QED  BY <2>1, <2>2
<1>7. TypeOK'
  BY <1>3, <1>5, <1>6 DEF TypeOK
<1>8. BatchInv'
  BY <1>3, <1>4, <1>5 DEF BatchInv
<1>9. /\ \A v \in Workers, d \in Events : d # e => (HasDelivered(v, d)' <=> HasDelivered(v, d))
      /\ \A v \in Workers : v # w => (HasDelivered(v, e)' <=> HasDelivered(v, e))
      /\ HasDelivered(w, e)' <=> p = "delivered"
      /\ ~ HasDelivered(w, e)
  BY <1>1, <1>4 DEF HasDelivered
<1>10. DeliveryInv'
  <2>1. \A d \in Events : deliveries[d] \in Nat /\ deliveries'[d] \in Nat /\ deliveries[d] <= deliveries'[d]
    BY <1>1, <1>2, <1>6 DEF TypeOK
  <2>2. p = "delivered" => deliveries'[e] > 0
    BY <1>1, <1>6, <2>1
  <2>3. \A d \in Events : deliveries[d] > 0 => deliveries'[d] > 0
    BY <2>1
  <2> SUFFICES ASSUME NEW d \in Events,
                      rows'[d].status = "published" \/ \E v \in Workers : HasDelivered(v, d)'
               PROVE  deliveries'[d] > 0
    BY DEF DeliveryInv
  <2>4. CASE rows'[d].status = "published"
    BY <1>3, <2>3, <2>4 DEF DeliveryInv
  <2>5. CASE \E v \in Workers : HasDelivered(v, d)'
    <3>1. PICK v \in Workers : HasDelivered(v, d)'
      BY <2>5
    <3>2. CASE d = e /\ v = w
      BY <1>9, <2>2, <3>1, <3>2
    <3>3. CASE d # e \/ v # w
      BY <1>9, <2>3, <3>1, <3>3 DEF DeliveryInv
    <3>. QED  BY <3>2, <3>3
  <2>. QED  BY <2>4, <2>5
<1>11. LeaseInv'
  <2>1. \A v \in Workers, d \in Events : Leased(v, d) => Leased(v, d)'
    BY <1>3, <1>4 DEF Leased
  <2>2. \A d \in Events : trouble'[d].late = trouble[d].late
    BY <1>6
  <2>. QED  BY <1>5, <2>1, <2>2 DEF LeaseInv
<1>12. CountInv'
  <2> SUFFICES ASSUME NEW d \in Events, trouble'[d].late = 0
               PROVE  deliveries'[d] <= trouble'[d].raised + trouble'[d].lost + (IF Counts(d)' THEN 1 ELSE 0)
    BY DEF CountInv
  <2>1. CASE d # e
    <3>1. Counts(d)' <=> Counts(d)
      BY <1>3, <1>9, <2>1 DEF Counts
    <3>. QED  BY <1>6, <2>1, <3>1 DEF CountInv
  <2>2. CASE d = e
    <3>1. e \in Batch(w) /\ trouble[e].late = 0
      BY <1>1, <1>6, <2>2, BatchOf
    <3>2. rows[e].status = "pending" /\ \A v \in Workers : HasDelivered(v, e) => v = w
      BY <1>1, <3>1, DeliveredInBatch DEF LeaseInv, Leased
    <3>3. ~ Counts(e)
      BY <1>9, <3>2 DEF Counts
    <3>4. Counts(d)' <=> p = "delivered"
      <4>1. rows'[d].status = "pending"
        BY <1>3, <2>2, <3>2
      <4>2. \A v \in Workers : HasDelivered(v, d)' <=> v = w /\ p = "delivered"
        <5> SUFFICES ASSUME NEW v \in Workers
                     PROVE  HasDelivered(v, e)' <=> v = w /\ p = "delivered"
          BY <2>2
        <5>1. CASE v = w
          BY <1>9, <5>1
        <5>2. CASE v # w
          BY <1>9, <3>2, <5>2
        <5>. QED  BY <5>1, <5>2
      <4>. QED  BY <4>1, <4>2 DEF Counts
    <3>5. deliveries[e] <= trouble[e].raised + trouble[e].lost
      BY <1>1, <3>1, <3>3 DEF CountInv, TypeOK, Trouble
    <3>6. deliveries[e] \in Nat /\ deliveries'[e] \in Nat /\ trouble[e].raised \in Nat /\ trouble[e].lost \in Nat
      BY <1>1, <1>6 DEF TypeOK, Trouble
    <3>. QED  BY <1>2, <1>6, <2>2, <3>4, <3>5, <3>6
  <2>. QED  BY <2>1, <2>2
<1>. QED  BY <1>7, <1>8, <1>10, <1>11, <1>12

LEMMA LoadInv == ASSUME IInv, NEW w \in Workers, Load(w) PROVE IInv'
<1>. USE DEF IInv
<1>1. session[w] \in Delivering /\ session[w].pc \in {"delivered", "raised"}
  BY SessionKinds DEF Load
<1>2. PICK e \in Events : e = session[w].event
  BY <1>1 DEF Delivering
<1>3. e \in Batch(w)
  BY <1>1, <1>2, BatchOf
<1>4. rows[e] \in Row
  BY <1>3, RowKinds DEF BatchInv
<1>5. PICK p \in {"published", "retry"} :
        /\ session' = [session EXCEPT ![w] = [pc |-> p, event |-> e, rest |-> session[w].rest,
                                              loaded |-> rows[e]]]
        /\ p = "published" <=> session[w].pc = "delivered"
  BY <1>2 DEF Load
<1>6. UNCHANGED <<rows, deliveries, trouble, deaths>>
  BY DEF Load
<1>7. /\ \A v \in Workers : Batch(v)' = Batch(v)
      /\ \A v \in Workers : session'[v].event = session[v].event /\ session'[v].rest = session[v].rest
      /\ session' \in [Workers -> {Idle, Dead} \cup Delivering \cup Marking]
  <2>. DEFINE x == [pc |-> p, event |-> e, rest |-> session[w].rest, loaded |-> rows[e]]
  <2>1. x \in Marking /\ x.event = session[w].event /\ x.rest = session[w].rest
    BY <1>1, <1>2, <1>4 DEF Delivering, Marking
  <2>2. session' = [session EXCEPT ![w] = x]
    BY <1>5
  <2>. HIDE DEF x
  <2>. QED  BY <1>1, <2>1, <2>2, SameBatch
<1>8. session'[w] = [pc |-> p, event |-> e, rest |-> session[w].rest, loaded |-> rows[e]]
      /\ \A v \in Workers \ {w} : session'[v] = session[v]
  BY <1>5, OwnChange, OthersStay
<1>9. TypeOK'
  BY <1>6, <1>7 DEF TypeOK
<1>10. BatchInv'
  BY <1>6, <1>7 DEF BatchInv
<1>11. \A v \in Workers, d \in Events : HasDelivered(v, d)' <=> HasDelivered(v, d)
  BY <1>1, <1>2, <1>5, <1>8 DEF HasDelivered
<1>12. DeliveryInv'
  BY <1>6, <1>11 DEF DeliveryInv
<1>13. LeaseInv'
  <2>1. \A v \in Workers, d \in Events : Leased(v, d) => Leased(v, d)'
    BY <1>2, <1>6, <1>8 DEF Leased
  <2>. QED  BY <1>6, <1>7, <2>1 DEF LeaseInv
<1>14. CountInv'
  <2>1. \A d \in Events : Counts(d)' <=> Counts(d)
    BY <1>6, <1>11 DEF Counts
  <2>. QED  BY <1>6, <2>1 DEF CountInv
<1>. QED  BY <1>9, <1>10, <1>12, <1>13, <1>14

(* What a mark writes into the row of its event *)
LEMMA MarkedRow ==
  ASSUME NEW r \in Row, NEW me \in Marking
  PROVE  /\ Marked(r, me) \in Row
         /\ Marked(r, me).status = "published" => r.status = "published" \/ me.pc = "published"
         /\ r.status = "published" /\ Marked(r, me).status # "published" => me.loaded.status = "published"
         /\ r.status = "pending" /\ me.loaded.status = "pending" =>
              (Marked(r, me).status = "published" <=> me.pc = "published")
BY DEF Marked, Write, Row, Marking

LEMMA SaveInv == ASSUME IInv, NEW w \in Workers, Save(w) PROVE IInv'
<1>. USE DEF IInv
<1>1. session[w] \in Marking /\ session[w].pc \in {"published", "retry"}
  BY SessionKinds DEF Save
<1>2. PICK e \in Events : e = session[w].event
  BY <1>1 DEF Marking
<1>3. PICK rest \in SUBSET Events : rest = session[w].rest
  BY <1>1 DEF Marking
<1>4. Batch(w) = {e} \cup rest /\ e \notin rest
  BY <1>1, <1>2, <1>3, BatchOf DEF BatchInv
<1>5. rows[e] \in Row
  BY <1>4, RowKinds DEF BatchInv
<1>6. rows' = [rows EXCEPT ![e] = Marked(rows[e], session[w])]
      /\ UNCHANGED <<deliveries, trouble, deaths>>
  BY <1>2 DEF Save
<1>7. rows'[e] = Marked(rows[e], session[w]) /\ \A d \in Events \ {e} : rows'[d] = rows[d]
  BY <1>6 DEF TypeOK
<1>8. /\ rows'[e] \in Row
      /\ rows'[e].status = "published" => rows[e].status = "published" \/ session[w].pc = "published"
      /\ rows[e].status = "pending" /\ session[w].loaded.status = "pending" =>
           (rows'[e].status = "published" <=> session[w].pc = "published")
  BY <1>1, <1>5, <1>7, MarkedRow
<1>9. PICK x \in {Idle} \cup Delivering :
        /\ session' = [session EXCEPT ![w] = x]
        /\ x # Idle => x.pc = "publish" /\ x.event \in rest /\ x.rest = rest \ {x.event}
  <2>1. CASE session' = [session EXCEPT ![w] = Idle]
    BY <2>1
  <2>2. CASE session' # [session EXCEPT ![w] = Idle]
    <3>1. PICK d \in rest :
            session' = [session EXCEPT ![w] = [pc |-> "publish", event |-> d, rest |-> rest \ {d}]]
      BY <1>3, <2>2 DEF Save
    <3>. DEFINE y == [pc |-> "publish", event |-> d, rest |-> rest \ {d}]
    <3>2. y \in Delivering /\ y.pc = "publish" /\ y.event \in rest /\ y.rest = rest \ {y.event}
      BY DEF Delivering
    <3>3. session' = [session EXCEPT ![w] = y]
      BY <3>1
    <3>. HIDE DEF y
    <3>. QED  BY <3>2, <3>3
  <2>. QED  BY <2>1, <2>2
<1>10. session'[w] = x /\ session'[w].pc \in {"idle", "publish"}
       /\ \A v \in Workers \ {w} : session'[v] = session[v] /\ Batch(v)' = Batch(v)
  <2>1. session'[w] = x
    BY <1>9, OwnChange
  <2>2. x.pc \in {"idle", "publish"}
    BY <1>9 DEF Idle
  <2>3. \A v \in Workers \ {w} : session'[v] = session[v] /\ Batch(v)' = Batch(v)
    BY <1>9, OthersStay
  <2>. QED  BY <2>1, <2>2, <2>3
<1>11. TypeOK'
  <2>1. rows' \in [Events -> Row \cup {Absent}]
    BY <1>6, <1>7, <1>8 DEF TypeOK
  <2>2. session' \in [Workers -> {Idle, Dead} \cup Delivering \cup Marking]
    BY <1>9 DEF TypeOK
  <2>. QED  BY <1>6, <2>1, <2>2 DEF TypeOK
<1>12. Batch(w)' \subseteq rest /\ (Batch(w)' # {} => x # Idle)
  BY <1>9, <1>10 DEF Batch
<1>13. BatchInv'
  <2>1. \A d \in Events : rows[d] # Absent => rows'[d] # Absent
    BY <1>7, <1>8 DEF Row, Absent
  <2>2. \A d \in Batch(w)' : rows'[d] # Absent
    BY <1>4, <1>12, <2>1 DEF BatchInv
  <2>3. Batch(w)' # {} => session'[w].event \notin session'[w].rest
    BY <1>9, <1>10, <1>12
  <2>. QED  BY <1>10, <2>1, <2>2, <2>3, BatchOf DEF BatchInv
<1>14. /\ \A v \in Workers \ {w}, d \in Events : HasDelivered(v, d)' <=> HasDelivered(v, d)
       /\ \A d \in Events : ~ HasDelivered(w, d)'
       /\ \A d \in Events : d # e => ~ HasDelivered(w, d)
       /\ HasDelivered(w, e) <=> session[w].pc = "published"
  BY <1>1, <1>2, <1>10 DEF HasDelivered
<1>15. DeliveryInv'
  <2>1. rows'[e].status = "published" => deliveries[e] > 0
    BY <1>8, <1>14 DEF DeliveryInv
  <2>2. \A d \in Events, v \in Workers : HasDelivered(v, d)' => deliveries[d] > 0
    BY <1>14 DEF DeliveryInv
  <2>. QED  BY <1>6, <1>7, <2>1, <2>2 DEF DeliveryInv
<1>16. LeaseInv'
  <2> SUFFICES ASSUME NEW d \in Events, trouble[d].late = 0, NEW v \in Workers, d \in Batch(v)'
               PROVE  Leased(v, d)' /\ \A u \in Workers : d \in Batch(u)' => u = v
    BY <1>6 DEF LeaseInv
  <2>1. \A u \in Workers : d \in Batch(u)' => d \in Batch(u)
    BY <1>4, <1>10, <1>12
  <2>2. Leased(v, d) /\ \A u \in Workers : d \in Batch(u) => u = v
    BY <2>1 DEF LeaseInv
  <2>3. d # e
    BY <1>4, <1>12, <2>1, <2>2
  <2>4. Leased(v, d)'
    BY <1>7, <1>10, <2>2, <2>3 DEF Leased
  <2>. QED  BY <2>1, <2>2, <2>4
<1>17. CountInv'
  <2> SUFFICES ASSUME NEW d \in Events, trouble[d].late = 0
               PROVE  Counts(d)' <=> Counts(d)
    BY <1>6 DEF CountInv
  <2>1. CASE d # e
    BY <1>7, <1>14, <2>1 DEF Counts
  <2>2. CASE d = e
    <3>1. Leased(w, e) /\ \A v \in Workers : e \in Batch(v) => v = w
      BY <1>4, <2>2 DEF LeaseInv
    <3>2. \A v \in Workers : HasDelivered(v, e) => v = w
      BY <3>1, DeliveredInBatch
    <3>3. Counts(e) <=> session[w].pc = "published"
      BY <1>14, <3>1, <3>2 DEF Counts, Leased
    <3>4. rows'[e].status = "published" <=> session[w].pc = "published"
      BY <1>1, <1>2, <1>8, <3>1 DEF Leased
    <3>5. \A v \in Workers : ~ HasDelivered(v, e)'
      BY <1>14, <3>2
    <3>. QED  BY <2>2, <3>3, <3>4, <3>5 DEF Counts
  <2>. QED  BY <2>1, <2>2
<1>. QED  BY <1>11, <1>13, <1>15, <1>16, <1>17

LEMMA DieInv == ASSUME IInv, NEW w \in Workers, Die(w) PROVE IInv'
<1>. USE DEF IInv
<1>1. session' = [session EXCEPT ![w] = Dead] /\ UNCHANGED <<rows, deliveries>>
      /\ deaths < MaxDeaths /\ deaths' = deaths + 1
      /\ trouble' = [e \in Events |-> IF e \in Batch(w) THEN [trouble[e] EXCEPT !.lost = @ + 1]
                                      ELSE trouble[e]]
  BY DEF Die
<1>2. session'[w] = Dead /\ \A v \in Workers \ {w} : session'[v] = session[v] /\ Batch(v)' = Batch(v)
  BY <1>1, OwnChange, OthersStay
<1>3. Batch(w)' = {}
  BY <1>2 DEF Batch
<1>4. \A e \in Events :
        /\ trouble'[e] \in Trouble /\ trouble[e] \in Trouble
        /\ trouble'[e].late = trouble[e].late /\ trouble'[e].raised = trouble[e].raised
        /\ e \in Batch(w) => trouble'[e].lost = trouble[e].lost + 1
        /\ e \notin Batch(w) => trouble'[e] = trouble[e]
  BY <1>1 DEF TypeOK, Trouble
<1>5. TypeOK'
  <2>1. session' \in [Workers -> {Idle, Dead} \cup Delivering \cup Marking]
    BY <1>1 DEF TypeOK
  <2>2. trouble' \in [Events -> Trouble]
    BY <1>1, <1>4
  <2>3. deaths' \in 0..MaxDeaths
    BY <1>1, TroubleAssumption DEF TypeOK
  <2>. QED  BY <1>1, <2>1, <2>2, <2>3 DEF TypeOK
<1>6. BatchInv'
  BY <1>1, <1>2, <1>3 DEF BatchInv
<1>7. /\ \A v \in Workers \ {w}, d \in Events : HasDelivered(v, d)' <=> HasDelivered(v, d)
      /\ \A d \in Events : ~ HasDelivered(w, d)'
  BY <1>2 DEF HasDelivered, Dead
<1>8. DeliveryInv'
  BY <1>1, <1>7 DEF DeliveryInv
<1>9. LeaseInv'
  <2>1. \A v \in Workers \ {w}, d \in Events : Leased(v, d) => Leased(v, d)'
    BY <1>1, <1>2 DEF Leased
  <2>. QED  BY <1>2, <1>3, <1>4, <2>1 DEF LeaseInv
<1>10. CountInv'
  <2> SUFFICES ASSUME NEW d \in Events, trouble[d].late = 0
               PROVE  deliveries[d] <= trouble'[d].raised + trouble'[d].lost + (IF Counts(d)' THEN 1 ELSE 0)
    BY <1>1, <1>4 DEF CountInv
  <2>1. deliveries[d] <= trouble[d].raised + trouble[d].lost + (IF Counts(d) THEN 1 ELSE 0)
    BY DEF CountInv
  <2>2. deliveries[d] \in Nat /\ trouble[d].raised \in Nat /\ trouble[d].lost \in Nat
    BY DEF TypeOK, Trouble
  <2>3. CASE d \in Batch(w)
    BY <1>4, <2>1, <2>2, <2>3
  <2>4. CASE d \notin Batch(w)
    <3>1. \A v \in Workers : HasDelivered(v, d)' <=> HasDelivered(v, d)
      BY <1>7, <2>4, DeliveredInBatch
    <3>2. Counts(d)' <=> Counts(d)
      BY <1>1, <3>1 DEF Counts
    <3>. QED  BY <1>4, <2>1, <2>4, <3>2
  <2>. QED  BY <2>3, <2>4
<1>. QED  BY <1>5, <1>6, <1>8, <1>9, <1>10

-----------------------------------------------------------------------------
LEMMA NextInv == IInv /\ [Next]_vars => IInv'
<1> SUFFICES ASSUME IInv, [Next]_vars PROVE IInv'
  OBVIOUS
<1>1. ASSUME NEW e \in Events, Append(e) \/ Expire(e) \/ BackOffEnds(e)
      PROVE  IInv'
  BY <1>1, AppendInv, ExpireInv, BackOffInv
<1>2. ASSUME NEW w \in Workers, Claim(w) \/ Proceed(w) \/ Die(w)
      PROVE  IInv'
  BY <1>2, ClaimInv, PublishInv, LoadInv, SaveInv, DieInv DEF Proceed
<1>3. CASE UNCHANGED vars
  BY <1>3 DEF vars, IInv, TypeOK, BatchInv, DeliveryInv, LeaseInv, CountInv, Batch, HasDelivered,
             Leased, Counts
<1>. QED  BY <1>1, <1>2, <1>3 DEF Next

(* The inductive invariant of the outbox *)
THEOREM InductiveInvariant == Spec => []IInv
<1>. QED  BY InitInv, NextInv, PTL DEF Spec

(* Type correctness, for every number of events, workers and troubles. *)
THEOREM TypeCorrect == Spec => []TypeOK
<1>1. IInv => TypeOK
  BY DEF IInv
<1>. QED  BY <1>1, InductiveInvariant, PTL

(* Only what the publisher has delivered is ever marked published. *)
THEOREM PublishedWasDelivered == Spec => []PublishedIsDelivered
<1>1. IInv => PublishedIsDelivered
  BY DEF IInv, DeliveryInv, PublishedIsDelivered
<1>. QED  BY <1>1, InductiveInvariant, PTL

(* Without an outlived lease every duplicate has a raised publication or a lost worker of
   its own. *)
THEOREM DuplicatesAreExplained == Spec => []DuplicatesExplained
<1>1. ASSUME IInv
      PROVE  DuplicatesExplained
  <2> SUFFICES ASSUME NEW e \in Events, trouble[e].late = 0
               PROVE  deliveries[e] <= 1 + trouble[e].raised + trouble[e].lost
    BY DEF DuplicatesExplained
  <2>1. deliveries[e] <= trouble[e].raised + trouble[e].lost + (IF Counts(e) THEN 1 ELSE 0)
    BY <1>1 DEF IInv, CountInv
  <2>2. deliveries[e] \in Nat /\ trouble[e].raised \in Nat /\ trouble[e].lost \in Nat
    BY <1>1 DEF IInv, TypeOK, Trouble
  <2>. QED  BY <2>1, <2>2
<1>. QED  BY <1>1, InductiveInvariant, PTL

(* A published event is un-published only after a lease was outlived. *)
THEOREM PublishedStaysPublished == Spec => PublishedStays
<1>1. ASSUME IInv, [Next]_vars, NEW e \in Events,
             rows[e].status = "published", rows'[e].status # "published"
      PROVE  trouble[e].late > 0
  <2>1. rows[e] \in Row
    BY <1>1, RowKinds DEF IInv
  <2>2. PICK w \in Workers : Save(w) /\ session[w].event = e
    <3>1. \A d \in Events : ~ Append(d) \/ d # e
      BY <1>1 DEF Append, Absent
    <3>2. ASSUME NEW d \in Events, Append(d) \/ Expire(d) \/ BackOffEnds(d)
          PROVE  FALSE
      BY <1>1, <2>1, <3>1, <3>2 DEF Append, Expire, BackOffEnds, IInv, TypeOK, Row
    <3>3. ASSUME NEW w \in Workers, Claim(w)
          PROVE  FALSE
      <4>1. rows'[e] = rows[e] \/ rows'[e] = Claimed(rows[e])
        BY <3>3 DEF Claim
      <4>. QED  BY <1>1, <2>1, <4>1 DEF Claimed, Row
    <3>4. ASSUME NEW w \in Workers, Publish(w) \/ PublishRaises(w) \/ Load(w) \/ Die(w)
          PROVE  FALSE
      BY <1>1, <3>4 DEF Publish, PublishRaises, Load, Die
    <3>5. ~ UNCHANGED vars
      BY <1>1 DEF vars
    <3>6. PICK w \in Workers : Save(w)
      BY <1>1, <3>2, <3>3, <3>4, <3>5 DEF Next, Proceed
    <3>7. session[w].event = e
      BY <1>1, <3>6 DEF Save, IInv, TypeOK
    <3>. QED  BY <3>6, <3>7
  <2>3. session[w] \in Marking /\ e \in Batch(w)
    BY <1>1, <2>2, SessionKinds, BatchOf DEF Save, IInv
  <2>4. trouble[e].late # 0
    BY <1>1, <2>3 DEF IInv, LeaseInv, Leased
  <2>5. trouble[e].late \in Nat
    BY <1>1 DEF IInv, TypeOK, Trouble
  <2>. QED  BY <2>4, <2>5
<1>2. IInv /\ [Next]_vars =>
        [\A e \in Events :
           rows[e].status = "published" /\ rows'[e].status # "published" => trouble[e].late > 0]_rows
  BY <1>1
<1>. QED  BY <1>2, InductiveInvariant, PTL DEF Spec, PublishedStays
=============================================================================
