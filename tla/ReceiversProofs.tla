-------------------------- MODULE ReceiversProofs ---------------------------
(***************************************************************************)
(* Proofs about the services that are to take in once what is sent to them *)
(* repeatedly: payments, the legacy adapter and document intelligence, for *)
(* every number of requests, keys, contents and crashes.                   *)
(*                                                                         *)
(* What was answered has to agree with what is stored, in each of them.    *)
(* That uploads resolve rests on more: a row and its file come together    *)
(* under an id neither had before, and the same bytes have one row per     *)
(* filing.                                                                 *)
(***************************************************************************)
EXTENDS Payments, LegacyAdapter, Documents, TLAPS

-----------------------------------------------------------------------------
(* Payments *)

(* The inductive invariant: every answer agrees with the saved row of its key. *)
Agrees(a) ==
  /\ saved[a.scope] # NotSaved
  /\ Succeeded(a) => a.input = saved[a.scope].hash /\ a.response = saved[a.scope].response
  /\ ~ Succeeded(a) => a.input # saved[a.scope].hash

PaymentsIInv == PaymentsTypeOK /\ \A a \in receipts : Agrees(a)

LEMMA ReceiptKinds ==
  ASSUME NEW a \in Success \cup Refusal
  PROVE  /\ a.scope \in PayScopes
         /\ Succeeded(a) <=> a \in Success
BY DEF Success, Refusal, Succeeded

LEMMA SavedKinds ==
  ASSUME PaymentsTypeOK, NEW s \in PayScopes
  PROVE  saved[s] # NotSaved => saved[s] \in SavedRow
BY DEF PaymentsTypeOK

LEMMA PayerKinds ==
  ASSUME PaymentsTypeOK, NEW h \in Payers
  PROVE  /\ payer[h].pc = "await" => payer[h] \in Awaiting
         /\ payer[h].pc = "save" => payer[h] \in Holding
         /\ payer[h] # PayIdle => payer[h].pc \in {"await", "save"}
         /\ payer[h].pc = "idle" => payer[h] = PayIdle
BY DEF PaymentsTypeOK, PayIdle, Awaiting, Holding

LEMMA LookupMeans ==
  ASSUME NEW s, NEW input
  PROVE  /\ Lookup(s, input) = "absent" <=> saved[s] = NotSaved
         /\ Lookup(s, input) = "replay" <=> saved[s] # NotSaved /\ saved[s].hash = input
         /\ Lookup(s, input) = "conflict" <=> saved[s] # NotSaved /\ saved[s].hash # input
BY DEF Lookup

LEMMA StatusKnown ==
  ASSUME NEW op, NEW input
  PROVE  ProviderStatus(op, input) \in PayStatuses
BY DEF ProviderStatus, PayStatuses

LEMMA PaymentsInitInv == PaymentsInit => PaymentsIInv
BY PaymentsAssumption DEF PaymentsInit, PaymentsIInv, PaymentsTypeOK

(* One more answer, while no row changes. *)
LEMMA OneMoreReceipt ==
  ASSUME PaymentsIInv, NEW a \in Success \cup Refusal, Agrees(a), Answer(a),
         UNCHANGED <<saved, payer, calls, payFaults>>
  PROVE  PaymentsIInv'
BY DEF PaymentsIInv, PaymentsTypeOK, Answer, Agrees, Succeeded

LEMMA PaymentsStepInv == PaymentsIInv /\ [PaymentsNext]_paymentsVars => PaymentsIInv'
<1> SUFFICES ASSUME PaymentsIInv, [PaymentsNext]_paymentsVars
             PROVE  PaymentsIInv'
  OBVIOUS
<1>t. PaymentsTypeOK
  BY DEF PaymentsIInv
<1>1. ASSUME NEW h \in Payers, NEW s \in PayScopes, NEW input \in PayInputs,
             PayConflict(h, s, input)
      PROVE  PaymentsIInv'
  <2> DEFINE a == [scope |-> s, input |-> input, code |-> 409]
  <2>1. a \in Refusal
    BY DEF Refusal
  <2>2. Agrees(a)
    BY <1>1, LookupMeans DEF PayConflict, Agrees, Succeeded
  <2>. QED  BY <1>1, <2>1, <2>2, OneMoreReceipt DEF PayConflict
<1>2. ASSUME NEW h \in Payers, NEW s \in PayScopes, NEW input \in PayInputs,
             PayReplay(h, s, input)
      PROVE  PaymentsIInv'
  <2> DEFINE a == [scope |-> s, input |-> input, code |-> 200, response |-> saved[s].response]
  <2>1. saved[s] \in SavedRow /\ saved[s] # NotSaved /\ saved[s].hash = input
    BY <1>2, <1>t, SavedKinds, LookupMeans DEF PayReplay
  <2>2. a \in Success
    BY <2>1 DEF Success, SavedRow
  <2>3. Agrees(a)
    BY <2>1 DEF Agrees, Succeeded
  <2>. QED  BY <1>2, <2>2, <2>3, OneMoreReceipt DEF PayReplay
<1>3. ASSUME NEW h \in Payers, NEW s \in PayScopes, NEW input \in PayInputs,
             PayBegin(h, s, input)
      PROVE  PaymentsIInv'
  <2>1. payer' \in [Payers -> {PayIdle} \cup Awaiting \cup Holding]
    BY <1>3, <1>t DEF PayBegin, PaymentsTypeOK, Awaiting
  <2>. QED  BY <1>3, <2>1 DEF PayBegin, PaymentsIInv, PaymentsTypeOK, Agrees
<1>4. ASSUME NEW h \in Payers, ProviderResolves(h)
      PROVE  PaymentsIInv'
  <2>1. payer[h] \in Awaiting
    BY <1>4, <1>t, PayerKinds DEF ProviderResolves
  <2> DEFINE r == [call |-> calls + 1, status |-> ProviderStatus(payer[h].scope[1], payer[h].input)]
  <2>2. calls \in Nat /\ calls + 1 \in 0..MaxCalls
    BY <1>4, <1>t, PaymentsAssumption DEF ProviderResolves, PaymentsTypeOK
  <2>3. r \in Response
    BY <2>2, StatusKnown DEF Response
  <2>4. [pc |-> "save", scope |-> payer[h].scope, input |-> payer[h].input, response |-> r]
          \in Holding
    BY <2>1, <2>3 DEF Awaiting, Holding
  <2>5. payer' \in [Payers -> {PayIdle} \cup Awaiting \cup Holding]
    BY <1>4, <1>t, <2>4 DEF ProviderResolves, PaymentsTypeOK
  <2>. QED  BY <1>4, <2>2, <2>5 DEF ProviderResolves, PaymentsIInv, PaymentsTypeOK, Agrees
<1>5. ASSUME NEW h \in Payers, ProviderRejects(h)
      PROVE  PaymentsIInv'
  <2>1. payer' \in [Payers -> {PayIdle} \cup Awaiting \cup Holding]
    BY <1>5, <1>t DEF ProviderRejects, PaymentsTypeOK
  <2>2. payFaults' \in 0..MaxPayFaults
    BY <1>5, <1>t, PaymentsAssumption DEF ProviderRejects, PaymentsTypeOK
  <2>. QED  BY <1>5, <2>1, <2>2 DEF ProviderRejects, PaymentsIInv, PaymentsTypeOK, Agrees
<1>6. ASSUME NEW h \in Payers, SaveAndAnswer(h)
      PROVE  PaymentsIInv'
  <2> DEFINE me == payer[h]
             a == [scope |-> me.scope, input |-> me.input, code |-> Code(me.response),
                   response |-> me.response]
  <2>1. me \in Holding
    BY <1>6, <1>t, PayerKinds DEF SaveAndAnswer
  <2>2. me.scope \in PayScopes /\ me.input \in PayInputs /\ me.response \in Response
    BY <2>1 DEF Holding
  <2>3. a \in Success
    BY <2>2 DEF Success, Code
  <2>4. saved' = [saved EXCEPT ![me.scope] = [hash |-> me.input, response |-> me.response]]
    BY <1>6 DEF SaveAndAnswer
  <2>5. saved' \in [PayScopes -> SavedRow \cup {NotSaved}]
    BY <2>2, <2>4, <1>t DEF PaymentsTypeOK, SavedRow
  <2>6. payer' \in [Payers -> {PayIdle} \cup Awaiting \cup Holding]
    BY <1>6, <1>t DEF SaveAndAnswer, PaymentsTypeOK
  <2>c. PICK c \in Success : c = a
    BY <2>3
  <2>7. receipts' = receipts \cup {c}
    BY <1>6, <2>c DEF SaveAndAnswer, Answer
  <2>8. PaymentsTypeOK'
    BY <1>6, <1>t, <2>5, <2>6, <2>7 DEF SaveAndAnswer, PaymentsTypeOK
  <2>9. Agrees(c)'
    <3>1. saved'[me.scope] = [hash |-> me.input, response |-> me.response]
      BY <2>2, <2>4, <1>t DEF PaymentsTypeOK
    <3>2. saved'[me.scope] # NotSaved
      BY <3>1 DEF NotSaved
    <3>3. Succeeded(c) /\ c.scope = me.scope /\ c.input = me.input /\ c.response = me.response
      BY <2>c DEF Succeeded, Success
    <3>. QED  BY <3>1, <3>2, <3>3 DEF Agrees, Succeeded
  <2>10. ASSUME NEW b \in receipts PROVE Agrees(b)'
    <3>1. Agrees(b) /\ b \in Success \cup Refusal
      BY <1>t DEF PaymentsIInv, PaymentsTypeOK
    <3>2. saved[me.scope] = NotSaved
      BY <1>6 DEF SaveAndAnswer, Insertable
    <3>3. b.scope # me.scope /\ b.scope \in PayScopes
      BY <3>1, <3>2, ReceiptKinds DEF Agrees
    <3>4. saved'[b.scope] = saved[b.scope]
      BY <3>3, <2>4, <1>t DEF PaymentsTypeOK
    <3>. QED  BY <3>1, <3>4 DEF Agrees, Succeeded
  <2>. QED  BY <2>7, <2>8, <2>9, <2>10 DEF PaymentsIInv
<1>7. ASSUME NEW h \in Payers, SaveFails(h)
      PROVE  PaymentsIInv'
  <2>1. payer' \in [Payers -> {PayIdle} \cup Awaiting \cup Holding]
    BY <1>7, <1>t DEF SaveFails, PaymentsTypeOK
  <2>. QED  BY <1>7, <2>1 DEF SaveFails, PaymentsIInv, PaymentsTypeOK, Agrees
<1>8. CASE PayCrash
  <2>1. payFaults' \in 0..MaxPayFaults
    BY <1>8, <1>t, PaymentsAssumption DEF PayCrash, PaymentsTypeOK
  <2>. QED  BY <1>8, <2>1 DEF PayCrash, PaymentsIInv, PaymentsTypeOK, Agrees
<1>9. CASE UNCHANGED paymentsVars
  BY <1>9 DEF paymentsVars, PaymentsIInv, PaymentsTypeOK, Agrees
<1>. QED  BY <1>1, <1>2, <1>3, <1>4, <1>5, <1>6, <1>7, <1>8, <1>9 DEF PaymentsNext

(* The inductive invariant holds. *)
THEOREM PaymentsInvariant == PaymentsSpec => []PaymentsIInv
BY PaymentsInitInv, PaymentsStepInv, PTL DEF PaymentsSpec

(* Type correctness of payments. *)
THEOREM PaymentsTypes == PaymentsSpec => []PaymentsTypeOK
<1>1. PaymentsIInv => PaymentsTypeOK
  BY DEF PaymentsIInv
<1>. QED  BY <1>1, PaymentsInvariant, PTL

(* All successful answers to a key report one provider call. *)
THEOREM PaymentsAreStable == PaymentsSpec => []StablePayments
<1>1. PaymentsIInv => StablePayments
  BY DEF PaymentsIInv, StablePayments, Agrees
<1>. QED  BY <1>1, PaymentsInvariant, PTL

(* A key that was answered never reaches the provider again. *)
THEOREM AnsweredIsSettled == PaymentsSpec => AnsweredIsNotChargedAgain
<1> DEFINE Settled ==
      \A h \in Payers : payer[h].pc = "idle" /\ payer'[h].pc = "await" =>
        \A a \in receipts : a.scope # payer'[h].scope
<1>1. PaymentsIInv /\ [PaymentsNext]_paymentsVars => [Settled]_paymentsVars
  <2> SUFFICES ASSUME PaymentsIInv, PaymentsNext,
                      NEW h \in Payers, payer[h].pc = "idle", payer'[h].pc = "await",
                      NEW a \in receipts
               PROVE  a.scope # payer'[h].scope
    BY DEF paymentsVars
  <2>t. PaymentsTypeOK /\ Agrees(a)
    BY DEF PaymentsIInv
  <2>1. PICK g \in Payers, s \in PayScopes, input \in PayInputs : PayBegin(g, s, input)
    <3>1. ASSUME NEW g \in Payers,
                 ProviderResolves(g) \/ ProviderRejects(g) \/ SaveAndAnswer(g) \/ SaveFails(g)
          PROVE  FALSE
      BY <3>1, <2>t, PayerKinds
         DEF ProviderResolves, ProviderRejects, SaveAndAnswer, SaveFails, PaymentsTypeOK, PayIdle
    <3>2. ~ PayCrash
      BY DEF PayCrash, PayIdle
    <3>3. ASSUME NEW g \in Payers, NEW s \in PayScopes, NEW input \in PayInputs,
                 PayConflict(g, s, input) \/ PayReplay(g, s, input)
          PROVE  FALSE
      BY <3>3 DEF PayConflict, PayReplay
    <3>. QED  BY <3>1, <3>2, <3>3 DEF PaymentsNext
  <2>2. saved[s] = NotSaved
    BY <2>1, LookupMeans DEF PayBegin
  <2>3. h = g /\ payer'[h].scope = s
    BY <2>1, <2>t DEF PayBegin, PaymentsTypeOK
  <2>. QED  BY <2>2, <2>3, <2>t DEF Agrees
<1>. QED  BY <1>1, PaymentsInvariant, PTL DEF PaymentsSpec, AnsweredIsNotChargedAgain

-----------------------------------------------------------------------------
(* The legacy adapter *)

(* What the answer a says of the row of its key is true. *)
True(a) ==
  /\ Present(a.key)
  /\ a.code \in {200, 201} => legacyRows[a.key] = [id |-> a.id, content |-> a.content]
  /\ a.code = 409 => legacyRows[a.key].content # a.content

LegacyIInv == LegacyTypeOK /\ \A a \in acks : True(a)

LEMMA FeedKinds ==
  ASSUME LegacyTypeOK, NEW f \in Feeds
  PROVE  feed[f].pc \in {"insert", "again"} => feed[f] \in Serving
BY DEF LegacyTypeOK, FeedIdle, Serving

LEMMA RowKinds ==
  ASSUME LegacyTypeOK, NEW k \in LegacyIds, Present(k)
  PROVE  legacyRows[k] \in LegacyRow
BY DEF LegacyTypeOK, Present

LEMMA FreshRowIs ==
  ASSUME NEW content \in Contents, NEW row \in FreshRow(content)
  PROVE  /\ row \in LegacyRow /\ row.content = content /\ row = [id |-> row.id, content |-> content]
         /\ \A k \in LegacyIds : legacyRows[k].id # row.id
BY DEF FreshRow, LegacyRow

LEMMA AckIsTrue ==
  ASSUME LegacyTypeOK, NEW k \in LegacyIds, NEW content \in Contents, Present(k)
  PROVE  AckStored(k, content) \in Stored \cup Conflict /\ True(AckStored(k, content))
<1>1. legacyRows[k] \in LegacyRow
  BY RowKinds
<1>2. CASE legacyRows[k].content = content
  <2> DEFINE a == [key |-> k, content |-> content, code |-> 200, id |-> legacyRows[k].id]
  <2>1. AckStored(k, content) = a
    BY <1>2 DEF AckStored
  <2>2. a \in Stored
    BY <1>1 DEF Stored, LegacyRow
  <2>3. True(a)
    BY <1>1, <1>2 DEF True, LegacyRow
  <2>. QED  BY <2>1, <2>2, <2>3
<1>3. CASE legacyRows[k].content # content
  <2> DEFINE a == [key |-> k, content |-> content, code |-> 409]
  <2>1. AckStored(k, content) = a
    BY <1>3 DEF AckStored
  <2>2. a \in Conflict
    BY DEF Conflict
  <2>3. True(a)
    BY <1>3 DEF True
  <2>. QED  BY <2>1, <2>2, <2>3
<1>. QED  BY <1>2, <1>3

(* A row enters the table under a key that had none, and what was true stays true. *)
LEMMA RowEnters ==
  ASSUME LegacyIInv, NEW k \in LegacyIds, NEW row \in LegacyRow, Inserted(k),
         legacyRows' = [legacyRows EXCEPT ![k] = row]
  PROVE  /\ legacyRows' \in [LegacyIds -> LegacyRow \cup {NoRow}]
         /\ legacyRows'[k] = row /\ Present(k)'
         /\ \A a \in acks : True(a)'
<1>1. legacyRows' \in [LegacyIds -> LegacyRow \cup {NoRow}] /\ legacyRows'[k] = row
  BY DEF LegacyIInv, LegacyTypeOK
<1>2. Present(k)'
  BY <1>1 DEF Present, LegacyRow, NoRow
<1>3. ASSUME NEW a \in acks PROVE True(a)'
  <2>1. True(a) /\ a \in Stored \cup Conflict
    BY DEF LegacyIInv, LegacyTypeOK
  <2>2. a.key \in LegacyIds /\ a.key # k
    BY <2>1 DEF True, Stored, Conflict, Inserted
  <2>3. legacyRows'[a.key] = legacyRows[a.key]
    BY <2>2 DEF LegacyIInv, LegacyTypeOK
  <2>. QED  BY <2>1, <2>3 DEF True, Present
<1>. QED  BY <1>1, <1>2, <1>3

LEMMA LegacyInitInv == LegacyInit => LegacyIInv
BY LegacyAssumption DEF LegacyInit, LegacyIInv, LegacyTypeOK

LEMMA LegacyStepInv == LegacyIInv /\ [LegacyNext]_legacyVars => LegacyIInv'
<1> SUFFICES ASSUME LegacyIInv, [LegacyNext]_legacyVars
             PROVE  LegacyIInv'
  OBVIOUS
<1>t. LegacyTypeOK
  BY DEF LegacyIInv
<1>1. ASSUME NEW f \in Feeds, NEW k \in LegacyIds, NEW content \in Contents,
             DeliverKnown(f, k, content)
      PROVE  LegacyIInv'
  <2>1. PICK a \in Stored \cup Conflict : a = AckStored(k, content) /\ True(a)
    BY <1>1, <1>t, AckIsTrue DEF DeliverKnown
  <2>. QED  BY <1>1, <2>1 DEF DeliverKnown, LegacyIInv, LegacyTypeOK, True, Present
<1>2. ASSUME NEW f \in Feeds, NEW k \in LegacyIds, NEW content \in Contents,
             DeliverNew(f, k, content)
      PROVE  LegacyIInv'
  <2>1. feed' \in [Feeds -> {FeedIdle} \cup Serving]
    BY <1>2, <1>t DEF DeliverNew, LegacyTypeOK, Serving
  <2>. QED  BY <1>2, <2>1 DEF DeliverNew, LegacyIInv, LegacyTypeOK, True, Present
<1>3. ASSUME NEW f \in Feeds, CommitRecord(f)
      PROVE  LegacyIInv'
  <2> DEFINE me == feed[f]
  <2>1. me.key \in LegacyIds /\ me.content \in Contents
    BY <1>3, <1>t, FeedKinds DEF CommitRecord, Serving
  <2>2. PICK row \in FreshRow(me.content) :
          /\ legacyRows' = [legacyRows EXCEPT ![me.key] = row]
          /\ acks' = acks \cup
               {[key |-> me.key, content |-> me.content, code |-> 201, id |-> row.id]}
    BY <1>3 DEF CommitRecord
  <2>3. row \in LegacyRow /\ row = [id |-> row.id, content |-> me.content]
    BY <2>1, <2>2, FreshRowIs
  <2>4. Inserted(me.key)
    BY <1>3 DEF CommitRecord
  <2>5. /\ legacyRows' \in [LegacyIds -> LegacyRow \cup {NoRow}]
        /\ legacyRows'[me.key] = row /\ legacyRows'[me.key] # NoRow
        /\ \A b \in acks : True(b)'
    <3>1. Present(feed[f].key)' <=> legacyRows'[feed'[f].key] # NoRow
      BY DEF Present
    <3>2. PICK k \in LegacyIds : k = me.key
      BY <2>1
    <3>3. Inserted(k) /\ legacyRows' = [legacyRows EXCEPT ![k] = row]
      BY <2>2, <2>4, <3>2
    <3>. QED  BY <2>3, <3>2, <3>3, RowEnters DEF Present
  <2>6. PICK a \in Stored :
          a = [key |-> me.key, content |-> me.content, code |-> 201, id |-> row.id]
    BY <2>1, <2>3 DEF Stored, LegacyRow
  <2>7. True(a)'
    BY <2>3, <2>5, <2>6 DEF True, Present
  <2>8. feed' \in [Feeds -> {FeedIdle} \cup Serving]
    BY <1>3, <1>t DEF CommitRecord, LegacyTypeOK
  <2>9. LegacyTypeOK'
    BY <1>3, <1>t, <2>2, <2>5, <2>6, <2>8 DEF CommitRecord, LegacyTypeOK
  <2>. QED  BY <2>2, <2>5, <2>6, <2>7, <2>9 DEF LegacyIInv
<1>4. ASSUME NEW f \in Feeds, CommitUnanswered(f)
      PROVE  LegacyIInv'
  <2>1. PICK k \in LegacyIds, content \in Contents : k = feed[f].key /\ content = feed[f].content
    BY <1>4, <1>t, FeedKinds DEF CommitUnanswered, Serving
  <2>2. PICK row \in FreshRow(content) : legacyRows' = [legacyRows EXCEPT ![k] = row]
    BY <1>4, <2>1 DEF CommitUnanswered
  <2>3. row \in LegacyRow /\ Inserted(k)
    BY <1>4, <2>1, <2>2, FreshRowIs DEF CommitUnanswered
  <2>4. /\ legacyRows' \in [LegacyIds -> LegacyRow \cup {NoRow}]
        /\ \A b \in acks : True(b)'
    BY <2>2, <2>3, RowEnters
  <2>5. feed' \in [Feeds -> {FeedIdle} \cup Serving] /\ drops' \in 0..MaxDrops
    BY <1>4, <1>t, LegacyAssumption DEF CommitUnanswered, LegacyTypeOK
  <2>. QED  BY <1>4, <1>t, <2>4, <2>5 DEF CommitUnanswered, LegacyIInv, LegacyTypeOK
<1>5. ASSUME NEW f \in Feeds, CommitCollides(f)
      PROVE  LegacyIInv'
  <2>1. feed[f] \in Serving
    BY <1>5, <1>t, FeedKinds DEF CommitCollides
  <2>2. feed' \in [Feeds -> {FeedIdle} \cup Serving]
    BY <1>5, <1>t, <2>1 DEF CommitCollides, LegacyTypeOK, Serving
  <2>. QED  BY <1>5, <2>2 DEF CommitCollides, LegacyIInv, LegacyTypeOK, True, Present
<1>6. ASSUME NEW f \in Feeds, FindWinner(f)
      PROVE  LegacyIInv'
  <2>1. PICK k \in LegacyIds, content \in Contents : k = feed[f].key /\ content = feed[f].content
    BY <1>6, <1>t, FeedKinds DEF FindWinner, Serving
  <2>2. feed' \in [Feeds -> {FeedIdle} \cup Serving] /\ UNCHANGED <<legacyRows, drops>>
    BY <1>6, <1>t DEF FindWinner, LegacyTypeOK
  <2>3. CASE Present(k)
    <3>1. PICK a \in Stored \cup Conflict : a = AckStored(k, content) /\ True(a)
      BY <2>3, <1>t, AckIsTrue
    <3>2. acks' = acks \cup {a}
      BY <1>6, <2>1, <2>3, <3>1 DEF FindWinner
    <3>. QED  BY <2>2, <3>1, <3>2 DEF LegacyIInv, LegacyTypeOK, True, Present
  <2>4. CASE ~ Present(k)
    <3>1. acks' = acks
      BY <1>6, <2>1, <2>4 DEF FindWinner
    <3>. QED  BY <2>2, <3>1 DEF LegacyIInv, LegacyTypeOK, True, Present
  <2>. QED  BY <2>3, <2>4
<1>7. ASSUME NEW f \in Feeds, DropDelivery(f)
      PROVE  LegacyIInv'
  <2>1. feed' \in [Feeds -> {FeedIdle} \cup Serving] /\ drops' \in 0..MaxDrops
    BY <1>7, <1>t, LegacyAssumption DEF DropDelivery, LegacyTypeOK
  <2>. QED  BY <1>7, <2>1 DEF DropDelivery, LegacyIInv, LegacyTypeOK, True, Present
<1>8. CASE UNCHANGED legacyVars
  BY <1>8 DEF legacyVars, LegacyIInv, LegacyTypeOK, True, Present
<1>. QED  BY <1>1, <1>2, <1>3, <1>4, <1>5, <1>6, <1>7, <1>8 DEF LegacyNext

(* The inductive invariant holds. *)
THEOREM LegacyInvariant == LegacySpec => []LegacyIInv
BY LegacyInitInv, LegacyStepInv, PTL DEF LegacySpec

(* Type correctness of the adapter. *)
THEOREM LegacyTypes == LegacySpec => []LegacyTypeOK
<1>1. LegacyIInv => LegacyTypeOK
  BY DEF LegacyIInv
<1>. QED  BY <1>1, LegacyInvariant, PTL

(* Every answer the adapter ever sent agrees with the record that is stored. *)
THEOREM LegacyAnswersAgree == LegacySpec => []AnswersMatchRecord
<1>1. LegacyIInv => AnswersMatchRecord
  BY DEF LegacyIInv, AnswersMatchRecord, True
<1>. QED  BY <1>1, LegacyInvariant, PTL

-----------------------------------------------------------------------------
(* The adapter implements the ledger. *)

ImportOf(k) ==
  [id |-> legacyRows[k].id, subject |-> "feed", key |-> k,
   payload |-> legacyRows[k].content, origin |-> "import"]

LEMMA ImportedIs ==
  /\ \A c \in Imported : \E k \in LegacyIds : Present(k) /\ c = ImportOf(k)
  /\ \A k \in LegacyIds : Present(k) => ImportOf(k) \in Imported
BY DEF Imported, ImportOf

(* A row under a free key is the creation of a claim in the ledger. *)
LEMMA RowIsCreated ==
  ASSUME LegacyTypeOK, NEW k \in LegacyIds, NEW content \in Contents,
         NEW row \in FreshRow(content), Inserted(k),
         legacyRows' = [legacyRows EXCEPT ![k] = row]
  PROVE  ImportLedger!Next
<1>1. /\ row.id \in RowIds /\ row.content = content /\ row \in LegacyRow
      /\ \A j \in LegacyIds : legacyRows[j].id # row.id
  BY FreshRowIs DEF LegacyRow
<1>2. /\ legacyRows'[k] = row
      /\ \A j \in LegacyIds : j # k => legacyRows'[j] = legacyRows[j]
  BY DEF LegacyTypeOK
<1>3. row # NoRow
  BY <1>1 DEF LegacyRow, NoRow
<1> DEFINE new == [id |-> row.id, subject |-> "feed", key |-> k,
                   payload |-> content, origin |-> "import"]
<1>4. Imported' = Imported \cup {new}
  <2>1. {j \in LegacyIds : Present(j)}' = {j \in LegacyIds : Present(j)} \cup {k}
    BY <1>2, <1>3 DEF Present
  <2>2. Imported' = {ImportOf(j)' : j \in {i \in LegacyIds : Present(i)} \cup {k}}
    BY <2>1 DEF Imported, ImportOf
  <2>3. ImportOf(k)' = new
    BY <1>1, <1>2 DEF ImportOf
  <2>4. \A j \in {i \in LegacyIds : Present(i)} : ImportOf(j)' = ImportOf(j)
    BY <1>2 DEF ImportOf, Inserted
  <2>5. Imported = {ImportOf(j) : j \in {i \in LegacyIds : Present(i)}}
    BY DEF Imported, ImportOf
  <2> HIDE DEF new
  <2>. QED  BY <2>2, <2>3, <2>4, <2>5
<1>5. ImportLedger!Bound("feed", k) = {}
  <2> SUFFICES ASSUME NEW c \in Imported, c.key = k PROVE FALSE
    BY DEF ImportLedger!Bound
  <2>1. PICK j \in LegacyIds : Present(j) /\ c = ImportOf(j)
    BY ImportedIs
  <2>. QED  BY <2>1 DEF ImportOf, Inserted
<1>6. \A c \in Imported : c.id # row.id
  BY <1>1, ImportedIs DEF ImportOf
<1>7. ImportLedger!Create("feed", k, content, "import")
  BY <1>1, <1>4, <1>5, <1>6 DEF ImportLedger!Create
<1>. QED  BY <1>7 DEF ImportLedger!Next

LEMMA LegacyStepIsLedgerStep ==
  LegacyIInv /\ [LegacyNext]_legacyVars => [ImportLedger!Next]_Imported
<1> SUFFICES ASSUME LegacyIInv, [LegacyNext]_legacyVars
             PROVE  ImportLedger!Next \/ UNCHANGED Imported
  OBVIOUS
<1>t. LegacyTypeOK
  BY DEF LegacyIInv
<1>1. ASSUME UNCHANGED legacyRows PROVE UNCHANGED Imported
  BY <1>1 DEF Imported, Present
<1>2. ASSUME NEW f \in Feeds, CommitRecord(f) \/ CommitUnanswered(f)
      PROVE  ImportLedger!Next
  <2>1. PICK k \in LegacyIds, content \in Contents : k = feed[f].key /\ content = feed[f].content
    BY <1>2, <1>t, FeedKinds DEF CommitRecord, CommitUnanswered, Serving
  <2>2. PICK row \in FreshRow(content) : legacyRows' = [legacyRows EXCEPT ![k] = row]
    BY <1>2, <2>1 DEF CommitRecord, CommitUnanswered
  <2>3. Inserted(k)
    BY <1>2, <2>1 DEF CommitRecord, CommitUnanswered
  <2>. QED  BY <2>2, <2>3, <1>t, RowIsCreated
<1>3. ASSUME NEW f \in Feeds, CommitCollides(f) \/ FindWinner(f) \/ DropDelivery(f)
      PROVE  UNCHANGED legacyRows
  BY <1>3 DEF CommitCollides, FindWinner, DropDelivery
<1>4. ASSUME NEW f \in Feeds, NEW k \in LegacyIds, NEW content \in Contents,
             DeliverKnown(f, k, content) \/ DeliverNew(f, k, content)
      PROVE  UNCHANGED legacyRows
  BY <1>4 DEF DeliverKnown, DeliverNew
<1>5. CASE UNCHANGED legacyVars
  BY <1>5, <1>1 DEF legacyVars
<1>. QED  BY <1>1, <1>2, <1>3, <1>4, <1>5 DEF LegacyNext

LEMMA LegacyInitIsLedgerInit == LegacyInit => ImportLedger!Init
BY DEF LegacyInit, ImportLedger!Init, Imported, Present

(* The adapter implements the ledger of imported records. *)
THEOREM LegacyImplementsLedger == LegacySpec => ImportLedgerSpec
BY LegacyInitIsLedgerInit, LegacyStepIsLedgerStep, LegacyInvariant, PTL
   DEF LegacySpec, ImportLedgerSpec, ImportLedger!Spec

-----------------------------------------------------------------------------
(* Documents: the inductive invariant *)

RowsHaveFiles == \A d \in documents : Content(d.id) = {d.blob}

BytesHaveOneRow ==
  \A a, b \in documents : a.blob = b.blob /\ a.filing = b.filing => a = b

(* Keys and answers name a row with the bytes and the filing they were given for. *)
Names(r) == \E d \in documents : d.id = r.doc /\ d.blob = r.blob /\ d.filing = r.filing

DocumentsIInv ==
  /\ DocumentsTypeOK
  /\ RowsHaveFiles
  /\ BytesHaveOneRow
  /\ \A r \in docKeys : Names(r)
  /\ \A a \in uploads : Names(a)

-----------------------------------------------------------------------------
LEMMA DocumentsInitInv == DocumentsInit => DocumentsIInv
BY DEF DocumentsInit, DocumentsIInv, DocumentsTypeOK, RowsHaveFiles, BytesHaveOneRow

(* The review's reasons are the indicators of the rules. *)
LEMMA ReasonsAreIndicators ==
  ASSUME NEW name, NEW blob
  PROVE  /\ Reasons(name, blob) \in SUBSET Indicators
         /\ Recommendation(Reasons(name, blob)) \in {"approve", "manual_review"}
<1>1. Reasons(name, blob) \in SUBSET Indicators
  BY DEF Reasons, Indicators
<1>2. Recommendation(Reasons(name, blob)) \in {"approve", "manual_review"}
  BY DEF Recommendation
<1>. QED  BY <1>1, <1>2

(* An answer that names a row that is there already. *)
LEMMA AnsweredWithRow ==
  ASSUME DocumentsIInv, NEW a \in Uploaded, Names(a), uploads' = uploads \cup {a},
         UNCHANGED <<files, documents, docKeys, reviews>>
  PROVE  DocumentsIInv'
<1>1. \A r : Names(r) => Names(r)'
  BY DEF Names
<1>2. DocumentsTypeOK'
  BY DEF DocumentsIInv, DocumentsTypeOK
<1>3. RowsHaveFiles' /\ BytesHaveOneRow'
  BY DEF DocumentsIInv, RowsHaveFiles, BytesHaveOneRow, Content
<1>. QED  BY <1>1, <1>2, <1>3 DEF DocumentsIInv

(* Nothing but reviews, or files of no row, change. *)
LEMMA FilesOnly ==
  ASSUME DocumentsIInv, DocumentsTypeOK', UNCHANGED <<documents, docKeys, uploads>>,
         \A d \in documents : Content(d.id)' = Content(d.id)
  PROVE  DocumentsIInv'
<1>1. \A r : Names(r) => Names(r)'
  BY DEF Names
<1>2. RowsHaveFiles' /\ BytesHaveOneRow'
  BY DEF DocumentsIInv, RowsHaveFiles, BytesHaveOneRow
<1>. QED  BY <1>1, <1>2 DEF DocumentsIInv

(* A file under a fresh id is no row's. *)
LEMMA FreshFile ==
  ASSUME DocumentsIInv, NEW i \in FreshDocIds, NEW blob \in Blobs,
         files' = files \cup {[id |-> i, blob |-> blob]}
  PROVE  /\ i \in DocIds /\ files' \subseteq File
         /\ \A d \in documents : d.id # i /\ Content(d.id)' = Content(d.id)
         /\ {f.blob : f \in {g \in files' : g.id = i}} = {blob}
<1>1. i \in DocIds /\ (\A d \in documents : d.id # i) /\ (\A f \in files : f.id # i)
  BY DEF FreshDocIds
<1>2. files' \subseteq File
  BY <1>1 DEF DocumentsIInv, DocumentsTypeOK, File
<1> DEFINE new == [id |-> i, blob |-> blob]
<1>4. {g \in files' : g.id = i} = {new}
  BY <1>1
<1>5. {f.blob : f \in {g \in files' : g.id = i}} = {blob}
  <2>1. new.blob = blob
    OBVIOUS
  <2> HIDE DEF new
  <2>2. {f.blob : f \in {new}} = {new.blob}
    OBVIOUS
  <2>. QED  BY <1>4, <2>1, <2>2
<1>6. ASSUME NEW d \in documents PROVE Content(d.id)' = Content(d.id)
  <2>1. {g \in files' : g.id = d.id} = {g \in files : g.id = d.id}
    BY <1>1
  <2>2. Content(d.id)' = {f.blob : f \in {g \in files' : g.id = d.id}}
    BY DEF Content
  <2>. QED  BY <2>1, <2>2 DEF Content
<1>. QED  BY <1>1, <1>2, <1>5, <1>6

LEMMA DocumentsStepInv == DocumentsIInv /\ [DocumentsNext]_documentsVars => DocumentsIInv'
<1> SUFFICES ASSUME DocumentsIInv, [DocumentsNext]_documentsVars
             PROVE  DocumentsIInv'
  OBVIOUS
<1>t. DocumentsTypeOK
  BY DEF DocumentsIInv
<1>1. ASSUME NEW k \in DocKeys, NEW blob \in Blobs, NEW filing \in Filings,
             ReplayUpload(k, blob, filing)
      PROVE  DocumentsIInv'
  <2>1. PICK r \in KeyRows(k) :
          IF r.blob = blob /\ r.filing = filing THEN Hand(k, blob, filing, r.doc)
          ELSE UNCHANGED uploads
    BY <1>1 DEF ReplayUpload
  <2>2. r \in docKeys /\ r \in KeyRow /\ Names(r)
    BY <2>1, <1>t DEF KeyRows, DocumentsTypeOK, DocumentsIInv
  <2>3. CASE r.blob = blob /\ r.filing = filing
    <3> DEFINE a == [key |-> k, blob |-> blob, filing |-> filing, doc |-> r.doc]
    <3>1. a \in Uploaded
      BY <2>2 DEF Uploaded, KeyRow
    <3>2. Names(a)
      BY <2>2, <2>3 DEF Names
    <3>3. uploads' = uploads \cup {a}
      BY <2>1, <2>3 DEF Hand
    <3>4. UNCHANGED <<files, documents, docKeys, reviews>>
      BY <1>1 DEF ReplayUpload
    <3> HIDE DEF a
    <3>. QED  BY <3>1, <3>2, <3>3, <3>4, AnsweredWithRow
  <2>4. CASE ~ (r.blob = blob /\ r.filing = filing)
    <3>1. UNCHANGED <<files, documents, docKeys, reviews, uploads>>
      BY <1>1, <2>1, <2>4 DEF ReplayUpload
    <3>. QED  BY <3>1, <1>t, FilesOnly DEF DocumentsTypeOK, Content
  <2>. QED  BY <2>3, <2>4
<1>2. ASSUME NEW k \in DocKeys \cup {NoDocKey}, NEW blob \in Blobs, NEW filing \in Filings,
             FindCopy(k, blob, filing)
      PROVE  DocumentsIInv'
  <2>1. PICK d \in CopiesFor(k, blob, filing) : Hand(k, blob, filing, d.id)
    BY <1>2 DEF FindCopy
  <2>2. d \in documents /\ d \in Document /\ d.blob = blob /\ d.filing = filing
    BY <2>1, <1>t DEF CopiesFor, Copies, DocumentsTypeOK
  <2> DEFINE a == [key |-> k, blob |-> blob, filing |-> filing, doc |-> d.id]
  <2>3. a \in Uploaded
    BY <2>2 DEF Uploaded, Document
  <2>4. Names(a)
    BY <2>2 DEF Names
  <2>5. uploads' = uploads \cup {a}
    BY <2>1 DEF Hand
  <2>6. UNCHANGED <<files, documents, docKeys, reviews>>
    BY <1>2 DEF FindCopy
  <2> HIDE DEF a
  <2>. QED  BY <2>3, <2>4, <2>5, <2>6, AnsweredWithRow
<1>3. ASSUME NEW k \in DocKeys \cup {NoDocKey}, NEW blob \in Blobs, NEW filing \in Filings,
             NEW name \in Filenames, StoreUpload(k, name, blob, filing)
      PROVE  DocumentsIInv'
  <2>1. PICK i \in FreshDocIds :
          /\ files' = files \cup {[id |-> i, blob |-> blob]}
          /\ documents' = documents \cup
               {[id |-> i, name |-> name, blob |-> blob, filing |-> filing]}
          /\ docKeys' = IF k = NoDocKey THEN docKeys ELSE docKeys \cup
               {[key |-> k, blob |-> blob, filing |-> filing, doc |-> i]}
          /\ Hand(k, blob, filing, i)
    BY <1>3 DEF StoreUpload
  <2>2. PICK new : new = [id |-> i, name |-> name, blob |-> blob, filing |-> filing]
    OBVIOUS
  <2>3. documents' = documents \cup {new} /\ reviews' = reviews
    BY <1>3, <2>1, <2>2 DEF StoreUpload
  <2>4. /\ i \in DocIds /\ files' \subseteq File
        /\ \A d \in documents : d.id # i /\ Content(d.id)' = Content(d.id)
        /\ {f.blob : f \in {g \in files' : g.id = i}} = {blob}
    BY <2>1, FreshFile
  <2>5. \A r : Names(r) => Names(r)'
    BY <2>3 DEF Names
  <2>6. RowsHaveFiles'
    <3>1. Content(new.id)' = {f.blob : f \in {g \in files' : g.id = i}}
      BY <2>2 DEF Content
    <3>. QED  BY <2>2, <2>3, <2>4, <3>1 DEF RowsHaveFiles, DocumentsIInv
  <2>7. BytesHaveOneRow'
    <3>1. \A d \in documents : ~ (d.blob = blob /\ d.filing = filing)
      BY <1>3 DEF StoreUpload, CopiesFor, Copies
    <3>. QED  BY <2>2, <2>3, <3>1 DEF BytesHaveOneRow, DocumentsIInv
  <2>8. DocumentsTypeOK'
    <3>1. documents' \subseteq Document
      BY <2>2, <2>3, <2>4, <1>t DEF DocumentsTypeOK, Document
    <3>2. docKeys' \subseteq KeyRow
      BY <2>1, <2>4, <1>t DEF DocumentsTypeOK, KeyRow
    <3>3. uploads' \subseteq Uploaded
      BY <2>1, <2>4, <1>t DEF DocumentsTypeOK, Uploaded, Hand
    <3>. QED  BY <2>3, <2>4, <3>1, <3>2, <3>3, <1>t DEF DocumentsTypeOK
  <2>9. ASSUME NEW r \in docKeys' \cup uploads' PROVE Names(r)'
    <3>1. CASE r \in docKeys \cup uploads
      BY <3>1, <2>5 DEF DocumentsIInv
    <3>2. CASE r.doc = i /\ r.blob = blob /\ r.filing = filing
      BY <3>2, <2>2, <2>3 DEF Names
    <3>3. r \in docKeys \cup uploads
          \/ r = [key |-> k, blob |-> blob, filing |-> filing, doc |-> i]
      BY <2>1 DEF Hand
    <3>. QED  BY <3>1, <3>2, <3>3
  <2>. QED  BY <2>6, <2>7, <2>8, <2>9 DEF DocumentsIInv
<1>4. ASSUME NEW k \in DocKeys \cup {NoDocKey}, NEW blob \in Blobs, NEW filing \in Filings,
             NEW name \in Filenames, CrashUpload(k, name, blob, filing)
      PROVE  DocumentsIInv'
  <2>1. PICK i \in FreshDocIds : /\ files' = files \cup {[id |-> i, blob |-> blob]}
                                 /\ documents' = documents
    BY <1>4 DEF CrashUpload, Leftover
  <2>2. files' \subseteq File /\ \A d \in documents : Content(d.id)' = Content(d.id)
    BY <2>1, FreshFile
  <2>3. UNCHANGED <<documents, docKeys, reviews, uploads>>
    BY <1>4, <2>1 DEF CrashUpload
  <2>4. DocumentsTypeOK'
    BY <2>2, <2>3, <1>t DEF DocumentsTypeOK
  <2>. QED  BY <2>2, <2>3, <2>4, FilesOnly
<1>5. ASSUME NEW d \in documents, CreateReview(d)
      PROVE  DocumentsIInv'
  <2>1. PICK n \in 1..MaxReviews, blob \in Content(d.id) :
          reviews' = reviews \cup
            {[id |-> n, doc |-> d.id, recommendation |-> Recommendation(Reasons(d.name, blob)),
              reasons |-> Reasons(d.name, blob), status |-> "pending"]}
    BY <1>5 DEF CreateReview
  <2>2. d.id \in DocIds
    BY <1>t DEF DocumentsTypeOK, Document
  <2>3. reviews' \subseteq Review
    BY <2>1, <2>2, <1>t, ReasonsAreIndicators DEF DocumentsTypeOK, Review
  <2>4. UNCHANGED <<files, documents, docKeys, uploads>>
    BY <1>5 DEF CreateReview
  <2>5. DocumentsTypeOK'
    BY <2>3, <2>4, <1>t DEF DocumentsTypeOK
  <2>. QED  BY <2>4, <2>5, FilesOnly DEF Content
<1>6. ASSUME NEW r \in reviews, NEW verdict \in {"approved", "rejected"}, DecideReview(r, verdict)
      PROVE  DocumentsIInv'
  <2>1. reviews' \subseteq Review
    BY <1>6, <1>t DEF DecideReview, DocumentsTypeOK, Review
  <2>2. UNCHANGED <<files, documents, docKeys, uploads>>
    BY <1>6 DEF DecideReview
  <2>3. DocumentsTypeOK'
    BY <2>1, <2>2, <1>t DEF DocumentsTypeOK
  <2>. QED  BY <2>2, <2>3, FilesOnly DEF Content
<1>7. CASE UNCHANGED documentsVars
  BY <1>7, <1>t, FilesOnly DEF documentsVars, DocumentsTypeOK, Content
<1>. QED  BY <1>1, <1>2, <1>3, <1>4, <1>5, <1>6, <1>7 DEF DocumentsNext

(* The inductive invariant holds. *)
THEOREM DocumentsInvariant == DocumentsSpec => []DocumentsIInv
BY DocumentsInitInv, DocumentsStepInv, PTL DEF DocumentsSpec

(* Type correctness of the documents. *)
THEOREM DocumentsTypes == DocumentsSpec => []DocumentsTypeOK
<1>1. DocumentsIInv => DocumentsTypeOK
  BY DEF DocumentsIInv
<1>. QED  BY <1>1, DocumentsInvariant, PTL

(* What an upload was answered with is there, row and file, and is one document for the same
   bytes in the same filing. *)
THEOREM UploadsAlwaysResolve == DocumentsSpec => []UploadsResolve
<1>1. DocumentsIInv => UploadsResolve
  <2> SUFFICES ASSUME DocumentsIInv PROVE UploadsResolve
    OBVIOUS
  <2>1. ASSUME NEW a \in uploads, NEW b \in uploads, a.blob = b.blob, a.filing = b.filing
        PROVE  a.doc = b.doc
    <3>1. PICK d \in documents : d.id = a.doc /\ d.blob = a.blob /\ d.filing = a.filing
      BY DEF DocumentsIInv, Names
    <3>2. PICK e \in documents : e.id = b.doc /\ e.blob = b.blob /\ e.filing = b.filing
      BY DEF DocumentsIInv, Names
    <3>3. d = e
      BY <2>1, <3>1, <3>2 DEF DocumentsIInv, BytesHaveOneRow
    <3>. QED  BY <3>1, <3>2, <3>3
  <2>. QED  BY <2>1 DEF UploadsResolve, DocumentsIInv, RowsHaveFiles, Names
<1>. QED  BY <1>1, DocumentsInvariant, PTL

-----------------------------------------------------------------------------
(* Documents: where an idempotency key does stand for one document *)

(* A new key is answered with bytes that are filed already (api.py:60-65). *)
KeyedCopy ==
  \E k \in DocKeys, blob \in Blobs, filing \in Filings : FindCopy(k, blob, filing)

(* Every keyed answer is recorded under its key, and a key is recorded once. *)
KeysRecorded ==
  /\ \A r, s \in docKeys : r.key = s.key => r.doc = s.doc
  /\ \A a \in uploads : a.key # NoDocKey => \E r \in docKeys : r.key = a.key /\ r.doc = a.doc

LEMMA UnkeyedCopies ==
  ASSUME NEW k \in DocKeys \cup {NoDocKey}, NEW blob \in Blobs, NEW filing \in Filings,
         FindCopy(k, blob, filing), ~ KeyedCopy
  PROVE  k = NoDocKey
BY DEF KeyedCopy

LEMMA KeysStep ==
  KeysRecorded /\ [DocumentsNext]_documentsVars /\ [~ KeyedCopy]_documentsVars => KeysRecorded'
<1> SUFFICES ASSUME KeysRecorded, [DocumentsNext]_documentsVars, [~ KeyedCopy]_documentsVars
             PROVE  KeysRecorded'
  OBVIOUS
<1>1. ASSUME UNCHANGED <<docKeys, uploads>> PROVE KeysRecorded'
  BY <1>1 DEF KeysRecorded
<1>2. ASSUME NEW k \in DocKeys, NEW blob \in Blobs, NEW filing \in Filings,
             ReplayUpload(k, blob, filing)
      PROVE  KeysRecorded'
  <2>1. PICK r \in KeyRows(k) : Hand(k, blob, filing, r.doc) \/ UNCHANGED uploads
    BY <1>2 DEF ReplayUpload
  <2>2. r \in docKeys /\ r.key = k /\ docKeys' = docKeys
    BY <1>2, <2>1 DEF KeyRows, ReplayUpload
  <2>. QED  BY <1>1, <2>1, <2>2 DEF Hand, KeysRecorded
<1>3. ASSUME NEW k \in DocKeys \cup {NoDocKey}, NEW blob \in Blobs, NEW filing \in Filings,
             FindCopy(k, blob, filing), ~ KeyedCopy
      PROVE  KeysRecorded'
  <2>1. k = NoDocKey
    BY <1>3, UnkeyedCopies
  <2>2. PICK d : Hand(k, blob, filing, d)
    BY <1>3 DEF FindCopy
  <2>3. docKeys' = docKeys
    BY <1>3 DEF FindCopy
  <2>. QED  BY <2>1, <2>2, <2>3 DEF Hand, KeysRecorded
<1>4. ASSUME NEW k \in DocKeys \cup {NoDocKey}, NEW blob \in Blobs, NEW filing \in Filings,
             NEW name \in Filenames, StoreUpload(k, name, blob, filing)
      PROVE  KeysRecorded'
  <2>1. PICK d \in FreshDocIds :
          /\ docKeys' = IF k = NoDocKey THEN docKeys ELSE docKeys \cup
               {[key |-> k, blob |-> blob, filing |-> filing, doc |-> d]}
          /\ Hand(k, blob, filing, d)
    BY <1>4 DEF StoreUpload
  <2>2. \A r \in docKeys : r.key # k
    BY <1>4 DEF StoreUpload, KeyRows
  <2>3. CASE k = NoDocKey
    BY <2>1, <2>3 DEF Hand, KeysRecorded
  <2>4. CASE k # NoDocKey
    BY <2>1, <2>2, <2>4 DEF Hand, KeysRecorded
  <2>. QED  BY <2>3, <2>4
<1>5. ASSUME NEW k \in DocKeys \cup {NoDocKey}, NEW blob \in Blobs, NEW filing \in Filings,
             NEW name \in Filenames, CrashUpload(k, name, blob, filing)
      PROVE  KeysRecorded'
  BY <1>1, <1>5 DEF CrashUpload
<1>6. ASSUME NEW d \in documents, CreateReview(d) PROVE KeysRecorded'
  BY <1>1, <1>6 DEF CreateReview
<1>7. ASSUME NEW r \in reviews, NEW verdict \in {"approved", "rejected"}, DecideReview(r, verdict)
      PROVE  KeysRecorded'
  BY <1>1, <1>7 DEF DecideReview
<1>8. CASE UNCHANGED documentsVars
  BY <1>1, <1>8 DEF documentsVars
<1>9. CASE DocumentsNext /\ ~ KeyedCopy
  BY <1>9, <1>2, <1>3, <1>4, <1>5, <1>6, <1>7 DEF DocumentsNext
<1>. QED  BY <1>8, <1>9

(* The run that refutes KeyNamesOneDocument needs a first upload under a new key whose bytes
   are filed already: api.py:60-65 answers it without recording the key.  In every behaviour
   where that does not happen an idempotency key stands for one document. *)
THEOREM RecordedKeysNameOneDocument ==
  DocumentsSpec /\ [][~ KeyedCopy]_documentsVars => []KeyNamesOneDocument
<1>1. DocumentsInit => KeysRecorded
  BY DEF DocumentsInit, KeysRecorded
<1>2. KeysRecorded => KeyNamesOneDocument
  <2> SUFFICES ASSUME KeysRecorded, NEW a \in uploads, NEW b \in uploads,
                      a.key = b.key, a.key # NoDocKey
               PROVE  a.doc = b.doc
    BY DEF KeyNamesOneDocument
  <2>1. PICK r \in docKeys : r.key = a.key /\ r.doc = a.doc
    BY DEF KeysRecorded
  <2>2. PICK s \in docKeys : s.key = b.key /\ s.doc = b.doc
    BY DEF KeysRecorded
  <2>. QED  BY <2>1, <2>2 DEF KeysRecorded
<1>. QED  BY <1>1, <1>2, KeysStep, PTL DEF DocumentsSpec
=============================================================================
