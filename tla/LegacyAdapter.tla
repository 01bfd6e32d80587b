--------------------------- MODULE LegacyAdapter ----------------------------
(***************************************************************************)
(* POST /legacy/claims of services/legacy-adapter: feeds of older systems  *)
(* deliver records, repeatedly and at the same time, and each (source      *)
(* system, legacy claim id) is to be stored once.                          *)
(*                                                                         *)
(* The handler reads, inserts and commits without a lock; the unique       *)
(* constraint decides between handlers, and the loser reads again.         *)
(***************************************************************************)
EXTENDS Naturals

CONSTANTS
  Feeds,          \* deliveries being served at a time
  LegacyIds,      \* (source_system, legacy_claim_id) pairs
  Contents,       \* records with that identity, told apart as their fingerprints are
  RowIds,         \* values of the column id
  MaxDrops        \* bound: handlers that die or whose database fails, answers that are lost

ASSUME LegacyAssumption == MaxDrops \in Nat

VARIABLES
  legacyRows,     \* table legacy_claim as committed
  feed,           \* per handler: the delivery it serves
  acks,           \* history: the answers sent, other than 500
  drops           \* counter of the bound

legacyVars == <<legacyRows, feed, acks, drops>>

-----------------------------------------------------------------------------
NoRow == [id |-> "none"]
LegacyRow == [id: RowIds, content: Contents]

FeedIdle == [pc |-> "idle"]
Serving == [pc: {"insert", "again"}, key: LegacyIds, content: Contents]

Stored == [key: LegacyIds, content: Contents, code: {200, 201}, id: RowIds]
Conflict == [key: LegacyIds, content: Contents, code: {409}]

LegacyTypeOK ==
  /\ legacyRows \in [LegacyIds -> LegacyRow \cup {NoRow}]
  /\ feed \in [Feeds -> {FeedIdle} \cup Serving]
  /\ acks \subseteq Stored \cup Conflict
  /\ drops \in 0..MaxDrops

LegacyInit ==
  /\ legacyRows = [k \in LegacyIds |-> NoRow]
  /\ feed = [f \in Feeds |-> FeedIdle]
  /\ acks = {}
  /\ drops = 0

-----------------------------------------------------------------------------
Present(k) == legacyRows[k] # NoRow

(* The answer to a record whose key is stored: the fingerprint of raw_payload decides. *)
AckUncompared(k, content) ==   \* mutant: whatever is stored is returned
  [key |-> k, content |-> content, code |-> 200, id |-> legacyRows[k].id]
AckStored(k, content) ==
  IF legacyRows[k].content = content
    THEN [key |-> k, content |-> content, code |-> 200, id |-> legacyRows[k].id]
    ELSE [key |-> k, content |-> content, code |-> 409]

(* The first SELECT finds the record ... *)
DeliverKnown(f, k, content) ==
  /\ feed[f] = FeedIdle
  /\ Present(k)
  /\ acks' = acks \cup {AckStored(k, content)}
  /\ UNCHANGED <<legacyRows, feed, drops>>

(* ... or it does not: the row goes into the session. *)
DeliverNew(f, k, content) ==
  /\ feed[f] = FeedIdle
  /\ ~ Present(k)
  /\ feed' = [feed EXCEPT ![f] = [pc |-> "insert", key |-> k, content |-> content]]
  /\ UNCHANGED <<legacyRows, acks, drops>>

-----------------------------------------------------------------------------
InsertedOver(k) == TRUE   \* mutant: no unique constraint, the later row is the one found
Inserted(k) == ~ Present(k)

FreshRow(content) ==
  {[id |-> i, content |-> content] :
     i \in {j \in RowIds : \A k \in LegacyIds : legacyRows[k].id # j}}

(* The commit succeeds: 201 ... *)
CommitRecord(f) ==
  LET me == feed[f] IN
  /\ me.pc = "insert"
  /\ Inserted(me.key)
  /\ \E row \in FreshRow(me.content) :
       /\ legacyRows' = [legacyRows EXCEPT ![me.key] = row]
       /\ acks' = acks \cup
            {[key |-> me.key, content |-> me.content, code |-> 201, id |-> row.id]}
  /\ feed' = [feed EXCEPT ![f] = FeedIdle]
  /\ UNCHANGED drops

(* ... unless the refresh after it fails or the process dies: stored, but not answered. *)
CommitUnanswered(f) ==
  LET me == feed[f] IN
  /\ me.pc = "insert"
  /\ Inserted(me.key)
  /\ drops < MaxDrops
  /\ drops' = drops + 1
  /\ \E row \in FreshRow(me.content) : legacyRows' = [legacyRows EXCEPT ![me.key] = row]
  /\ feed' = [feed EXCEPT ![f] = FeedIdle]
  /\ UNCHANGED acks

(* IntegrityError: rolled back. *)
CommitCollides(f) ==
  /\ feed[f].pc = "insert"
  /\ ~ Inserted(feed[f].key)
  /\ feed' = [feed EXCEPT ![f].pc = "again"]
  /\ UNCHANGED <<legacyRows, acks, drops>>

(* The second SELECT; the exception is raised on when it finds nothing. *)
FindWinner(f) ==
  LET me == feed[f] IN
  /\ me.pc = "again"
  /\ acks' = IF Present(me.key) THEN acks \cup {AckStored(me.key, me.content)} ELSE acks
  /\ feed' = [feed EXCEPT ![f] = FeedIdle]
  /\ UNCHANGED <<legacyRows, drops>>

(* The handler dies or the database fails: rolled back. *)
DropDelivery(f) ==
  /\ feed[f] # FeedIdle
  /\ drops < MaxDrops
  /\ drops' = drops + 1
  /\ feed' = [feed EXCEPT ![f] = FeedIdle]
  /\ UNCHANGED <<legacyRows, acks>>

LegacyNext ==
  \/ \E f \in Feeds, k \in LegacyIds, content \in Contents :
       DeliverKnown(f, k, content) \/ DeliverNew(f, k, content)
  \/ \E f \in Feeds :
       \/ CommitRecord(f) \/ CommitUnanswered(f) \/ CommitCollides(f)
       \/ FindWinner(f) \/ DropDelivery(f)

LegacySpec == LegacyInit /\ [][LegacyNext]_legacyVars

-----------------------------------------------------------------------------
(* README.md of the service, line 4-7: a record is stored exactly once, an identical delivery
   gets the stored one, a different one under its identity a 409; true of every answer ever
   sent, also when deliveries raced and when a committed one was never answered
   (ingestion.py:18-46). *)
AnswersMatchRecord ==
  \A a \in acks :
    /\ Present(a.key)
    /\ a.code \in {200, 201} =>
         legacyRows[a.key] = [id |-> a.id, content |-> a.content]
    /\ a.code = 409 => legacyRows[a.key].content # a.content

(* The adapter keeps the promise of ClaimLedger for imported records: an identity is bound to
   one record for ever (ingestion.py:28-46, models/claim.py:16). *)
Imported ==
  {[id |-> legacyRows[k].id, subject |-> "feed", key |-> k,
    payload |-> legacyRows[k].content, origin |-> "import"] :
     k \in {j \in LegacyIds : Present(j)}}

ImportLedger ==
  INSTANCE ClaimLedger WITH
    Subjects <- {"feed"}, Keys <- LegacyIds, Payloads <- Contents, Claims <- RowIds,
    Origins <- {"import"}, claims <- Imported

ImportLedgerSpec == ImportLedger!Spec
=============================================================================
