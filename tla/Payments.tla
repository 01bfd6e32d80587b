------------------------------ MODULE Payments ------------------------------
(***************************************************************************)
(* POST /v1/payments/{authorize,capture,refund} of services/payments: a    *)
(* Node server that looks an Idempotency-Key up, awaits the payment        *)
(* provider and saves the response under the key.                          *)
(*                                                                         *)
(* The server is one process: what it does between two awaits is atomic,   *)
(* and a crash takes all its requests down.  The provider is whatever      *)
(* implements PaymentProvider, not only the mock, whose promises are       *)
(* settled at once.  A response is named by the provider call it reports.  *)
(***************************************************************************)
EXTENDS Naturals

CONSTANTS
  Payers,            \* requests being served at a time
  PayKeys,           \* Idempotency-Key header values
  PayInputs,         \* valid request bodies, told apart as their hashes are
  DeclinedInputs,    \* those whose authorization the provider declines
  MaxCalls,          \* bound: provider calls that take effect
  MaxPayFaults       \* bound: provider errors and crashes

ASSUME PaymentsAssumption == MaxCalls \in Nat /\ MaxPayFaults \in Nat

VARIABLES
  saved,       \* table idempotency, by (operation, key)
  payer,       \* per request in progress: what it waits for or will save
  calls,       \* history: how many calls of the provider took effect
  receipts,    \* history: the answers sent, other than 400 and 500
  payFaults    \* counter of the bound

paymentsVars == <<saved, payer, calls, receipts, payFaults>>

-----------------------------------------------------------------------------
Operations == {"authorize", "capture", "refund"}
PayScopes == Operations \X PayKeys
PayStatuses == {"approved", "declined", "captured", "refunded"}
Response == [call: Nat, status: PayStatuses]
NotSaved == [hash |-> "none"]
SavedRow == [hash: PayInputs, response: Response]

PayIdle == [pc |-> "idle"]
Awaiting == [pc: {"await"}, scope: PayScopes, input: PayInputs]
Holding == [pc: {"save"}, scope: PayScopes, input: PayInputs, response: Response]

Success == [scope: PayScopes, input: PayInputs, code: {200, 402}, response: Response]
Refusal == [scope: PayScopes, input: PayInputs, code: {409}]

PaymentsTypeOK ==
  /\ saved \in [PayScopes -> SavedRow \cup {NotSaved}]
  /\ payer \in [Payers -> {PayIdle} \cup Awaiting \cup Holding]
  /\ calls \in 0..MaxCalls
  /\ receipts \subseteq Success \cup Refusal
  /\ payFaults \in 0..MaxPayFaults

PaymentsInit ==
  /\ saved = [s \in PayScopes |-> NotSaved]
  /\ payer = [h \in Payers |-> PayIdle]
  /\ calls = 0
  /\ receipts = {}
  /\ payFaults = 0

-----------------------------------------------------------------------------
(* store.get *)
LookupDeclined(s, input) ==   \* mutant: a declined payment is tried again
  CASE saved[s] = NotSaved -> "absent"
    [] saved[s] # NotSaved /\ saved[s].response.status = "declined" -> "absent"
    [] OTHER -> "replay"
Lookup(s, input) ==
  CASE saved[s] = NotSaved -> "absent"
    [] saved[s] # NotSaved /\ saved[s].hash = input -> "replay"
    [] OTHER -> "conflict"

Answer(a) == receipts' = receipts \cup {a}

PayConflict(h, s, input) ==
  /\ payer[h] = PayIdle
  /\ Lookup(s, input) = "conflict"
  /\ Answer([scope |-> s, input |-> input, code |-> 409])
  /\ UNCHANGED <<saved, payer, calls, payFaults>>

(* The saved response is sent as 200, a declined one too. *)
PayReplay(h, s, input) ==
  /\ payer[h] = PayIdle
  /\ Lookup(s, input) = "replay"
  /\ Answer([scope |-> s, input |-> input, code |-> 200, response |-> saved[s].response])
  /\ UNCHANGED <<saved, payer, calls, payFaults>>

PayBegin(h, s, input) ==
  /\ payer[h] = PayIdle
  /\ Lookup(s, input) = "absent"
  /\ payer' = [payer EXCEPT ![h] = [pc |-> "await", scope |-> s, input |-> input]]
  /\ UNCHANGED <<saved, calls, receipts, payFaults>>

-----------------------------------------------------------------------------
ProviderStatus(op, input) ==
  CASE op = "capture" -> "captured"
    [] op = "refund" -> "refunded"
    [] op = "authorize" /\ input \in DeclinedInputs -> "declined"
    [] OTHER -> "approved"

(* provider[operation](paymentInput) takes effect and its promise resolves. *)
ProviderResolves(h) ==
  LET me == payer[h]
      response == [call |-> calls + 1, status |-> ProviderStatus(me.scope[1], me.input)] IN
  /\ me.pc = "await"
  /\ calls < MaxCalls
  /\ calls' = calls + 1
  /\ payer' = [payer EXCEPT ![h] =
       [pc |-> "save", scope |-> me.scope, input |-> me.input, response |-> response]]
  /\ UNCHANGED <<saved, receipts, payFaults>>

(* It rejects: 500. *)
ProviderRejects(h) ==
  /\ payer[h].pc = "await"
  /\ payFaults < MaxPayFaults
  /\ payFaults' = payFaults + 1
  /\ payer' = [payer EXCEPT ![h] = PayIdle]
  /\ UNCHANGED <<saved, calls, receipts>>

Code(response) == IF response.status = "declined" THEN 402 ELSE 200

(* store.save inserts the row, and the response is sent. *)
Overwrites(s) == TRUE             \* mutant: INSERT OR REPLACE
Insertable(s) == saved[s] = NotSaved   \* the primary key (operation, idempotency_key)

SaveAndAnswer(h) ==
  LET me == payer[h] IN
  /\ me.pc = "save"
  /\ Insertable(me.scope)
  /\ saved' = [saved EXCEPT ![me.scope] = [hash |-> me.input, response |-> me.response]]
  /\ payer' = [payer EXCEPT ![h] = PayIdle]
  /\ Answer([scope |-> me.scope, input |-> me.input, code |-> Code(me.response),
             response |-> me.response])
  /\ UNCHANGED <<calls, payFaults>>

(* Another request saved the key meanwhile: the INSERT throws, 500. *)
SaveFails(h) ==
  /\ payer[h].pc = "save"
  /\ ~ Insertable(payer[h].scope)
  /\ payer' = [payer EXCEPT ![h] = PayIdle]
  /\ UNCHANGED <<saved, calls, receipts, payFaults>>

(* The process dies with all its requests; the table stays. *)
PayCrash ==
  /\ \E h \in Payers : payer[h] # PayIdle
  /\ payFaults < MaxPayFaults
  /\ payFaults' = payFaults + 1
  /\ payer' = [h \in Payers |-> PayIdle]
  /\ UNCHANGED <<saved, calls, receipts>>

PaymentsNext ==
  \/ \E h \in Payers, s \in PayScopes, input \in PayInputs :
       PayConflict(h, s, input) \/ PayReplay(h, s, input) \/ PayBegin(h, s, input)
  \/ \E h \in Payers :
       ProviderResolves(h) \/ ProviderRejects(h) \/ SaveAndAnswer(h) \/ SaveFails(h)
  \/ PayCrash

PaymentsSpec == PaymentsInit /\ [][PaymentsNext]_paymentsVars

-----------------------------------------------------------------------------
(* All successful answers to a key report one and the same provider call, made for one
   request body, however many requests with the key were served at once or died half way;
   a 409 was sent only for another body (server.ts:42-49, store.ts:18-25). *)
Succeeded(a) == a.code \in {200, 402}
StablePayments ==
  \A a, b \in receipts :
    a.scope = b.scope /\ Succeeded(a) =>
      IF Succeeded(b) THEN a.response = b.response /\ a.input = b.input
      ELSE a.input # b.input

(* Once a key was answered, no later request with it reaches the provider: money moves twice
   only where requests overlapped or the first one died (server.ts:42-47). *)
AnsweredIsNotChargedAgain ==
  [][\A h \in Payers :
       payer[h].pc = "idle" /\ payer'[h].pc = "await" =>
         \A a \in receipts : a.scope # payer'[h].scope]_paymentsVars
=============================================================================
