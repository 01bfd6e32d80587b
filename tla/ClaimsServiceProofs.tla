------------------------- MODULE ClaimsServiceProofs -------------------------
(***************************************************************************)
(* For every number of handlers, users, keys, requests and crashes, the    *)
(* Claims Service implements ClaimLedger, the ledger the Orchestrator      *)
(* module relies on; and its references are what they should be for every  *)
(* number of digits, until the sequence outgrows them.                     *)
(***************************************************************************)
EXTENDS ClaimsService, TLAPS, FiniteSetTheorems, WellFoundedInduction

-----------------------------------------------------------------------------
(* References *)

(* What the induction on exponents and on digits is: a least counterexample. *)
LEMMA LeastNatural ==
  ASSUME NEW T \in SUBSET Nat, T # {}
  PROVE  \E m \in T : \A n \in T : m <= n
<1>1. PICK m \in T : \A n \in T : <<n, m>> \notin OpToRel(<, Nat)
  BY WFMin, NatLessThanWellFounded, Zenon
<1>2. \A n \in T : ~(n < m)
  BY <1>1 DEF OpToRel
<1>. QED  BY <1>2

(* The recursive definition of Pow defines a function: its beginnings exist, they agree, and
   together they are one function on Nat. *)
Powers(n) == {f \in [0..n -> Nat] : f[0] = 1 /\ \A k \in 1..n : f[k] = Base * f[k - 1]}

(* By the least length for which there would be none. *)
LEMMA PowersExist == ASSUME NEW n \in Nat PROVE Powers(n) # {}
<1> DEFINE T == {m \in Nat : Powers(m) = {}}
<1> SUFFICES ASSUME T # {} PROVE FALSE
  OBVIOUS
<1>1. PICK m \in T : \A i \in T : m <= i
  BY LeastNatural
<1>2. CASE m = 0
  <2>1. [k \in 0..0 |-> 1] \in Powers(0)
    BY DEF Powers
  <2>. QED  BY <1>2, <2>1
<1>3. CASE m # 0
  <2>1. m - 1 \in Nat /\ m - 1 \notin T
    BY <1>1, <1>3
  <2>2. PICK f : f \in Powers(m - 1)
    BY <2>1
  <2> DEFINE g == [k \in 0..m |-> IF k = m THEN Base * f[m - 1] ELSE f[k]]
  <2>3. f \in [0..(m - 1) -> Nat] /\ f[0] = 1 /\ \A k \in 1..(m - 1) : f[k] = Base * f[k - 1]
    BY <2>2 DEF Powers
  <2>4. g \in [0..m -> Nat]
    <3>1. Base * f[m - 1] \in Nat
      BY <2>1, <2>3, ReferenceAssumption
    <3>2. \A k \in 0..m : k # m => k \in 0..(m - 1)
      OBVIOUS
    <3>. QED  BY <2>3, <3>1, <3>2
  <2>5. g[0] = 1
    BY <1>3, <2>3
  <2>6. \A k \in 1..m : g[k] = Base * g[k - 1]
    <3> SUFFICES ASSUME NEW k \in 1..m PROVE g[k] = Base * g[k - 1]
      OBVIOUS
    <3>1. k - 1 \in 0..m /\ k - 1 # m /\ g[k - 1] = f[k - 1]
      OBVIOUS
    <3>2. CASE k = m
      BY <3>1, <3>2
    <3>3. CASE k # m
      BY <2>3, <3>1, <3>3
    <3>. QED  BY <3>2, <3>3
  <2>7. g \in Powers(m)
    BY <2>4, <2>5, <2>6 DEF Powers
  <2>. QED  BY <2>7
<1>. QED  BY <1>2, <1>3

LEMMA PowersAgree ==
  ASSUME NEW m \in Nat, NEW n \in Nat, NEW f \in Powers(m), NEW g \in Powers(n),
         NEW k \in Nat, k <= m, k <= n
  PROVE  f[k] = g[k]
<1> DEFINE T == {i \in Nat : i <= m /\ i <= n /\ f[i] # g[i]}
<1> SUFFICES ASSUME T # {} PROVE FALSE
  OBVIOUS
<1>1. PICK i \in T : \A j \in T : i <= j
  BY LeastNatural
<1>2. i # 0
  BY DEF Powers
<1>3. i - 1 \in Nat /\ f[i - 1] = g[i - 1]
  BY <1>1, <1>2
<1>. QED  BY <1>2, <1>3 DEF Powers

(* Pow is the recursive function of its definition. *)
LEMMA PowIs ==
  /\ Pow[0] = 1
  /\ \A k \in Nat : Pow[k + 1] = Base * Pow[k]
<1> DEFINE of(n) == CHOOSE f \in Powers(n) : TRUE
           F == [k \in Nat |-> of(k)[k]]
<1>1. \A n \in Nat : of(n) \in Powers(n)
  BY PowersExist
<1>2. F = [k \in Nat |-> IF k = 0 THEN 1 ELSE Base * F[k - 1]]
  <2>1. ASSUME NEW k \in Nat PROVE F[k] = IF k = 0 THEN 1 ELSE Base * F[k - 1]
    <3> HIDE DEF of
    <3>1. CASE k = 0
      BY <1>1, <3>1 DEF Powers
    <3>2. CASE k # 0
      <4>1. k - 1 \in Nat /\ F[k - 1] = of(k - 1)[k - 1]
        BY <3>2
      <4>2. of(k - 1)[k - 1] = of(k)[k - 1]
        BY <1>1, <4>1, PowersAgree
      <4>3. of(k)[k] = Base * of(k)[k - 1]
        BY <1>1, <3>2 DEF Powers
      <4>. QED  BY <3>2, <4>1, <4>2, <4>3
    <3>. QED  BY <3>1, <3>2
  <2>2. F = [k \in Nat |-> F[k]]
    OBVIOUS
  <2> HIDE DEF F
  <2>. QED  BY <2>1, <2>2
<1>3. Pow = [k \in Nat |-> IF k = 0 THEN 1 ELSE Base * Pow[k - 1]]
  <2> HIDE DEF F
  <2>. QED BY <1>2, Zenon DEF Pow
<1>. QED  BY <1>3

(* A power is larger than its exponent. *)
LEMMA PowIsPositive == \A k \in Nat : Pow[k] \in Nat /\ Pow[k] > k
<1> DEFINE T == {k \in Nat : ~ (Pow[k] \in Nat /\ Pow[k] > k)}
<1> SUFFICES ASSUME T # {} PROVE FALSE
  OBVIOUS
<1>1. PICK k \in T : \A i \in T : k <= i
  BY LeastNatural
<1>2. k # 0
  BY PowIs
<1>3. k - 1 \in Nat /\ Pow[k - 1] \in Nat /\ Pow[k - 1] > k - 1
  BY <1>1, <1>2
<1>4. Pow[k] = Base * Pow[k - 1]
  BY <1>2, <1>3, PowIs
<1>5. Base \in Nat /\ Base >= 2
  BY ReferenceAssumption
<1>6. Base * Pow[k - 1] \in Nat /\ Base * Pow[k - 1] >= Pow[k - 1] + Pow[k - 1]
  BY <1>3, <1>5
<1>. QED  BY <1>3, <1>4, <1>6

(* What lpad returns has at most Digits digits, and is the number itself where that is short
   enough. *)
LEMMA LpadFits ==
  ASSUME NEW n \in Nat
  PROVE  Lpad(n) \in 0..(Pow[Digits] - 1) /\ (n < Pow[Digits] => Lpad(n) = n)
<1> DEFINE Limit == Pow[Digits]
<1>0. Base \in Nat /\ Base >= 2 /\ Digits \in Nat /\ Digits - 1 \in Nat
  BY ReferenceAssumption
<1>1. Limit \in Nat /\ Pow[Digits - 1] \in Nat /\ Limit = Base * Pow[Digits - 1] /\ Limit > 0
  BY <1>0, PowIs, PowIsPositive
<1>2. CASE n < Limit
  BY <1>1, <1>2 DEF Lpad
<1>3. CASE ~ (n < Limit)
  <2> DEFINE T == {d \in Nat : n \div Pow[d] < Limit}
  <2>1. n \in T
    <3>1. Pow[n] \in Nat /\ Pow[n] > n
      BY PowIsPositive
    <3>2. n \div Pow[n] = 0
      BY <3>1
    <3>. QED  BY <3>2, <1>1
  <2>2. PICK d \in T : \A i \in T : d <= i
    BY <2>1, LeastNatural
  <2>3. d # 0
    <3>1. n \div 1 = n
      OBVIOUS
    <3>. QED  BY <3>1, <1>3, PowIs
  <2>4. d \in 1..n
    BY <2>1, <2>2, <2>3
  <2>5. d - 1 \in Nat /\ Pow[d - 1] \in Nat /\ Pow[d - 1] > 0 /\ Pow[d] = Base * Pow[d - 1]
    BY <2>3, PowIs, PowIsPositive
  <2>6. ~ (n \div Pow[d - 1] < Limit)
    BY <2>2, <2>5
  <2> DEFINE m == n \div Pow[d]
  <2>7. m \in Nat /\ m < Limit
    BY <2>2, <2>5, <1>0
  <2>8. m >= Pow[Digits - 1]
    <3> DEFINE P == Pow[d - 1]
               L == Pow[Digits - 1]
    <3>1. n \div P >= Base * L
      BY <2>6, <1>1, <2>5
    <3>2. ASSUME NEW x \in Nat, NEW y \in Nat, NEW p \in Nat, p > 0, x \div p >= y
          PROVE  x >= y * p
      BY <3>2
    <3>3. Base * L \in Nat
      BY <1>0, <1>1
    <3>4. n >= (Base * L) * P
      BY <3>1, <3>2, <3>3, <2>5
    <3>5. (Base * L) * P = L * (Base * P)
      BY <1>0, <1>1, <2>5
    <3>6. ASSUME NEW x \in Nat, NEW y \in Nat, NEW p \in Nat, p > 0, x >= y * p
          PROVE  x \div p >= y
      BY <3>6
    <3>7. Base * P \in Nat /\ Base * P > 0
      BY <1>0, <2>5
    <3>. QED  BY <3>4, <3>5, <3>6, <3>7, <1>1, <2>5
  <2>9. \E v \in Pow[Digits - 1] .. Limit - 1 : \E dropped \in 1..n : v = n \div Pow[dropped]
    BY <2>4, <2>7, <2>8, <1>1
  <2>. QED  BY <1>1, <1>3, <2>9 DEF Lpad
<1>. QED  BY <1>2, <1>3

-----------------------------------------------------------------------------
(* Types for the proof: a reference is one the column default can give. *)
Stored == {ClaimReferenceDefault(y, n) : y \in Years, n \in Nat}
StoredClaim == [payload: Payloads, reference: Stored, serial: Nat]
Writers == [pc: {"drawn", "flushed", "committed"}, caller: Subjects, key: Keys, id: Claims,
            row: StoredClaim]
Sessions == {Idle} \cup Asking \cup Losing \cup Writers

Typed ==
  /\ claim \in [Claims -> StoredClaim \cup {Absent}]
  /\ keys \subseteq Record
  /\ serial \in Nat
  /\ year \in Years
  /\ session \in [Handlers -> Sessions]
  /\ answers \subseteq Answer

-----------------------------------------------------------------------------
(* The inductive invariant *)

RecordsUnique ==
  \A q, r \in keys : (q.subject = r.subject /\ q.key = r.key) \/ q.claim = r.claim => q = r

AnswersRecorded ==
  \A a \in answers :
    [subject |-> a.subject, key |-> a.key, fingerprint |-> a.payload, claim |-> a.claim] \in keys

TablesInv == RecordsUnique /\ KeyedClaims /\ AnswersRecorded /\ ReferencesUnique

(* What a handler in state s relies on: the winner's record after a lost   *)
(* race, an identifier of its own, a reference of its own, its own commit. *)
Uncommitted(s) == s.pc \in {"drawn", "flushed"}

Relies(h, s) ==
  /\ s.pc = "lost" => Existing(s.caller, s.key) # {}
  /\ Uncommitted(s) =>
       /\ claim[s.id] = Absent
       /\ \A g \in Handlers \ {h} : Uncommitted(session[g]) => session[g].id # s.id
  /\ s.pc = "flushed" =>
       /\ ~ Taken(s.row.reference)
       /\ \A g \in Handlers \ {h} :
            session[g].pc = "flushed" => session[g].row.reference # s.row.reference
  /\ s.pc = "committed" => RecordOf(s) \in keys

IInv == Typed /\ TablesInv /\ \A h \in Handlers : Relies(h, session[h])

LEMMA InvInit == Init => IInv
BY LimitAssumption
   DEF Init, IInv, Typed, Sessions, TablesInv, RecordsUnique, KeyedClaims, AnswersRecorded,
       ReferencesUnique, Relies, Uncommitted, Idle, Years

LEMMA WriterTyped ==
  ASSUME Typed, NEW h \in Handlers, session[h].pc \in {"drawn", "flushed", "committed"}
  PROVE  session[h] \in Writers
BY DEF Typed, Sessions, Idle, Asking, Losing

LEMMA AskingTyped ==
  ASSUME Typed, NEW h \in Handlers, session[h].pc \in {"policy", "insert"}
  PROVE  session[h] \in Asking
BY DEF Typed, Sessions, Idle, Writers, Losing

LEMMA LosingTyped ==
  ASSUME Typed, NEW h \in Handlers, session[h].pc = "lost"
  PROVE  session[h] \in Losing
BY DEF Typed, Sessions, Idle, Writers, Asking

(* A step that commits nothing: handler h goes on in state s. *)
LEMMA SessionStep ==
  ASSUME IInv, NEW h \in Handlers, NEW s \in Sessions, UNCHANGED tables,
         session' = [session EXCEPT ![h] = s],
         serial' \in Nat, year' \in Years, answers' \subseteq Answer, AnswersRecorded',
         Relies(h, s)
  PROVE  IInv'
<1>1. \A g \in Handlers : session'[g] = IF g = h THEN s ELSE session[g]
  BY DEF IInv, Typed
<1>2. Typed'
  BY DEF IInv, Typed, tables
<1>3. TablesInv'
  BY DEF IInv, TablesInv, RecordsUnique, KeyedClaims, ReferencesUnique, tables
<1>4. \A g \in Handlers : Relies(g, session[g])'
  <2>. SUFFICES ASSUME NEW g \in Handlers PROVE Relies(g, session[g])'
    OBVIOUS
  <2>1. Relies(g, session'[g])
    BY <1>1 DEF IInv
  <2>2. claim' = claim /\ keys' = keys
    BY DEF tables
  <2>3. CASE g = h
    BY <1>1, <2>1, <2>2, <2>3 DEF Relies, Uncommitted, Existing, Taken, RecordOf
  <2>4. CASE g # h
    <3>1. session'[g] = session[g] /\ session'[h] = s
      BY <1>1, <2>4
    <3>2. Uncommitted(session[g]) /\ Uncommitted(s) => s.id # session[g].id
      BY <2>4 DEF Relies
    <3>3. session[g].pc = "flushed" /\ s.pc = "flushed" =>
            s.row.reference # session[g].row.reference
      BY <2>4 DEF Relies
    <3>. QED  BY <1>1, <2>1, <2>2, <3>1, <3>2, <3>3
              DEF Relies, Uncommitted, Existing, Taken, RecordOf
  <2>. QED  BY <2>3, <2>4
<1>. QED  BY <1>2, <1>3, <1>4 DEF IInv

(* States in which a handler relies on nothing. *)
LEMMA Carefree ==
  ASSUME NEW h, NEW s, s.pc \in {"idle", "policy", "insert"}
  PROVE  Relies(h, s)
BY DEF Relies, Uncommitted

(* A second answer repeats the record it found. *)
LEMMA ExistingAnswered ==
  ASSUME IInv, NEW s \in Subjects, NEW k \in Keys, NEW p \in Payloads, AnswerExisting(s, k, p),
         UNCHANGED keys
  PROVE  answers' \subseteq Answer /\ AnswersRecorded'
<1>. DEFINE a(r) == [subject |-> s, key |-> k, payload |-> p, claim |-> r.claim]
<1>1. PICK r \in Existing(s, k) :
        answers' = IF r.fingerprint = p THEN Answered(s, k, p, r.claim) ELSE answers
  BY DEF AnswerExisting
<1>2. r \in keys /\ r \in Record /\ r.subject = s /\ r.key = k
  BY DEF Existing, IInv, Typed
<1>3. CASE r.fingerprint = p
  <2>1. answers' = answers \cup {a(r)} /\ a(r) \in Answer
    BY <1>1, <1>2, <1>3 DEF Answered, Answer, Record
  <2>2. [subject |-> s, key |-> k, fingerprint |-> p, claim |-> r.claim] = r
    BY <1>2, <1>3 DEF Record
  <2>. QED  BY <1>2, <2>1, <2>2 DEF IInv, Typed, TablesInv, AnswersRecorded
<1>4. CASE r.fingerprint # p
  BY <1>1, <1>4 DEF IInv, Typed, TablesInv, AnswersRecorded
<1>. QED  BY <1>3, <1>4

(* The commit: both rows, under an identifier, a scope and a reference that were free. *)
LEMMA CommitStep ==
  ASSUME IInv, NEW h \in Handlers, Commit(h)
  PROVE  IInv'
<1>. DEFINE me == session[h]
            rec == RecordOf(me)
            s == [me EXCEPT !.pc = "committed"]
<1>1. me \in Writers /\ me.pc = "flushed" /\ Relies(h, me)
  BY WriterTyped DEF Commit, IInv
<1>2. /\ me.id \in Claims /\ me.row \in StoredClaim /\ me.row # Absent
      /\ me.caller \in Subjects /\ me.key \in Keys
  BY <1>1 DEF Writers, StoredClaim, Absent
<1>3. rec \in Record /\ rec.claim = me.id /\ rec.fingerprint = me.row.payload
      /\ rec.subject = me.caller /\ rec.key = me.key
  BY <1>2 DEF RecordOf, Record, StoredClaim
<1>4. claim[me.id] = Absent /\ ~ Taken(me.row.reference)
  BY <1>1 DEF Relies, Uncommitted
<1>5. /\ claim' = [claim EXCEPT ![me.id] = me.row]
      /\ keys' = keys \cup {rec}
      /\ session' = [session EXCEPT ![h] = s]
      /\ UNCHANGED <<serial, year, answers>>
      /\ Existing(me.caller, me.key) = {}
  BY DEF Commit, KeyUnique
<1>6. s \in Sessions /\ s.pc = "committed" /\ RecordOf(s) = rec
  BY <1>1 DEF Sessions, Writers, RecordOf
<1>. HIDE DEF s, rec, me
<1>7. /\ \A c \in Claims : claim'[c] = IF c = me.id THEN me.row ELSE claim[c]
      /\ \A g \in Handlers : session'[g] = IF g = h THEN s ELSE session[g]
  BY <1>5 DEF IInv, Typed
<1>8. Typed'
  BY <1>2, <1>3, <1>5, <1>6 DEF IInv, Typed
<1>9. \A r \in keys : r.claim \in Claims /\ r.claim # me.id
                      /\ ~ (r.subject = rec.subject /\ r.key = rec.key)
  BY <1>3, <1>4, <1>5 DEF IInv, Typed, Record, TablesInv, KeyedClaims, Existing
<1>10. TablesInv'
  <2>1. RecordsUnique'
    BY <1>3, <1>5, <1>9 DEF IInv, TablesInv, RecordsUnique
  <2>2. KeyedClaims'
    <3>1. \A r \in keys' : claim'[r.claim] # Absent /\ claim'[r.claim].payload = r.fingerprint
      BY <1>2, <1>3, <1>5, <1>7, <1>9 DEF IInv, TablesInv, KeyedClaims
    <3>2. \A c \in Claims : claim'[c] # Absent => \E r \in keys' : r.claim = c
      BY <1>3, <1>5, <1>7 DEF IInv, TablesInv, KeyedClaims
    <3>. QED  BY <2>1, <3>1, <3>2 DEF KeyedClaims, RecordsUnique
  <2>3. AnswersRecorded'
    BY <1>5 DEF IInv, TablesInv, AnswersRecorded
  <2>4. ReferencesUnique'
    BY <1>4, <1>7 DEF IInv, TablesInv, ReferencesUnique, Taken
  <2>. QED  BY <2>1, <2>2, <2>3, <2>4 DEF TablesInv
<1>11. \A g \in Handlers : Relies(g, session[g])'
  <2>. SUFFICES ASSUME NEW g \in Handlers PROVE Relies(g, session[g])'
    OBVIOUS
  <2>1. CASE g = h
    BY <1>5, <1>6, <1>7, <2>1 DEF Relies, Uncommitted
  <2>2. CASE g # h
    <3>1. session'[g] = session[g] /\ Relies(g, session[g])
      BY <1>7, <2>2 DEF IInv
    <3>2. Uncommitted(session[g]) => session[g].id \in Claims /\ session[g].id # me.id
      <4>1. Uncommitted(session[g]) => session[g] \in Writers
        BY WriterTyped DEF IInv, Uncommitted
      <4>. QED  BY <1>1, <2>2, <3>1, <4>1 DEF Relies, Uncommitted, Writers, me
    <3>3. session[g].pc = "flushed" => session[g].row.reference # me.row.reference
      BY <1>1, <2>2, <3>1 DEF Relies, me
    <3>4. ~ Uncommitted(s) /\ s.pc # "flushed"
      BY <1>6 DEF Uncommitted
    <3>5. session[g].pc = "lost" => Existing(session[g].caller, session[g].key)' # {}
      BY <1>5, <3>1 DEF Relies, Existing
    <3>6. Uncommitted(session[g]) =>
            /\ claim'[session[g].id] = Absent
            /\ \A f \in Handlers \ {g} :
                 Uncommitted(session'[f]) => session'[f].id # session[g].id
      BY <1>7, <3>1, <3>2, <3>4 DEF Relies
    <3>7. session[g].pc = "flushed" =>
            /\ ~ Taken(session[g].row.reference)'
            /\ \A f \in Handlers \ {g} :
                 session'[f].pc = "flushed" => session'[f].row.reference # session[g].row.reference
      BY <1>7, <3>1, <3>3, <3>4 DEF Relies, Taken
    <3>8. session[g].pc = "committed" => RecordOf(session[g]) \in keys'
      BY <1>5, <3>1 DEF Relies
    <3>. QED  BY <3>1, <3>5, <3>6, <3>7, <3>8 DEF Relies, Uncommitted, RecordOf
  <2>. QED  BY <2>1, <2>2
<1>. QED  BY <1>8, <1>10, <1>11 DEF IInv

LEMMA InvNext == IInv /\ [Next]_vars => IInv'
<1> SUFFICES ASSUME IInv, [Next]_vars PROVE IInv'
  OBVIOUS
<1>1. Typed /\ TablesInv /\ \A h \in Handlers : Relies(h, session[h])
  BY DEF IInv
<1>2. Idle \in Sessions /\ \A h \in Handlers : Relies(h, Idle)
  BY Carefree DEF Idle, Sessions
<1>3. ASSUME NEW h \in Handlers, NEW s \in Subjects, NEW k \in Keys, NEW p \in Payloads,
             CreateDuplicate(h, s, k, p)
      PROVE  IInv'
  <2>1. answers' \subseteq Answer /\ AnswersRecorded'
    BY <1>3, ExistingAnswered DEF CreateDuplicate, tables
  <2>2. session' = [session EXCEPT ![h] = Idle] /\ UNCHANGED <<tables, serial, year>>
    BY <1>1, <1>3 DEF CreateDuplicate, Typed
  <2>. QED  BY <1>1, <1>2, <2>1, <2>2, SessionStep DEF Typed
<1>4. ASSUME NEW h \in Handlers, NEW s \in Subjects, NEW k \in Keys, NEW p \in Payloads,
             CreateNew(h, s, k, p)
      PROVE  IInv'
  <2>. DEFINE n == [pc |-> "policy", caller |-> s, key |-> k, payload |-> p,
                    year |-> year, attempt |-> 1]
  <2>1. n \in Sessions /\ n.pc = "policy"
    BY <1>1, AttemptAssumption DEF Typed, Sessions, Asking
  <2>2. session' = [session EXCEPT ![h] = n] /\ UNCHANGED <<tables, serial, year, answers>>
    BY <1>4 DEF CreateNew
  <2>3. AnswersRecorded'
    BY <1>1, <2>2 DEF TablesInv, AnswersRecorded, tables
  <2>4. Relies(h, n)
    BY <2>1, Carefree
  <2>. HIDE DEF n
  <2>. QED  BY <1>1, <2>1, <2>2, <2>3, <2>4, SessionStep DEF Typed
<1>5. ASSUME NEW h \in Handlers,
             PolicyActive(h) \/ PolicyRetried(h) \/ PolicyRefused(h) \/ FlushCollides(h) \/ Abort(h)
      PROVE  IInv'
  <2>1. UNCHANGED <<tables, serial, year, answers>>
    BY <1>5 DEF PolicyActive, PolicyRetried, PolicyRefused, FlushCollides, Abort
  <2>2. AnswersRecorded'
    BY <1>1, <2>1 DEF TablesInv, AnswersRecorded, tables
  <2>3. PICK s \in Sessions : /\ session' = [session EXCEPT ![h] = s]
                              /\ s.pc \in {"idle", "policy", "insert"}
    <3>1. CASE PolicyRefused(h) \/ FlushCollides(h) \/ Abort(h)
      BY <1>2, <3>1 DEF PolicyRefused, FlushCollides, Abort, Idle
    <3>2. CASE PolicyActive(h)
      <4>1. session[h] \in Asking
        BY <1>1, <3>2, AskingTyped DEF PolicyActive
      <4>2. [session[h] EXCEPT !.pc = "insert"] \in Asking
        BY <4>1 DEF Asking
      <4>. QED  BY <3>2, <4>1, <4>2 DEF PolicyActive, Sessions, Asking
    <3>3. CASE PolicyRetried(h)
      <4>1. session[h] \in Asking /\ session[h].pc = "policy" /\ session[h].attempt < MaxAttempts
        BY <1>1, <3>3, AskingTyped DEF PolicyRetried, AttemptsLeft
      <4>2. session[h].attempt + 1 \in 1..MaxAttempts
        BY <4>1, AttemptAssumption DEF Asking
      <4>3. [session[h] EXCEPT !.attempt = session[h].attempt + 1] \in Asking
        BY <4>1, <4>2 DEF Asking
      <4>. QED  BY <3>3, <4>1, <4>3 DEF PolicyRetried, NextAttempt, Sessions, Asking
    <3>. QED  BY <1>5, <3>1, <3>2, <3>3
  <2>4. Relies(h, s)
    BY <2>3, Carefree
  <2>. QED  BY <1>1, <2>1, <2>2, <2>3, <2>4, SessionStep DEF Typed
<1>6. ASSUME NEW h \in Handlers, Draw(h)
      PROVE  IInv'
  <2>. DEFINE me == session[h]
  <2>1. me \in Asking
    BY <1>1, <1>6, AskingTyped DEF Draw
  <2>2. PICK id \in Claims :
          /\ Unused(id)
          /\ session' = [session EXCEPT ![h] =
               [pc |-> "drawn", caller |-> me.caller, key |-> me.key, id |-> id,
                row |-> [payload |-> me.payload, serial |-> serial',
                         reference |-> ClaimReferenceDefault(me.year, serial')]]]
    BY <1>6 DEF Draw
  <2>. DEFINE row == [payload |-> me.payload, serial |-> serial',
                      reference |-> ClaimReferenceDefault(me.year, serial')]
              n == [pc |-> "drawn", caller |-> me.caller, key |-> me.key, id |-> id, row |-> row]
  <2>3. serial' \in Nat /\ UNCHANGED <<tables, year, answers>>
    BY <1>1, <1>6 DEF Draw, Typed
  <2>4. row \in StoredClaim
    <3>1. ClaimReferenceDefault(me.year, serial') \in Stored
      BY <2>1, <2>3 DEF Asking, Stored
    <3>. QED  BY <2>1, <2>3, <3>1 DEF Asking, StoredClaim
  <2>. HIDE DEF row
  <2>5. n \in Sessions /\ n.pc = "drawn" /\ n.id = id
    BY <2>1, <2>4 DEF Asking, Sessions, Writers
  <2>6. AnswersRecorded'
    BY <1>1, <2>3 DEF TablesInv, AnswersRecorded, tables
  <2>7. session' = [session EXCEPT ![h] = n]
    BY <2>2 DEF row
  <2>. HIDE DEF n
  <2>8. Relies(h, n)
    BY <2>2, <2>5 DEF Relies, Uncommitted, Unused
  <2>. QED  BY <1>1, <2>3, <2>5, <2>6, <2>7, <2>8, SessionStep DEF Typed
<1>7. ASSUME NEW h \in Handlers, Flush(h)
      PROVE  IInv'
  <2>. DEFINE me == session[h]
              n == [me EXCEPT !.pc = "flushed"]
  <2>1. me \in Writers /\ me.pc = "drawn" /\ Relies(h, me)
    BY <1>1, <1>7, WriterTyped DEF Flush
  <2>2. /\ n \in Sessions /\ n.pc = "flushed" /\ n.id = me.id /\ n.row = me.row
    BY <2>1 DEF Writers, Sessions
  <2>3. /\ session' = [session EXCEPT ![h] = n] /\ UNCHANGED <<tables, serial, year, answers>>
        /\ ~ Held(me.row.reference) /\ ~ Taken(me.row.reference)
    BY <1>7 DEF Flush
  <2>4. AnswersRecorded'
    BY <1>1, <2>3 DEF TablesInv, AnswersRecorded, tables
  <2>. HIDE DEF n
  <2>5. Relies(h, n)
    BY <2>1, <2>2, <2>3 DEF Relies, Uncommitted, Held
  <2>. QED  BY <1>1, <2>2, <2>3, <2>4, <2>5, SessionStep DEF Typed
<1>8. ASSUME NEW h \in Handlers, Commit(h)
      PROVE  IInv'
  BY <1>8, CommitStep
<1>9. ASSUME NEW h \in Handlers, Refresh(h)
      PROVE  IInv'
  <2>. DEFINE me == session[h]
              a == [subject |-> me.caller, key |-> me.key, payload |-> claim[me.id].payload,
                    claim |-> me.id]
  <2>1. me \in Writers /\ RecordOf(me) \in keys
    BY <1>1, <1>9, WriterTyped DEF Refresh, Relies
  <2>2. claim[me.id].payload = me.row.payload
    BY <1>1, <2>1 DEF RecordOf, TablesInv, KeyedClaims
  <2>3. /\ answers' = answers \cup {a} /\ session' = [session EXCEPT ![h] = Idle]
        /\ UNCHANGED <<tables, serial, year>>
    BY <1>9 DEF Refresh, Answered
  <2>4. a \in Answer
    BY <2>1, <2>2 DEF Writers, StoredClaim, Answer
  <2>5. AnswersRecorded'
    <3>1. [subject |-> a.subject, key |-> a.key, fingerprint |-> a.payload, claim |-> a.claim]
            = RecordOf(me)
      BY <2>2 DEF RecordOf
    <3>. HIDE DEF a
    <3>. QED  BY <1>1, <2>1, <2>3, <3>1 DEF TablesInv, AnswersRecorded, tables
  <2>. HIDE DEF a
  <2>6. answers' \subseteq Answer
    BY <1>1, <2>3, <2>4 DEF Typed
  <2>. QED  BY <1>1, <1>2, <2>3, <2>5, <2>6, SessionStep DEF Typed
<1>10. ASSUME NEW h \in Handlers, CommitLost(h)
       PROVE  IInv'
  <2>. DEFINE me == session[h]
              n == [pc |-> "lost", caller |-> me.caller, key |-> me.key,
                    payload |-> me.row.payload]
  <2>1. me \in Writers
    BY <1>1, <1>10, WriterTyped DEF CommitLost
  <2>2. n \in Sessions
    BY <2>1 DEF Writers, StoredClaim, Losing, Sessions
  <2>3. /\ session' = [session EXCEPT ![h] = n] /\ UNCHANGED <<tables, serial, year, answers>>
        /\ Existing(me.caller, me.key) # {}
    BY <1>10 DEF CommitLost, RolledBack, KeyUnique, tables
  <2>4. AnswersRecorded'
    BY <1>1, <2>3 DEF TablesInv, AnswersRecorded, tables
  <2>5. Relies(h, n)
    BY <2>3 DEF Relies, Uncommitted
  <2>. HIDE DEF n
  <2>. QED  BY <1>1, <2>2, <2>3, <2>4, <2>5, SessionStep DEF Typed
<1>11. ASSUME NEW h \in Handlers, AnswerLost(h)
       PROVE  IInv'
  <2>1. session[h].caller \in Subjects /\ session[h].key \in Keys /\ session[h].payload \in Payloads
    BY <1>1, <1>11, LosingTyped DEF AnswerLost, Losing
  <2>2. answers' \subseteq Answer /\ AnswersRecorded'
    BY <1>11, <2>1, ExistingAnswered DEF AnswerLost, tables
  <2>3. session' = [session EXCEPT ![h] = Idle] /\ UNCHANGED <<tables, serial, year>>
    BY <1>11 DEF AnswerLost
  <2>. QED  BY <1>1, <1>2, <2>2, <2>3, SessionStep DEF Typed
<1>12. CASE NewYear
  <2>1. year' \in Years
    BY <1>1, <1>12, LimitAssumption DEF NewYear, Typed, Years
  <2>. QED  BY <1>1, <1>12, <2>1
            DEF NewYear, tables, IInv, Typed, TablesInv, RecordsUnique, KeyedClaims,
                AnswersRecorded, ReferencesUnique, Relies, Uncommitted, Existing, Taken
<1>13. CASE UNCHANGED vars
  BY <1>1, <1>13
     DEF vars, tables, IInv, Typed, TablesInv, RecordsUnique, KeyedClaims,
         AnswersRecorded, ReferencesUnique, Relies, Uncommitted, Existing, Taken
<1>. QED
  BY <1>3, <1>4, <1>5, <1>6, <1>7, <1>8, <1>9, <1>10, <1>11, <1>12, <1>13
     DEF Next, Receive, Proceed

(* In every reachable state the two tables, the answers and what the handlers hold agree. *)
THEOREM InductiveInvariant == Spec => []IInv
BY InvInit, InvNext, PTL DEF Spec

-----------------------------------------------------------------------------
(* What follows from the invariant *)

(* Claims and idempotency records are committed together or not at all. *)
THEOREM ClaimsAreKeyed == Spec => []KeyedClaims
<1>1. IInv => KeyedClaims
  BY DEF IInv, TablesInv
<1>. QED  BY <1>1, InductiveInvariant, PTL

(* All answers to one user's key name one claim, stored with the request answered. *)
THEOREM AnswersAreStable == Spec => []StableAnswers
<1>1. IInv => StableAnswers
  <2>. SUFFICES ASSUME IInv PROVE StableAnswers
    OBVIOUS
  <2>1. ASSUME NEW a \in answers, NEW b \in answers, a.subject = b.subject, a.key = b.key
        PROVE  a = b
    <3>1. a \in Answer /\ b \in Answer
      BY DEF IInv, Typed
    <3>2. a.claim = b.claim /\ a.payload = b.payload
      BY <2>1 DEF IInv, TablesInv, AnswersRecorded, RecordsUnique
    <3>. QED  BY <2>1, <3>1, <3>2 DEF Answer
  <2>2. ASSUME NEW a \in answers
        PROVE  claim[a.claim] # Absent /\ claim[a.claim].payload = a.payload
    BY DEF IInv, TablesInv, AnswersRecorded, KeyedClaims
  <2>. QED  BY <2>1, <2>2 DEF StableAnswers
<1>. QED  BY <1>1, InductiveInvariant, PTL

(* The loser of a race always finds the record it lost to. *)
THEOREM LoserFindsWinner == Spec => []LostFindsWinner
<1>1. IInv => LostFindsWinner
  BY DEF IInv, Relies, LostFindsWinner
<1>. QED  BY <1>1, InductiveInvariant, PTL

(* References stay unique, although the column default repeats itself in time. *)
THEOREM ReferencesStayUnique == Spec => []ReferencesUnique
<1>1. IInv => ReferencesUnique
  BY DEF IInv, TablesInv
<1>. QED  BY <1>1, InductiveInvariant, PTL

(* A committed, drawn or flushed row: *)
LEMMA RowsTyped ==
  ASSUME IInv
  PROVE  /\ \A c \in Claims : claim[c] # Absent => claim[c] \in StoredClaim
         /\ \A h \in Handlers : Uncommitted(session[h]) =>
              session[h] \in Writers /\ session[h].row \in StoredClaim
<1>1. \A h \in Handlers : Uncommitted(session[h]) => session[h] \in Writers
  BY WriterTyped DEF IInv, Uncommitted
<1>. QED  BY <1>1 DEF IInv, Typed, Writers

(* What the column default gives is a reference: a year and a number of Digits digits. *)
LEMMA StoredAreReferences ==
  ASSUME NEW ref \in Stored
  PROVE  ref \in References /\ ref.number \in 0..(Pow[Digits] - 1)
<1>1. PICK y \in Years, n \in Nat : ref = ClaimReferenceDefault(y, n)
  BY DEF Stored
<1>2. Lpad(n) \in 0..(Pow[Digits] - 1)
  BY LpadFits
<1>3. Lpad(n) \in Nat
  BY <1>2
<1>. QED  BY <1>1, <1>2, <1>3 DEF ClaimReferenceDefault, References

(* Type correctness, with the counters, which no other invariant needs. *)
Counters == requests \in 0..MaxRequests /\ aborts \in 0..MaxAborts

LEMMA CountersNext == Counters /\ [Next]_vars => Counters'
<1> SUFFICES ASSUME Counters, [Next]_vars PROVE Counters'
  OBVIOUS
<1> USE LimitAssumption DEF Counters
<1>1. ASSUME NEW h \in Handlers, Receive(h) PROVE Counters'
  BY <1>1 DEF Receive, CreateDuplicate, CreateNew, Request
<1>2. ASSUME NEW h \in Handlers, Proceed(h) PROVE Counters'
  BY <1>2 DEF Proceed, PolicyActive, PolicyRetried, PolicyRefused, Draw, Flush, FlushCollides,
              Commit, Refresh, CommitLost, AnswerLost
<1>3. ASSUME NEW h \in Handlers, Abort(h) PROVE Counters'
  BY <1>3 DEF Abort
<1>4. CASE NewYear
  BY <1>4 DEF NewYear
<1>5. CASE UNCHANGED vars
  BY <1>5 DEF vars
<1>. QED  BY <1>1, <1>2, <1>3, <1>4, <1>5 DEF Next

(* Every variable keeps its type: in particular the truncated number of a reference is one. *)
THEOREM TypeCorrect == Spec => []TypeOK
<1>1. Init => Counters
  BY LimitAssumption DEF Init, Counters
<1>2. IInv /\ Counters => TypeOK
  <2> SUFFICES ASSUME IInv, Counters PROVE TypeOK
    OBVIOUS
  <2>1. StoredClaim \subseteq Claim
    BY StoredAreReferences DEF StoredClaim, Claim
  <2>2. Sessions \subseteq Session
    BY <2>1 DEF Sessions, Session, Writers, Writing
  <2>3. claim \in [Claims -> Claim \cup {Absent}] /\ session \in [Handlers -> Session]
    BY <2>1, <2>2 DEF IInv, Typed
  <2>. QED  BY <2>3 DEF IInv, Typed, Counters, TypeOK
<1>. QED  BY <1>1, <1>2, CountersNext, InductiveInvariant, PTL DEF Spec

-----------------------------------------------------------------------------
(* The sequence and the references *)

(* A row carries the number it drew, and its reference is made of it. *)
Stamped(r, last) == r.serial \in 1..last /\ r.reference.number = Lpad(r.serial)

(* No two rows, committed or not, drew the same number. *)
SerialInv ==
  /\ \A c \in Claims : claim[c] # Absent => Stamped(claim[c], serial)
  /\ \A h \in Handlers : Uncommitted(session[h]) =>
       /\ Stamped(session[h].row, serial)
       /\ \A c \in Claims : claim[c] # Absent => claim[c].serial # session[h].row.serial
       /\ \A g \in Handlers \ {h} :
            Uncommitted(session[g]) => session[g].row.serial # session[h].row.serial

(* A handler goes on without drawing and without a commit: it gives its number up, or keeps
   the row it has. *)
LEMMA SerialKept ==
  ASSUME IInv, SerialInv, NEW h \in Handlers, UNCHANGED <<claim, serial>>, NEW s,
         session' = [session EXCEPT ![h] = s],
         Uncommitted(s) => Uncommitted(session[h]) /\ s.row = session[h].row
  PROVE  SerialInv'
<1>1. \A g \in Handlers : session'[g] = IF g = h THEN s ELSE session[g]
  BY DEF IInv, Typed
<1>2. \A g \in Handlers : Uncommitted(session[g])' =>
        Uncommitted(session[g]) /\ session'[g].row = session[g].row
  BY <1>1 DEF Uncommitted
<1>. QED  BY <1>2 DEF SerialInv, Stamped

LEMMA SerialNext == IInv /\ SerialInv /\ [Next]_vars => SerialInv'
<1> SUFFICES ASSUME IInv, SerialInv, [Next]_vars PROVE SerialInv'
  OBVIOUS
<1>1. ASSUME NEW h \in Handlers, Receive(h) PROVE SerialInv'
  <2>1. CASE UNCHANGED <<claim, serial, session>>
    BY <2>1 DEF SerialInv, Stamped, Uncommitted
  <2>2. CASE \E s \in Subjects, k \in Keys, p \in Payloads : CreateNew(h, s, k, p)
    BY <2>2, SerialKept DEF CreateNew, Uncommitted, tables
  <2>. QED  BY <1>1, <2>1, <2>2 DEF Receive, CreateDuplicate, tables
<1>2. ASSUME NEW h \in Handlers, PolicyRefused(h) \/ FlushCollides(h) \/ Abort(h) \/ Refresh(h)
             \/ AnswerLost(h)
      PROVE  SerialInv'
  BY <1>2, SerialKept DEF PolicyRefused, FlushCollides, Abort, Refresh, AnswerLost, Uncommitted,
                          Idle, tables
<1>3. ASSUME NEW h \in Handlers, PolicyActive(h) \/ PolicyRetried(h) PROVE SerialInv'
  <2>1. session[h] \in Asking
    BY <1>3, AskingTyped DEF IInv, PolicyActive, PolicyRetried
  <2> DEFINE s == session'[h]
  <2>2. session' = [session EXCEPT ![h] = s] /\ s.pc \in {"policy", "insert"}
    BY <1>3, <2>1 DEF IInv, Typed, PolicyActive, PolicyRetried, NextAttempt, Asking
  <2>3. UNCHANGED <<claim, serial>> /\ ~ Uncommitted(s)
    BY <1>3, <2>2 DEF PolicyActive, PolicyRetried, tables, Uncommitted
  <2> HIDE DEF s
  <2>. QED  BY <2>2, <2>3, SerialKept
<1>4. ASSUME NEW h \in Handlers, Draw(h) PROVE SerialInv'
  <2>1. PICK s : /\ session' = [session EXCEPT ![h] = s]
                 /\ s.row.serial = serial' /\ s.row.reference.number = Lpad(serial')
    <3> DEFINE me == session[h]
    <3>1. PICK id \in Claims :
            session' = [session EXCEPT ![h] =
              [pc |-> "drawn", caller |-> me.caller, key |-> me.key, id |-> id,
               row |-> [payload |-> me.payload, serial |-> serial',
                        reference |-> ClaimReferenceDefault(me.year, serial')]]]
      BY <1>4 DEF Draw
    <3> DEFINE s == [pc |-> "drawn", caller |-> me.caller, key |-> me.key, id |-> id,
                     row |-> [payload |-> me.payload, serial |-> serial',
                              reference |-> ClaimReferenceDefault(me.year, serial')]]
    <3>2. s.row.serial = serial' /\ s.row.reference.number = Lpad(serial')
      BY DEF ClaimReferenceDefault
    <3>. QED  BY <3>1, <3>2
  <2>2. serial \in Nat /\ serial' = serial + 1 /\ claim' = claim
    BY <1>4 DEF Draw, IInv, Typed, tables
  <2>3. session'[h] = s /\ \A g \in Handlers \ {h} : session'[g] = session[g]
    BY <2>1 DEF IInv, Typed
  <2>4. \A r : Stamped(r, serial) => Stamped(r, serial') /\ r.serial # serial'
    BY <2>2 DEF Stamped
  <2>5. Stamped(s.row, serial')
    BY <2>1, <2>2 DEF Stamped
  <2>6. \A c \in Claims : claim[c] # Absent =>
          Stamped(claim[c], serial') /\ claim[c].serial # serial'
    BY <2>4 DEF SerialInv
  <2>7. \A g \in Handlers \ {h} : Uncommitted(session[g]) =>
          Stamped(session[g].row, serial') /\ session[g].row.serial # serial'
    BY <2>4 DEF SerialInv
  <2>8. ASSUME NEW g \in Handlers, Uncommitted(session'[g])
        PROVE  /\ Stamped(session'[g].row, serial')
               /\ \A c \in Claims : claim[c] # Absent => claim[c].serial # session'[g].row.serial
               /\ \A f \in Handlers \ {g} :
                    Uncommitted(session'[f]) => session'[f].row.serial # session'[g].row.serial
    <3>1. CASE g = h
      BY <2>1, <2>3, <2>5, <2>6, <2>7, <3>1
    <3>2. CASE g # h
      BY <2>1, <2>3, <2>7, <2>8, <3>2 DEF SerialInv
    <3>. QED  BY <3>1, <3>2
  <2>. QED  BY <2>2, <2>6, <2>8 DEF SerialInv, Uncommitted
<1>5. ASSUME NEW h \in Handlers, Flush(h) PROVE SerialInv'
  <2>1. session[h] \in Writers /\ session[h].pc = "drawn"
    BY <1>5, WriterTyped DEF IInv, Flush
  <2>2. /\ [session[h] EXCEPT !.pc = "flushed"].row = session[h].row
        /\ Uncommitted(session[h])
    BY <2>1 DEF Writers, Uncommitted
  <2>. QED  BY <1>5, <2>2, SerialKept DEF Flush, tables
<1>6. ASSUME NEW h \in Handlers, CommitLost(h) PROVE SerialInv'
  BY <1>6, SerialKept DEF CommitLost, RolledBack, Uncommitted
<1>7. ASSUME NEW h \in Handlers, Commit(h) PROVE SerialInv'
  <2> DEFINE me == session[h]
  <2>1. me \in Writers /\ Uncommitted(me)
    BY <1>7, WriterTyped DEF IInv, Commit, Uncommitted
  <2>2. /\ claim' = [claim EXCEPT ![me.id] = me.row] /\ serial' = serial
        /\ session' = [session EXCEPT ![h].pc = "committed"]
    BY <1>7 DEF Commit
  <2>3. \A c \in Claims : claim'[c] = IF c = me.id THEN me.row ELSE claim[c]
    BY <2>1, <2>2 DEF IInv, Typed
  <2>4. \A g \in Handlers \ {h} : session'[g] = session[g]
    BY <2>2 DEF IInv, Typed
  <2>5. ~ Uncommitted(session[h])'
    BY <2>1, <2>2 DEF IInv, Typed, Writers, Uncommitted
  <2>6. \A g \in Handlers : Uncommitted(session[g])' =>
          /\ g # h /\ Uncommitted(session[g]) /\ session'[g] = session[g]
          /\ session[g].row.serial # me.row.serial
    BY <2>1, <2>4, <2>5 DEF SerialInv, Uncommitted
  <2>7. Stamped(me.row, serial)
    BY <2>1 DEF SerialInv
  <2>8. \A c \in Claims : claim'[c] # Absent => Stamped(claim'[c], serial)
    BY <2>3, <2>7 DEF SerialInv
  <2>9. ASSUME NEW g \in Handlers, Uncommitted(session[g])'
        PROVE  /\ Stamped(session'[g].row, serial)
               /\ \A c \in Claims : claim'[c] # Absent => claim'[c].serial # session'[g].row.serial
               /\ \A f \in Handlers \ {g} :
                    Uncommitted(session[f])' => session'[f].row.serial # session'[g].row.serial
    BY <2>3, <2>6, <2>9 DEF SerialInv
  <2>. QED  BY <2>2, <2>8, <2>9 DEF SerialInv, Stamped
<1>8. CASE NewYear \/ UNCHANGED vars
  BY <1>8 DEF NewYear, vars, tables, SerialInv, Stamped, Uncommitted
<1>. QED  BY <1>1, <1>2, <1>3, <1>4, <1>5, <1>6, <1>7, <1>8 DEF Next, Proceed

LEMMA SerialsAreDrawnOnce == Spec => []SerialInv
<1>1. Init => SerialInv
  BY DEF Init, SerialInv, Uncommitted, Idle
<1>. QED  BY <1>1, SerialNext, InductiveInvariant, PTL DEF Spec

Fits(c) == claim[c] # Absent /\ claim[c].serial < Pow[Digits]

(* As long as the number has no more than Digits digits, a stored reference is what
   format_claim_reference makes of it: what the run ClaimsFormatted shows begins with the
   first number that is wider, and not before (models/claim.py:31-46). *)
THEOREM FormattedWhileItFits ==
  Spec => [](/\ \A c \in Claims : Fits(c) =>
                  claim[c].reference
                    = FormatClaimReference(claim[c].reference.year, claim[c].serial)
             /\ serial < Pow[Digits] => FormattedAsStored)
<1>1. ASSUME IInv, SerialInv, NEW c \in Claims, Fits(c)
      PROVE  claim[c].reference = FormatClaimReference(claim[c].reference.year, claim[c].serial)
  <2>1. claim[c].reference \in References /\ claim[c].serial \in Nat
    BY <1>1, RowsTyped, StoredAreReferences DEF StoredClaim, Fits
  <2>2. claim[c].reference.number = claim[c].serial
    BY <1>1, <2>1, LpadFits DEF SerialInv, Stamped, Fits
  <2>. QED  BY <2>1, <2>2 DEF References, FormatClaimReference
<1>2. ASSUME IInv, SerialInv, serial < Pow[Digits], NEW c \in Claims, claim[c] # Absent
      PROVE  Fits(c)
  <2>1. claim[c].serial \in Nat /\ serial \in Nat /\ Pow[Digits] \in Nat
    BY <1>2, RowsTyped, PowIsPositive, ReferenceAssumption DEF StoredClaim, IInv, Typed
  <2>2. claim[c].serial <= serial
    BY <1>2 DEF SerialInv, Stamped
  <2>. QED  BY <1>2, <2>1, <2>2 DEF Fits
<1>3. IInv /\ SerialInv =>
        /\ \A c \in Claims : Fits(c) =>
             claim[c].reference = FormatClaimReference(claim[c].reference.year, claim[c].serial)
        /\ serial < Pow[Digits] => FormattedAsStored
  BY <1>1, <1>2 DEF FormattedAsStored
<1>. QED  BY <1>3, InductiveInvariant, SerialsAreDrawnOnce, PTL

(* And as long as the sequence has not outgrown the width, no creation fails on the unique
   index of references, or waits for another transaction because of it: the 500 of
   FlushCollides belongs to an overflow only. *)
THEOREM NoCollisionWhileItFits ==
  Spec => [](serial < Pow[Digits] =>
    \A h \in Handlers : session[h].pc = "drawn" =>
      ~ Held(session[h].row.reference) /\ ~ Taken(session[h].row.reference))
<1>1. IInv /\ SerialInv /\ serial < Pow[Digits] =>
        \A h \in Handlers : session[h].pc = "drawn" =>
          ~ Held(session[h].row.reference) /\ ~ Taken(session[h].row.reference)
  <2> SUFFICES ASSUME IInv, SerialInv, serial < Pow[Digits],
                      NEW h \in Handlers, session[h].pc = "drawn"
               PROVE  ~ Held(session[h].row.reference) /\ ~ Taken(session[h].row.reference)
    OBVIOUS
  <2> DEFINE Numbered(r) == r.reference.number = r.serial
  <2>1. \A r : Stamped(r, serial) => Numbered(r)
    <3> SUFFICES ASSUME NEW r, Stamped(r, serial) PROVE Numbered(r)
      OBVIOUS
    <3>1. serial \in Nat /\ Pow[Digits] \in Nat
      BY ReferenceAssumption, PowIsPositive DEF IInv, Typed
    <3>2. r.serial \in Nat /\ r.serial < Pow[Digits]
      BY <3>1 DEF Stamped
    <3>. QED  BY <3>2, LpadFits DEF Stamped
  <2>2. Uncommitted(session[h]) /\ Numbered(session[h].row)
    BY <2>1 DEF SerialInv, Uncommitted
  <2>3. ASSUME NEW c \in Claims, claim[c] # Absent
        PROVE  claim[c].reference # session[h].row.reference
    BY <2>1, <2>2, <2>3 DEF SerialInv
  <2>4. ASSUME NEW g \in Handlers, session[g].pc = "flushed"
        PROVE  session[g].row.reference # session[h].row.reference
    <3>1. g # h /\ Uncommitted(session[g])
      BY <2>4 DEF Uncommitted
    <3>. QED  BY <2>1, <2>2, <3>1 DEF SerialInv
  <2>. QED  BY <2>3, <2>4 DEF Held, Taken
<1>. QED  BY <1>1, InductiveInvariant, SerialsAreDrawnOnce, PTL

(* What the truncation costs in the end: however many requests come, at most as many claims
   are ever stored as there are references of Digits digits in the years that passed, a million
   a year (models/claim.py:62-68). *)
THEOREM ReferencesBoundTheClaims ==
  Spec => [](Cardinality({c \in Claims : claim[c] # Absent}) <= (MaxYears + 1) * Pow[Digits])
<1> DEFINE Present == {c \in Claims : claim[c] # Absent}
           Numbers == 0..(Pow[Digits] - 1)
           name == [c \in Present |-> <<claim[c].reference.year, claim[c].reference.number>>]
<1>1. IInv => Cardinality(Present) <= (MaxYears + 1) * Pow[Digits]
  <2> SUFFICES ASSUME IInv PROVE Cardinality(Present) <= (MaxYears + 1) * Pow[Digits]
    OBVIOUS
  <2>1. Pow[Digits] \in Nat /\ Pow[Digits] > 0 /\ MaxYears \in Nat
    BY ReferenceAssumption, LimitAssumption, PowIsPositive
  <2>2. /\ IsFiniteSet(Years) /\ Cardinality(Years) = MaxYears + 1
        /\ IsFiniteSet(Numbers) /\ Cardinality(Numbers) = Pow[Digits]
    <3>1. ASSUME NEW n \in Nat
          PROVE  IsFiniteSet(0..n) /\ Cardinality(0..n) = n + 1
      <4>1. 0 \in Int /\ n \in Int
        OBVIOUS
      <4>2. /\ IsFiniteSet(0..n)
            /\ Cardinality(0..n) = IF 0 > n THEN 0 ELSE n - 0 + 1
        BY <4>1, FS_Interval
      <4>3. (IF 0 > n THEN 0 ELSE n - 0 + 1) = n + 1
        OBVIOUS
      <4>. QED  BY <4>2, <4>3
    <3>2. Pow[Digits] - 1 \in Nat /\ (Pow[Digits] - 1) + 1 = Pow[Digits]
      BY <2>1
    <3>. QED  BY <2>1, <3>1, <3>2, Zenon DEF Years
  <2> HIDE DEF Numbers
  <2>3. /\ IsFiniteSet(Years \X Numbers)
        /\ Cardinality(Years \X Numbers) = (MaxYears + 1) * Pow[Digits]
    BY <2>2, FS_Product
  <2>4. \A c \in Present : /\ claim[c].reference \in References
                           /\ claim[c].reference.number \in Numbers
    BY RowsTyped, StoredAreReferences DEF StoredClaim, Numbers
  <2>5. name \in [Present -> Years \X Numbers]
    BY <2>4 DEF References
  <2>6. ASSUME NEW c \in Present, NEW d \in Present, name[c] = name[d]
        PROVE  c = d
    <3>1. claim[c].reference = claim[d].reference
      BY <2>4, <2>6 DEF References
    <3>. QED  BY <3>1 DEF IInv, TablesInv, ReferencesUnique
  <2>7. name \in Injection(Present, Years \X Numbers)
    <3> HIDE DEF name
    <3>. QED  BY <2>5, <2>6 DEF Injection, IsInjective
  <2>. QED  BY <2>3, <2>7, FS_Injection
<1>. QED  BY <1>1, InductiveInvariant, PTL

-----------------------------------------------------------------------------
(* The refinement *)

LEMMA LedgerInit == Init => Ledger!Init
BY DEF Init, Ledger!Init, LedgerClaims

(* A commit is the ledger's creation of a claim. *)
LEMMA CommitCreates ==
  ASSUME IInv, NEW h \in Handlers, Commit(h)
  PROVE  Ledger!Next
<1>. DEFINE me == session[h]
            p  == me.row.payload
            Entry(r, c) == [id |-> r.claim, subject |-> r.subject, key |-> r.key,
                            payload |-> c[r.claim].payload, origin |-> "post"]
            new == [id |-> me.id, subject |-> me.caller, key |-> me.key, payload |-> p,
                    origin |-> "post"]
<1>1. me \in Writers
  BY WriterTyped DEF Commit, IInv
<1>2. me.id \in Claims /\ me.caller \in Subjects /\ me.key \in Keys /\ p \in Payloads
  BY <1>1 DEF Writers, StoredClaim
<1>3. /\ claim' = [claim EXCEPT ![me.id] = me.row]
      /\ keys' = keys \cup {RecordOf(me)}
      /\ Existing(me.caller, me.key) = {}
  BY DEF Commit, KeyUnique
<1>4. claim[me.id] = Absent
  BY DEF IInv, Relies, Uncommitted, Commit
<1>5. \A r \in keys : r.claim # me.id /\ r.claim \in Claims
  BY <1>4 DEF IInv, Typed, Record, TablesInv, KeyedClaims
<1>6. \A c \in Claims : claim'[c] = IF c = me.id THEN me.row ELSE claim[c]
  BY <1>3 DEF IInv, Typed
<1>7. \A r \in keys : Entry(r, claim') = Entry(r, claim)
  BY <1>5, <1>6
<1>8. Entry(RecordOf(me), claim') = new
  BY <1>2, <1>6 DEF RecordOf
<1>9. LedgerClaims = {Entry(r, claim) : r \in keys}
      /\ LedgerClaims' = {Entry(r, claim') : r \in keys'}
  BY DEF LedgerClaims
<1>10. \A e \in LedgerClaims : e.id # me.id /\ ~ (e.subject = me.caller /\ e.key = me.key)
  BY <1>3, <1>5, <1>9 DEF Existing
<1>. HIDE DEF Entry
<1>11. LedgerClaims' = LedgerClaims \cup {new}
  BY <1>3, <1>7, <1>8, <1>9
<1>12. Ledger!Create(me.caller, me.key, p, "post")
  <2>1. Ledger!Bound(me.caller, me.key) = {}
    BY <1>10 DEF Ledger!Bound
  <2>. QED  BY <1>2, <1>10, <1>11, <2>1 DEF Ledger!Create
<1>. QED  BY <1>2, <1>12 DEF Ledger!Next

(* No other step changes what the ledger holds. *)
LEMMA LedgerNext == IInv /\ [Next]_vars => [Ledger!Next]_LedgerClaims
<1> SUFFICES ASSUME IInv, [Next]_vars PROVE [Ledger!Next]_LedgerClaims
  OBVIOUS
<1>1. ASSUME NEW h \in Handlers, Commit(h)
      PROVE  Ledger!Next
  BY <1>1, CommitCreates
<1>2. CASE UNCHANGED tables
  BY <1>2 DEF tables, LedgerClaims
<1>3. UNCHANGED tables \/ \E h \in Handlers : Commit(h)
  BY DEF Next, Receive, Proceed, vars, tables, CreateDuplicate, CreateNew, PolicyActive,
         PolicyRetried, PolicyRefused, Draw, Flush, FlushCollides, Refresh, CommitLost,
         RolledBack, AnswerLost, Abort, NewYear
<1>. QED  BY <1>1, <1>2, <1>3

(* The Claims Service implements the ledger: whatever requests race, are repeated, time out
   or die, its committed tables change only by the creation of a claim under a free scope. *)
THEOREM ImplementsLedger == Spec => LedgerSpec
BY LedgerInit, LedgerNext, InductiveInvariant, PTL DEF Spec, LedgerSpec, Ledger!Spec
=============================================================================
