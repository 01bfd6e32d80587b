-------------------------- MODULE LifecyclesProofs --------------------------
(***************************************************************************)
(* What holds of policies and claims for every number of them, of handlers *)
(* and of requests: under concurrency the audit trail stays tied to the    *)
(* tables and every claim to a policy that was active; without concurrency *)
(* the lifecycles are respected.                                           *)
(***************************************************************************)
EXTENDS Lifecycles, TLAPS

(* The inductive invariant: what a handler has read is a status the records lead to, the change
   it is about to commit was legal when it read it, and the policy it has checked has a
   record of having become active; ... *)
SessionsInv ==
  \A h \in Handlers :
    /\ session[h].pc = "save" =>
         /\ status[session[h].item] # Missing
         /\ session[h].new \in Transitions(session[h].item)[session[h].old]
         /\ session[h].old \in StatusesOf(session[h].item)
         /\ session[h].created <= requests
         /\ Witnessed(session[h].item, session[h].old)
    /\ session[h].pc = "file" => WasActive(session[h].policy)

(* ... and the status is what the record committed last says, which is one with the latest
   begun; no record was committed before its transaction began. *)
LastInv ==
  \A i \in Items :
    /\ status[i] = Missing => trail[i] = {}
    /\ trail[i] = {} => status[i] \in {Missing, Initial(i)}
    /\ trail[i] # {} =>
         \E c \in trail[i] : c.new = status[i] /\ \A q \in trail[i] : q.begun <= c.begun
    /\ \A r \in trail[i] : r.created <= r.begun /\ r.begun <= requests

LifecyclesIInv == LifecyclesTypeOK /\ LastInv /\ TrailIsRooted /\ CoverWasActive /\ SessionsInv

LEMMA KnownStatuses ==
  ASSUME NEW i \in Items
  PROVE  /\ Initial(i) \in StatusesOf(i)
         /\ StatusesOf(i) \subseteq Statuses
         /\ Missing \notin Statuses
         /\ \A s \in StatusesOf(i) : Transitions(i)[s] \subseteq StatusesOf(i)
BY DEF Initial, StatusesOf, Statuses, Transitions, ClaimTransitions, PolicyTransitions, Missing

LEMMA InitialStatuses ==
  /\ \A p \in Policies : Initial(p) = "draft" /\ "draft" \in StatusesOf(p)
  /\ \A c \in Claims : Initial(c) = "submitted" /\ "submitted" \in StatusesOf(c)
  /\ \A p \in Policies : p \notin Claims
BY ItemsAssumption DEF Initial, StatusesOf, Transitions, ClaimTransitions, PolicyTransitions

LEMMA LifecyclesInitInv == LifecyclesInit => LifecyclesIInv
BY BoundsAssumption
   DEF LifecyclesInit, LifecyclesIInv, LifecyclesTypeOK, LastInv, TrailIsRooted, CoverWasActive,
       SessionsInv, Idle, Items

LEMMA SessionTyped ==
  ASSUME LifecyclesTypeOK, NEW h \in Handlers
  PROVE  /\ session[h].pc = "save" => session[h] \in Saving
         /\ session[h].pc = "file" => session[h] \in Filing
BY DEF LifecyclesTypeOK, Idle, Filing, Saving

(* A step of a handler that writes no table. *)
LEMMA QuietStep ==
  ASSUME LifecyclesIInv, LifecyclesTypeOK', UNCHANGED <<status, cover, trail>>,
         requests <= requests',
         \A h \in Handlers :
           \/ session'[h] = session[h]
           \/ session'[h] = Idle
           \/ /\ session'[h].pc = "save"
              /\ status[session'[h].item] # Missing
              /\ session'[h].new \in Transitions(session'[h].item)[session'[h].old]
              /\ session'[h].old \in StatusesOf(session'[h].item)
              /\ session'[h].created <= requests'
              /\ Witnessed(session'[h].item, session'[h].old)
           \/ session'[h].pc = "file" /\ WasActive(session'[h].policy)
  PROVE  LifecyclesIInv'
<1>. USE DEF LifecyclesIInv
<1>1. TrailIsRooted' /\ CoverWasActive'
  BY DEF TrailIsRooted, CoverWasActive, WasActive, Witnessed, Closed
<1>2. requests \in Nat /\ requests' \in Nat
  BY DEF LifecyclesTypeOK
<1>3. LastInv'
  <2>. SUFFICES ASSUME NEW i \in Items, NEW r \in trail[i]
                PROVE  r.begun <= requests'
    BY DEF LastInv
  <2>. QED  BY <1>2 DEF LastInv, LifecyclesTypeOK, Record
<1>4. SessionsInv'
  <2>1. \A h \in Handlers : session[h].pc = "save" => session[h].created <= requests'
    BY <1>2, SessionTyped DEF SessionsInv, Saving
  <2>2. \A i, s : Witnessed(i, s) <=> (Witnessed(i, s))'
    BY DEF Witnessed, Closed
  <2>. QED  BY <2>1, <2>2 DEF SessionsInv, WasActive, Idle
<1>. QED  BY <1>1, <1>3, <1>4

(* A set of statuses the records do not lead out of holds the statuses they lead to. *)
LEMMA StatusWitnessed ==
  ASSUME LifecyclesIInv, NEW i \in Items, status[i] # Missing
  PROVE  Witnessed(i, status[i])
BY DEF LifecyclesIInv, TrailIsRooted

(* Records are only added, so what was witnessed stays so. *)
LEMMA WitnessedStays ==
  ASSUME NEW i, trail[i] \subseteq trail'[i], NEW s, Witnessed(i, s)
  PROVE  Witnessed(i, s)'
BY DEF Witnessed, Closed

(* A status other than the initial one that the records lead to is the new one of a record. *)
LEMMA WitnessedIsRecorded ==
  ASSUME NEW i \in Items, NEW s, Witnessed(i, s), s # Initial(i),
         \A r \in trail[i] : r.new \in Transitions(i)[r.old]
  PROVE  \E r \in trail[i] : r.new = s
<1>. SUFFICES ASSUME \A r \in trail[i] : r.new # s
              PROVE  FALSE
  OBVIOUS
<1>. DEFINE T == StatusesOf(i) \ {s}
<1>1. Initial(i) \in T
  BY KnownStatuses
<1>2. \A r \in trail[i] : r.old \in T => r.new \in T
  BY KnownStatuses
<1>3. T \in Closed(i)
  BY <1>1, <1>2 DEF Closed
<1>. QED  BY <1>3 DEF Witnessed

(* A row is inserted: no record and no handler refers to it. *)
LEMMA InsertStep ==
  ASSUME LifecyclesIInv, NEW i \in Items, status[i] = Missing,
         status' = [status EXCEPT ![i] = Initial(i)], trail' = trail, requests' = requests
  PROVE  /\ LastInv' /\ TrailIsRooted'
         /\ \A j \in Items : status'[j] \in StatusesOf(j) \cup {Missing}
         /\ \A j \in Items : status[j] # Missing => status'[j] # Missing
         /\ \A j, s : Witnessed(j, s) => (Witnessed(j, s))'
<1>1. \A j \in Items : status'[j] = IF j = i THEN Initial(i) ELSE status[j]
  BY DEF LifecyclesIInv, LifecyclesTypeOK
<1>2. trail[i] = {} /\ Initial(i) \in StatusesOf(i) /\ Initial(i) # Missing
  BY KnownStatuses DEF LifecyclesIInv, LastInv
<1>3. LastInv'
  BY <1>1, <1>2 DEF LifecyclesIInv, LastInv
<1>4. \A j, s : Witnessed(j, s) => (Witnessed(j, s))'
  BY DEF Witnessed, Closed
<1>5. Witnessed(i, Initial(i))'
  BY DEF Witnessed, Closed
<1>6. TrailIsRooted'
  BY <1>1, <1>4, <1>5 DEF LifecyclesIInv, TrailIsRooted
<1>. QED  BY <1>1, <1>2, <1>3, <1>4, <1>6 DEF LifecyclesIInv, LifecyclesTypeOK

LEMMA LifecyclesNextInv == LifecyclesIInv /\ [LifecyclesNext]_lifecyclesVars => LifecyclesIInv'
<1> SUFFICES ASSUME LifecyclesIInv, [LifecyclesNext]_lifecyclesVars PROVE LifecyclesIInv'
  OBVIOUS
<1>. USE DEF LifecyclesIInv
<1>1. ASSUME NEW p \in Policies, CreatePolicy(p)
      PROVE  LifecyclesIInv'
  <2>1. p \in Items /\ status[p] = Missing /\ Initial(p) = "draft"
    BY <1>1, InitialStatuses DEF CreatePolicy, Items
  <2>2. /\ status' = [status EXCEPT ![p] = Initial(p)]
        /\ UNCHANGED <<cover, trail, session, requests, aborts>>
    BY <1>1, <2>1 DEF CreatePolicy
  <2>3. /\ LastInv' /\ TrailIsRooted'
        /\ \A j \in Items : status'[j] \in StatusesOf(j) \cup {Missing}
        /\ \A j \in Items : status[j] # Missing => status'[j] # Missing
        /\ \A j, s : Witnessed(j, s) => (Witnessed(j, s))'
    BY <2>1, <2>2, InsertStep
  <2>4. Initial(p) \in Statuses
    BY <2>1, KnownStatuses
  <2>5. LifecyclesTypeOK'
    BY <2>2, <2>3, <2>4 DEF LifecyclesTypeOK
  <2>6. CoverWasActive'
    <3>1. \A c \in Claims : status'[c] = status[c]
      BY <2>2, InitialStatuses DEF LifecyclesTypeOK, Items
    <3>. QED  BY <2>2, <3>1 DEF CoverWasActive, WasActive
  <2>7. SessionsInv'
    <3>1. \A h \in Handlers : session[h].pc = "save" => session[h].item \in Items
      BY SessionTyped DEF Saving
    <3>. QED  BY <2>2, <2>3, <3>1 DEF SessionsInv, WasActive
  <2>. QED  BY <2>3, <2>5, <2>6, <2>7
<1>2. ASSUME NEW h \in Handlers, NEW p \in Policies, CheckPolicy(h, p)
      PROVE  LifecyclesIInv'
  <2>. DEFINE s == [pc |-> "file", policy |-> p]
  <2>1. /\ status[p] = "active" /\ session' = [session EXCEPT ![h] = s]
        /\ UNCHANGED <<status, cover, trail, aborts>>
    BY <1>2 DEF CheckPolicy, PolicyActive
  <2>2. s \in Filing
    BY DEF Filing
  <2>3. LifecyclesTypeOK'
    BY <1>2, <2>1, <2>2, BoundsAssumption DEF CheckPolicy, Request, LifecyclesTypeOK
  <2>4. \A g \in Handlers : session'[g] = IF g = h THEN s ELSE session[g]
    BY <2>1 DEF LifecyclesTypeOK
  <2>5. WasActive(p)
    <3>1. p \in Items /\ Initial(p) # "active" /\ status[p] # Missing
      BY <2>1, InitialStatuses DEF Items, Missing
    <3>2. Witnessed(p, "active")
      BY <2>1, <3>1, StatusWitnessed
    <3>. QED  BY <3>1, <3>2, WitnessedIsRecorded DEF WasActive, TrailIsRooted
  <2>6. requests <= requests'
    BY <1>2 DEF CheckPolicy, Request, LifecyclesTypeOK
  <2>. QED  BY <2>1, <2>3, <2>4, <2>5, <2>6, QuietStep
<1>3. ASSUME NEW h \in Handlers, NEW p \in Policies, RefuseClaim(h, p)
      PROVE  LifecyclesIInv'
  <2>1. LifecyclesTypeOK'
    BY <1>3, BoundsAssumption DEF RefuseClaim, Request, LifecyclesTypeOK
  <2>2. requests <= requests'
    BY <1>3 DEF RefuseClaim, Request, LifecyclesTypeOK
  <2>. QED  BY <1>3, <2>1, <2>2, QuietStep DEF RefuseClaim
<1>4. ASSUME NEW h \in Handlers, FileClaim(h)
      PROVE  LifecyclesIInv'
  <2>. DEFINE q == session[h].policy
  <2>1. session[h] \in Filing /\ session[h].pc = "file" /\ q \in Policies
    BY <1>4, SessionTyped DEF FileClaim, Filing
  <2>2. WasActive(q)
    BY <2>1 DEF SessionsInv
  <2>3. PICK c \in Claims :
          /\ status[c] = Missing
          /\ status' = [status EXCEPT ![c] = Initial(c)]
          /\ cover' = [cover EXCEPT ![c] = q]
    BY <1>4, InitialStatuses DEF FileClaim
  <2>4. session' = [session EXCEPT ![h] = Idle] /\ UNCHANGED <<trail, requests, aborts>>
    BY <1>4 DEF FileClaim
  <2>5. c \in Items /\ q \in Items
    BY <2>1 DEF Items
  <2>6. /\ LastInv' /\ TrailIsRooted'
        /\ \A j \in Items : status'[j] \in StatusesOf(j) \cup {Missing}
        /\ \A j \in Items : status[j] # Missing => status'[j] # Missing
        /\ \A j, s : Witnessed(j, s) => (Witnessed(j, s))'
    BY <2>3, <2>4, <2>5, InsertStep
  <2>7. Initial(c) \in Statuses
    BY <2>5, KnownStatuses
  <2>8. LifecyclesTypeOK'
    BY <2>1, <2>3, <2>4, <2>6, <2>7 DEF LifecyclesTypeOK
  <2>9. CoverWasActive'
    BY <2>1, <2>2, <2>3, <2>4 DEF CoverWasActive, WasActive, LifecyclesTypeOK, Items
  <2>10. SessionsInv'
    <3>1. \A g \in Handlers : session'[g] = IF g = h THEN Idle ELSE session[g]
      BY <2>4 DEF LifecyclesTypeOK
    <3>2. \A g \in Handlers : session[g].pc = "save" => session[g].item \in Items
      BY SessionTyped DEF Saving
    <3>. QED  BY <2>4, <2>6, <3>1, <3>2 DEF SessionsInv, WasActive, Idle
  <2>. QED  BY <2>6, <2>8, <2>9, <2>10
<1>5. ASSUME NEW h \in Handlers, NEW i \in Items, NEW target \in StatusesOf(i), Read(h, i, target)
      PROVE  LifecyclesIInv'
  <2>. DEFINE s == [pc |-> "save", item |-> i, old |-> status[i], new |-> target,
                     created |-> requests']
  <2>1. /\ status[i] # Missing /\ target \in Transitions(i)[status[i]]
        /\ session' = [session EXCEPT ![h] = s]
        /\ UNCHANGED <<status, cover, trail, aborts>>
    BY <1>5 DEF Read, IsValidStatusTransition
  <2>6. requests' \in Nat /\ requests <= requests'
    BY <1>5 DEF Read, Request, LifecyclesTypeOK
  <2>2. status[i] \in StatusesOf(i) /\ s \in Saving
    BY <2>1, <2>6, KnownStatuses DEF LifecyclesTypeOK, Saving
  <2>3. LifecyclesTypeOK'
    BY <1>5, <2>1, <2>2, BoundsAssumption DEF Read, Request, LifecyclesTypeOK
  <2>4. Witnessed(i, status[i])
    BY <2>1, StatusWitnessed
  <2>5. \A g \in Handlers : session'[g] = IF g = h THEN s ELSE session[g]
    BY <2>1 DEF LifecyclesTypeOK
  <2>. QED  BY <2>1, <2>2, <2>3, <2>4, <2>5, <2>6, QuietStep
<1>6. ASSUME NEW h \in Handlers, NEW i \in Items, NEW target \in StatusesOf(i), Refuse(h, i, target)
      PROVE  LifecyclesIInv'
  <2>1. LifecyclesTypeOK'
    BY <1>6, BoundsAssumption DEF Refuse, Request, LifecyclesTypeOK
  <2>2. requests <= requests'
    BY <1>6 DEF Refuse, Request, LifecyclesTypeOK
  <2>. QED  BY <1>6, <2>1, <2>2, QuietStep DEF Refuse
<1>7. ASSUME NEW h \in Handlers, Save(h)
      PROVE  LifecyclesIInv'
  <2>. DEFINE me == session[h]
  <2>1. me \in Saving /\ me.pc = "save" /\ requests \in Nat
    BY <1>7, SessionTyped DEF Save, LifecyclesTypeOK
  <2>2. PICK i \in Items, r \in Record :
          /\ i = me.item /\ r = RecordOf(me)
          /\ r.old = me.old /\ r.new = me.new /\ r.created = me.created /\ r.begun = requests
    <3>1. me.item \in Items /\ RecordOf(me) \in Record
      BY <2>1 DEF Saving, Record, RecordOf
    <3>2. /\ RecordOf(me).old = me.old /\ RecordOf(me).new = me.new
          /\ RecordOf(me).created = me.created /\ RecordOf(me).begun = requests
      BY DEF RecordOf
    <3>. QED  BY <3>1, <3>2
  <2>3. /\ status[i] # Missing /\ r.new \in Transitions(i)[r.old]
        /\ r.old \in StatusesOf(i) /\ Witnessed(i, r.old) /\ r.created <= requests
    BY <2>1, <2>2 DEF SessionsInv
  <2>4. /\ status' = [status EXCEPT ![i] = r.new]
        /\ trail' = [trail EXCEPT ![i] = trail[i] \cup {r}]
        /\ session' = [session EXCEPT ![h] = Idle]
        /\ UNCHANGED <<cover, requests, aborts>>
    BY <1>7, <2>2 DEF Save
  <2>5. r.new \in StatusesOf(i) /\ r.new # Missing /\ r.new \in Statuses
    BY <2>2, <2>3, KnownStatuses
  <2>6. /\ status'[i] = r.new
        /\ trail'[i] = trail[i] \cup {r}
        /\ \A j \in Items \ {i} : status'[j] = status[j] /\ trail'[j] = trail[j]
        /\ \A g \in Handlers : session'[g] = IF g = h THEN Idle ELSE session[g]
    BY <2>2, <2>4 DEF LifecyclesTypeOK
  <2>7. LifecyclesTypeOK'
    BY <2>2, <2>4, <2>5, <2>6 DEF LifecyclesTypeOK
  <2>9. LastInv'
    <3>1. \A q \in trail'[i] : q.created <= q.begun /\ q.begun <= requests
      BY <2>1, <2>2, <2>3, <2>6 DEF LastInv
    <3>2. \E c \in trail'[i] : c.new = status'[i] /\ \A q \in trail'[i] : q.begun <= c.begun
      BY <2>2, <2>6, <3>1
    <3>3. requests' = requests /\ status'[i] # Missing /\ trail'[i] # {}
      BY <2>4, <2>5, <2>6
    <3>4. ASSUME NEW j \in Items
          PROVE  /\ status'[j] = Missing => trail'[j] = {}
                 /\ trail'[j] = {} => status'[j] \in {Missing, Initial(j)}
                 /\ trail'[j] # {} =>
                      \E c \in trail'[j] : /\ c.new = status'[j]
                                          /\ \A q \in trail'[j] : q.begun <= c.begun
                 /\ \A q \in trail'[j] : q.created <= q.begun /\ q.begun <= requests'
      <4>1. CASE j = i
        BY <3>1, <3>2, <3>3, <4>1
      <4>2. CASE j # i
        BY <2>6, <3>3, <4>2 DEF LastInv
      <4>. QED  BY <4>1, <4>2
    <3>. QED  BY <3>4 DEF LastInv
  <2>10. \A j \in Items : trail[j] \subseteq trail'[j]
    BY <2>6
  <2>11. \A j \in Items : \A s : Witnessed(j, s) => Witnessed(j, s)'
    BY <2>10, WitnessedStays
  <2>12. TrailIsRooted'
    <3>1. Witnessed(i, r.old)'
      BY <2>2, <2>3, <2>11
    <3>2. Witnessed(i, r.new)'
      BY <2>6, <3>1 DEF Witnessed, Closed
    <3>3. ASSUME NEW j \in Items
          PROVE  /\ \A q \in trail'[j] :
                      q.new \in Transitions(j)[q.old] /\ Witnessed(j, q.old)'
                 /\ status'[j] # Missing => (Witnessed(j, status[j]))'
      <4>1. \A q \in trail[j] : q.new \in Transitions(j)[q.old] /\ Witnessed(j, q.old)'
        BY <2>11 DEF TrailIsRooted
      <4>2. CASE j = i
        BY <2>3, <2>6, <3>1, <3>2, <4>1, <4>2
      <4>3. CASE j # i
        BY <2>6, <2>11, <4>1, <4>3 DEF TrailIsRooted
      <4>. QED  BY <4>2, <4>3
    <3>. QED  BY <3>3 DEF TrailIsRooted
  <2>13. \A p \in Policies : WasActive(p) => WasActive(p)'
    BY <2>10 DEF WasActive, Items
  <2>14. CoverWasActive'
    <3>1. \A c \in Claims : status'[c] # Missing => status[c] # Missing
      BY <2>2, <2>3, <2>6 DEF Items
    <3>. QED  BY <2>4, <2>13, <3>1 DEF CoverWasActive, LifecyclesTypeOK
  <2>15. SessionsInv'
    <3>. SUFFICES ASSUME NEW g \in Handlers
                  PROVE  /\ session'[g].pc = "save" =>
                              /\ status'[session'[g].item] # Missing
                              /\ session'[g].new \in Transitions(session'[g].item)[session'[g].old]
                              /\ session'[g].old \in StatusesOf(session'[g].item)
                              /\ session'[g].created <= requests'
                              /\ Witnessed(session[g].item, session[g].old)'
                         /\ session'[g].pc = "file" => WasActive(session[g].policy)'
      BY DEF SessionsInv
    <3>1. CASE g = h
      BY <2>6, <3>1 DEF Idle
    <3>2. CASE g # h
      <4>1. session'[g] = session[g] /\ requests' = requests
        BY <2>4, <2>6, <3>2
      <4>2. CASE session[g].pc = "save"
        <5>1. session[g].item \in Items
          BY <4>2, SessionTyped DEF Saving
        <5>2. status'[session[g].item] # Missing
          BY <2>2, <2>5, <2>6, <4>2, <5>1 DEF SessionsInv
        <5>. QED  BY <2>11, <4>1, <4>2, <5>1, <5>2 DEF SessionsInv
      <4>3. CASE session[g].pc = "file"
        <5>1. session[g].policy \in Policies
          BY <4>3, SessionTyped DEF Filing
        <5>. QED  BY <2>13, <4>1, <4>3, <5>1 DEF SessionsInv
      <4>. QED  BY <4>1, <4>2, <4>3
    <3>. QED  BY <3>1, <3>2
  <2>. QED  BY <2>7, <2>9, <2>12, <2>14, <2>15
<1>8. ASSUME NEW h \in Handlers, Abort(h)
      PROVE  LifecyclesIInv'
  <2>1. LifecyclesTypeOK'
    BY <1>8, BoundsAssumption DEF Abort, LifecyclesTypeOK
  <2>2. \A g \in Handlers : session'[g] = IF g = h THEN Idle ELSE session[g]
    BY <1>8 DEF Abort, LifecyclesTypeOK
  <2>3. requests <= requests'
    BY <1>8 DEF Abort, LifecyclesTypeOK
  <2>. QED  BY <1>8, <2>1, <2>2, <2>3, QuietStep DEF Abort
<1>9. CASE UNCHANGED lifecyclesVars
  BY <1>9 DEF lifecyclesVars, LifecyclesTypeOK, LastInv, TrailIsRooted, CoverWasActive, WasActive,
              SessionsInv, Witnessed, Closed
<1>. QED  BY <1>1, <1>2, <1>3, <1>4, <1>5, <1>6, <1>7, <1>8, <1>9 DEF LifecyclesNext

(* Whatever updates overlap, sessions only carry changes that were legal when read. *)
THEOREM LifecyclesInvariant == LifecyclesSpec => []LifecyclesIInv
BY LifecyclesInitInv, LifecyclesNextInv, PTL DEF LifecyclesSpec

(* The tables and the handlers' transitions keep their types. *)
THEOREM LifecyclesTypes == LifecyclesSpec => []LifecyclesTypeOK
<1>1. LifecyclesIInv => LifecyclesTypeOK
  BY DEF LifecyclesIInv
<1>. QED  BY <1>1, LifecyclesInvariant, PTL

(* A record whose transaction began after all others of the row were committed tells its
   status, for any number of updates, overlapping or not, before and after it. *)
THEOREM LatestIsStatus == LifecyclesSpec => []LatestTellsStatus
<1>1. LifecyclesIInv => LatestTellsStatus
  <2> SUFFICES ASSUME LifecyclesIInv, NEW i \in Items
               PROVE  /\ trail[i] = {} => status[i] \in {Missing, Initial(i)}
                      /\ \A r \in trail[i] :
                           (\A q \in trail[i] \ {r} : q.begun < r.created) => status[i] = r.new
    BY DEF LatestTellsStatus
  <2>1. ASSUME NEW r \in trail[i], \A q \in trail[i] \ {r} : q.begun < r.created
        PROVE  status[i] = r.new
    <3>1. PICK c \in trail[i] : c.new = status[i] /\ r.begun <= c.begun
      BY DEF LifecyclesIInv, LastInv
    <3>2. r.created <= r.begun /\ {r.created, r.begun, c.begun} \subseteq Nat
      BY DEF LifecyclesIInv, LifecyclesTypeOK, LastInv, Record
    <3>3. c = r
      BY <2>1, <3>1, <3>2
    <3>. QED  BY <3>1, <3>3
  <2>. QED  BY <2>1 DEF LifecyclesIInv, LastInv
<1>. QED  BY <1>1, LifecyclesInvariant, PTL

(* The records are legal transitions that lead from the initial status to the row's, for any
   concurrency. *)
THEOREM RecordsAreRooted == LifecyclesSpec => []TrailIsRooted
<1>1. LifecyclesIInv => TrailIsRooted
  BY DEF LifecyclesIInv
<1>. QED  BY <1>1, LifecyclesInvariant, PTL

(* A claim's policy has a record of having been active, for any concurrency. *)
THEOREM CoverIsSound == LifecyclesSpec => []CoverWasActive
<1>1. LifecyclesIInv => CoverWasActive
  BY DEF LifecyclesIInv
<1>. QED  BY <1>1, LifecyclesInvariant, PTL

-----------------------------------------------------------------------------
(* Updates that share no item *)

(* What a handler has read is still there when it commits, ... *)
FreshInv == \A h \in Handlers : session[h].pc = "save" => status[session[h].item] = session[h].old

(* ... if no two handlers are between read and commit of one row. *)
Unshared ==
  \A g, h \in Handlers :
    session[g].pc = "save" /\ session[h].pc = "save" /\ session[g].item = session[h].item => g = h

LEMMA FreshNext ==
  LifecyclesIInv /\ FreshInv /\ Unshared /\ [LifecyclesNext]_lifecyclesVars => FreshInv'
<1> SUFFICES ASSUME LifecyclesIInv, FreshInv, Unshared, [LifecyclesNext]_lifecyclesVars
             PROVE  FreshInv'
  OBVIOUS
<1>1. ASSUME NEW p \in Policies, CreatePolicy(p)
      PROVE  FreshInv'
  <2>1. \A h \in Handlers : session[h].pc = "save" => session[h].item # p
    BY <1>1 DEF CreatePolicy, LifecyclesIInv, SessionsInv
  <2>. QED  BY <1>1, <2>1 DEF CreatePolicy, FreshInv, LifecyclesIInv, LifecyclesTypeOK
<1>2. ASSUME NEW h \in Handlers, NEW p \in Policies, CheckPolicy(h, p) \/ RefuseClaim(h, p)
      PROVE  FreshInv'
  BY <1>2 DEF CheckPolicy, RefuseClaim, FreshInv, LifecyclesIInv, LifecyclesTypeOK
<1>3. ASSUME NEW h \in Handlers, NEW i \in Items, NEW target \in StatusesOf(i), Read(h, i, target)
      PROVE  FreshInv'
  <2>1. session' = [session EXCEPT ![h] = [pc |-> "save", item |-> i, old |-> status[i],
                                           new |-> target, created |-> requests']]
        /\ UNCHANGED status
    BY <1>3 DEF Read
  <2>2. session'[h].pc = "save" => status'[session'[h].item] = session'[h].old
    BY <2>1 DEF LifecyclesIInv, LifecyclesTypeOK
  <2>3. \A g \in Handlers \ {h} : session'[g] = session[g]
    BY <2>1 DEF LifecyclesIInv, LifecyclesTypeOK
  <2>. QED  BY <2>1, <2>2, <2>3 DEF FreshInv
<1>4. ASSUME NEW h \in Handlers, NEW i \in Items, NEW target \in StatusesOf(i), Refuse(h, i, target)
      PROVE  FreshInv'
  BY <1>4 DEF Refuse, FreshInv
<1>5. ASSUME NEW h \in Handlers, FileClaim(h)
      PROVE  FreshInv'
  <2>1. PICK c \in Claims : status[c] = Missing /\ status' = [status EXCEPT ![c] = "submitted"]
    BY <1>5 DEF FileClaim
  <2>2. \A g \in Handlers : session'[g] = IF g = h THEN Idle ELSE session[g]
    BY <1>5 DEF FileClaim, LifecyclesIInv, LifecyclesTypeOK
  <2>3. \A g \in Handlers : session[g].pc = "save" =>
          session[g].item \in Items /\ session[g].item # c
    BY <2>1, SessionTyped DEF LifecyclesIInv, SessionsInv, Saving
  <2>4. \A i \in Items : i # c => status'[i] = status[i]
    BY <2>1 DEF LifecyclesIInv, LifecyclesTypeOK
  <2>. QED  BY <2>2, <2>3, <2>4 DEF FreshInv, Idle
<1>6. ASSUME NEW h \in Handlers, Save(h)
      PROVE  FreshInv'
  <2>1. \A g \in Handlers : session'[g] = IF g = h THEN Idle ELSE session[g]
    BY <1>6 DEF Save, LifecyclesIInv, LifecyclesTypeOK
  <2>2. \A g \in Handlers \ {h} : session[g].pc = "save" =>
          session[g].item \in Items /\ session[g].item # session[h].item
    BY <1>6, SessionTyped DEF Save, Unshared, LifecyclesIInv, Saving
  <2>3. \A i \in Items : i # session[h].item => status'[i] = status[i]
    BY <1>6 DEF Save, LifecyclesIInv, LifecyclesTypeOK
  <2>. QED  BY <2>1, <2>2, <2>3 DEF FreshInv, Idle
<1>7. ASSUME NEW h \in Handlers, Abort(h)
      PROVE  FreshInv'
  <2>1. \A g \in Handlers : session'[g] = IF g = h THEN Idle ELSE session[g]
    BY <1>7 DEF Abort, LifecyclesIInv, LifecyclesTypeOK
  <2>. QED  BY <1>7, <2>1 DEF Abort, FreshInv, Idle
<1>8. CASE UNCHANGED lifecyclesVars
  BY <1>8 DEF lifecyclesVars, FreshInv
<1>. QED  BY <1>1, <1>2, <1>3, <1>4, <1>5, <1>6, <1>7, <1>8 DEF LifecyclesNext

LEMMA LegalNext ==
  ASSUME LifecyclesIInv, FreshInv, [LifecyclesNext]_lifecyclesVars,
         NEW i \in Items, status[i] # Missing, status'[i] # status[i]
  PROVE  status'[i] \in Transitions(i)[status[i]]
<1>1. PICK h \in Handlers : Save(h)
  BY DEF LifecyclesNext, CreatePolicy, CheckPolicy, RefuseClaim, FileClaim, Read, Refuse, Abort,
         lifecyclesVars, LifecyclesIInv, LifecyclesTypeOK
<1>2. session[h] \in Saving /\ session[h].pc = "save"
  BY <1>1, SessionTyped DEF Save, LifecyclesIInv
<1>3. session[h].item = i /\ status'[i] = session[h].new
  BY <1>1, <1>2 DEF Save, Saving, LifecyclesIInv, LifecyclesTypeOK
<1>. QED  BY <1>2, <1>3 DEF FreshInv, LifecyclesIInv, SessionsInv

(* Where no two requests are between read and commit of the same row, the status of every
   claim and policy only moves along its lifecycle, through any other overlap and any crash:
   two such requests are what the run LifecyclesRace needs. *)
THEOREM UnsharedIsLegal == LifecyclesSpec /\ []Unshared => LegalSteps
<1>1. LifecyclesInit => FreshInv
  BY DEF LifecyclesInit, FreshInv, Idle
<1>2. LifecyclesSpec /\ []Unshared => []FreshInv
  BY <1>1, FreshNext, LifecyclesInvariant, PTL DEF LifecyclesSpec
<1>3. LifecyclesIInv /\ FreshInv /\ [LifecyclesNext]_lifecyclesVars =>
        [\A i \in Items : status[i] # Missing /\ status'[i] # status[i] =>
           status'[i] \in Transitions(i)[status[i]]]_status
  BY LegalNext
<1>. QED  BY <1>2, <1>3, LifecyclesInvariant, PTL DEF LifecyclesSpec, LegalSteps
=============================================================================
