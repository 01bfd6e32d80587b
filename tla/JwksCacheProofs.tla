-------------------------- MODULE JwksCacheProofs ---------------------------
(***************************************************************************)
(* Proofs about the key cache, for every number of keys, requests and      *)
(* every length of the cache's life and of a fetch.  The invariant carries *)
(* one fact along the way of a key set: it was read between the start of   *)
(* its fetch and now, so whatever is in it was published no earlier than   *)
(* that start.                                                             *)
(***************************************************************************)
EXTENDS JwksCache, TLAPS

-----------------------------------------------------------------------------
(* The inductive invariant *)

(* A key's life is in order and in the past. *)
SigningInv ==
  \A k \in Kids :
    /\ signing[k].since # Never => signing[k].since <= clock
    /\ signing[k].until # Never => signing[k].since # Never /\ signing[k].until <= clock

(* A key set in flight: what it holds was published since the fetch began, and what it does
   not hold was not published all the time. *)
Current(k, from) == signing[k].since # Never /\ signing[k].until >= from
Interrupted(k, from, to) == signing[k].since >= from \/ signing[k].until <= to

FetchInv ==
  \A v \in Verifiers :
    /\ verifier[v].pc # "idle" =>
         verifier[v].from <= clock /\ clock <= verifier[v].from + MaxLatency
    /\ verifier[v].pc = "arrive" =>
         \A k \in Kids :
           /\ k \in verifier[v].keys => Current(k, verifier[v].from)
           /\ k \notin verifier[v].keys => Interrupted(k, verifier[v].from, clock)

(* The cache expires before its keys are too old to honour. *)
CacheInv ==
  /\ cache.expires <= clock + Ttl
  /\ \A k \in cache.keys : Current(k, cache.expires - Honoured)

AnswerInv ==
  answered # NoneAnswered =>
    /\ answered.from <= answered.at /\ answered.at <= clock
    /\ answered.verdict = "accepted" => signing[answered.kid].since # Never

JwksIInv ==
  /\ JwksTypeOK /\ SigningInv /\ FetchInv /\ CacheInv /\ AnswerInv
  /\ RevokedKeyExpires /\ PublishedKeyAccepted

-----------------------------------------------------------------------------
LEMMA TimeIs ==
  /\ Never \in Nat /\ Time \subseteq Nat /\ Never \notin Time
  /\ \A t \in Time : t < Never
  /\ Ttl \in Nat /\ MaxLatency \in Nat /\ MaxTime \in Nat /\ MaxLatency < Ttl
BY JwksAssumption DEF Never, Time

LEMMA VerifierKinds ==
  ASSUME JwksTypeOK, NEW v \in Verifiers
  PROVE  /\ verifier[v].pc = "fetch" => verifier[v] \in Fetching
         /\ verifier[v].pc = "arrive" => verifier[v] \in Arriving
         /\ verifier[v] # Idling <=> verifier[v].pc # "idle"
         /\ verifier[v].pc \in {"idle", "fetch", "arrive"}
         /\ verifier[v].pc # "idle" => verifier[v].from \in Time /\ verifier[v].kid \in Kids
BY DEF JwksTypeOK, Idling, Fetching, Arriving

LEMMA SigningKinds ==
  ASSUME JwksTypeOK, NEW k \in Kids
  PROVE  /\ signing[k] \in Signing
         /\ signing[k].since \in Nat /\ signing[k].until \in Nat
         /\ signing[k].since # Never => signing[k].since \in Time
         /\ signing[k].until # Never => signing[k].until \in Time
BY TimeIs DEF JwksTypeOK, Signing

LEMMA AnsweredKinds ==
  ASSUME JwksTypeOK
  PROVE  /\ answered.verdict \in {"accepted", "unknown key"} => answered \in Verified
         /\ answered \in Verified => answered # NoneAnswered
<1>1. NoneAnswered.verdict = "none"
  BY DEF NoneAnswered
<1>2. answered \in Verified => answered.verdict \in {"accepted", "unknown key"}
  BY DEF Verified
<1>3. answered \in Verified \/ answered = NoneAnswered
  BY DEF JwksTypeOK
<1>. QED  BY <1>1, <1>2, <1>3

LEMMA HonouredIs ==
  ASSUME JwksTypeOK
  PROVE  Honoured \in Nat /\ Honoured > MaxLatency /\ Honoured >= Ttl
BY TimeIs DEF Honoured, JwksTypeOK, Stamps

LEMMA JwksInitInv == JwksInit => JwksIInv
<1> SUFFICES ASSUME JwksInit PROVE JwksIInv
  OBVIOUS
<1>1. JwksTypeOK
  BY TimeIs DEF JwksInit, JwksTypeOK, Time, Signing, Cached, NothingCached
<1>2. SigningInv /\ FetchInv
  BY DEF JwksInit, SigningInv, FetchInv, Idling
<1>3. CacheInv /\ AnswerInv /\ RevokedKeyExpires /\ PublishedKeyAccepted
  BY TimeIs DEF JwksInit, CacheInv, AnswerInv, RevokedKeyExpires, PublishedKeyAccepted, NothingCached,
         NoneAnswered
<1>. QED  BY <1>1, <1>2, <1>3 DEF JwksIInv

-----------------------------------------------------------------------------
(* Keycloak changes its key set. *)

Same(k) == signing'[k].since = signing[k].since /\ signing'[k].until = signing[k].until
Published(k) ==
  /\ signing[k].since = Never /\ signing[k].until = Never
  /\ signing'[k].since = clock /\ signing'[k].until = Never
Retired(k) ==
  /\ signing[k].since # Never /\ signing[k].until = Never
  /\ signing'[k].since = signing[k].since /\ signing'[k].until = clock

LEMMA KeyChanges ==
  ASSUME JwksIInv, NEW c \in Kids, Publish(c) \/ Retire(c)
  PROVE  /\ JwksTypeOK'
         /\ \A k \in Kids : Same(k) \/ Published(k) \/ Retired(k)
<1>t. JwksTypeOK /\ clock \in Time
  BY DEF JwksIInv, JwksTypeOK
<1>u. UNCHANGED <<stampedAt, clock, cache, verifier, answered>>
  BY DEF Publish, Retire
<1>1. CASE Publish(c)
  <2>1. signing' = [signing EXCEPT ![c].since = clock] /\ signing[c].since = Never
    BY <1>1 DEF Publish
  <2>2. signing' \in [Kids -> Signing]
    BY <2>1, <1>t DEF JwksTypeOK, Signing
  <2>3. \A k \in Kids : k # c => Same(k)
    BY <2>1, <1>t DEF JwksTypeOK, Signing, Same
  <2>4. Published(c)
    BY <2>1, <1>t DEF JwksTypeOK, Signing, JwksIInv, SigningInv, Published
  <2>. QED  BY <1>t, <1>u, <2>2, <2>3, <2>4 DEF JwksTypeOK
<1>2. CASE Retire(c)
  <2>1. signing' = [signing EXCEPT ![c].until = clock] /\ InKeySet(c)
    BY <1>2 DEF Retire
  <2>2. signing' \in [Kids -> Signing]
    BY <2>1, <1>t DEF JwksTypeOK, Signing
  <2>3. \A k \in Kids : k # c => Same(k)
    BY <2>1, <1>t DEF JwksTypeOK, Signing, Same
  <2>4. Retired(c)
    BY <2>1, <1>t DEF JwksTypeOK, Signing, InKeySet, Retired
  <2>. QED  BY <1>t, <1>u, <2>2, <2>3, <2>4 DEF JwksTypeOK
<1>. QED  BY <1>1, <1>2

LEMMA NatsAreInts == \A n \in Nat : n \in Int
OBVIOUS

(* What was so at a time in the past stays so. *)
LEMMA PastStays ==
  ASSUME JwksTypeOK, NEW k \in Kids, NEW t \in Int, NEW u \in Int, t <= clock, u <= clock,
         Same(k) \/ Published(k) \/ Retired(k)
  PROVE  /\ signing[k].since # Never /\ signing[k].until >= t =>
              signing'[k].since # Never /\ signing'[k].until >= t
         /\ signing[k].since >= t \/ signing[k].until <= u =>
              signing'[k].since >= t \/ signing'[k].until <= u
<1>1. clock \in Nat /\ clock < Never /\ Never \in Nat
  BY TimeIs DEF JwksTypeOK
<1>2. signing[k].since \in Nat /\ signing[k].until \in Nat
  BY SigningKinds
<1>. QED  BY <1>1, <1>2 DEF Same, Published, Retired

LEMMA KeyChangesInv ==
  ASSUME JwksIInv, NEW c \in Kids, Publish(c) \/ Retire(c)
  PROVE  JwksIInv'
<1>t. /\ JwksTypeOK /\ clock \in Nat /\ clock < Never /\ cache \in Cached
      /\ Honoured \in Nat /\ Honoured > MaxLatency /\ Honoured >= Ttl
  BY TimeIs, HonouredIs DEF JwksIInv, JwksTypeOK
<1>u. UNCHANGED <<stampedAt, clock, cache, verifier, answered>>
  BY DEF Publish, Retire
<1>c. \A k \in Kids : Same(k) \/ Published(k) \/ Retired(k)
  BY KeyChanges
<1>1. SigningInv'
  <2> SUFFICES ASSUME NEW k \in Kids
               PROVE  /\ signing'[k].since # Never => signing'[k].since <= clock
                      /\ signing'[k].until # Never =>
                           signing'[k].since # Never /\ signing'[k].until <= clock
    BY <1>u DEF SigningInv, Never
  <2>1. /\ signing[k].since # Never => signing[k].since <= clock
        /\ signing[k].until # Never => signing[k].since # Never /\ signing[k].until <= clock
    BY DEF JwksIInv, SigningInv
  <2>. QED  BY <2>1, <1>c, <1>t DEF Same, Published, Retired
<1>2. FetchInv'
  <2>1. ASSUME NEW v \in Verifiers, verifier[v].pc = "arrive", NEW k \in Kids
        PROVE  /\ k \in verifier[v].keys => Current(k, verifier[v].from)'
               /\ k \notin verifier[v].keys => Interrupted(k, verifier[v].from, clock)'
    <3>1. verifier[v].from \in Nat /\ verifier[v].from <= clock
      BY <2>1, <1>t, VerifierKinds, TimeIs DEF JwksIInv, FetchInv
    <3>2. /\ k \in verifier[v].keys => Current(k, verifier[v].from)
          /\ k \notin verifier[v].keys => Interrupted(k, verifier[v].from, clock)
      BY <2>1 DEF JwksIInv, FetchInv
    <3>. QED  BY <3>1, <3>2, <1>t, <1>u, <1>c, PastStays DEF Current, Interrupted, Never
  <2>. QED  BY <2>1, <1>u DEF FetchInv, JwksIInv
<1>3. CacheInv'
  <2>1. cache.expires <= clock + Ttl /\ cache.expires - Honoured \in Int
        /\ cache.expires - Honoured <= clock
    BY <1>t, TimeIs DEF JwksIInv, CacheInv, Cached
  <2>2. ASSUME NEW k \in cache.keys
        PROVE  signing'[k].since # Never /\ signing'[k].until >= cache.expires - Honoured
    <3>1. k \in Kids /\ Current(k, cache.expires - Honoured)
      BY <1>t DEF JwksIInv, CacheInv, Cached
    <3>. QED  BY <3>1, <2>1, <1>t, <1>c, PastStays DEF Current
  <2>3. Honoured' = Honoured
    BY <1>u DEF Honoured
  <2>. QED  BY <1>u, <2>1, <2>2, <2>3 DEF CacheInv, Current, Never
<1>4. ASSUME answered # NoneAnswered
      PROVE  /\ answered.from <= answered.at /\ answered.at <= clock
             /\ answered \in Verified /\ answered.kid \in Kids
             /\ answered.from \in Nat /\ answered.at \in Nat /\ answered.from <= clock
  <2>1. answered \in Verified
    BY <1>4 DEF JwksIInv, JwksTypeOK
  <2>2. answered.kid \in Kids /\ answered.from \in Nat /\ answered.at \in Nat
    BY <2>1, TimeIs DEF Verified
  <2>3. answered.from <= answered.at /\ answered.at <= clock
    BY <1>4 DEF JwksIInv, AnswerInv
  <2>. QED  BY <2>1, <2>2, <2>3, <1>t
<1>5. AnswerInv'
  BY <1>4, <1>u, <1>c, <1>t DEF AnswerInv, JwksIInv, Same, Published, Retired, Never
<1>6. RevokedKeyExpires'
  <2> SUFFICES ASSUME answered.verdict = "accepted"
               PROVE  /\ signing'[answered.kid].since <= answered.at
                      /\ answered.at - signing'[answered.kid].until < Honoured
    BY <1>u DEF RevokedKeyExpires, Honoured
  <2>1. answered # NoneAnswered
    BY <1>t, AnsweredKinds
  <2>2. /\ signing[answered.kid].since <= answered.at
        /\ signing[answered.kid].since # Never
        /\ answered.at - signing[answered.kid].until < Honoured
    BY <2>1 DEF JwksIInv, RevokedKeyExpires, AnswerInv
  <2>3. Same(answered.kid) \/ Retired(answered.kid)
    BY <2>1, <2>2, <1>4, <1>c DEF Published
  <2>4. 0 < Honoured
    BY <1>t, TimeIs
  <2>. QED  BY <2>1, <2>2, <2>3, <2>4, <1>4, <1>t DEF Same, Retired
<1>7. PublishedKeyAccepted'
  <2> SUFFICES ASSUME answered.verdict = "unknown key"
               PROVE  \/ signing'[answered.kid].since >= answered.from
                      \/ signing'[answered.kid].until <= answered.at
    BY <1>u DEF PublishedKeyAccepted
  <2>1. answered # NoneAnswered
    BY <1>t, AnsweredKinds
  <2>a. /\ answered.kid \in Kids /\ answered.from \in Nat /\ answered.at \in Nat
        /\ answered.from <= clock /\ answered.at <= clock
    BY <2>1, <1>4, Zenon
  <2>2. PICK k \in Kids, t \in Nat, u \in Nat :
          /\ k = answered.kid /\ t = answered.from /\ u = answered.at
          /\ t <= clock /\ u <= clock
    BY <2>a, Zenon
  <2>3. signing[k].since >= t \/ signing[k].until <= u
    BY <2>2 DEF JwksIInv, PublishedKeyAccepted
  <2>4. signing'[k].since >= t \/ signing'[k].until <= u
    <3>1. t <= clock /\ u <= clock /\ t \in Int /\ u \in Int
      BY <2>2, NatsAreInts, Zenon
    <3>2. JwksTypeOK /\ (Same(k) \/ Published(k) \/ Retired(k))
      BY <1>t, <1>c, Zenon
    <3>. QED  BY <3>1, <3>2, <2>3, PastStays, Zenon
  <2>. QED  BY <2>2, <2>4
<1>. QED  BY <1>1, <1>2, <1>3, <1>5, <1>6, <1>7, KeyChanges DEF JwksIInv

-----------------------------------------------------------------------------
(* The process.  It leaves the keys' lives alone. *)

LEMMA TickInv ==
  ASSUME JwksIInv, JwksTick
  PROVE  JwksIInv'
<1>t. /\ JwksTypeOK /\ clock \in Nat /\ cache \in Cached
      /\ Honoured \in Nat /\ Honoured >= Ttl
  BY TimeIs, HonouredIs DEF JwksIInv, JwksTypeOK
<1>u. UNCHANGED <<stampedAt, signing, cache, verifier, answered>> /\ clock' = clock + 1
  BY DEF JwksTick
<1>1. JwksTypeOK'
  BY <1>t, <1>u, JwksAssumption DEF JwksTick, JwksTypeOK, Time
<1>2. SigningInv'
  BY <1>t, <1>u, SigningKinds DEF JwksIInv, SigningInv, Never
<1>3. FetchInv'
  <2> SUFFICES ASSUME NEW v \in Verifiers, verifier[v].pc # "idle"
               PROVE  /\ verifier[v].from <= clock' /\ clock' <= verifier[v].from + MaxLatency
                      /\ verifier[v].pc = "arrive" =>
                           \A k \in Kids :
                             /\ k \in verifier[v].keys => Current(k, verifier[v].from)
                             /\ k \notin verifier[v].keys =>
                                  Interrupted(k, verifier[v].from, clock')
    BY <1>u DEF FetchInv, Current, Interrupted, Never
  <2>1. verifier[v].from \in Nat /\ verifier[v].from <= clock
    BY <1>t, VerifierKinds, TimeIs DEF JwksIInv, FetchInv
  <2>2. clock < verifier[v].from + MaxLatency
    BY DEF JwksTick
  <2>3. ASSUME verifier[v].pc = "arrive", NEW k \in Kids
        PROVE  /\ k \in verifier[v].keys => Current(k, verifier[v].from)
               /\ k \notin verifier[v].keys => Interrupted(k, verifier[v].from, clock)
    BY <2>3 DEF JwksIInv, FetchInv
  <2>4. ASSUME NEW k \in Kids, Interrupted(k, verifier[v].from, clock)
        PROVE  Interrupted(k, verifier[v].from, clock')
    BY <2>4, <2>1, <1>t, <1>u, SigningKinds DEF Interrupted
  <2>. QED  BY <2>1, <2>2, <2>3, <2>4, <1>t, <1>u, TimeIs
<1>4. CacheInv'
  <2>1. cache.expires <= clock + Ttl /\ cache.expires \in Nat
    BY <1>t, TimeIs DEF JwksIInv, CacheInv, Cached
  <2>2. cache.expires <= clock' + Ttl
    BY <2>1, <1>t, <1>u, TimeIs
  <2>. QED  BY <1>u, <2>2 DEF JwksIInv, CacheInv, Current, Honoured, Never
<1>5. AnswerInv'
  <2>1. answered # NoneAnswered => answered.at \in Nat
    BY <1>t, TimeIs DEF JwksTypeOK, Verified
  <2>. QED  BY <2>1, <1>t, <1>u DEF JwksIInv, AnswerInv, Never
<1>6. RevokedKeyExpires' /\ PublishedKeyAccepted'
  BY <1>u DEF JwksIInv, RevokedKeyExpires, PublishedKeyAccepted, Honoured
<1>. QED  BY <1>1, <1>2, <1>3, <1>4, <1>5, <1>6 DEF JwksIInv

(* A verdict now, with a key set that is current for less than Honoured and not older than
   the request. *)
LEMMA VerdictInv ==
  ASSUME JwksIInv, NEW k \in Kids, NEW from \in Time, from <= clock, NEW keys \in SUBSET Kids,
         k \in keys => signing[k].since # Never /\ clock - signing[k].until < Honoured,
         k \notin keys => Interrupted(k, from, clock),
         Verify(k, from, keys), UNCHANGED <<stampedAt, clock, signing>>
  PROVE  AnswerInv' /\ RevokedKeyExpires' /\ PublishedKeyAccepted' /\ answered' \in Verified
<1>t. clock \in Time /\ clock \in Nat /\ from \in Nat
  BY TimeIs DEF JwksIInv, JwksTypeOK
<1>1. /\ answered'.kid = k /\ answered'.from = from /\ answered'.at = clock
      /\ answered'.verdict = IF k \in keys THEN "accepted" ELSE "unknown key"
      /\ answered' \in Verified
  BY <1>t DEF Verify, Verified
<1>2. AnswerInv'
  <2>1. answered'.verdict = "accepted" => k \in keys
    BY <1>1
  <2>2. answered'.verdict = "accepted" => signing'[answered'.kid].since # Never
    BY <1>1, <2>1
  <2>a. answered'.from = from /\ answered'.at = clock
    BY <1>1
  <2>b. from <= clock /\ clock <= clock' /\ clock' = clock
    BY <1>t
  <2>3. answered'.from <= answered'.at /\ answered'.at <= clock'
    BY <2>a, <2>b, Zenon
  <2>. QED  BY <2>2, <2>3 DEF AnswerInv, Never
<1>3. RevokedKeyExpires'
  BY <1>1 DEF RevokedKeyExpires, Honoured, JwksIInv, SigningInv
<1>4. PublishedKeyAccepted'
  BY <1>1 DEF PublishedKeyAccepted, Interrupted
<1>. QED  BY <1>1, <1>2, <1>3, <1>4

LEMMA UseCacheInv ==
  ASSUME JwksIInv, NEW v \in Verifiers, NEW k \in Kids, UseCache(v, k)
  PROVE  JwksIInv'
<1>t. /\ JwksTypeOK /\ clock \in Nat /\ clock \in Time /\ cache \in Cached
      /\ Honoured \in Nat
  BY TimeIs, HonouredIs DEF JwksIInv, JwksTypeOK
<1>u. UNCHANGED <<stampedAt, clock, signing, cache, verifier>>
  BY DEF UseCache
<1>1. k \in cache.keys /\ cache.expires > clock
  BY DEF UseCache, Usable
<1>2. signing[k].since # Never /\ signing[k].until >= cache.expires - Honoured
  BY <1>1 DEF JwksIInv, CacheInv, Current
<1>3. clock - signing[k].until < Honoured
  BY <1>1, <1>2, <1>t, SigningKinds, TimeIs DEF Cached
<1>4. AnswerInv' /\ RevokedKeyExpires' /\ PublishedKeyAccepted' /\ answered' \in Verified
  <2>1. Verify(k, clock, cache.keys) /\ cache.keys \in SUBSET Kids /\ clock <= clock
    BY <1>t DEF UseCache, Cached
  <2>. QED  BY <1>1, <1>2, <1>3, <1>t, <1>u, <2>1, VerdictInv
<1>5. JwksTypeOK' /\ SigningInv' /\ FetchInv' /\ CacheInv'
  BY <1>u, <1>4 DEF JwksIInv, JwksTypeOK, SigningInv, FetchInv, CacheInv, Current, Interrupted,
                    Honoured, Never
<1>. QED  BY <1>4, <1>5 DEF JwksIInv

LEMMA StartFetchInv ==
  ASSUME JwksIInv, NEW v \in Verifiers, NEW k \in Kids, StartFetch(v, k)
  PROVE  JwksIInv'
<1>t. JwksTypeOK /\ clock \in Nat /\ clock \in Time
  BY TimeIs DEF JwksIInv, JwksTypeOK
<1>1. [pc |-> "fetch", kid |-> k, from |-> clock] \in Fetching
  BY <1>t DEF Fetching
<1>2. verifier' = [verifier EXCEPT ![v] = [pc |-> "fetch", kid |-> k, from |-> clock]]
      /\ UNCHANGED <<stampedAt, clock, signing, cache, answered>>
  BY DEF StartFetch
<1>3. JwksTypeOK'
  BY <1>1, <1>2, <1>t DEF JwksTypeOK
<1>4. ASSUME NEW w \in Verifiers
      PROVE  IF w = v THEN verifier'[w] = [pc |-> "fetch", kid |-> k, from |-> clock]
             ELSE verifier'[w] = verifier[w]
  BY <1>2, <1>t DEF JwksTypeOK
<1>5. FetchInv'
  BY <1>2, <1>4, <1>t, TimeIs DEF JwksIInv, FetchInv, Current, Interrupted, Never
<1>6. SigningInv' /\ CacheInv' /\ AnswerInv' /\ RevokedKeyExpires' /\ PublishedKeyAccepted'
  BY <1>2 DEF JwksIInv, SigningInv, CacheInv, AnswerInv, RevokedKeyExpires, PublishedKeyAccepted,
              Current, Honoured, Never
<1>. QED  BY <1>3, <1>5, <1>6 DEF JwksIInv

LEMMA ServeInv ==
  ASSUME JwksIInv, NEW v \in Verifiers, Serve(v)
  PROVE  JwksIInv'
<1>t. JwksTypeOK /\ clock \in Nat /\ clock < Never
  BY TimeIs DEF JwksIInv, JwksTypeOK
<1>1. verifier[v] \in Fetching
  BY <1>t, VerifierKinds DEF Serve
<1> DEFINE new == [pc |-> "arrive", kid |-> verifier[v].kid, from |-> verifier[v].from,
                   keys |-> KeySet]
<1>2. new \in Arriving /\ new.from = verifier[v].from /\ new.keys = KeySet /\ new.pc = "arrive"
  BY <1>1 DEF Fetching, Arriving, KeySet
<1>3. verifier' = [verifier EXCEPT ![v] = new]
      /\ UNCHANGED <<stampedAt, clock, signing, cache, answered>>
  BY DEF Serve
<1>4. JwksTypeOK'
  BY <1>2, <1>3, <1>t DEF JwksTypeOK
<1>5. verifier'[v] = new /\ \A w \in Verifiers : w # v => verifier'[w] = verifier[w]
  BY <1>3, <1>t DEF JwksTypeOK
<1>6. verifier[v].from \in Nat /\ verifier[v].from <= clock /\ clock <= verifier[v].from + MaxLatency
  BY <1>1, <1>t, TimeIs DEF Fetching, JwksIInv, FetchInv
<1>7. ASSUME NEW k \in Kids
      PROVE  /\ k \in KeySet => Current(k, verifier[v].from)
             /\ k \notin KeySet => Interrupted(k, verifier[v].from, clock)
  BY <1>6, <1>t, SigningKinds DEF KeySet, InKeySet, Current, Interrupted, JwksIInv, SigningInv
<1>8. FetchInv'
  <2> HIDE DEF new
  <2>1. ASSUME NEW w \in Verifiers
        PROVE  /\ verifier'[w].pc # "idle" =>
                    verifier'[w].from <= clock /\ clock <= verifier'[w].from + MaxLatency
               /\ verifier'[w].pc = "arrive" =>
                    \A k \in Kids :
                      /\ k \in verifier'[w].keys => Current(k, verifier'[w].from)
                      /\ k \notin verifier'[w].keys => Interrupted(k, verifier'[w].from, clock)
    BY <1>2, <1>5, <1>6, <1>7 DEF JwksIInv, FetchInv
  <2>. QED  BY <1>3, <2>1 DEF FetchInv, Current, Interrupted, Never
<1>9. SigningInv' /\ CacheInv' /\ AnswerInv' /\ RevokedKeyExpires' /\ PublishedKeyAccepted'
  BY <1>3 DEF JwksIInv, SigningInv, CacheInv, AnswerInv, RevokedKeyExpires, PublishedKeyAccepted,
              Current, Honoured, Never
<1>. QED  BY <1>4, <1>8, <1>9 DEF JwksIInv

LEMMA ReceiveInv ==
  ASSUME JwksIInv, NEW v \in Verifiers, Receive(v)
  PROVE  JwksIInv'
<1>t. /\ JwksTypeOK /\ clock \in Nat /\ clock \in Time
      /\ Honoured \in Nat /\ Honoured > MaxLatency
  BY TimeIs, HonouredIs DEF JwksIInv, JwksTypeOK
<1>1. verifier[v] \in Arriving
  BY <1>t, VerifierKinds DEF Receive
<1>2. PICK k \in Kids, from \in Time, keys \in SUBSET Kids :
        k = verifier[v].kid /\ from = verifier[v].from /\ keys = verifier[v].keys
  BY <1>1 DEF Arriving
<1>3. /\ cache' = [expires |-> Expiry(from), keys |-> keys]
      /\ Verify(k, from, keys)
      /\ verifier' = [verifier EXCEPT ![v] = Idling]
      /\ UNCHANGED <<stampedAt, clock, signing>>
  BY <1>2 DEF Receive
<1>4. from \in Nat /\ from <= clock /\ clock <= from + MaxLatency
  BY <1>1, <1>2, TimeIs DEF Arriving, JwksIInv, FetchInv
<1>5. \A j \in Kids : /\ j \in keys => signing[j].since # Never /\ signing[j].until >= from
                      /\ j \notin keys => Interrupted(j, from, clock)
  BY <1>1, <1>2 DEF Arriving, JwksIInv, FetchInv, Current
<1>6. k \in keys => clock - signing[k].until < Honoured
  BY <1>4, <1>5, <1>t, SigningKinds, TimeIs
<1>7. AnswerInv' /\ RevokedKeyExpires' /\ PublishedKeyAccepted' /\ answered' \in Verified
  BY <1>3, <1>4, <1>5, <1>6, VerdictInv
<1>8. /\ Expiry(from) \in Nat /\ Expiry(from) <= clock + Ttl
      /\ Expiry(from) <= MaxTime + Ttl /\ Expiry(from) - Honoured <= from
  BY <1>4, <1>t, TimeIs DEF Expiry, Honoured, JwksTypeOK, Stamps, Time
<1>9. cache'.expires = Expiry(from) /\ cache'.keys = keys /\ cache' \in Cached
  BY <1>3, <1>8, JwksAssumption DEF Cached
<1>10. CacheInv'
  <2>1. ASSUME NEW j \in keys PROVE signing[j].until >= Expiry(from) - Honoured
    <3>1. signing[j].until \in Nat /\ signing[j].until >= from
      BY <1>5, <1>t, SigningKinds
    <3>. QED  BY <3>1, <1>4, <1>8, <1>t
  <2>2. Honoured' = Honoured
    BY <1>3 DEF Honoured
  <2>. QED  BY <1>2, <1>3, <1>5, <1>8, <1>9, <2>1, <2>2 DEF CacheInv, Current, Never
<1>11. verifier'[v] = Idling /\ (\A w \in Verifiers : w # v => verifier'[w] = verifier[w])
       /\ Idling.pc = "idle" /\ verifier' \in [Verifiers -> {Idling} \cup Fetching \cup Arriving]
  BY <1>3, <1>t DEF JwksTypeOK, Idling
<1>12. FetchInv'
  <2>1. ASSUME NEW w \in Verifiers
        PROVE  verifier'[w].pc = "idle" \/ verifier'[w] = verifier[w]
    BY <1>11
  <2>. QED  BY <1>3, <2>1 DEF JwksIInv, FetchInv, Current, Interrupted, Never
<1>13. JwksTypeOK' /\ SigningInv'
  BY <1>t, <1>3, <1>7, <1>9, <1>11 DEF JwksIInv, JwksTypeOK, SigningInv, Never
<1>. QED  BY <1>7, <1>10, <1>12, <1>13 DEF JwksIInv

LEMMA FetchEndsInv ==
  ASSUME JwksIInv, (\E v \in Verifiers : FetchFails(v)) \/ JwksRestart
  PROVE  JwksIInv'
<1>t. /\ JwksTypeOK /\ clock \in Nat /\ Honoured \in Nat
  BY TimeIs, HonouredIs DEF JwksIInv, JwksTypeOK
<1>u. /\ UNCHANGED <<stampedAt, clock, signing, answered>>
      /\ cache' = cache \/ cache' = NothingCached
  BY DEF FetchFails, JwksRestart
<1>1. /\ \A w \in Verifiers : verifier'[w] = Idling \/ verifier'[w] = verifier[w]
      /\ verifier' \in [Verifiers -> {Idling} \cup Fetching \cup Arriving]
  BY <1>t DEF FetchFails, JwksRestart, JwksTypeOK
<1>2. /\ NothingCached \in Cached /\ NothingCached.keys = {}
      /\ NothingCached.expires <= clock + Ttl
  BY <1>t, TimeIs DEF NothingCached, Cached
<1>3. JwksTypeOK' /\ SigningInv'
  BY <1>t, <1>u, <1>1, <1>2 DEF JwksIInv, JwksTypeOK, SigningInv, Never
<1>4. FetchInv'
  <2>1. Idling.pc = "idle"
    BY DEF Idling
  <2>. QED  BY <1>u, <1>1, <2>1 DEF JwksIInv, FetchInv, Current, Interrupted, Never
<1>5. CacheInv'
  BY <1>u, <1>2 DEF JwksIInv, CacheInv, Current, Honoured, Never
<1>6. AnswerInv' /\ RevokedKeyExpires' /\ PublishedKeyAccepted'
  BY <1>u DEF JwksIInv, AnswerInv, RevokedKeyExpires, PublishedKeyAccepted, Honoured, Never
<1>. QED  BY <1>3, <1>4, <1>5, <1>6 DEF JwksIInv

LEMMA JwksStepInv == JwksIInv /\ [JwksNext]_jwksVars => JwksIInv'
<1> SUFFICES ASSUME JwksIInv, [JwksNext]_jwksVars PROVE JwksIInv'
  OBVIOUS
<1>1. CASE UNCHANGED jwksVars
  BY <1>1 DEF jwksVars, JwksIInv, JwksTypeOK, SigningInv, FetchInv, CacheInv, AnswerInv,
              RevokedKeyExpires, PublishedKeyAccepted, Current, Interrupted, Honoured, Never
<1>2. CASE JwksNext
  BY <1>2, KeyChangesInv, TickInv, UseCacheInv, StartFetchInv, ServeInv, ReceiveInv, FetchEndsInv
     DEF JwksNext
<1>. QED  BY <1>1, <1>2

(* The inductive invariant holds. *)
THEOREM JwksInvariant == JwksSpec => []JwksIInv
BY JwksInitInv, JwksStepInv, PTL DEF JwksSpec

(* Type correctness of the cache. *)
THEOREM JwksTypes == JwksSpec => []JwksTypeOK
<1>1. JwksIInv => JwksTypeOK
  BY DEF JwksIInv
<1>. QED  BY <1>1, JwksInvariant, PTL

(* A key that was taken out is honoured for less than the cache's life, or that and a fetch. *)
THEOREM RevokedKeysExpire == JwksSpec => []RevokedKeyExpires
<1>1. JwksIInv => RevokedKeyExpires
  BY DEF JwksIInv
<1>. QED  BY <1>1, JwksInvariant, PTL

(* A key that is published all the time is never unknown. *)
THEOREM PublishedKeysAccepted == JwksSpec => []PublishedKeyAccepted
<1>1. JwksIInv => PublishedKeyAccepted
  BY DEF JwksIInv
<1>. QED  BY <1>1, JwksInvariant, PTL
=============================================================================
