----------------------------- MODULE JwksCache ------------------------------
(***************************************************************************)
(* The signing keys of Keycloak as auth/jwt.py of the policy, the claims   *)
(* and the orchestrator service and of the legacy adapter see them: each   *)
(* process keeps the key set it fetched last for ten minutes, and fetches  *)
(* again for a key it does not hold.                                       *)
(*                                                                         *)
(* The four copies differ in one thing.  The first three compute the       *)
(* expiry from the time before the fetch, the adapter from the time after  *)
(* it.  The coroutines of a process await nothing but the fetch, so what   *)
(* they do before and after it is atomic.                                  *)
(*                                                                         *)
(* Tokens are good but for their key: one that fails jwt.decode otherwise  *)
(* is refused and leaves the cache as one that passes.                     *)
(***************************************************************************)
EXTENDS Integers

CONSTANTS
  Kids,           \* key ids
  Verifiers,      \* requests being authenticated at a time
  Ttl,            \* JWKS_CACHE_TTL_SECONDS
  MaxLatency,     \* external bound: how long a fetch takes
  MaxTime         \* bound: the clock

ASSUME JwksAssumption ==
  /\ Ttl \in Nat /\ MaxLatency \in Nat /\ MaxTime \in Nat
  /\ MaxLatency < Ttl

VARIABLES
  stampedAt,      \* which copy of the code runs: when it reads the clock for the expiry
  clock,          \* time.monotonic
  signing,        \* Keycloak: since when and until when a key is in the key set
  cache,          \* _jwks_cache of the process
  verifier,       \* per coroutine: the fetch it awaits
  answered        \* history: the latest verdict on a token

jwksVars == <<stampedAt, clock, signing, cache, verifier, answered>>

-----------------------------------------------------------------------------
Time == 0..MaxTime
Never == MaxTime + 1
Stamps == {"request", "response"}

Signing == [since: Time \cup {Never}, until: Time \cup {Never}]
Cached == [expires: 0..(MaxTime + Ttl), keys: SUBSET Kids]
NothingCached == [expires |-> 0, keys |-> {}]

Idling == [pc |-> "idle"]
Fetching == [pc: {"fetch"}, kid: Kids, from: Time]
Arriving == [pc: {"arrive"}, kid: Kids, from: Time, keys: SUBSET Kids]
Verified == [kid: Kids, from: Time, at: Time, verdict: {"accepted", "unknown key"}]
NoneAnswered == [verdict |-> "none"]

JwksTypeOK ==
  /\ stampedAt \in Stamps
  /\ clock \in Time
  /\ signing \in [Kids -> Signing]
  /\ cache \in Cached
  /\ verifier \in [Verifiers -> {Idling} \cup Fetching \cup Arriving]
  /\ answered \in Verified \cup {NoneAnswered}

JwksInit ==
  /\ stampedAt \in Stamps
  /\ clock = 0
  /\ signing = [k \in Kids |-> [since |-> Never, until |-> Never]]
  /\ cache = NothingCached
  /\ verifier = [v \in Verifiers |-> Idling]
  /\ answered = NoneAnswered

-----------------------------------------------------------------------------
(* Keycloak, by what the services see of it. *)
InKeySet(k) == signing[k].since # Never /\ signing[k].until = Never
KeySet == {k \in Kids : InKeySet(k)}

Publish(k) ==
  /\ signing[k].since = Never
  /\ signing' = [signing EXCEPT ![k].since = clock]
  /\ UNCHANGED <<stampedAt, clock, cache, verifier, answered>>

Retire(k) ==
  /\ InKeySet(k)
  /\ signing' = [signing EXCEPT ![k].until = clock]
  /\ UNCHANGED <<stampedAt, clock, cache, verifier, answered>>

(* Time passes, but no fetch outlasts MaxLatency. *)
JwksTick ==
  /\ clock < MaxTime
  /\ \A v \in Verifiers :
       verifier[v].pc # "idle" => clock < verifier[v].from + MaxLatency
  /\ clock' = clock + 1
  /\ UNCHANGED <<stampedAt, signing, cache, verifier, answered>>

-----------------------------------------------------------------------------
UsableStale(k) == cache.expires > clock   \* mutant: a fresh cache is believed complete
Usable(k) == cache.expires > clock /\ k \in cache.keys

Verify(k, from, keys) ==
  answered' = [kid |-> k, from |-> from, at |-> clock,
               verdict |-> IF k \in keys THEN "accepted" ELSE "unknown key"]

(* _get_jwks finds the key in the cache, and the token is decoded. *)
UseCache(v, k) ==
  /\ verifier[v] = Idling
  /\ Usable(k)
  /\ Verify(k, clock, cache.keys)
  /\ UNCHANGED <<stampedAt, clock, signing, cache, verifier>>

StartFetch(v, k) ==
  /\ verifier[v] = Idling
  /\ ~ Usable(k)
  /\ verifier' = [verifier EXCEPT ![v] = [pc |-> "fetch", kid |-> k, from |-> clock]]
  /\ UNCHANGED <<stampedAt, clock, signing, cache, answered>>

(* Keycloak answers with its key set; the answer is on its way. *)
Serve(v) ==
  LET me == verifier[v] IN
  /\ me.pc = "fetch"
  /\ verifier' = [verifier EXCEPT ![v] =
       [pc |-> "arrive", kid |-> me.kid, from |-> me.from, keys |-> KeySet]]
  /\ UNCHANGED <<stampedAt, clock, signing, cache, answered>>

ExpiryLate(from) == clock + Ttl   \* mutant: all copies read the clock after the fetch
Expiry(from) == (IF stampedAt = "request" THEN from ELSE clock) + Ttl

(* The key set replaces whatever is cached by now, and the token is decoded with it. *)
Receive(v) ==
  LET me == verifier[v] IN
  /\ me.pc = "arrive"
  /\ cache' = [expires |-> Expiry(me.from), keys |-> me.keys]
  /\ Verify(me.kid, me.from, me.keys)
  /\ verifier' = [verifier EXCEPT ![v] = Idling]
  /\ UNCHANGED <<stampedAt, clock, signing>>

(* httpx.HTTPError, or a body that is no JSON: 401; the cache stays. *)
FetchFails(v) ==
  /\ verifier[v] # Idling
  /\ verifier' = [verifier EXCEPT ![v] = Idling]
  /\ UNCHANGED <<stampedAt, clock, signing, cache, answered>>

(* The process is restarted: the cache is a global of the module. *)
JwksRestart ==
  /\ cache' = NothingCached
  /\ verifier' = [v \in Verifiers |-> Idling]
  /\ UNCHANGED <<stampedAt, clock, signing, answered>>

JwksNext ==
  \/ \E k \in Kids : Publish(k) \/ Retire(k)
  \/ \E v \in Verifiers :
       \/ \E k \in Kids : UseCache(v, k) \/ StartFetch(v, k)
       \/ Serve(v) \/ Receive(v) \/ FetchFails(v)
  \/ JwksTick \/ JwksRestart

JwksSpec == JwksInit /\ [][JwksNext]_jwksVars

-----------------------------------------------------------------------------
(* A key taken out of the key set is honoured for less than the ten minutes of the cache
   (policy jwt.py:36-51), in the adapter for less than those and the time of a fetch (jwt.py:
   30-36), also when a slow answer overwrites the cache after a newer one. *)
Honoured == IF stampedAt = "request" THEN Ttl ELSE Ttl + MaxLatency
RevokedKeyExpires ==
  answered.verdict = "accepted" =>
    /\ signing[answered.kid].since <= answered.at
    /\ answered.at - signing[answered.kid].until < Honoured

(* A token is refused for its key only if the key was not in the key set all along: a rotation
   is followed at once, whatever is cached, however fetches overlap (jwt.py:38-41, 64-66). *)
PublishedKeyAccepted ==
  answered.verdict = "unknown key" =>
    \/ signing[answered.kid].since >= answered.from
    \/ signing[answered.kid].until <= answered.at
=============================================================================
