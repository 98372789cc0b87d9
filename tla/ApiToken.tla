------------------------------ MODULE ApiToken ------------------------------
(***************************************************************************)
(* One machine API key: its row in api_tokens, its entry in the Redis      *)
(* token cache, the requests that authenticate with it                     *)
(* (TokenIssuer.AuthenticateToken: cache, else row, then cache it) and the *)
(* ones that revoke it (row first, cache entry next).  Keys do not share   *)
(* rows or entries, so one stands for all.  last_used_at, which nothing    *)
(* reads back, is left out.                                                *)
(***************************************************************************)
EXTENDS Integers

CONSTANTS
  Requests,     \* requests that present the key
  Revokers,     \* requests that revoke it
  TTL,          \* API_TOKEN_CACHE_TTL, in ticks
  Latency,      \* ticks a request may take, at most
  MaxFailures   \* bound: failed calls

ASSUME ApiTokenAssumption ==
  /\ TTL \in Nat \ {0} /\ Latency \in Nat /\ MaxFailures \in Nat
  /\ Requests \cap Revokers = {}

Actors == Requests \cup Revokers

\* How long ago the key died is told apart up to Far.
Far == TTL + Latency + 1

VARIABLES
  issued,    \* the row exists
  revoked,   \* revoked_at is set
  expired,   \* expires_at has passed
  dead,      \* ticks since the key was first revoked or expired
  cached,    \* ticks the cache entry has left; 0: no entry
  pc,        \* where each request is
  age,       \* ticks since it started
  failures

key == <<issued, revoked, expired>>
vars == <<key, dead, cached, pc, age, failures>>

TypeOK ==
  /\ issued \in BOOLEAN /\ revoked \in BOOLEAN /\ expired \in BOOLEAN
  /\ dead \in 0..Far
  /\ cached \in 0..TTL
  /\ pc \in [Actors -> {"idle", "find", "set", "evict"}]
  /\ age \in [Actors -> 0..Latency]
  /\ failures \in 0..MaxFailures

Init ==
  /\ issued = FALSE /\ revoked = FALSE /\ expired = FALSE
  /\ dead = 0 /\ cached = 0
  /\ pc = [x \in Actors |-> "idle"]
  /\ age = [x \in Actors |-> 0]
  /\ failures = 0

Fail == failures < MaxFailures /\ failures' = failures + 1
NoFail == UNCHANGED failures

Goto(x, label) == pc' = [pc EXCEPT ![x] = label]
Return(x) == Goto(x, "idle") /\ age' = [age EXCEPT ![x] = 0]

Alive == issued /\ ~revoked /\ ~expired

-----------------------------------------------------------------------------
IssueToken ==
  /\ ~issued /\ issued' = TRUE
  /\ UNCHANGED <<revoked, expired, dead, cached, pc, age, failures>>

\* Variant: a hit prolongs the entry.
HitSlides(r) ==
  /\ pc[r] = "idle" /\ cached > 0
  /\ cached' = TTL
  /\ UNCHANGED <<key, dead, pc, age, failures>>

\* cache.Get finds an entry: the request is authenticated, the row unread.
Hit(r) ==
  /\ pc[r] = "idle" /\ cached > 0
  /\ UNCHANGED vars

\* cache.Get finds none, or fails.
Miss(r) ==
  /\ pc[r] = "idle"
  /\ \/ cached = 0 /\ NoFail
     \/ Fail
  /\ Goto(r, "find")
  /\ UNCHANGED <<key, dead, cached, age>>

\* Variant: a revoked key is not refused.
FindRevoked(r) ==
  /\ pc[r] = "find"
  /\ \/ issued /\ ~expired /\ Goto(r, "set") /\ UNCHANGED age
     \/ ~(issued /\ ~expired) /\ Return(r)
  /\ NoFail /\ UNCHANGED <<key, dead, cached>>

\* FindByHash, and the tests of the row it returns: an unknown, revoked or
\* expired key is refused.
FindByHash(r) ==
  /\ pc[r] = "find"
  /\ \/ Alive /\ Goto(r, "set") /\ UNCHANGED age /\ NoFail
     \/ ~Alive /\ Return(r) /\ NoFail
     \/ Return(r) /\ Fail
  /\ UNCHANGED <<key, dead, cached>>

\* cache.Set, for TTL whatever the key's own expiry; the request is
\* authenticated even when it fails.
CacheSet(r) ==
  /\ pc[r] = "set" /\ Return(r)
  /\ \/ cached' = TTL /\ NoFail
     \/ UNCHANGED cached /\ Fail
  /\ UNCHANGED <<key, dead>>

\* repo.RevokeToken updates a row not yet revoked and returns its hash; if the
\* answer is lost the key is not evicted, and a second attempt finds no row.
RevokeToken(x) ==
  /\ pc[x] = "idle" /\ issued /\ ~revoked
  /\ revoked' = TRUE
  /\ (Goto(x, "evict") /\ NoFail) \/ (UNCHANGED pc /\ Fail)
  /\ UNCHANGED <<issued, expired, dead, cached, age>>

\* cache.Delete; a failure is logged.
Evict(x) ==
  /\ pc[x] = "evict" /\ Return(x)
  /\ \/ cached' = 0 /\ NoFail
     \/ UNCHANGED cached /\ Fail
  /\ UNCHANGED <<key, dead>>

\* expires_at passes (a key may have none).
Expire ==
  /\ issued /\ ~expired /\ expired' = TRUE
  /\ UNCHANGED <<issued, revoked, dead, cached, pc, age, failures>>

\* Time passes; no request lasts longer than Latency.
Tick ==
  /\ \A x \in Actors : pc[x] # "idle" => age[x] < Latency
  /\ age' = [x \in Actors |-> IF pc[x] = "idle" THEN 0 ELSE age[x] + 1]
  /\ dead' = IF (revoked \/ expired) /\ dead < Far THEN dead + 1 ELSE dead
  /\ cached' = IF cached > 0 THEN cached - 1 ELSE 0
  /\ UNCHANGED <<key, pc, failures>>

AuthenticateToken(r) == Hit(r) \/ Miss(r) \/ FindByHash(r) \/ CacheSet(r)
RevokeStep(x) == RevokeToken(x) \/ Evict(x)

Next ==
  \/ IssueToken \/ Expire \/ Tick
  \/ \E r \in Requests : AuthenticateToken(r)
  \/ \E x \in Revokers : RevokeStep(x)

Spec == Init /\ [][Next]_vars

-----------------------------------------------------------------------------
(* Properties. *)

\* A request that r's next step would authenticate.
Accepts(r) == pc[r] = "set" \/ (pc[r] = "idle" /\ cached > 0)

\* A dead key, revoked or expired, is refused at the latest one cache TTL and
\* one request after it died, whatever lookups, evictions and failures overlap:
\* the bound the code does keep (AuthenticateToken, RevokeToken).
DeadKeyStops == \A r \in Requests : Accepts(r) => dead <= TTL + Latency

\* What the data model says of it: "a revoked key stops working within a
\* second-ish" (docs/DATA-MODEL.md, the API-key cache), read as the time of two
\* requests, the revocation itself and one more.
RevokedStops ==
  \A r \in Requests : revoked /\ ~expired /\ Accepts(r) => dead <= 2 * Latency

-----------------------------------------------------------------------------
(* The inductive invariant behind DeadKeyStops. *)

\* A lookup that saw the key alive is no older than its death; an entry outlives
\* the key by what is left of the lookup and of the TTL.
LagInv ==
  /\ \A r \in Requests : pc[r] = "set" => dead <= age[r]
  /\ cached > 0 => dead + cached <= TTL + Latency
  /\ dead > 0 => revoked \/ expired

\* Types and lag, in every reachable state (AuthenticateToken, RevokeToken).
IInv == TypeOK /\ LagInv
=============================================================================
