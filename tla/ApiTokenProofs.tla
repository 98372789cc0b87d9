--------------------------- MODULE ApiTokenProofs ---------------------------
(* Proofs about ApiToken: a dead key stops working. *)
EXTENDS ApiToken, TLAPS

\* Every step keeps the types.
LEMMA TypeStep == TypeOK /\ [Next]_vars => TypeOK'
<1> SUFFICES ASSUME TypeOK, [Next]_vars PROVE TypeOK'
  OBVIOUS
<1> USE ApiTokenAssumption DEF TypeOK, Actors, Far, key, Goto, Return, Fail, NoFail
<1>1. CASE IssueToken
  BY <1>1 DEF IssueToken
<1>2. CASE Expire
  BY <1>2 DEF Expire
<1>3. CASE Tick
  BY <1>3 DEF Tick
<1>4. CASE \E r \in Requests : Hit(r)
  BY <1>4 DEF Hit, vars
<1>5. CASE \E r \in Requests : Miss(r)
  BY <1>5 DEF Miss
<1>6. CASE \E r \in Requests : FindByHash(r)
  BY <1>6 DEF FindByHash
<1>7. CASE \E r \in Requests : CacheSet(r)
  BY <1>7 DEF CacheSet
<1>8. CASE \E x \in Revokers : RevokeToken(x)
  BY <1>8 DEF RevokeToken
<1>9. CASE \E x \in Revokers : Evict(x)
  BY <1>9 DEF Evict
<1>10. CASE UNCHANGED vars
  BY <1>10 DEF vars
<1> QED BY <1>1, <1>2, <1>3, <1>4, <1>5, <1>6, <1>7, <1>8, <1>9, <1>10
   DEF Next, AuthenticateToken, RevokeStep

\* Every step keeps the lag between the death of the key and what still accepts it:
\* only a lookup that saw the key alive stores it, and time advances the age of the
\* lookup and the death of the key together, and the entry against both.
LEMMA LagStep == TypeOK /\ LagInv /\ [Next]_vars => LagInv'
<1> SUFFICES ASSUME TypeOK, LagInv, [Next]_vars PROVE LagInv'
  OBVIOUS
<1> USE ApiTokenAssumption DEF TypeOK, LagInv, Actors, Far, key, Goto, Return
<1>1. CASE IssueToken
  BY <1>1 DEF IssueToken
<1>2. CASE Expire
  BY <1>2 DEF Expire
<1>3. CASE Tick
  <2>1. \A r \in Requests : pc[r] = "set" => dead' <= age'[r]
    BY <1>3 DEF Tick
  <2>2. cached' > 0 => dead' + cached' <= TTL + Latency
    BY <1>3 DEF Tick
  <2>3. dead' > 0 => revoked' \/ expired'
    BY <1>3 DEF Tick
  <2> QED BY <2>1, <2>2, <2>3, <1>3 DEF Tick
<1>4. CASE \E r \in Requests : Hit(r)
  BY <1>4 DEF Hit, vars
<1>5. CASE \E r \in Requests : Miss(r)
  BY <1>5 DEF Miss
<1>6. CASE \E r \in Requests : FindByHash(r)
  <2> PICK r \in Requests : FindByHash(r)
    BY <1>6
  <2>1. pc[r] # "set" /\ pc'[r] = "set" => dead = 0 /\ age' = age
    BY DEF FindByHash, Alive
  <2> QED BY <2>1 DEF FindByHash
<1>7. CASE \E r \in Requests : CacheSet(r)
  <2> PICK r \in Requests : CacheSet(r)
    BY <1>7
  <2>1. dead <= Latency
    BY DEF CacheSet
  <2> QED BY <2>1 DEF CacheSet
<1>8. CASE \E x \in Revokers : RevokeToken(x)
  BY <1>8 DEF RevokeToken
<1>9. CASE \E x \in Revokers : Evict(x)
  BY <1>9 DEF Evict
<1>10. CASE UNCHANGED vars
  BY <1>10 DEF vars
<1> QED BY <1>1, <1>2, <1>3, <1>4, <1>5, <1>6, <1>7, <1>8, <1>9, <1>10
   DEF Next, AuthenticateToken, RevokeStep

\* Types and lag are invariant: the time since a key died, the age of the requests
\* that saw it alive and the rest of the cache entry stay within their bounds
\* (AuthenticateToken, RevokeToken).
THEOREM Lag == Spec => []IInv
<1>1. Init => IInv
  <2> SUFFICES ASSUME Init PROVE IInv
    OBVIOUS
  <2>1. TypeOK
    <3>1. issued \in BOOLEAN /\ revoked \in BOOLEAN /\ expired \in BOOLEAN
      BY DEF Init
    <3>2. dead \in 0..Far /\ cached \in 0..TTL /\ failures \in 0..MaxFailures
      BY ApiTokenAssumption DEF Init, Far
    <3>3. pc \in [Actors -> {"idle", "find", "set", "evict"}]
      BY DEF Init
    <3>4. age \in [Actors -> 0..Latency]
      BY ApiTokenAssumption DEF Init
    <3> QED BY <3>1, <3>2, <3>3, <3>4 DEF TypeOK
  <2>2. LagInv
    BY DEF Init, LagInv, Actors
  <2> QED BY <2>1, <2>2 DEF IInv
<1>2. IInv /\ [Next]_vars => IInv'
  BY TypeStep, LagStep DEF IInv
<1> QED BY <1>1, <1>2, PTL DEF Spec

\* A dead key is refused at the latest one cache TTL and one request after its
\* death, for every TTL, latency and number of requests.
THEOREM DeadKeysStop == Spec => []DeadKeyStops
<1>1. IInv => DeadKeyStops
  BY ApiTokenAssumption DEF IInv, TypeOK, LagInv, DeadKeyStops, Accepts, Actors, Far
<1> QED BY <1>1, Lag, PTL
=============================================================================
