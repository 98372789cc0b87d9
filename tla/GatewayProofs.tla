--------------------------- MODULE GatewayProofs ---------------------------
(***************************************************************************)
(* What holds of a user's sessions for any ids, any number of concurrent   *)
(* requests, and any lifetimes that satisfy SessionAssumption; then that   *)
(* the browser and the handlers keep to module Session, so that it holds   *)
(* of them here; and what a cookie and a logout promise on top of it.      *)
(***************************************************************************)
EXTENDS Gateway, TLAPS

-----------------------------------------------------------------------------
(* Sessions. *)


\* Whatever is alive or held has been created.
HeldInv ==
  /\ \A s \in Ids : left[s] > 0 => s \in created
  /\ \A r \in Requests : pc[r] \in {"found", "refresh", "delete"} => held[r] \in created

\* A request that is about to extend an entry decided so at most age[r] ago.
LimitInv ==
  /\ \A s \in Ids : left[s] > 0 => left[s] <= limit[s] + Latency
  /\ \A r \in Requests : pc[r] = "refresh" =>
       /\ limit[held[r]] + age[r] > 0
       /\ ttl[r] <= limit[held[r]] + age[r]

\* The index outlives whatever a request can still extend a session to, and a
\* revocation of all has read every session that is not in mixed.
IndexInv ==
  \A s \in Ids : s \notin mixed /\ left[s] > 0 =>
    /\ s \in index /\ indexLeft >= limit[s] + Slack
    /\ \A r \in Requests : pc[r] = "del all" => s \in members[r]

-----------------------------------------------------------------------------
\* The ranges of TypeOK by name, so that a proof need not look into them.
Life == 0..Lower(TTL, Absolute)
Limits == (-Latency - 1)..Absolute
IndexLife == 0..(Absolute + Slack)
Ages == 0..Latency

Types ==
  /\ created \subseteq Ids /\ mixed \subseteq created /\ index \subseteq Ids
  /\ left \in [Ids -> Life] /\ limit \in [Ids -> Limits] /\ indexLeft \in IndexLife
  /\ pc \in [Requests -> {"idle", "found", "refresh", "delete", "del all"}]
  /\ held \in [Requests -> Ids \cup {NoId}]
  /\ ttl \in [Requests -> Life]
  /\ members \in [Requests -> SUBSET Ids]
  /\ age \in [Requests -> Ages]

\* TypeOK with its ranges by name.
LEMMA TypesFact == TypeOK <=> Types
  BY DEF TypeOK, Types, Life, Limits, IndexLife, Ages

\* Where the counters start.
LEMMA RangeFact ==
  /\ 0 \in Life /\ 0 \in Ages /\ 0 \in IndexLife
  /\ Absolute \in Limits /\ Absolute + Slack \in IndexLife
  BY SessionAssumption DEF Life, Limits, IndexLife, Ages, Lower

\* Counting down, or an age up, stays within the bounds.
LEMMA NumberFact ==
  /\ \A n \in Life : n \in Nat /\ (n > 0 => n - 1 \in Life)
  /\ \A n \in Limits : n \in Int /\ n <= Absolute /\ (n >= -Latency => n - 1 \in Limits)
  /\ \A n \in IndexLife : n \in Nat /\ (n > 0 => n - 1 \in IndexLife)
  /\ \A n \in Ages : n \in Nat /\ n <= Latency /\ (n < Latency => n + 1 \in Ages)
  BY SessionAssumption DEF Life, Limits, IndexLife, Ages, Lower

\* The lifetimes a session is given are those of its type.
LEMMA SlidingFact ==
  ASSUME NEW n \in Int, n > 0, n <= Absolute
  PROVE  SlidingTTL(n) \in Life /\ SlidingTTL(n) <= n /\ SlidingTTL(n) > 0
  BY SessionAssumption DEF SlidingTTL, Lower, Life

\* Every step of a request, and of time, keeps the types.
LEMMA TypeStep == Types /\ HeldInv /\ [Next]_vars => Types'
<1> SUFFICES ASSUME Types, HeldInv, [Next]_vars PROVE Types'
  OBVIOUS
<1>1. ASSUME NEW s \in Ids, Create(s) PROVE Types'
  <2>1. SlidingTTL(Absolute) \in Life
    BY SessionAssumption, SlidingFact
  <2>2. created' \subseteq Ids /\ mixed' \subseteq created'
    BY <1>1 DEF Create, Give, Types
  <2> QED BY <1>1, <2>1, <2>2, RangeFact DEF Create, Types
<1>2. ASSUME NEW s \in Ids, Revoke(s) PROVE Types'
  BY <1>2, RangeFact DEF Revoke, Types
<1>3. ASSUME NEW r \in Requests, NEW s \in Ids, Find(r, s) PROVE Types'
  BY <1>3 DEF Find, Goto, redis, Types
<1>4. ASSUME NEW r \in Requests, Decide(r) PROVE Types'
  <2>1. held[r] \in Ids
    BY <1>4 DEF Decide, HeldInv, Types
  <2>2. limit[held[r]] > 0 => SlidingTTL(limit[held[r]]) \in Life
    BY <2>1, SlidingFact, NumberFact DEF Types
  <2>3. ttl' \in [Requests -> Life]
    BY <1>4, <2>2 DEF Decide, Types
  <2> QED BY <1>4, <2>3 DEF Decide, Goto, redis, Types
<1>5. ASSUME NEW r \in Requests, Refresh(r) PROVE Types'
  BY <1>5, RangeFact DEF Refresh, Return, Goto, Types
<1>6. ASSUME NEW r \in Requests, Delete(r) PROVE Types'
  BY <1>6, RangeFact DEF Delete, Return, Goto, Types
<1>7. ASSUME NEW r \in Requests, ListAll(r) PROVE Types'
  BY <1>7 DEF ListAll, Goto, redis, Types
<1>8. ASSUME NEW r \in Requests, DeleteAll(r) PROVE Types'
  BY <1>8, RangeFact DEF DeleteAll, Return, Goto, Types
<1>9. ASSUME NEW r \in Requests, CallFails(r) PROVE Types'
  BY <1>9, RangeFact DEF CallFails, Return, Goto, redis, Types
<1>10. ASSUME Tick PROVE Types'
  <2>1. age' \in [Requests -> Ages]
    <3>1. \A r \in Requests : (IF pc[r] = "idle" THEN 0 ELSE age[r] + 1) \in Ages
      BY <1>10, RangeFact, NumberFact DEF Tick, Types
    <3> QED BY <1>10, <3>1 DEF Tick
  <2>2. left' \in [Ids -> Life]
    BY <1>10, RangeFact, NumberFact DEF Tick, Types
  <2>3. limit' \in [Ids -> Limits]
    BY <1>10, NumberFact DEF Tick, Types
  <2>4. indexLeft' \in IndexLife /\ index' \subseteq Ids
    BY <1>10, RangeFact, NumberFact DEF Tick, Types
  <2> QED BY <1>10, <2>1, <2>2, <2>3, <2>4 DEF Tick, Types
<1>11. CASE UNCHANGED vars
  BY <1>11 DEF vars, redis, Types
<1> QED BY <1>1, <1>2, <1>3, <1>4, <1>5, <1>6, <1>7, <1>8, <1>9, <1>10, <1>11
   DEF Next, Resolve, RevokeAllForUser

\* Entries and requests only know sessions that were created.
LEMMA HeldStep == Types /\ HeldInv /\ [Next]_vars => HeldInv'
<1> SUFFICES ASSUME Types, HeldInv, [Next]_vars PROVE HeldInv'
  OBVIOUS
<1>1. ASSUME NEW s \in Ids, Create(s) PROVE HeldInv'
  BY <1>1 DEF Create, Give, HeldInv, Types
<1>2. ASSUME NEW s \in Ids, Revoke(s) PROVE HeldInv'
  BY <1>2 DEF Revoke, HeldInv, Types
<1>3. ASSUME NEW r \in Requests, NEW s \in Ids, Find(r, s) PROVE HeldInv'
  BY <1>3 DEF Find, Goto, redis, HeldInv, Types
<1>4. ASSUME NEW r \in Requests, Decide(r) PROVE HeldInv'
  BY <1>4 DEF Decide, Goto, redis, HeldInv, Types
<1>5. ASSUME NEW r \in Requests, Refresh(r) PROVE HeldInv'
  BY <1>5 DEF Refresh, Return, Goto, HeldInv, Types
<1>6. ASSUME NEW r \in Requests, Delete(r) PROVE HeldInv'
  BY <1>6 DEF Delete, Return, Goto, HeldInv, Types
<1>7. ASSUME NEW r \in Requests, ListAll(r) PROVE HeldInv'
  BY <1>7 DEF ListAll, Goto, redis, HeldInv, Types
<1>8. ASSUME NEW r \in Requests, DeleteAll(r) PROVE HeldInv'
  <2>1. created' = created /\ \A s \in Ids : left'[s] = 0 \/ left'[s] = left[s]
    BY <1>8 DEF DeleteAll
  <2>2. \A s \in Ids : left'[s] > 0 => s \in created'
    BY <2>1 DEF HeldInv
  <2>3. \A q \in Requests : pc'[q] \in {"found", "refresh", "delete"} => held'[q] \in created'
    BY <1>8 DEF DeleteAll, Return, Goto, HeldInv, Types
  <2> QED BY <2>2, <2>3 DEF HeldInv
<1>9. ASSUME NEW r \in Requests, CallFails(r) PROVE HeldInv'
  BY <1>9 DEF CallFails, Return, Goto, redis, HeldInv, Types
<1>10. ASSUME Tick PROVE HeldInv'
  <2>1. \A s \in Ids : left'[s] > 0 => left[s] > 0
    BY <1>10 DEF Tick
  <2> QED BY <1>10, <2>1 DEF Tick, HeldInv
<1>11. CASE UNCHANGED vars
  BY <1>11 DEF vars, redis, HeldInv
<1> QED BY <1>1, <1>2, <1>3, <1>4, <1>5, <1>6, <1>7, <1>8, <1>9, <1>10, <1>11
   DEF Next, Resolve, RevokeAllForUser

\* A refresh extends an entry by what its absolute limit left when it was decided,
\* at most a latency ago.
LEMMA LimitStep == Types /\ HeldInv /\ LimitInv /\ [Next]_vars => LimitInv'
<1> SUFFICES ASSUME Types, HeldInv, LimitInv, [Next]_vars PROVE LimitInv'
  OBVIOUS
<1>a. TTL \in Nat \ {0} /\ Absolute \in Nat \ {0} /\ Latency \in Nat /\ Slack \in Nat
  BY SessionAssumption
<1>c. \A s \in Ids : left[s] \in Nat /\ limit[s] \in Int
  BY NumberFact DEF Types
<1>d. \A r \in Requests : age[r] \in Nat /\ age[r] <= Latency /\ ttl[r] \in Nat
  BY NumberFact DEF Types
<1>1. ASSUME NEW s \in Ids, Create(s) PROVE LimitInv'
  <2>1. SlidingTTL(Absolute) <= Absolute /\ SlidingTTL(Absolute) \in Int
    BY <1>a, SlidingFact, NumberFact
  <2>2. \A r \in Requests : pc[r] = "refresh" => held[r] # s
    BY <1>1 DEF Create, Give, HeldInv
  <2>3. left' = [left EXCEPT ![s] = SlidingTTL(Absolute)] /\ limit' = [limit EXCEPT ![s] = Absolute]
    BY <1>1 DEF Create
  <2>4. \A t \in Ids : left'[t] > 0 => left'[t] <= limit'[t] + Latency
    <3>1. left'[s] = SlidingTTL(Absolute) /\ limit'[s] = Absolute
      BY <2>3 DEF Types
    <3>2. \A t \in Ids \ {s} : left'[t] = left[t] /\ limit'[t] = limit[t]
      BY <2>3 DEF Types
    <3> QED BY <2>1, <3>1, <3>2, <1>a DEF LimitInv
  <2>5. \A r \in Requests : pc[r] = "refresh" => limit'[held[r]] = limit[held[r]]
    BY <2>2, <2>3 DEF Types, HeldInv
  <2> QED BY <1>1, <2>4, <2>5 DEF Create, LimitInv
<1>2. ASSUME NEW s \in Ids, Revoke(s) PROVE LimitInv'
  <2>1. \A t \in Ids : left'[t] = 0 \/ left'[t] = left[t]
    BY <1>2 DEF Revoke, Types
  <2> QED BY <1>2, <2>1 DEF Revoke, LimitInv
<1>3. ASSUME NEW r \in Requests, NEW s \in Ids, Find(r, s) PROVE LimitInv'
  BY <1>3 DEF Find, Goto, redis, LimitInv, Types
<1>4. ASSUME NEW r \in Requests, Decide(r) PROVE LimitInv'
  <2>1. held[r] \in Ids /\ limit[held[r]] \in Int /\ limit[held[r]] <= Absolute
    BY <1>4, NumberFact DEF Decide, HeldInv, Types
  <2>2. limit[held[r]] > 0 => SlidingTTL(limit[held[r]]) <= limit[held[r]] + age[r]
    BY <2>1, <1>d, SlidingFact, NumberFact
  <2>3. pc'[r] = "refresh" => limit[held[r]] > 0 /\ ttl'[r] = SlidingTTL(limit[held[r]])
    BY <1>4 DEF Decide, Goto, Types
  <2>4. \A q \in Requests \ {r} : pc'[q] = pc[q] /\ ttl'[q] = ttl[q]
    BY <1>4 DEF Decide, Goto, Types
  <2>5. UNCHANGED <<left, limit, held, age>>
    BY <1>4 DEF Decide, redis
  <2>6. \A q \in Requests : pc'[q] = "refresh" =>
          limit[held[q]] + age[q] > 0 /\ ttl'[q] <= limit[held[q]] + age[q]
    BY <2>1, <2>2, <2>3, <2>4, <1>d DEF LimitInv
  <2> QED BY <2>5, <2>6 DEF LimitInv
<1>5. ASSUME NEW r \in Requests, Refresh(r) PROVE LimitInv'
  <2>1. held[r] \in Ids /\ ttl[r] <= limit[held[r]] + Latency
    <3>1. pc[r] = "refresh" /\ held[r] \in Ids
      BY <1>5 DEF Refresh, HeldInv, Types
    <3> QED BY <3>1, <1>a, <1>c, <1>d DEF LimitInv
  <2>2. left' = [left EXCEPT ![held[r]] = IF @ > 0 THEN ttl[r] ELSE 0] /\ limit' = limit
    BY <1>5 DEF Refresh
  <2>3. \A s \in Ids : left'[s] > 0 => left'[s] <= limit'[s] + Latency
    <3>1. \A s \in Ids : left'[s] = 0 \/ left'[s] = left[s] \/ (s = held[r] /\ left'[s] = ttl[r])
      BY <2>2 DEF Types
    <3> QED BY <2>1, <2>2, <3>1 DEF LimitInv
  <2>4. \A q \in Requests : pc'[q] = "refresh" =>
          q # r /\ pc[q] = "refresh" /\ held'[q] = held[q] /\ ttl'[q] = ttl[q] /\ age'[q] = age[q]
    BY <1>5 DEF Refresh, Return, Goto, Types
  <2> QED BY <2>2, <2>3, <2>4 DEF LimitInv
<1>6. ASSUME NEW r \in Requests, Delete(r) PROVE LimitInv'
  <2>1. \A s \in Ids : left'[s] = 0 \/ left'[s] = left[s]
    BY <1>6 DEF Delete, Types
  <2>2. \A s \in Ids : left'[s] > 0 => left'[s] <= limit'[s] + Latency
    BY <1>6, <2>1 DEF Delete, LimitInv
  <2>3. \A q \in Requests : pc'[q] = "refresh" =>
          pc[q] = "refresh" /\ held'[q] = held[q] /\ ttl'[q] = ttl[q] /\ age'[q] = age[q]
    BY <1>6 DEF Delete, Return, Goto, Types
  <2> QED BY <1>6, <2>2, <2>3 DEF Delete, LimitInv
<1>7. ASSUME NEW r \in Requests, ListAll(r) PROVE LimitInv'
  BY <1>7 DEF ListAll, Goto, redis, LimitInv, Types
<1>8. ASSUME NEW r \in Requests, DeleteAll(r) PROVE LimitInv'
  <2>1. limit' = limit /\ \A s \in Ids : left'[s] = 0 \/ left'[s] = left[s]
    BY <1>8 DEF DeleteAll
  <2>2. \A s \in Ids : left'[s] > 0 => left'[s] <= limit'[s] + Latency
    BY <2>1 DEF LimitInv
  <2>3. \A q \in Requests : pc'[q] = "refresh" =>
          pc[q] = "refresh" /\ held'[q] = held[q] /\ ttl'[q] = ttl[q] /\ age'[q] = age[q]
    BY <1>8 DEF DeleteAll, Return, Goto, Types
  <2> QED BY <2>1, <2>2, <2>3 DEF LimitInv
<1>9. ASSUME NEW r \in Requests, CallFails(r) PROVE LimitInv'
  BY <1>9 DEF CallFails, Return, Goto, redis, LimitInv, Types
<1>10. ASSUME Tick PROVE LimitInv'
  <2>1. \A s \in Ids : left'[s] > 0 => left'[s] <= limit'[s] + Latency
    <3> SUFFICES ASSUME NEW s \in Ids, left'[s] > 0 PROVE left'[s] <= limit'[s] + Latency
      OBVIOUS
    <3>1. left[s] > 0 /\ left'[s] = left[s] - 1
      BY <1>10, <1>c DEF Tick
    <3>2. s \in created /\ limit[s] >= -Latency
      BY <3>1, <1>a, <1>c DEF HeldInv, LimitInv
    <3>3. limit'[s] = limit[s] - 1
      BY <1>10, <3>2 DEF Tick
    <3> QED BY <3>1, <3>3, <1>a, <1>c DEF LimitInv
  <2>2. ASSUME NEW r \in Requests, pc'[r] = "refresh"
        PROVE  /\ limit'[held'[r]] + age'[r] > 0
               /\ ttl'[r] <= limit'[held'[r]] + age'[r]
    <3>1. pc[r] = "refresh" /\ held'[r] = held[r] /\ ttl'[r] = ttl[r] /\ age'[r] = age[r] + 1
      BY <2>2, <1>10 DEF Tick
    <3>2. held[r] \in created /\ held[r] \in Ids
      BY <3>1 DEF HeldInv, Types
    <3>3. limit[held[r]] >= -Latency
      BY <3>1, <3>2, <1>a, <1>c, <1>d DEF LimitInv
    <3>4. limit'[held[r]] = limit[held[r]] - 1
      BY <1>10, <3>2, <3>3 DEF Tick
    <3> QED BY <3>1, <3>2, <3>4, <1>c, <1>d DEF LimitInv
  <2> QED BY <2>1, <2>2 DEF LimitInv
<1>11. CASE UNCHANGED vars
  BY <1>11 DEF vars, redis, LimitInv
<1> QED BY <1>1, <1>2, <1>3, <1>4, <1>5, <1>6, <1>7, <1>8, <1>9, <1>10, <1>11
   DEF Next, Resolve, RevokeAllForUser

\* A new session enters the index for longer than any refresh can make it last, and
\* leaves it no earlier than it ends.
LEMMA IndexStep == Types /\ HeldInv /\ LimitInv /\ IndexInv /\ [Next]_vars => IndexInv'
<1> SUFFICES ASSUME Types, HeldInv, LimitInv, IndexInv, [Next]_vars PROVE IndexInv'
  OBVIOUS
<1>a. TTL \in Nat \ {0} /\ Absolute \in Nat \ {0} /\ Latency \in Nat /\ Slack \in Nat
      /\ Latency <= Slack
  BY SessionAssumption
<1>b. \A s \in Ids : left[s] \in Nat /\ limit[s] \in Int /\ limit[s] <= Absolute
  BY NumberFact DEF Types
<1>c. created \subseteq Ids /\ indexLeft \in Nat
  BY NumberFact DEF Types
<1>1. ASSUME NEW s \in Ids, Create(s) PROVE IndexInv'
  <2>1. created' = created \cup {s} /\ index' = index \cup {s} /\ indexLeft' = Absolute + Slack
        /\ limit'[s] = Absolute /\ UNCHANGED <<pc, members>>
    BY <1>1 DEF Create, Give, Types
  <2>2. \A t \in Ids \ {s} : left'[t] = left[t] /\ limit'[t] = limit[t]
    BY <1>1 DEF Create, Types
  <2>3. s \in mixed' \/ \A r \in Requests : pc[r] # "del all"
    BY <1>1 DEF Create, Give
  <2>4. mixed \subseteq mixed'
    BY <1>1 DEF Create, Give
  <2>5. ASSUME NEW t \in Ids, t \notin mixed', left'[t] > 0
        PROVE  /\ t \in index' /\ indexLeft' >= limit'[t] + Slack
               /\ \A r \in Requests : pc'[r] = "del all" => t \in members'[r]
    <3>1. CASE t = s
      <4>1. s \in index' /\ indexLeft' >= limit'[s] + Slack
        BY <2>1, <1>a
      <4> QED BY <4>1, <3>1, <2>1, <2>3, <2>5
    <3>2. CASE t # s
      <4>1. t \notin mixed /\ left[t] > 0 /\ limit'[t] = limit[t]
        BY <3>2, <2>2, <2>4, <2>5
      <4>2. t \in index /\ \A r \in Requests : pc[r] = "del all" => t \in members[r]
        BY <4>1 DEF IndexInv
      <4>3. indexLeft' >= limit'[t] + Slack
        BY <4>1, <2>1, <1>a, <1>b
      <4> QED BY <4>2, <4>3, <2>1
    <3> QED BY <3>1, <3>2
  <2> QED BY <2>5 DEF IndexInv
<1>2. ASSUME NEW s \in Ids, Revoke(s) PROVE IndexInv'
  <2>1. \A t \in Ids : left'[t] > 0 => left[t] > 0
    <3>1. \A t \in Ids : left'[t] = 0 \/ left'[t] = left[t]
      BY <1>2 DEF Revoke, Types
    <3> QED BY <3>1
  <2> QED BY <1>2, <2>1 DEF Revoke, IndexInv
<1>3. ASSUME NEW r \in Requests, NEW s \in Ids, Find(r, s) PROVE IndexInv'
  BY <1>3 DEF Find, Goto, redis, IndexInv, Types
<1>4. ASSUME NEW r \in Requests, Decide(r) PROVE IndexInv'
  BY <1>4 DEF Decide, Goto, redis, IndexInv, Types
<1>5. ASSUME NEW r \in Requests, Refresh(r) \/ Delete(r) PROVE IndexInv'
  <2>1. \A t \in Ids : left'[t] > 0 => left[t] > 0
    <3>1. held[r] \in Ids /\ left'[held[r]] > 0 => left[held[r]] > 0
      <4>1. held[r] \in Ids => left'[held[r]] = 0 \/ left[held[r]] > 0
        BY <1>5 DEF Refresh, Delete, Types
      <4> QED BY <4>1
    <3>2. \A t \in Ids : t # held[r] => left'[t] = left[t]
      BY <1>5 DEF Refresh, Delete, Types
    <3> QED BY <3>1, <3>2
  <2>2. UNCHANGED <<created, mixed, index, indexLeft, limit>>
    BY <1>5 DEF Refresh, Delete
  <2>3. \A q \in Requests : pc'[q] = "del all" => pc[q] = "del all" /\ members'[q] = members[q]
    BY <1>5 DEF Refresh, Delete, Return, Goto, Types
  <2> QED BY <2>1, <2>2, <2>3 DEF IndexInv
<1>6. ASSUME NEW r \in Requests, ListAll(r) PROVE IndexInv'
  BY <1>6 DEF ListAll, Goto, redis, IndexInv, Types
<1>7. ASSUME NEW r \in Requests, DeleteAll(r) PROVE IndexInv'
  <2>1. mixed' = mixed /\ \A s \in Ids : s \in members[r] \/ left[s] = 0 => left'[s] = 0
    BY <1>7 DEF DeleteAll
  <2>2. \A s \in Ids : s \notin mixed /\ left[s] > 0 => s \in members[r]
    BY <1>7 DEF DeleteAll, IndexInv
  <2>3. \A s \in Ids : s \notin mixed' => left'[s] = 0
    BY <2>1, <2>2, <1>b
  <2>4. \A s \in Ids : left'[s] = 0 => ~(left'[s] > 0)
    OBVIOUS
  <2> QED BY <2>3, <2>4 DEF IndexInv
<1>8. ASSUME NEW r \in Requests, CallFails(r) PROVE IndexInv'
  BY <1>8 DEF CallFails, Return, Goto, redis, IndexInv, Types
<1>9. ASSUME Tick PROVE IndexInv'
  <2>1. ASSUME NEW s \in Ids, s \notin mixed, left'[s] > 0
        PROVE  s \in index' /\ indexLeft' >= limit'[s] + Slack
    <3>1. left[s] > 1 /\ s \in created
      BY <1>9, <2>1, <1>b DEF Tick, HeldInv
    <3>2. limit[s] + Latency > 1
      BY <3>1, <1>a, <1>b DEF LimitInv
    <3>3. s \in index /\ indexLeft >= limit[s] + Slack
      <4>1. left[s] > 0
        BY <3>1, <1>b
      <4> QED BY <2>1, <4>1 DEF IndexInv
    <3>4. limit'[s] = limit[s] - 1
      BY <1>9, <2>1, <3>1, <3>2, <1>a, <1>b DEF Tick
    <3>5. indexLeft > 1
      BY <3>1, <3>2, <3>3, <1>a, <1>b, <1>c
    <3> QED BY <1>9, <3>1, <3>3, <3>4, <3>5, <1>a, <1>b, <1>c DEF Tick
  <2>2. \A s \in Ids : left'[s] > 0 => left[s] > 0
    BY <1>9 DEF Tick
  <2> QED BY <1>9, <2>1, <2>2 DEF Tick, IndexInv
<1>10. CASE UNCHANGED vars
  BY <1>10 DEF vars, redis, IndexInv
<1> QED BY <1>1, <1>2, <1>3, <1>4, <1>5, <1>6, <1>7, <1>8, <1>9, <1>10
   DEF Next, Resolve, RevokeAllForUser

-----------------------------------------------------------------------------
\* The inductive invariant.
SessionInv == Types /\ HeldInv /\ LimitInv /\ IndexInv

\* At first there is no session.
LEMMA InitInv == Init => SessionInv
<1> SUFFICES ASSUME Init PROVE SessionInv
  OBVIOUS
<1>1. 0 \in Limits
  BY SessionAssumption DEF Limits
<1>2. Types
  BY <1>1, RangeFact DEF Init, Types
<1>3. HeldInv /\ LimitInv /\ IndexInv
  BY DEF Init, HeldInv, LimitInv, IndexInv
<1> QED BY <1>2, <1>3 DEF SessionInv

\* Every step keeps the inductive invariant.
LEMMA NextInv == SessionInv /\ [Next]_vars => SessionInv'
  BY TypeStep, HeldStep, LimitStep, IndexStep DEF SessionInv

\* A session that is gone stays gone in every step.
LEMMA GoneStep ==
  ASSUME Types, [Next]_vars
  PROVE  \A s \in created : left[s] = 0 => left'[s] = 0
<1>0. SUFFICES ASSUME NEW s \in created, left[s] = 0 PROVE left'[s] = 0
  OBVIOUS
<1>a. s \in Ids
  BY DEF Types
<1>1. ASSUME NEW t \in Ids, Create(t) PROVE left'[s] = 0
  BY <1>1, <1>0, <1>a DEF Create, Give, Types
<1>2. ASSUME NEW t \in Ids, Revoke(t) PROVE left'[s] = 0
  BY <1>2, <1>0, <1>a DEF Revoke, Types
<1>3. ASSUME NEW r \in Requests, (\E t \in Ids : Find(r, t)) \/ Decide(r) \/ ListAll(r) \/ CallFails(r)
      PROVE  left'[s] = 0
  BY <1>3, <1>0 DEF Find, Decide, ListAll, CallFails, redis
<1>4. ASSUME NEW r \in Requests, Refresh(r) \/ Delete(r) PROVE left'[s] = 0
  <2>1. CASE s = held[r]
    <3>1. left' = [left EXCEPT ![s] = 0] \/ left' = [left EXCEPT ![s] = IF @ > 0 THEN ttl[r] ELSE 0]
      BY <1>4, <2>1 DEF Refresh, Delete
    <3>2. ~(left[s] > 0)
      BY <1>0
    <3> QED BY <3>1, <3>2, <1>a DEF Types
  <2>2. CASE s # held[r]
    BY <1>4, <1>0, <1>a, <2>2 DEF Refresh, Delete, Types
  <2> QED BY <2>1, <2>2
<1>5. ASSUME NEW r \in Requests, DeleteAll(r) PROVE left'[s] = 0
  BY <1>5, <1>0, <1>a DEF DeleteAll
<1>6. ASSUME Tick PROVE left'[s] = 0
  BY <1>6, <1>0, <1>a DEF Tick
<1>7. CASE UNCHANGED vars
  BY <1>7, <1>0 DEF vars, redis
<1> QED BY <1>1, <1>2, <1>3, <1>4, <1>5, <1>6, <1>7 DEF Next, Resolve, RevokeAllForUser

\* The absolute limit follows from what a refresh was decided on.
LEMMA InvAbsolute == SessionInv => AbsoluteLimit
<1> SUFFICES ASSUME SessionInv PROVE AbsoluteLimit
  OBVIOUS
<1>1. ASSUME NEW s \in Ids, NEW r \in Requests, pc[r] = "refresh", held[r] = s
      PROVE  limit[s] > -Latency
  <2>1. limit[s] + age[r] > 0
    BY <1>1 DEF SessionInv, LimitInv
  <2>2. limit[s] \in Int /\ age[r] \in Nat /\ age[r] <= Latency
    BY NumberFact DEF SessionInv, Types
  <2> QED BY <2>1, <2>2, SessionAssumption
<1> QED BY <1>1 DEF AbsoluteLimit, SessionInv, LimitInv

\* So does the life of the index.
LEMMA InvIndexed == SessionInv => Indexed
<1> SUFFICES ASSUME SessionInv, NEW s \in Ids \ mixed, left[s] > 0
             PROVE  s \in index /\ indexLeft >= left[s]
  BY DEF Indexed
<1>1. s \in index /\ indexLeft >= limit[s] + Slack /\ left[s] <= limit[s] + Latency
  BY DEF SessionInv, HeldInv, LimitInv, IndexInv
<1>2. left[s] \in Nat /\ limit[s] \in Int /\ indexLeft \in Nat
  BY NumberFact DEF SessionInv, Types
<1> QED BY <1>1, <1>2, SessionAssumption

\* The revocation of all deletes what it has read, and it has read every session
\* that is not in mixed.
LEMMA RevokeStep ==
  ASSUME SessionInv, NEW r \in Requests, DeleteAll(r)
  PROVE  \A s \in created \ mixed : left'[s] = 0
<1>1. \A s \in Ids : s \in members[r] \/ left[s] = 0 => left'[s] = 0
  BY DEF DeleteAll
<1>2. \A s \in Ids : s \notin mixed /\ left[s] > 0 => s \in members[r]
  BY DEF DeleteAll, SessionInv, IndexInv
<1>3. created \subseteq Ids /\ \A s \in Ids : left[s] \in Nat
  BY NumberFact DEF SessionInv, Types
<1> QED BY <1>1, <1>2, <1>3

\* Every variable of Session keeps its type.
THEOREM SessionTyped == Spec => []TypeOK
<1>1. SessionInv => TypeOK
  BY TypesFact DEF SessionInv
<1> QED BY InitInv, NextInv, <1>1, PTL DEF Spec

\* No session is accepted beyond its absolute lifetime for longer than a request
\* may take (slidingTTL, Resolve).
THEOREM NoEndlessSession == Spec => []AbsoluteLimit
  BY InitInv, NextInv, InvAbsolute, PTL DEF Spec

\* The index finds every live session and outlives it, but for the logins that
\* fall into a revocation of all (Manager.Create, RevokeAllForUser).
THEOREM IndexedSessions == Spec => []Indexed
  BY InitInv, NextInv, InvIndexed, PTL DEF Spec

\* No refresh brings a session back that was logged out, revoked or expired.
THEOREM NoReturn == Spec => GoneIsGone
<1>1. SessionInv /\ [Next]_vars => [\A s \in created : left[s] = 0 => left'[s] = 0]_vars
  BY GoneStep DEF SessionInv
<1> QED BY InitInv, NextInv, <1>1, PTL DEF Spec, GoneIsGone

\* A revocation of all leaves no session of an earlier login alive.
THEOREM AllRevoked == Spec => RevokedAll
<1>1. SessionInv /\ [Next]_vars
        => [\A r \in Requests : DeleteAll(r) => \A s \in created \ mixed : left'[s] = 0]_vars
  BY RevokeStep
<1> QED BY InitInv, NextInv, <1>1, PTL DEF Spec, RevokedAll

-----------------------------------------------------------------------------
(* The gateway. *)


HttpTypes ==
  /\ jar \in created \cup {NoId} /\ jarLeft \in Nat
  /\ route \in [Requests -> {"none", "login", "logout", "call", "revoke all"}]
  /\ stage \in [Requests -> {"none", "resolve", "handle", "ok", "refused"}]
  /\ sent \in [Requests -> created \cup {NoId}]
  /\ delay \in [Requests -> Ages]

\* A request is inside Session's operations only while it is resolved, and then
\* for the session of its cookie.
RouteInv ==
  \A r \in Requests :
    /\ pc[r] # "idle" => stage[r] = "resolve"
    /\ pc[r] \in {"found", "refresh", "delete"} => sent[r] # NoId /\ route[r] # "login"
    /\ stage[r] = "resolve" /\ pc[r] = "idle" => sent[r] # NoId /\ route[r] # "login"
    /\ stage[r] = "handle" /\ route[r] # "login" => sent[r] # NoId
    /\ stage[r] = "ok" => sent[r] # NoId

\* A logout that is answered has ended its session.
LogoutInv ==
  \A r \in Requests : route[r] = "logout" /\ stage[r] = "ok" => left[sent[r]] = 0

GatewayInv == SessionInv /\ HttpTypes /\ RouteInv /\ LogoutInv

-----------------------------------------------------------------------------
\* The steps of Session in which no time passes.
Work ==
  \/ \E s \in Ids : Create(s) \/ Revoke(s)
  \/ \E r \in Requests : Resolve(r) \/ RevokeAllForUser(r) \/ CallFails(r)

\* Every step of the gateway is one of Session's, or none.
LEMMA Simulation ==
  ASSUME Types, HttpTypes, RouteInv, [GatewayNext]_gatewayVars
  PROVE  Elapse \/ [Work]_vars
<1>1. ASSUME NEW r \in Requests, Send(r) \/ Handle(r) \/ Receive(r) \/ Lose(r) \/ NotFound(r)
      PROVE  UNCHANGED vars
  BY <1>1 DEF Send, Handle, Receive, Lose, NotFound
<1>2. ASSUME NEW r \in Requests, Resolving(r) PROVE [Work]_vars
  <2>1. CASE Lookup(r)
    <3>1. sent[r] \in Ids
      BY <2>1 DEF Lookup, Find, RouteInv, HttpTypes, Types
    <3> QED BY <2>1, <3>1 DEF Lookup, Work, Resolve
  <2>2. CASE NotFound(r)
    BY <2>2 DEF NotFound
  <2>3. CASE Judge(r) \/ Admit(r) \/ Outlived(r)
    BY <2>3 DEF Judge, Admit, Outlived, Work, Resolve
  <2> QED BY <1>2, <2>1, <2>2, <2>3 DEF Resolving
<1>3. ASSUME NEW r \in Requests, Login(r) PROVE [Work]_vars
  BY <1>3 DEF Login, Work
<1>4. ASSUME NEW r \in Requests, Logout(r) PROVE [Work]_vars
  <2>1. sent[r] \in Ids
    BY <1>4 DEF Logout, RouteInv, HttpTypes, Types
  <2> QED BY <1>4, <2>1 DEF Logout, Work
<1>5. ASSUME NEW r \in Requests, Fail(r) PROVE [Work]_vars
  BY <1>5 DEF Fail, Work
<1>6. ASSUME NEW r \in Requests, BeginRevokeAll(r) \/ EndRevokeAll(r) PROVE [Work]_vars
  BY <1>6 DEF BeginRevokeAll, EndRevokeAll, Work, RevokeAllForUser
<1>7. CASE UNCHANGED gatewayVars
  BY <1>7 DEF gatewayVars
<1> QED BY <1>1, <1>2, <1>3, <1>4, <1>5, <1>6, <1>7 DEF GatewayNext

\* Every step of the gateway is one of Session's, or leaves its variables alone.
LEMMA SessionStep ==
  ASSUME Types, HttpTypes, RouteInv, [GatewayNext]_gatewayVars
  PROVE  [Next]_vars
BY Simulation DEF Elapse, Work, Next

\* Session ids are only ever added.
LEMMA CreatedGrows == ASSUME Types, [Next]_vars PROVE created \subseteq created'
  BY DEF Next, Resolve, RevokeAllForUser, Create, Give, Revoke, Find, Decide, Refresh, Delete,
         ListAll, DeleteAll, CallFails, Tick, vars

\* Cookies only ever name sessions that have been created.
LEMMA HttpTypesStep ==
  ASSUME Types, HttpTypes, RouteInv, [GatewayNext]_gatewayVars
  PROVE  HttpTypes'
<1>a. created \subseteq created'
  BY SessionStep, CreatedGrows
<1>b. TTL \in Nat /\ 0 \in Ages
  BY SessionAssumption, RangeFact
<1>c. /\ jar \in created' \cup {NoId} /\ jarLeft \in Nat
      /\ sent \in [Requests -> created' \cup {NoId}]
  BY <1>a DEF HttpTypes
<1>1. ASSUME NEW r \in Requests, Send(r) PROVE HttpTypes'
  <2>1. PICK what \in {"login", "logout", "call"} :
          /\ route' = [route EXCEPT ![r] = what]
          /\ stage' = [stage EXCEPT ![r] = IF what = "login" THEN "handle"
                                           ELSE IF jar = NoId THEN "refused" ELSE "resolve"]
          /\ sent' = [sent EXCEPT ![r] = IF what = "login" THEN NoId ELSE jar]
    BY <1>1 DEF Send
  <2>2. route' \in [Requests -> {"none", "login", "logout", "call", "revoke all"}]
    BY <2>1 DEF HttpTypes
  <2>3. stage' \in [Requests -> {"none", "resolve", "handle", "ok", "refused"}]
    BY <2>1 DEF HttpTypes
  <2>4. sent' \in [Requests -> created' \cup {NoId}]
    BY <2>1, <1>c
  <2> QED BY <1>1, <1>c, <2>2, <2>3, <2>4 DEF Send, browser, HttpTypes
<1>2. ASSUME NEW r \in Requests, Resolving(r) PROVE HttpTypes'
  BY <1>2, <1>c DEF Resolving, Lookup, NotFound, Judge, Admit, Outlived, Enter, browser, http, HttpTypes
<1>3. ASSUME NEW r \in Requests, Handle(r) \/ Logout(r) \/ Fail(r) PROVE HttpTypes'
  BY <1>3, <1>c DEF Handle, Logout, Fail, Enter, browser, HttpTypes
<1>4. ASSUME NEW r \in Requests, Login(r) PROVE HttpTypes'
  <2>1. PICK s \in Ids : s \in created' /\ sent' = [sent EXCEPT ![r] = s]
    BY <1>4 DEF Login, Create, Give
  <2> QED BY <1>4, <1>c, <2>1 DEF Login, browser, HttpTypes
<1>5. ASSUME NEW r \in Requests, Receive(r) PROVE HttpTypes'
  <2>1. jar' \in created' \cup {NoId} /\ jarLeft' \in Nat
    BY <1>5, <1>b, <1>c DEF Receive, MaxAge, browser
  <2> QED BY <1>5, <1>b, <1>c, <2>1 DEF Receive, Idle, HttpTypes
<1>6. ASSUME NEW r \in Requests, Lose(r) PROVE HttpTypes'
  BY <1>6, <1>b, <1>c DEF Lose, Idle, browser, HttpTypes
<1>7. ASSUME NEW r \in Requests, BeginRevokeAll(r) PROVE HttpTypes'
  BY <1>7, <1>c DEF BeginRevokeAll, browser, HttpTypes
<1>8. ASSUME NEW r \in Requests, EndRevokeAll(r) PROVE HttpTypes'
  BY <1>8, <1>b, <1>c DEF EndRevokeAll, Idle, browser, HttpTypes
<1>9. ASSUME Elapse PROVE HttpTypes'
  <2>1. \A r \in Requests : (IF Answered(r) THEN delay[r] + 1 ELSE 0) \in Ages
    BY <1>9, <1>b, NumberFact DEF Elapse, HttpTypes
  <2>2. delay' \in [Requests -> Ages]
    BY <1>9, <2>1 DEF Elapse
  <2>3. jar' \in created' \cup {NoId} /\ jarLeft' \in Nat
    BY <1>9, <1>c DEF Elapse
  <2> QED BY <1>9, <1>c, <2>2, <2>3 DEF Elapse, HttpTypes
<1>10. CASE UNCHANGED gatewayVars
  BY <1>10, <1>c DEF gatewayVars, browser, http, HttpTypes
<1> QED BY <1>1, <1>2, <1>3, <1>4, <1>5, <1>6, <1>7, <1>8, <1>9, <1>10 DEF GatewayNext

\* A request enters Session's operations for the cookie it was sent with, and has
\* left them when its handler runs.
LEMMA RouteStep ==
  ASSUME Types, HttpTypes, RouteInv, [GatewayNext]_gatewayVars
  PROVE  RouteInv'
<1>1. ASSUME NEW r \in Requests, Send(r) PROVE RouteInv'
  BY <1>1 DEF Send, vars, RouteInv, HttpTypes
<1>2. ASSUME NEW r \in Requests, Resolving(r) PROVE RouteInv'
  <2>1. CASE Lookup(r)
    BY <2>1 DEF Lookup, Find, Goto, http, RouteInv, HttpTypes, Types
  <2>2. CASE NotFound(r)
    BY <2>2 DEF NotFound, Enter, vars, RouteInv, HttpTypes
  <2>3. CASE Judge(r)
    BY <2>3 DEF Judge, Decide, Goto, http, RouteInv, HttpTypes, Types
  <2>4. CASE Admit(r) \/ Outlived(r)
    BY <2>4 DEF Admit, Outlived, Refresh, Delete, Return, Goto, Enter, RouteInv, HttpTypes, Types
  <2> QED BY <1>2, <2>1, <2>2, <2>3, <2>4 DEF Resolving
<1>3. ASSUME NEW r \in Requests, Handle(r) PROVE RouteInv'
  BY <1>3 DEF Handle, Enter, vars, RouteInv, HttpTypes
<1>4. ASSUME NEW r \in Requests, Login(r) PROVE RouteInv'
  <2>1. pc' = pc /\ route' = route /\ stage' = [stage EXCEPT ![r] = "ok"] /\ stage[r] = "handle"
    BY <1>4 DEF Login, Create
  <2>2. PICK s \in Ids : sent' = [sent EXCEPT ![r] = s]
    BY <1>4 DEF Login
  <2>3. s # NoId
    BY SessionAssumption
  <2> QED BY <2>1, <2>2, <2>3 DEF RouteInv, HttpTypes
<1>5. ASSUME NEW r \in Requests, Logout(r) PROVE RouteInv'
  BY <1>5 DEF Logout, Revoke, Enter, vars, RouteInv, HttpTypes
<1>6. ASSUME NEW r \in Requests, Fail(r) PROVE RouteInv'
  <2>1. pc' = [pc EXCEPT ![r] = "idle"] \/ (pc[r] = "idle" /\ pc' = pc)
    BY <1>6 DEF Fail, CallFails, Return, Goto, vars
  <2> QED BY <1>6, <2>1 DEF Fail, Enter, RouteInv, HttpTypes, Types
<1>7. ASSUME NEW r \in Requests, Receive(r) \/ Lose(r) PROVE RouteInv'
  BY <1>7 DEF Receive, Lose, Answered, Idle, vars, RouteInv, HttpTypes
<1>8. ASSUME NEW r \in Requests, BeginRevokeAll(r) PROVE RouteInv'
  BY <1>8 DEF BeginRevokeAll, ListAll, Goto, RouteInv, HttpTypes, Types
<1>9. ASSUME NEW r \in Requests, EndRevokeAll(r) PROVE RouteInv'
  BY <1>9 DEF EndRevokeAll, DeleteAll, CallFails, Return, Goto, Idle, RouteInv, HttpTypes, Types
<1>10. ASSUME Elapse PROVE RouteInv'
  BY <1>10 DEF Elapse, Tick, RouteInv
<1>11. CASE UNCHANGED gatewayVars
  BY <1>11 DEF gatewayVars, vars, http, RouteInv
<1> QED BY <1>1, <1>2, <1>3, <1>4, <1>5, <1>6, <1>7, <1>8, <1>9, <1>10, <1>11 DEF GatewayNext

\* What a logout has ended stays so until its answer is there, since no refresh
\* brings it back.
LEMMA LogoutStep ==
  ASSUME Types, HttpTypes, RouteInv, LogoutInv, [GatewayNext]_gatewayVars
  PROVE  LogoutInv'
<1>a. \A s \in created : left[s] = 0 => left'[s] = 0
  BY SessionStep, GoneStep
<1>b. \A r \in Requests : stage[r] = "ok" => sent[r] \in created
  BY DEF RouteInv, HttpTypes
\* Only a logout's own last step adds to the logouts that are answered.
<1>1. ASSUME NEW r \in Requests, Logout(r) PROVE LogoutInv'
  <2>1. sent[r] \in Ids /\ left'[sent[r]] = 0
    BY <1>1 DEF Logout, Revoke, vars, redis, RouteInv, HttpTypes, Types
  <2>2. route' = route /\ sent' = sent /\ \A q \in Requests : stage'[q] = "ok" => q = r \/ stage[q] = "ok"
    BY <1>1 DEF Logout, Enter, HttpTypes
  <2> QED BY <2>1, <2>2, <1>a, <1>b DEF LogoutInv
<1>2. ASSUME ~(\E r \in Requests : Logout(r)) PROVE LogoutInv'
  <2>1. ASSUME NEW q \in Requests, route'[q] = "logout", stage'[q] = "ok"
        PROVE  route[q] = "logout" /\ stage[q] = "ok" /\ sent'[q] = sent[q]
    <3>1. CASE \E r \in Requests : Send(r) \/ Receive(r) \/ Lose(r) \/ EndRevokeAll(r) \/ BeginRevokeAll(r)
      BY <2>1, <3>1 DEF Send, Receive, Lose, EndRevokeAll, BeginRevokeAll, Idle, HttpTypes
    <3>2. CASE \E r \in Requests : Resolving(r) \/ Handle(r) \/ Fail(r)
      BY <2>1, <3>2 DEF Resolving, Lookup, NotFound, Judge, Admit, Outlived, Handle, Fail, Enter, http, HttpTypes
    <3>3. CASE \E r \in Requests : Login(r)
      BY <2>1, <3>3 DEF Login, HttpTypes
    <3>4. CASE Elapse \/ UNCHANGED gatewayVars
      BY <2>1, <3>4 DEF Elapse, gatewayVars, http
    <3> QED BY <1>2, <3>1, <3>2, <3>3, <3>4 DEF GatewayNext
  <2> QED BY <2>1, <1>a, <1>b DEF LogoutInv
<1> QED BY <1>1, <1>2

-----------------------------------------------------------------------------
\* Session s will not run out by itself in fewer than n ticks, whichever request
\* is still to extend it.
Lasts(s, n) ==
  /\ left[s] > 0 => n <= left[s]
  /\ n <= limit[s]
  /\ \A q \in Requests : pc[q] = "refresh" /\ held[q] = s => n <= ttl[q]

\* Lasts after the step.
Lasting(s, n) ==
  /\ left'[s] > 0 => n <= left'[s]
  /\ n <= limit'[s]
  /\ \A q \in Requests : pc'[q] = "refresh" /\ held'[q] = s => n <= ttl'[q]

\* What requests do to a session does not shorten its time ...
LEMMA WorkLasts ==
  ASSUME Types, HeldInv, [Work]_vars, NEW s \in created, NEW n \in Int, n <= TTL, Lasts(s, n)
  PROVE  Lasting(s, n)
<1>a. s \in Ids
  BY DEF Types
<1>b. TTL \in Nat /\ Absolute \in Nat
  BY SessionAssumption
<1>c. \A t \in Ids : limit[t] \in Int /\ limit[t] <= Absolute
  BY NumberFact DEF Types
<1>d. \A q \in Requests : ttl[q] \in Nat
  BY NumberFact DEF Types
<1>1. ASSUME NEW t \in Ids, Create(t) PROVE Lasting(s, n)
  <2>1. t # s
    BY <1>1 DEF Create, Give
  <2>2. left'[s] = left[s] /\ limit'[s] = limit[s] /\ UNCHANGED <<pc, held, ttl>>
    BY <1>1, <1>a, <2>1 DEF Create, Types
  <2> QED BY <2>2 DEF Lasts, Lasting
<1>2. ASSUME NEW t \in Ids, Revoke(t) PROVE Lasting(s, n)
  <2>1. ~(left'[s] > 0) \/ left'[s] = left[s]
    <3>1. left'[s] = 0 \/ left'[s] = left[s]
      BY <1>2, <1>a DEF Revoke, Types
    <3> QED BY <3>1
  <2> QED BY <1>2, <2>1 DEF Revoke, Lasts, Lasting
<1>3. ASSUME NEW r \in Requests, NEW t \in Ids, Find(r, t) PROVE Lasting(s, n)
  BY <1>3 DEF Find, Goto, redis, Types, Lasts, Lasting
<1>4. ASSUME NEW r \in Requests, Decide(r) PROVE Lasting(s, n)
  <2>1. UNCHANGED <<left, limit, held>>
    BY <1>4 DEF Decide, redis
  <2>2. \A q \in Requests \ {r} : pc'[q] = pc[q] /\ ttl'[q] = ttl[q]
    BY <1>4 DEF Decide, Goto, Types
  <2>3. ASSUME pc'[r] = "refresh", held[r] = s PROVE n <= ttl'[r]
    <3>1. ttl'[r] = SlidingTTL(limit[s])
      BY <1>4, <2>3 DEF Decide, Goto, Types
    <3> QED BY <3>1, <1>a, <1>b, <1>c DEF Lasts, SlidingTTL, Lower
  <2> QED BY <2>1, <2>2, <2>3 DEF Lasts, Lasting
<1>5. ASSUME NEW r \in Requests, Refresh(r) \/ Delete(r) PROVE Lasting(s, n)
  <2>1. \A q \in Requests : pc'[q] = "refresh" =>
          pc[q] = "refresh" /\ held'[q] = held[q] /\ ttl'[q] = ttl[q]
    BY <1>5 DEF Refresh, Delete, Return, Goto, Types
  <2>2. \/ left'[s] = left[s] \/ left'[s] = 0
        \/ pc[r] = "refresh" /\ held[r] = s /\ left'[s] = ttl[r]
    BY <1>5, <1>a DEF Refresh, Delete, Types
  <2>3. left'[s] > 0 => n <= left'[s]
    BY <2>2 DEF Lasts
  <2> QED BY <1>5, <2>1, <2>3 DEF Refresh, Delete, Lasts, Lasting
<1>6. ASSUME NEW r \in Requests, ListAll(r) PROVE Lasting(s, n)
  BY <1>6 DEF ListAll, Goto, redis, Types, Lasts, Lasting
<1>7. ASSUME NEW r \in Requests, DeleteAll(r) PROVE Lasting(s, n)
  <2>1. \A q \in Requests : pc'[q] = "refresh" =>
          pc[q] = "refresh" /\ held'[q] = held[q] /\ ttl'[q] = ttl[q]
    BY <1>7 DEF DeleteAll, Return, Goto, Types
  <2>2. limit' = limit /\ (left'[s] = 0 \/ left'[s] = left[s])
    BY <1>7, <1>a DEF DeleteAll
  <2>3. left'[s] > 0 => n <= left'[s]
    BY <2>2 DEF Lasts
  <2> QED BY <2>1, <2>2, <2>3 DEF Lasts, Lasting
<1>8. ASSUME NEW r \in Requests, CallFails(r) PROVE Lasting(s, n)
  BY <1>8 DEF CallFails, Return, Goto, redis, Types, Lasts, Lasting
<1>9. CASE UNCHANGED vars
  BY <1>9 DEF vars, redis, Lasts, Lasting
<1> QED BY <1>1, <1>2, <1>3, <1>4, <1>5, <1>6, <1>7, <1>8, <1>9
   DEF Work, Resolve, RevokeAllForUser

\* ... and a tick shortens it by one.
LEMMA TickLasts ==
  ASSUME Types, Tick, NEW s \in Ids, NEW n \in Int, Lasts(s, n)
  PROVE  Lasting(s, n - 1)
<1>a. left[s] \in Nat /\ limit[s] \in Int /\ \A q \in Requests : ttl[q] \in Nat
  BY NumberFact DEF Types
<1>1. left'[s] > 0 => n - 1 <= left'[s]
  BY <1>a DEF Tick, Lasts
<1>2. limit'[s] = limit[s] \/ limit'[s] = limit[s] - 1
  BY DEF Tick
<1>3. n - 1 <= limit'[s]
  BY <1>2, <1>a DEF Lasts
<1>4. UNCHANGED <<pc, held, ttl>>
  BY DEF Tick
<1>5. \A q \in Requests : pc'[q] = "refresh" /\ held'[q] = s => n - 1 <= ttl'[q]
  BY <1>4, <1>a DEF Lasts
<1> QED BY <1>1, <1>3, <1>5 DEF Lasting

-----------------------------------------------------------------------------
\* The cookie of the browser, and one that is on its way, outlive their session
\* by the latency of the answer at most.
CookieInv ==
  /\ jar # NoId => jarLeft > 0 /\ jarLeft <= TTL /\ Lasts(jar, jarLeft - Latency)
  /\ \A r \in Requests : route[r] = "login" /\ stage[r] = "ok" => Lasts(sent[r], TTL - delay[r])

\* A session that is to be deleted is past its absolute lifetime.
OutlivedInv == \A r \in Requests : pc[r] = "delete" => limit[held[r]] <= 0

\* A session found past its absolute lifetime stays past it.
LEMMA OutlivedStep ==
  ASSUME Types, HeldInv, OutlivedInv, [Next]_vars
  PROVE  OutlivedInv'
<1>a. \A t \in Ids : limit[t] \in Int
  BY NumberFact DEF Types
<1>b. \A r \in Requests : pc[r] = "delete" => held[r] \in created /\ held[r] \in Ids
  BY DEF HeldInv, Types
<1>1. ASSUME NEW s \in Ids, Create(s) PROVE OutlivedInv'
  <2>1. \A t \in created : limit'[t] = limit[t]
    BY <1>1 DEF Create, Give, Types
  <2> QED BY <1>1, <2>1, <1>b DEF Create, OutlivedInv
<1>2. ASSUME NEW s \in Ids, Revoke(s) PROVE OutlivedInv'
  BY <1>2 DEF Revoke, OutlivedInv
<1>3. ASSUME NEW r \in Requests, NEW s \in Ids, Find(r, s) PROVE OutlivedInv'
  BY <1>3 DEF Find, Goto, OutlivedInv, Types
<1>4. ASSUME NEW r \in Requests, Decide(r) PROVE OutlivedInv'
  BY <1>4 DEF Decide, Goto, OutlivedInv, Types
<1>5. ASSUME NEW r \in Requests, Refresh(r) \/ Delete(r) \/ DeleteAll(r) \/ CallFails(r)
      PROVE  OutlivedInv'
  BY <1>5 DEF Refresh, Delete, DeleteAll, CallFails, Return, Goto, OutlivedInv, Types
<1>6. ASSUME NEW r \in Requests, ListAll(r) PROVE OutlivedInv'
  BY <1>6 DEF ListAll, Goto, OutlivedInv, Types
<1>7. ASSUME Tick PROVE OutlivedInv'
  <2>1. \A t \in Ids : limit'[t] = limit[t] \/ limit'[t] = limit[t] - 1
    BY <1>7 DEF Tick
  <2>2. \A t \in Ids : limit[t] <= 0 => limit'[t] <= 0
    BY <2>1, <1>a
  <2> QED BY <1>7, <2>2, <1>b DEF Tick, OutlivedInv
<1>8. CASE UNCHANGED vars
  BY <1>8 DEF vars, OutlivedInv
<1> QED BY <1>1, <1>2, <1>3, <1>4, <1>5, <1>6, <1>7, <1>8 DEF Next, Resolve, RevokeAllForUser

\* What lasts for a time lasts for any shorter one.
LEMMA LastingLess ==
  ASSUME Types', NEW s \in Ids, NEW n \in Int, NEW m \in Int, m <= n, Lasting(s, n)
  PROVE  Lasting(s, m)
<1>1. left'[s] \in Nat /\ limit'[s] \in Int /\ \A q \in Requests : ttl'[q] \in Nat
  BY NumberFact DEF Types, Life, Limits
<1> QED BY <1>1 DEF Lasting

\* A new session lasts as long as its cookie.
LEMMA NewLasts ==
  ASSUME Types, HeldInv, NEW s \in Ids, Create(s)
  PROVE  Lasting(s, TTL)
<1>1. left'[s] = SlidingTTL(Absolute) /\ limit'[s] = Absolute /\ UNCHANGED <<pc, held>>
  BY DEF Create, Types
<1>2. \A q \in Requests : ~(pc[q] = "refresh" /\ held[q] = s)
  BY DEF Create, Give, HeldInv
<1>3. SlidingTTL(Absolute) = TTL
  BY SessionAssumption, GatewayAssumption DEF SlidingTTL, Lower
<1> QED BY <1>1, <1>2, <1>3, SessionAssumption, GatewayAssumption DEF Lasting

\* The cookie loses time as its session does, and is set later than the session
\* by the latency of the answer at most.
LEMMA CookieStep ==
  ASSUME GatewayInv, CookieInv, [GatewayNext]_gatewayVars
  PROVE  CookieInv'
<1> USE DEF GatewayInv, SessionInv
<1>a. TTL \in Nat \ {0} /\ Latency \in Nat
  BY SessionAssumption
<1>b. jarLeft \in Nat /\ \A r \in Requests : delay[r] \in Nat /\ delay[r] <= Latency
  BY NumberFact DEF HttpTypes
<1>c. /\ created \subseteq Ids
      /\ jar # NoId => jar \in created
      /\ \A r \in Requests : stage[r] = "ok" => sent[r] \in created
  BY DEF HttpTypes, RouteInv, Types
<1>d. Types'
  BY SessionStep, TypeStep
<1>1. CASE Elapse
  <2>1. ASSUME jar' # NoId
        PROVE  jarLeft' > 0 /\ jarLeft' <= TTL /\ Lasting(jar', jarLeft' - Latency)
    <3>1. jar' = jar /\ jar # NoId /\ jarLeft > 1 /\ jarLeft' = jarLeft - 1
      BY <1>1, <2>1, <1>b DEF Elapse, CookieInv
    <3>2. Lasting(jar, (jarLeft - Latency) - 1)
      BY <1>1, <3>1, <1>a, <1>b, <1>c, TickLasts DEF Elapse, CookieInv
    <3>3. (jarLeft - Latency) - 1 = jarLeft' - Latency
      BY <3>1, <1>a, <1>b
    <3> QED BY <3>1, <3>2, <3>3, <1>a, <1>b DEF CookieInv
  <2>2. ASSUME NEW r \in Requests, route'[r] = "login", stage'[r] = "ok"
        PROVE  Lasting(sent'[r], TTL - delay'[r])
    <3>1. route[r] = "login" /\ stage[r] = "ok" /\ sent'[r] = sent[r] /\ delay'[r] = delay[r] + 1
      BY <1>1, <2>2 DEF Elapse, Answered
    <3>2. Lasting(sent[r], (TTL - delay[r]) - 1)
      BY <1>1, <3>1, <1>a, <1>b, <1>c, TickLasts DEF Elapse, CookieInv
    <3>3. (TTL - delay[r]) - 1 = TTL - delay'[r]
      BY <3>1, <1>a, <1>b
    <3> QED BY <3>1, <3>2, <3>3
  <2> QED BY <2>1, <2>2 DEF CookieInv, Lasts, Lasting
<1>2. CASE ~Elapse
  <2>a. [Work]_vars
    BY <1>2, Simulation
  <2>b. \A r \in Requests : route[r] = "login" /\ stage[r] = "ok" => Lasting(sent[r], TTL - delay[r])
    BY <2>a, <1>a, <1>b, <1>c, WorkLasts DEF CookieInv
  <2>c. jar # NoId => Lasting(jar, jarLeft - Latency)
    BY <2>a, <1>a, <1>b, <1>c, WorkLasts DEF CookieInv
  <2>1. \/ UNCHANGED browser
        \/ jar' = NoId
        \/ \E r \in Requests : /\ route[r] = "login" /\ stage[r] = "ok"
                               /\ jar' = sent[r] /\ jarLeft' = TTL
    <3>1. CASE \E r \in Requests : Receive(r)
      BY <3>1 DEF Receive, MaxAge
    <3>2. CASE UNCHANGED browser
      BY <3>2
    <3>3. CASE \E r \in Requests : Send(r) \/ Login(r) \/ Lose(r) \/ BeginRevokeAll(r) \/ EndRevokeAll(r)
      BY <3>3 DEF Send, Login, Lose, BeginRevokeAll, EndRevokeAll
    <3>4. CASE \E r \in Requests : Resolving(r) \/ Handle(r) \/ Logout(r) \/ Fail(r)
      BY <3>4 DEF Resolving, Lookup, NotFound, Judge, Admit, Outlived, Handle, Logout, Fail, Enter
    <3>5. CASE UNCHANGED gatewayVars
      BY <3>5 DEF gatewayVars
    <3> QED BY <1>2, <3>1, <3>2, <3>3, <3>4, <3>5 DEF GatewayNext
  <2>2. ASSUME jar' # NoId
        PROVE  jarLeft' > 0 /\ jarLeft' <= TTL /\ Lasting(jar', jarLeft' - Latency)
    <3>1. CASE UNCHANGED browser
      BY <2>2, <2>c, <3>1 DEF browser, CookieInv
    <3>2. ASSUME NEW r \in Requests, route[r] = "login", stage[r] = "ok", jar' = sent[r], jarLeft' = TTL
          PROVE  jarLeft' > 0 /\ jarLeft' <= TTL /\ Lasting(jar', jarLeft' - Latency)
      <4>1. Lasting(sent[r], TTL - Latency)
        BY <2>b, <3>2, <1>a, <1>b, <1>c, <1>d, LastingLess
      <4> QED BY <4>1, <3>2, <1>a
    <3> QED BY <2>1, <2>2, <3>1, <3>2
  <2>3. ASSUME NEW r \in Requests, route'[r] = "login", stage'[r] = "ok"
        PROVE  Lasting(sent'[r], TTL - delay'[r])
    <3>1. CASE Login(r)
      <4>1. PICK s \in Ids : Create(s) /\ sent'[r] = s /\ delay'[r] = delay[r]
        BY <3>1 DEF Login, HttpTypes
      <4>2. Lasting(s, TTL)
        BY <4>1, NewLasts
      <4> QED BY <4>1, <4>2, <1>a, <1>b, <1>d, LastingLess
    <3>2. CASE ~Login(r)
      <4>1. route[r] = "login" /\ stage[r] = "ok" /\ sent'[r] = sent[r] /\ delay'[r] = delay[r]
        <5>1. CASE \E q \in Requests : Send(q) \/ Receive(q) \/ Lose(q) \/ BeginRevokeAll(q) \/ EndRevokeAll(q)
          BY <2>3, <5>1 DEF Send, Receive, Lose, BeginRevokeAll, EndRevokeAll, Idle, HttpTypes
        <5>2. CASE \E q \in Requests : Resolving(q) \/ Fail(q)
          BY <2>3, <5>2 DEF Resolving, Lookup, NotFound, Judge, Admit, Outlived, Fail, Enter, http, HttpTypes
        <5>3. CASE \E q \in Requests : Handle(q) \/ Logout(q)
          BY <2>3, <5>3 DEF Handle, Logout, Enter, HttpTypes
        <5>4. CASE \E q \in Requests : Login(q)
          BY <2>3, <3>2, <5>4 DEF Login, HttpTypes
        <5>5. CASE UNCHANGED gatewayVars
          BY <2>3, <5>5 DEF gatewayVars, http
        <5> QED BY <1>2, <5>1, <5>2, <5>3, <5>4, <5>5 DEF GatewayNext
      <4> QED BY <2>b, <4>1
    <3> QED BY <3>1, <3>2
  <2> QED BY <2>2, <2>3 DEF CookieInv, Lasts, Lasting
<1> QED BY <1>1, <1>2

\* When the session of the cookie runs out, the cookie is within a latency of it.
LEMMA AliveStep ==
  ASSUME GatewayInv, CookieInv, OutlivedInv,
         Elapse \/ (\E r \in Requests : Outlived(r)),
         NEW s \in Ids, jar' = s, left[s] > 0, left'[s] = 0
  PROVE  jarLeft' <= Latency
<1>a. s # NoId /\ Latency \in Nat
  BY SessionAssumption
<1>b. left[s] \in Nat /\ limit[s] \in Int /\ jarLeft \in Nat
  BY NumberFact DEF GatewayInv, SessionInv, Types, HttpTypes
<1>1. CASE Elapse
  <2>1. jar = s /\ jarLeft > 1 /\ jarLeft' = jarLeft - 1
    BY <1>1, <1>a, <1>b DEF Elapse, CookieInv
  <2>2. left[s] = 1
    BY <1>1, <1>b DEF Elapse, Tick
  <2> QED BY <2>1, <2>2, <1>a, <1>b DEF CookieInv, Lasts
<1>2. ASSUME NEW r \in Requests, Outlived(r) PROVE jarLeft' <= Latency
  <2>1. jar = s /\ jarLeft' = jarLeft
    BY <1>2 DEF Outlived, Enter, browser
  <2>2. held[r] = s /\ pc[r] = "delete"
    <3>1. left'[s] # left[s]
      OBVIOUS
    <3> QED BY <1>2, <3>1 DEF Outlived, Delete, GatewayInv, SessionInv, Types
  <2>3. limit[s] <= 0
    BY <2>2 DEF OutlivedInv
  <2> QED BY <2>1, <2>3, <1>a, <1>b DEF CookieInv, Lasts
<1> QED BY <1>1, <1>2

-----------------------------------------------------------------------------
BrowserInv == GatewayInv /\ CookieInv /\ OutlivedInv

\* At first the browser has no cookie.
LEMMA GatewayInitInv == GatewayInit => BrowserInv
<1> SUFFICES ASSUME GatewayInit PROVE BrowserInv
  OBVIOUS
<1>1. SessionInv
  BY InitInv DEF GatewayInit
<1>2. HttpTypes
  BY RangeFact DEF GatewayInit, HttpTypes
<1>3. RouteInv /\ LogoutInv /\ CookieInv /\ OutlivedInv
  BY DEF GatewayInit, Init, RouteInv, LogoutInv, CookieInv, OutlivedInv
<1> QED BY <1>1, <1>2, <1>3 DEF BrowserInv, GatewayInv

\* Every step keeps the inductive invariant.
LEMMA GatewayNextInv == BrowserInv /\ [GatewayNext]_gatewayVars => BrowserInv'
<1> SUFFICES ASSUME BrowserInv, [GatewayNext]_gatewayVars PROVE BrowserInv'
  OBVIOUS
<1>1. Types /\ HeldInv /\ HttpTypes /\ RouteInv /\ LogoutInv
  BY DEF BrowserInv, GatewayInv, SessionInv
<1>2. [Next]_vars
  BY <1>1, SessionStep
<1>3. SessionInv' /\ OutlivedInv'
  BY <1>1, <1>2, NextInv, OutlivedStep DEF BrowserInv, GatewayInv
<1>4. HttpTypes' /\ RouteInv' /\ LogoutInv'
  BY <1>1, HttpTypesStep, RouteStep, LogoutStep
<1>5. CookieInv'
  BY CookieStep DEF BrowserInv
<1> QED BY <1>3, <1>4, <1>5 DEF BrowserInv, GatewayInv

\* The handlers, and a browser that sends what it likes, use the sessions as
\* module Session describes: SessionTyped, NoEndlessSession, IndexedSessions,
\* NoReturn and AllRevoked hold of them.
THEOREM Implements == GatewaySpec => Spec
<1>1. GatewayInit => Init
  BY DEF GatewayInit
<1>2. BrowserInv /\ [GatewayNext]_gatewayVars => [Next]_vars
  BY SessionStep DEF BrowserInv, GatewayInv, SessionInv
<1> QED BY GatewayInitInv, GatewayNextInv, <1>1, <1>2, PTL DEF GatewaySpec, Spec

\* A logout answered with success has ended its session, for any number of
\* requests that use the session meanwhile (AuthHandler.Logout, Resolve).
THEOREM LoggedOut == GatewaySpec => []SignedOut
<1>1. BrowserInv => SignedOut
  BY DEF BrowserInv, GatewayInv, LogoutInv, SignedOut
<1> QED BY GatewayInitInv, GatewayNextInv, <1>1, PTL DEF GatewaySpec

\* A cookie outlives a session that runs out by itself by the latency of an
\* answer at most, if the absolute lifetime is no shorter than the window
\* (CookieConfig.MaxAge, slidingTTL).
THEOREM CookieOutlived == GatewaySpec => CookieAlive
<1>1. BrowserInv /\ [GatewayNext]_gatewayVars =>
        [Elapse \/ (\E r \in Requests : Outlived(r)) =>
           \A s \in Ids : jar' = s /\ left[s] > 0 /\ left'[s] = 0 => jarLeft' <= Latency]_gatewayVars
  BY AliveStep DEF BrowserInv
<1> QED BY GatewayInitInv, GatewayNextInv, <1>1, PTL DEF GatewaySpec, CookieAlive
=============================================================================
