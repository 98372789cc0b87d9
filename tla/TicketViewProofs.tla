-------------------------- MODULE TicketViewProofs --------------------------
(* Proofs about TicketView: one reconcile at a time, and a list within its cap. *)
EXTENDS TicketView, FiniteSetTheorems, TLAPS

\* A reconcile at work owns the lock, unless one has outrun it.
LockInv == \A r \in Reconcilers : Reconciling(r) => lock = r \/ outrun

\* What the lock argument needs of the types.
Labels == {"idle", "read", "write", "lock", "search", "replace", "stamp", "unlock"}
GateTypes ==
  /\ pc \in [Actors -> Labels] /\ lock \in Reconcilers \cup {Free} /\ outrun \in BOOLEAN

\* Every step of an actor moves that actor alone.
LEMMA GateTypesStep == GateTypes /\ [Next]_vars => GateTypes'
<1> SUFFICES ASSUME GateTypes, [Next]_vars PROVE GateTypes'
  OBVIOUS
<1> USE DEF GateTypes, Labels, Goto, Leave, gate
<1>1. CASE \E c \in Creators : CreatorStep(c)
  BY <1>1 DEF CreatorStep, CreateIssue, ReadCache, WriteCache, Created
<1>2. CASE \E r \in Reconcilers : ReconcileStep(r)
  BY <1>2 DEF ReconcileStep, TryLock, Search, Replace, Stamp, Unlock
<1>3. CASE \E r \in Reconcilers, force \in BOOLEAN : CheckThrottle(r, force)
  BY <1>3 DEF CheckThrottle
<1>4. CASE \E x \in Actors : Crash(x)
  BY <1>4 DEF Crash
<1>5. CASE LockExpires \/ WindowPasses \/ CacheExpires \/ RemoveIssue
  BY <1>5 DEF LockExpires, WindowPasses, CacheExpires, RemoveIssue
<1>6. CASE UNCHANGED vars
  BY <1>6 DEF vars
<1> QED BY <1>1, <1>2, <1>3, <1>4, <1>5, <1>6 DEF Next

\* Every step leaves the lock with the reconcile at work: SET NX takes it only when it
\* is free, and the unconditional DEL frees the deleter's own.  When it expires under
\* its holder, or is freed by one that has outrun it, that is on record until nobody is
\* at work.
LEMMA LockStep ==
  ASSUME GateTypes, LockInv, [Next]_vars
  PROVE  LockInv'
<1> USE TicketViewAssumption DEF GateTypes, LockInv, Reconciling, Goto, Actors, gate
<1>1. CASE \E c \in Creators : CreatorStep(c)
  <2> PICK c \in Creators : CreatorStep(c)
    BY <1>1
  <2>1. lock' = lock /\ outrun' = outrun /\ \A r \in Reconcilers : pc'[r] = pc[r]
    BY DEF CreatorStep, CreateIssue, ReadCache, WriteCache, Created
  <2> QED BY <2>1
<1>2. CASE \E r \in Reconcilers : ReconcileStep(r)
  <2> PICK r \in Reconcilers : ReconcileStep(r)
    BY <1>2
  <2>1. CASE TryLock(r)
    BY <2>1 DEF TryLock
  <2>2. CASE Search(r) \/ Replace(r) \/ Stamp(r)
    BY <2>2 DEF Search, Replace, Stamp
  <2>3. CASE Unlock(r)
    BY <2>3 DEF Unlock, Leave
  <2> QED BY <2>1, <2>2, <2>3 DEF ReconcileStep
<1>3. CASE \E r \in Reconcilers, force \in BOOLEAN : CheckThrottle(r, force)
  BY <1>3 DEF CheckThrottle
<1>4. CASE \E x \in Actors : Crash(x)
  BY <1>4 DEF Crash, Leave
<1>5. CASE LockExpires
  BY <1>5 DEF LockExpires
<1>6. CASE WindowPasses \/ CacheExpires \/ RemoveIssue
  BY <1>6 DEF WindowPasses, CacheExpires, RemoveIssue
<1>7. CASE UNCHANGED vars
  BY <1>7 DEF vars
<1> QED BY <1>1, <1>2, <1>3, <1>4, <1>5, <1>6, <1>7 DEF Next

\* At most one reconcile is at work at a time, for any number of reconciles, creates,
\* failures and issues, until one outruns the TTL of the lock; and again once none is at
\* work (TryAcquire).
THEOREM OneAtATime == Spec => []OneReconcile
<1>1. Init => GateTypes /\ LockInv
  BY DEF Init, GateTypes, Labels, LockInv, Reconciling, Actors
<1>2. GateTypes /\ LockInv /\ [Next]_vars => (GateTypes /\ LockInv)'
  BY GateTypesStep, LockStep
<1>3. LockInv => OneReconcile
  BY DEF LockInv, OneReconcile
<1> QED BY <1>1, <1>2, <1>3, PTL DEF Spec

-----------------------------------------------------------------------------
(* Types, and the size of the list. *)

Newer(S, t) == {u \in S : u > t}

\* Of two issues the older one has more newer ones.
LEMMA NewerShrinks ==
  ASSUME NEW n \in Nat, NEW S \in SUBSET (1..n), IsFiniteSet(S), NEW t \in S, NEW u \in S, t < u
  PROVE  Cardinality(Newer(S, u)) # Cardinality(Newer(S, t))
<1>0. \A v \in S : v \in Int
  OBVIOUS
<1>1. Newer(S, t) \in SUBSET S
  BY DEF Newer
<1>2. IsFiniteSet(Newer(S, t))
  BY <1>1, FS_Subset
<1>3. Newer(S, u) \in SUBSET Newer(S, t)
  <2>1. \A v \in S : v > u => v > t
    BY <1>0
  <2> QED BY <2>1 DEF Newer
<1>4. Newer(S, u) # Newer(S, t)
  <2>1. t \in Int /\ u \in Int
    BY <1>0
  <2>2. u \in Newer(S, t) /\ u \notin Newer(S, u)
    BY <2>1 DEF Newer
  <2> QED BY <2>2
<1>5. Cardinality(Newer(S, t)) = Cardinality(Newer(S, u)) => Newer(S, t) = Newer(S, u)
  BY <1>2, <1>3, FS_Subset
<1> QED BY <1>4, <1>5

\* capNewest keeps at most Cap issues: no two of them have as many newer ones.
LEMMA NewestBounded ==
  ASSUME NEW n \in Nat, NEW S \in SUBSET (1..n)
  PROVE  Newest(S) \subseteq S /\ Cardinality(Newest(S)) <= Cap
<1> DEFINE rank == [t \in Newest(S) |-> Cardinality(Newer(S, t))]
           Ranks == 0..(Cap - 1)
<1>0. Cap \in Nat /\ Cap > 0
  BY TicketViewAssumption
<1>1. IsFiniteSet(S) /\ Newest(S) \in SUBSET S
  <2>1. IsFiniteSet(1..n)
    BY FS_Interval
  <2> QED BY <2>1, FS_Subset DEF Newest
<1>2. IsFiniteSet(Newest(S)) /\ Cardinality(Newest(S)) \in Nat
  BY <1>1, FS_Subset, FS_CardinalityType
<1>3. ASSUME NEW t \in Newest(S) PROVE Cardinality(Newer(S, t)) \in Ranks
  <2>1. Newer(S, t) \in SUBSET S
    BY DEF Newer
  <2>2. Cardinality(Newer(S, t)) \in Nat
    BY <1>1, <2>1, FS_Subset, FS_CardinalityType
  <2>3. Cardinality(Newer(S, t)) < Cap
    BY DEF Newest, Newer
  <2> QED BY <1>0, <2>2, <2>3
<1>4. rank \in [Newest(S) -> Ranks]
  BY <1>3
<1>5. ASSUME NEW t \in Newest(S), NEW u \in Newest(S), rank[t] = rank[u] PROVE t = u
  <2>1. \A v \in Newest(S) : v \in S
    BY <1>1
  <2>2. t \in S /\ u \in S
    BY <2>1
  <2>3. \A v \in S : v \in Int
    OBVIOUS
  <2>4. Cardinality(Newer(S, t)) = Cardinality(Newer(S, u))
    BY <1>5
  <2>5. ~(t < u) /\ ~(u < t)
    BY <1>1, <2>2, <2>4, NewerShrinks
  <2> QED BY <2>2, <2>3, <2>5
<1>6. IsFiniteSet(Ranks) /\ Cardinality(Ranks) = Cap
  BY <1>0, FS_Interval
<1>7. ~(Cardinality(Ranks) < Cardinality(Newest(S)))
  <2> HIDE DEF Ranks, rank
  <2> SUFFICES ASSUME Cardinality(Ranks) < Cardinality(Newest(S)) PROVE FALSE
    OBVIOUS
  <2>1. \E t, u \in Newest(S) : t # u /\ rank[t] = rank[u]
    BY <1>2, <1>4, <1>6, FS_PigeonHole
  <2> QED BY <1>5, <2>1
<1> QED BY <1>0, <1>1, <1>2, <1>6, <1>7

\* What is read, found or listed are issues that were created, and a create that
\* has its issue has a real one.
ListTypes ==
  /\ made \in 0..MaxIssues /\ jira \subseteq 1..made
  /\ cache \subseteq 1..made /\ Cardinality(cache) <= Cap
  /\ list \in [Actors -> SUBSET (1..made)]
  /\ mine \in [Creators -> 0..made]
  /\ \A c \in Creators : pc[c] \in {"read", "write"} => mine[c] # 0

RestTypes == recent \in BOOLEAN /\ failures \in 0..MaxFailures

\* A create adds its issue to what it read, and caps the result.
LEMMA CreatorTypes ==
  ASSUME GateTypes, ListTypes, NEW c \in Creators, CreatorStep(c)
  PROVE  ListTypes'
<1> USE TicketViewAssumption DEF GateTypes, ListTypes, Labels, Goto, Hold, Actors, gate
<1>1. CASE CreateIssue(c)
  <2>1. /\ made' \in 0..MaxIssues /\ made \in Nat /\ made' = made + 1
        /\ jira' \subseteq 1..made' /\ UNCHANGED <<cache, list>>
    BY <1>1 DEF CreateIssue
  <2>2. cache' \subseteq 1..made' /\ Cardinality(cache') <= Cap
    BY <2>1
  <2>3. list' \in [Actors -> SUBSET (1..made')]
    BY <2>1
  <2>4. mine' \in [Creators -> 0..made']
    BY <1>1, <2>1 DEF CreateIssue
  <2>5. \A d \in Creators : pc'[d] \in {"read", "write"} => mine'[d] # 0
    BY <1>1, <2>1 DEF CreateIssue
  <2> QED BY <2>1, <2>2, <2>3, <2>4, <2>5
<1>2. CASE ReadCache(c)
  <2>1. UNCHANGED <<made, jira, cache>>
    BY <1>2 DEF ReadCache
  <2>2. list' \in [Actors -> SUBSET (1..made)]
    BY <1>2 DEF ReadCache, Created
  <2>3. mine' \in [Creators -> 0..made]
    BY <1>2 DEF ReadCache, Created
  <2>4. \A d \in Creators : pc'[d] \in {"read", "write"} => mine'[d] # 0
    BY <1>2 DEF ReadCache, Created
  <2> QED BY <2>1, <2>2, <2>3, <2>4
<1>3. CASE WriteCache(c)
  <2>1. UNCHANGED <<made, jira>> /\ Created(c) /\ made \in Nat
    BY <1>3 DEF WriteCache
  <2> DEFINE S == list[c] \cup {mine[c]}
  <2>2. S \in SUBSET (1..made)
    BY <1>3 DEF WriteCache
  <2>3. Newest(S) \subseteq 1..made /\ Cardinality(Newest(S)) <= Cap
    <3> HIDE DEF S
    <3>1. Newest(S) \subseteq S /\ Cardinality(Newest(S)) <= Cap
      BY <2>1, <2>2, NewestBounded
    <3> QED BY <2>2, <3>1
  <2>4. cache' \subseteq 1..made /\ Cardinality(cache') <= Cap
    BY <1>3, <2>3 DEF WriteCache
  <2>5. list' \in [Actors -> SUBSET (1..made)] /\ mine' \in [Creators -> 0..made]
    BY <2>1 DEF Created
  <2>6. \A d \in Creators : pc'[d] \in {"read", "write"} => mine'[d] # 0
    BY <2>1 DEF Created
  <2> QED BY <2>1, <2>4, <2>5, <2>6
<1> QED BY <1>1, <1>2, <1>3 DEF CreatorStep

\* A reconcile puts a capped search result in the place of the list.
LEMMA ReconcilerTypes ==
  ASSUME GateTypes, ListTypes, NEW r \in Reconcilers,
         ReconcileStep(r) \/ \E force \in BOOLEAN : CheckThrottle(r, force)
  PROVE  ListTypes'
<1> USE TicketViewAssumption DEF GateTypes, ListTypes, Labels, Goto, Hold, Actors, gate
<1>0. made \in Nat /\ list[r] \in SUBSET (1..made) /\ jira \in SUBSET (1..made)
  OBVIOUS
<1>1. UNCHANGED <<made, jira, mine>> /\ \A c \in Creators : pc'[c] = pc[c]
  BY DEF ReconcileStep, TryLock, Search, Replace, Stamp, Unlock, CheckThrottle
<1>2. UNCHANGED cache \/ cache' = Newest(list[r])
  BY DEF ReconcileStep, TryLock, Search, Replace, Stamp, Unlock, CheckThrottle
<1>3. cache' \subseteq 1..made /\ Cardinality(cache') <= Cap
  BY <1>0, <1>2, NewestBounded
<1>4. UNCHANGED list \/ Hold(r, {}) \/ Hold(r, Newest(jira))
  BY DEF ReconcileStep, TryLock, Search, Replace, Stamp, Unlock, CheckThrottle
<1>5. Newest(jira) \in SUBSET (1..made)
  BY <1>0, NewestBounded
<1>6. list' \in [Actors -> SUBSET (1..made)]
  BY <1>4, <1>5
<1> QED BY <1>1, <1>3, <1>6

\* Every step keeps the types of what is listed.
LEMMA ListTypesStep ==
  ASSUME GateTypes, ListTypes, [Next]_vars
  PROVE  ListTypes'
<1> USE TicketViewAssumption DEF GateTypes, ListTypes
<1>1. ASSUME NEW x \in Actors, Crash(x) PROVE ListTypes'
  BY <1>1 DEF Crash, Goto, Hold, Labels, Actors, gate
<1>2. CASE LockExpires \/ WindowPasses \/ UNCHANGED vars
  BY <1>2 DEF LockExpires, WindowPasses, vars, gate
<1>3. CASE CacheExpires
  <2>1. Cardinality({}) = 0
    BY FS_EmptySet
  <2> QED BY <1>3, <2>1 DEF CacheExpires, gate
<1>4. CASE RemoveIssue
  BY <1>4 DEF RemoveIssue, gate
<1> QED BY <1>1, <1>2, <1>3, <1>4, CreatorTypes, ReconcilerTypes DEF Next

\* So do the throttle marker and the count of failures.
LEMMA RestTypesStep == RestTypes /\ [Next]_vars => RestTypes'
<1> SUFFICES ASSUME RestTypes, [Next]_vars PROVE RestTypes'
  OBVIOUS
<1>1. recent' = recent \/ recent' \in BOOLEAN
  BY DEF Next, CreatorStep, CreateIssue, ReadCache, WriteCache, ReconcileStep, TryLock, Search,
         Replace, Stamp, Unlock, CheckThrottle, Crash, LockExpires, WindowPasses, CacheExpires,
         RemoveIssue, gate, vars
<1>2. UNCHANGED failures \/ Fail
  BY DEF Next, CreatorStep, CreateIssue, ReadCache, WriteCache, ReconcileStep, TryLock, Search,
         Replace, Stamp, Unlock, CheckThrottle, Crash, LockExpires, WindowPasses, CacheExpires,
         RemoveIssue, NoFail, vars
<1> QED BY <1>1, <1>2, TicketViewAssumption DEF RestTypes, Fail

\* The list of recent tickets never holds more than Cap tickets, nor one that was
\* never created, whatever creates and reconciles overwrite of each other's work.
THEOREM ViewTyped == Spec => []TypeOK
<1> USE TicketViewAssumption
<1>1. Init => GateTypes /\ ListTypes /\ RestTypes
  <2>1. Cardinality({}) = 0
    BY FS_EmptySet
  <2> SUFFICES ASSUME Init PROVE GateTypes /\ ListTypes /\ RestTypes
    OBVIOUS
  <2>2. GateTypes
    BY DEF Init, GateTypes, Labels
  <2>3. RestTypes
    <3>1. recent \in BOOLEAN
      BY DEF Init
    <3>2. failures \in 0..MaxFailures
      BY DEF Init
    <3> QED BY <3>1, <3>2 DEF RestTypes
  <2>4. ListTypes
    BY <2>1 DEF Init, ListTypes, Actors
  <2> QED BY <2>2, <2>3, <2>4
<1>2. GateTypes /\ ListTypes /\ RestTypes /\ [Next]_vars => (GateTypes /\ ListTypes /\ RestTypes)'
  BY GateTypesStep, ListTypesStep, RestTypesStep
<1>3. GateTypes /\ ListTypes /\ RestTypes => TypeOK
  <2> SUFFICES ASSUME GateTypes, ListTypes, RestTypes PROVE TypeOK
    OBVIOUS
  <2>1. 1..made \subseteq Issues /\ 0..made \subseteq 0..MaxIssues
    BY DEF ListTypes, Issues
  <2>2. list \in [Actors -> SUBSET Issues] /\ mine \in [Creators -> 0..MaxIssues]
    BY <2>1 DEF ListTypes
  <2> QED BY <2>2 DEF TypeOK, GateTypes, ListTypes, RestTypes, Labels
<1> QED BY <1>1, <1>2, <1>3, PTL DEF Spec
=============================================================================
