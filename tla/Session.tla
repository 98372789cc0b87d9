------------------------------ MODULE Session ------------------------------
(***************************************************************************)
(* A user's browser sessions in Redis: one entry per session id with a     *)
(* sliding TTL, capped by the session's absolute lifetime, and the index   *)
(* set usersessions:{user}, with a TTL of its own, that the forced         *)
(* revocation of all of them reads.  Requests resolve sessions (Find, then *)
(* Refresh or Delete), log in, log out and revoke all (SMembers, then Del) *)
(* concurrently.                                                           *)
(***************************************************************************)
EXTENDS Integers

CONSTANTS
  Ids,        \* session ids; an id is generated once
  NoId,
  Requests,   \* requests that resolve a session or revoke all of them
  TTL,        \* SESSION_TTL, in ticks
  Absolute,   \* SESSION_ABSOLUTE_TTL
  Slack,      \* what the index outlives the longest session by (an hour)
  Latency     \* ticks a request may take, at most

ASSUME SessionAssumption ==
  /\ TTL \in Nat \ {0} /\ Absolute \in Nat \ {0}
  /\ Latency \in Nat /\ Slack \in Nat /\ Latency <= Slack
  /\ NoId \notin Ids

VARIABLES
  created,    \* ids given out
  mixed,      \* the ones given out between the two calls of a revocation of all
  left,       \* left[s]: ticks until the entry session:{s} expires; 0: no entry
  limit,      \* limit[s]: ticks until AbsoluteExpiresAt, down to -Latency
  index,      \* the set usersessions:{user}
  indexLeft,  \* ticks until it expires; 0: no set
  pc,         \* where each request is
  held,       \* held[r]: the session it resolves
  ttl,        \* ttl[r]: the sliding TTL it computed
  members,    \* members[r]: the ids SMembers returned to it
  age         \* ticks since it started

redis == <<left, index, indexLeft>>
vars == <<created, mixed, redis, limit, pc, held, ttl, members, age>>

Lower(a, b) == IF a < b THEN a ELSE b

TypeOK ==
  /\ created \subseteq Ids /\ mixed \subseteq created /\ index \subseteq Ids
  /\ left \in [Ids -> 0..Lower(TTL, Absolute)]
  /\ limit \in [Ids -> (-Latency - 1)..Absolute]
  /\ indexLeft \in 0..(Absolute + Slack)
  /\ pc \in [Requests -> {"idle", "found", "refresh", "delete", "del all"}]
  /\ held \in [Requests -> Ids \cup {NoId}]
  /\ ttl \in [Requests -> 0..Lower(TTL, Absolute)]
  /\ members \in [Requests -> SUBSET Ids]
  /\ age \in [Requests -> 0..Latency]

Init ==
  /\ created = {} /\ mixed = {} /\ index = {} /\ indexLeft = 0
  /\ left = [s \in Ids |-> 0]
  /\ limit = [s \in Ids |-> 0]
  /\ pc = [r \in Requests |-> "idle"]
  /\ held = [r \in Requests |-> NoId]
  /\ ttl = [r \in Requests |-> 0]
  /\ members = [r \in Requests |-> {}]
  /\ age = [r \in Requests |-> 0]

Goto(r, label) == pc' = [pc EXCEPT ![r] = label]

Return(r) ==
  /\ Goto(r, "idle")
  /\ held' = [held EXCEPT ![r] = NoId]
  /\ ttl' = [ttl EXCEPT ![r] = 0]
  /\ members' = [members EXCEPT ![r] = {}]
  /\ age' = [age EXCEPT ![r] = 0]

\* Variant: the window alone.
WindowTTL(remaining) == TTL

\* The sliding window, capped so it never extends past the absolute expiry.
SlidingTTL(remaining) == Lower(TTL, remaining)

-----------------------------------------------------------------------------

\* A session id is generated.
Give(s) ==
  /\ s \notin created
  /\ created' = created \cup {s}
  /\ mixed' = IF \E r \in Requests : pc[r] = "del all" THEN mixed \cup {s} ELSE mixed

\* Variant: the index keeps the TTL of its first session.
CreateIndexTTLOnce(s) ==
  /\ Give(s)
  /\ left' = [left EXCEPT ![s] = SlidingTTL(Absolute)]
  /\ limit' = [limit EXCEPT ![s] = Absolute]
  /\ index' = index \cup {s}
  /\ indexLeft' = IF index = {} THEN Absolute + Slack ELSE indexLeft
  /\ UNCHANGED <<pc, held, ttl, members, age>>

\* Variant: the session is not indexed.
CreateUnindexed(s) ==
  /\ Give(s)
  /\ left' = [left EXCEPT ![s] = SlidingTTL(Absolute)]
  /\ limit' = [limit EXCEPT ![s] = Absolute]
  /\ UNCHANGED <<index, indexLeft, pc, held, ttl, members, age>>

\* Manager.Create: one transaction sets the entry, indexes it and extends the
\* index.
Create(s) ==
  /\ Give(s)
  /\ left' = [left EXCEPT ![s] = SlidingTTL(Absolute)]
  /\ limit' = [limit EXCEPT ![s] = Absolute]
  /\ index' = index \cup {s}
  /\ indexLeft' = Absolute + Slack
  /\ UNCHANGED <<pc, held, ttl, members, age>>

\* Store.Find; a request without an entry is refused and ends.
Find(r, s) ==
  /\ pc[r] = "idle" /\ left[s] > 0
  /\ held' = [held EXCEPT ![r] = s]
  /\ Goto(r, "found")
  /\ UNCHANGED <<created, mixed, redis, limit, ttl, members, age>>

\* Resolve reads the clock: past the absolute lifetime the session is to be
\* deleted, else its TTL is to be extended.
Decide(r) ==
  /\ pc[r] = "found"
  /\ \/ /\ limit[held[r]] > 0 /\ Goto(r, "refresh")
        /\ ttl' = [ttl EXCEPT ![r] = SlidingTTL(limit[held[r]])]
     \/ limit[held[r]] <= 0 /\ Goto(r, "delete") /\ UNCHANGED ttl
  /\ UNCHANGED <<created, mixed, redis, limit, held, members, age>>

\* Variant: SET instead of EXPIRE.
RefreshSets(r) ==
  /\ pc[r] = "refresh" /\ Return(r)
  /\ left' = [left EXCEPT ![held[r]] = ttl[r]]
  /\ UNCHANGED <<created, mixed, index, indexLeft, limit>>

\* EXPIRE, without effect (and an error) on an entry that is gone.
Refresh(r) ==
  /\ pc[r] = "refresh" /\ Return(r)
  /\ left' = [left EXCEPT ![held[r]] = IF @ > 0 THEN ttl[r] ELSE 0]
  /\ UNCHANGED <<created, mixed, index, indexLeft, limit>>

Delete(r) ==
  /\ pc[r] = "delete" /\ Return(r)
  /\ left' = [left EXCEPT ![held[r]] = 0]
  /\ UNCHANGED <<created, mixed, index, indexLeft, limit>>

\* Manager.Revoke, of a logout: the index keeps the id.
Revoke(s) ==
  /\ left[s] > 0
  /\ left' = [left EXCEPT ![s] = 0]
  /\ UNCHANGED <<created, mixed, index, indexLeft, limit, pc, held, ttl, members, age>>

\* Manager.RevokeAllForUser: the ids of the index are read ...
ListAll(r) ==
  /\ pc[r] = "idle"
  /\ members' = [members EXCEPT ![r] = index]
  /\ Goto(r, "del all")
  /\ UNCHANGED <<created, mixed, redis, limit, held, ttl, age>>

\* ... and their entries and the index deleted.
DeleteAll(r) ==
  /\ pc[r] = "del all" /\ Return(r)
  /\ left' = [s \in Ids |-> IF s \in members[r] THEN 0 ELSE left[s]]
  /\ index' = {} /\ indexLeft' = 0
  /\ UNCHANGED <<created, mixed, limit>>

\* A Redis call of r fails, and r with it (Resolve ignores a failed Delete, and
\* refuses the session all the same).
CallFails(r) ==
  /\ pc[r] # "idle" /\ Return(r)
  /\ UNCHANGED <<created, mixed, redis, limit>>

\* Time passes, in Redis and for the requests; none lasts longer than Latency.
Tick ==
  /\ \A r \in Requests : pc[r] # "idle" => age[r] < Latency
  /\ age' = [r \in Requests |-> IF pc[r] = "idle" THEN 0 ELSE age[r] + 1]
  /\ left' = [s \in Ids |-> IF left[s] > 0 THEN left[s] - 1 ELSE 0]
  /\ limit' = [s \in Ids |-> IF s \in created /\ limit[s] >= -Latency
                             THEN limit[s] - 1 ELSE limit[s]]
  /\ indexLeft' = IF indexLeft > 0 THEN indexLeft - 1 ELSE 0
  /\ index' = IF indexLeft = 1 THEN {} ELSE index
  /\ UNCHANGED <<created, mixed, pc, held, ttl, members>>

Resolve(r) == (\E s \in Ids : Find(r, s)) \/ Decide(r) \/ Refresh(r) \/ Delete(r)
RevokeAllForUser(r) == ListAll(r) \/ DeleteAll(r)

Next ==
  \/ \E s \in Ids : Create(s) \/ Revoke(s)
  \/ \E r \in Requests : Resolve(r) \/ RevokeAllForUser(r) \/ CallFails(r)
  \/ Tick

Spec == Init /\ [][Next]_vars

-----------------------------------------------------------------------------
(* Properties. *)

\* A session that has been logged out, revoked or has expired never works again:
\* no request that had found it brings its entry back (Resolve's Find, then
\* Refresh).
GoneIsGone == [][\A s \in created : left[s] = 0 => left'[s] = 0]_vars

\* The TTL slides, but a session is accepted beyond its absolute lifetime only
\* for the length of the requests that were under way (slidingTTL, Resolve).
AbsoluteLimit ==
  \A s \in Ids :
    /\ left[s] > 0 => left[s] <= limit[s] + Latency
    /\ \A r \in Requests : pc[r] = "refresh" /\ held[r] = s => limit[s] > -Latency

\* "usersessions:{userID} is a SET indexing every live session for a user"
\* (docs/DATA-MODEL.md): a live session is in the index, so that the revocation
\* of all of them finds it, and the index does not expire before it.  Sessions
\* of a login between SMembers and Del of such a revocation are the exception:
\* the Del takes their index away.
Indexed ==
  \A s \in Ids \ mixed : left[s] > 0 => s \in index /\ indexLeft >= left[s]

\* A revocation of all leaves nothing the user could still present: of every
\* login, but the ones between its two calls or those of an earlier one.
RevokedAll ==
  [][\A r \in Requests : DeleteAll(r) => \A s \in created \ mixed : left'[s] = 0]_vars
=============================================================================
