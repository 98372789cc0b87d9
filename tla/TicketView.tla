----------------------------- MODULE TicketView -----------------------------
(***************************************************************************)
(* The recent-tickets view of one tenant: the issues in Jira, the Redis    *)
(* list tickets:{tenant} that mirrors the newest of them, the creates that *)
(* add to it (ticketreport.CreateTicket, RedisTicketCache.Add: read the    *)
(* list, write it back), and the reconciles that rebuild it from a label   *)
(* search behind the throttle and the single-flight lock of                *)
(* RedisReconcileGate.  Issues are numbered in the order of creation, and  *)
(* a list is the set of its issues: readers sort it.                       *)
(***************************************************************************)
EXTENDS Naturals, FiniteSets

CONSTANTS
  Creators,     \* requests and scheduler runs that create tickets
  Reconcilers,  \* connects and refresh buttons that reconcile
  Free,         \* nobody holds the lock
  MaxIssues,    \* bound: issues created in Jira
  Cap,          \* ticketCacheMax, and maxTickets of the search
  MaxFailures   \* bound: failed calls, crashes and expiries of the list

ASSUME TicketViewAssumption ==
  /\ MaxIssues \in Nat /\ Cap \in Nat \ {0} /\ MaxFailures \in Nat
  /\ Free \notin Reconcilers
  /\ Creators \cap Reconcilers = {}

Issues == 1..MaxIssues
Actors == Creators \cup Reconcilers

VARIABLES
  made,      \* issues 1..made have been created
  jira,      \* the ones Jira still has
  cache,     \* tickets:{tenant}; a missing key is an empty list
  lock,      \* reconcile:lock:{tenant}: who set it
  recent,    \* reconcile:last:{tenant} exists
  pc,        \* where each actor is
  list,      \* list[x]: the list it read, or found in Jira
  mine,      \* mine[c]: the issue c is adding to the list; 0: none
  failures,
  outrun     \* history: the lock has expired under a reconcile at work, and since then
             \* there has always been one at work

gate == <<lock, recent>>
vars == <<made, jira, cache, gate, pc, list, mine, failures, outrun>>

TypeOK ==
  /\ made \in 0..MaxIssues /\ jira \subseteq 1..made
  /\ cache \subseteq 1..made /\ Cardinality(cache) <= Cap
  /\ lock \in Reconcilers \cup {Free} /\ recent \in BOOLEAN
  /\ pc \in [Actors -> {"idle", "read", "write", "lock", "search", "replace", "stamp",
                        "unlock"}]
  /\ list \in [Actors -> SUBSET Issues]
  /\ mine \in [Creators -> 0..MaxIssues]
  /\ failures \in 0..MaxFailures
  /\ outrun \in BOOLEAN

Init ==
  /\ made = 0 /\ jira = {} /\ cache = {}
  /\ lock = Free /\ recent = FALSE
  /\ pc = [x \in Actors |-> "idle"]
  /\ list = [x \in Actors |-> {}]
  /\ mine = [c \in Creators |-> 0]
  /\ failures = 0 /\ outrun = FALSE

Fail == failures < MaxFailures /\ failures' = failures + 1
NoFail == UNCHANGED failures

Goto(x, label) == pc' = [pc EXCEPT ![x] = label]
Hold(x, S) == list' = [list EXCEPT ![x] = S]

\* capNewest, and the newest-first bounded label search.
Newest(S) == {t \in S : Cardinality({u \in S : u > t}) < Cap}

-----------------------------------------------------------------------------
(* CreateTicket. *)

\* The issue is created in Jira and the answer arrives, or is lost.
CreateIssue(c) ==
  /\ pc[c] = "idle" /\ made < MaxIssues
  /\ made' = made + 1 /\ jira' = jira \cup {made + 1}
  /\ \/ /\ Goto(c, "read") /\ mine' = [mine EXCEPT ![c] = made + 1] /\ NoFail
     \/ Fail /\ UNCHANGED <<pc, mine>>
  /\ UNCHANGED <<cache, gate, list, outrun>>

\* The create returns, with the issue on the list or not.
Created(c) ==
  /\ Goto(c, "idle") /\ Hold(c, {})
  /\ mine' = [mine EXCEPT ![c] = 0]

\* Add, first half: read the list.
ReadCache(c) ==
  /\ pc[c] = "read"
  /\ \/ Goto(c, "write") /\ Hold(c, cache) /\ UNCHANGED mine /\ NoFail
     \/ Created(c) /\ Fail
  /\ UNCHANGED <<made, jira, cache, gate, outrun>>

\* Variant: the list is not capped.
WriteUncapped(c) ==
  /\ pc[c] = "write" /\ Created(c)
  /\ cache' = list[c] \cup {mine[c]} /\ NoFail
  /\ UNCHANGED <<made, jira, gate, outrun>>

\* Second half: write it back with the new ticket, whatever it holds by now.
WriteCache(c) ==
  /\ pc[c] = "write" /\ Created(c)
  /\ \/ cache' = Newest(list[c] \cup {mine[c]}) /\ NoFail
     \/ UNCHANGED cache /\ Fail
  /\ UNCHANGED <<made, jira, gate, outrun>>

-----------------------------------------------------------------------------
(* Reconcile. *)

\* TryAcquire, the throttle: an unforced reconcile is skipped while the marker
\* lives.
CheckThrottle(r, force) ==
  /\ pc[r] = "idle"
  /\ force \/ ~recent
  /\ Goto(r, "lock")
  /\ UNCHANGED <<made, jira, cache, gate, list, mine, failures, outrun>>

\* Variant: SET instead of SET NX.
TryLockSets(r) ==
  /\ pc[r] = "lock" /\ lock' = r /\ Goto(r, "search")
  /\ UNCHANGED <<made, jira, cache, recent, list, mine, failures, outrun>>

\* TryAcquire, the lock: SET NX, or another reconcile is in flight.
TryLock(r) ==
  /\ pc[r] = "lock"
  /\ \/ lock = Free /\ lock' = r /\ Goto(r, "search")
     \/ lock # Free /\ Goto(r, "idle") /\ UNCHANGED lock
  /\ UNCHANGED <<made, jira, cache, recent, list, mine, failures, outrun>>

\* resolveAuth and SearchByLabel.
Search(r) ==
  /\ pc[r] = "search"
  /\ \/ Goto(r, "replace") /\ Hold(r, Newest(jira)) /\ NoFail
     \/ Goto(r, "stamp") /\ UNCHANGED list /\ Fail
  /\ UNCHANGED <<made, jira, cache, gate, mine, outrun>>

\* Variant: what is found is added to the list.
ReplaceMerges(r) ==
  /\ pc[r] = "replace" /\ Goto(r, "stamp") /\ Hold(r, {})
  /\ cache' = Newest(cache \cup list[r]) /\ NoFail
  /\ UNCHANGED <<made, jira, gate, mine, outrun>>

Replace(r) ==
  /\ pc[r] = "replace" /\ Goto(r, "stamp") /\ Hold(r, {})
  /\ \/ cache' = Newest(list[r]) /\ NoFail
     \/ UNCHANGED cache /\ Fail
  /\ UNCHANGED <<made, jira, gate, mine, outrun>>

Reconciling(r) == pc[r] \in {"search", "replace", "stamp", "unlock"}

\* r is at work no more.
Leave(r) == outrun' = (outrun /\ \E q \in Reconcilers \ {r} : Reconciling(q))

\* The deferred release, after a failed reconcile too: stamp the throttle, then
\* delete the lock, whoever set it.
Stamp(r) ==
  /\ pc[r] = "stamp" /\ Goto(r, "unlock")
  /\ (recent' = TRUE /\ NoFail) \/ (UNCHANGED recent /\ Fail)
  /\ UNCHANGED <<made, jira, cache, lock, list, mine, outrun>>

Unlock(r) ==
  /\ pc[r] = "unlock" /\ Goto(r, "idle") /\ Leave(r)
  /\ (lock' = Free /\ NoFail) \/ (UNCHANGED lock /\ Fail)
  /\ UNCHANGED <<made, jira, cache, recent, list, mine>>

-----------------------------------------------------------------------------
(* Crashes, expiries and Jira. *)

Crash(x) ==
  /\ pc[x] # "idle" /\ Fail /\ Leave(x)
  /\ Goto(x, "idle") /\ Hold(x, {})
  /\ mine' = IF x \in Creators THEN [mine EXCEPT ![x] = 0] ELSE mine
  /\ UNCHANGED <<made, jira, cache, gate>>

\* reconcileLockTTL passes; nothing makes the holder end before.
LockExpires ==
  /\ lock # Free /\ lock' = Free
  /\ outrun' = (outrun \/ Reconciling(lock))
  /\ UNCHANGED <<made, jira, cache, recent, pc, list, mine, failures>>

WindowPasses ==
  /\ recent /\ recent' = FALSE
  /\ UNCHANGED <<made, jira, cache, lock, pc, list, mine, failures, outrun>>

CacheExpires ==
  /\ cache' = {} /\ Fail
  /\ UNCHANGED <<made, jira, gate, pc, list, mine, outrun>>

\* Somebody deletes an issue, or takes its label off.
RemoveIssue ==
  /\ \E t \in jira : jira' = jira \ {t}
  /\ UNCHANGED <<made, cache, gate, pc, list, mine, failures, outrun>>

CreatorStep(c) == CreateIssue(c) \/ ReadCache(c) \/ WriteCache(c)
ReconcileStep(r) == TryLock(r) \/ Search(r) \/ Replace(r) \/ Stamp(r) \/ Unlock(r)

Next ==
  \/ \E c \in Creators : CreatorStep(c)
  \/ \E r \in Reconcilers :
       ReconcileStep(r) \/ \E force \in BOOLEAN : CheckThrottle(r, force)
  \/ \E x \in Actors : Crash(x)
  \/ LockExpires \/ WindowPasses \/ CacheExpires \/ RemoveIssue

Spec == Init /\ [][Next]_vars

\* Calls return, the lock's TTL runs, and a user who looks at the view presses
\* the refresh button again and again.
Fairness ==
  /\ \A c \in Creators : WF_vars(ReadCache(c) \/ WriteCache(c))
  /\ \A r \in Reconcilers : WF_vars(ReconcileStep(r)) /\ WF_vars(CheckThrottle(r, TRUE))
  /\ WF_vars(LockExpires)

FairSpec == Spec /\ Fairness

-----------------------------------------------------------------------------
(* Properties. *)

\* "Only one reconcile per tenant runs at a time" (docs/DATA-MODEL.md,
\* TryAcquire), across crashes, failed releases and expiries of the lock: short of a
\* reconcile that outruns reconcileLockTTL, which nothing in the code prevents, the
\* release of one never frees the lock of another; and once all have ended, the next
\* ones are alone again.
OneReconcile ==
  \A q, r \in Reconcilers : Reconciling(q) /\ Reconciling(r) => q = r \/ outrun

\* The next reconciles heal any divergence (RedisTicketCache.Add): however
\* creates, reconciles, crashes and failures have mangled the list, once Jira is
\* left alone it ends up as the newest issues of Jira.
Heals ==
  <>[][jira' = jira]_vars => <>[](cache = Newest(jira))

\* CreateTicket "adds it to the cache so it shows immediately": with no failure,
\* one of the Cap newest issues is on the list when its create has returned.
ShownAtOnce ==
  failures = 0 =>
    \A t \in jira : t + Cap > made /\ (\A c \in Creators : mine[c] # t) => t \in cache
=============================================================================
