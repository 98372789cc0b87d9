----------------------------- MODULE Automation -----------------------------
(***************************************************************************)
(* The blog-digest automation: scheduler workers claim due rows of the     *)
(* automations table under a lease (claim_due_automations), run one        *)
(* pipeline pass per claimed row (automation.Service.RunOnce: discover,    *)
(* filter unseen, then per post check connection, scrape, summarise, file  *)
(* a ticket, mark seen), and release the row with its next scan time       *)
(* (Complete).  Users create, edit, run now and delete automations at any  *)
(* point of a run; the owner's Jira connection comes and goes; workers     *)
(* crash and calls fail.                                                   *)
(*                                                                         *)
(* Time is relative: a row keeps the time left to next_scan_at (wait) and  *)
(* the time since locked_at (age), and Tick advances both.                 *)
(***************************************************************************)
EXTENDS Integers, FiniteSets

CONSTANTS
  Workers,       \* scheduler processes (replicas of cmd/scheduler)
  Autos,         \* automation ids; an id is used once (a UUID)
  NoAuto,        \* a worker that runs nothing
  NumPosts,      \* bound: posts a site publishes, numbered oldest first
  Poison,        \* posts whose page can never be scraped or summarised
  Batch,         \* SCHEDULER claim batch
  MaxPosts,      \* per-run cap, 0 = no cap
  Lease,         \* ticks a claim protects a row
  Interval,      \* ticks between steady-state scans
  Drain,         \* ticks to the next scan while a backlog remains, 0 = off
  MaxOverdue,    \* bound: how far in the past a due time is told apart
  MaxFailures,   \* bound: crashes, failed or lost calls, claims that find rows locked
  MaxTaken       \* bound: claims of a row that a live worker still runs

Posts == 1..NumPosts

ASSUME ConstantsAssumption ==
  /\ NumPosts \in Nat /\ Poison \subseteq Posts
  /\ Batch \in Nat \ {0} /\ MaxPosts \in Nat
  /\ Lease \in Nat /\ Interval \in Nat \ {0} /\ Drain \in 0..Interval
  /\ MaxOverdue \in Nat /\ MaxFailures \in Nat /\ MaxTaken \in Nat
  /\ IsFiniteSet(Workers)
  /\ NoAuto \notin Autos

VARIABLES
  \* the automations table
  life,       \* "unused", "live" or "deleted"
  enabled,
  status,     \* "idle" or "running": the claim lock
  wait,       \* ticks until next_scan_at; not above 0 when due
  age,        \* ticks since locked_at, of a running row
  \* Redis, Jira and the site
  seen,       \* the Redis set automation:seen:{a}
  tickets,    \* tickets[a][p]: Jira issues filed for post p
  lapses,     \* lapses[a][p]: tickets whose seen-mark was never written
  connected,  \* the owner's Jira connection is usable
  feed,       \* feed[a]: the site of a lists posts 1..feed[a]
  \* processes
  clearing,   \* deletes between the DELETE of the row and Clear of the set
  pc,         \* where each worker is
  batch,      \* the claimed automations it has still to release
  cur,        \* the one it runs
  todo,       \* the posts left of the run
  soon,       \* the run left a backlog and has not failed
  failures,   \* failures spent, at most MaxFailures
  \* history, which no step reads
  late,       \* automations a live worker has run beyond the lease, since they were
              \* last claimed with nobody running them
  taken       \* taken[a]: claims of a while a live worker still ran it

table == <<life, enabled, status, wait, age>>
worker == <<pc, batch, cur, todo, soon>>
history == <<late, taken>>
vars == <<table, seen, tickets, lapses, connected, feed, clearing, worker, failures, history>>

TableTypes ==
  /\ life \in [Autos -> {"unused", "live", "deleted"}]
  /\ enabled \in [Autos -> BOOLEAN]
  /\ status \in [Autos -> {"idle", "running"}]
  /\ wait \in [Autos -> (-MaxOverdue)..Interval]
  /\ age \in [Autos -> 0..(Lease + 1)]

WorldTypes ==
  /\ seen \in [Autos -> SUBSET Posts]
  /\ tickets \in [Autos -> [Posts -> Nat]]
  /\ lapses \in [Autos -> [Posts -> Nat]]
  /\ connected \in BOOLEAN
  /\ feed \in [Autos -> 0..NumPosts]
  /\ clearing \subseteq Autos
  /\ failures \in 0..MaxFailures

WorkerTypes ==
  /\ pc \in [Workers -> {"poll", "start", "post", "create", "mark", "complete"}]
  /\ batch \in [Workers -> SUBSET Autos]
  /\ cur \in [Workers -> Autos \cup {NoAuto}]
  /\ todo \in [Workers -> SUBSET Posts]
  /\ soon \in [Workers -> BOOLEAN]

HistoryTypes == late \subseteq Autos /\ taken \in [Autos -> Nat]

TypeOK == TableTypes /\ WorldTypes /\ WorkerTypes /\ HistoryTypes

Init ==
  /\ life = [a \in Autos |-> "unused"]
  /\ enabled = [a \in Autos |-> FALSE]
  /\ status = [a \in Autos |-> "idle"]
  /\ wait = [a \in Autos |-> 0]
  /\ age = [a \in Autos |-> 0]
  /\ seen = [a \in Autos |-> {}]
  /\ tickets = [a \in Autos |-> [p \in Posts |-> 0]]
  /\ lapses = [a \in Autos |-> [p \in Posts |-> 0]]
  /\ connected = TRUE
  /\ feed \in [Autos -> 0..NumPosts]
  /\ clearing = {}
  /\ pc = [w \in Workers |-> "poll"]
  /\ batch = [w \in Workers |-> {}]
  /\ cur = [w \in Workers |-> NoAuto]
  /\ todo = [w \in Workers |-> {}]
  /\ soon = [w \in Workers |-> FALSE]
  /\ failures = 0
  /\ late = {} /\ taken = [a \in Autos |-> 0]

\* One call fails, is lost, or a process dies.
Fail == failures < MaxFailures /\ failures' = failures + 1
NoFail == UNCHANGED failures

-----------------------------------------------------------------------------
(* Claiming due rows. *)

Live(a) == life[a] = "live"

\* Variant: a row under a claim is claimed again.
ClaimableRunning(a) == Live(a) /\ enabled[a] /\ wait[a] <= 0

\* Variant: the lease never runs out.
ClaimableIdle(a) == Live(a) /\ enabled[a] /\ wait[a] <= 0 /\ status[a] = "idle"

\* The WHERE clause of claim_due_automations.
Claimable(a) ==
  /\ Live(a) /\ enabled[a] /\ wait[a] <= 0
  /\ status[a] = "idle" \/ age[a] > Lease

\* Variant: no ORDER BY.
SelectedAny(S, locked) ==
  LET due == {a \in Autos : Claimable(a)} \ locked IN
  /\ S # {} /\ S \subseteq due /\ Cardinality(S) <= Batch
  /\ Cardinality(S) < Batch => S = due

\* ORDER BY next_scan_at LIMIT Batch FOR UPDATE SKIP LOCKED: S is the most overdue
\* Batch rows of those no other transaction has locked.
Selected(S, locked) ==
  LET due == {a \in Autos : Claimable(a)} \ locked IN
  /\ S # {} /\ S \subseteq due /\ Cardinality(S) <= Batch
  /\ Cardinality(S) < Batch => S = due
  /\ \A a \in S, b \in due \ S : wait[a] <= wait[b]

\* Variant: locked_at is not set again.
LockUnstamped(S) ==
  /\ status' = [a \in Autos |-> IF a \in S THEN "running" ELSE status[a]]
  /\ UNCHANGED <<life, enabled, wait, age>>

Lock(S) ==
  /\ status' = [a \in Autos |-> IF a \in S THEN "running" ELSE status[a]]
  /\ age' = [a \in Autos |-> IF a \in S THEN 0 ELSE age[a]]
  /\ UNCHANGED <<life, enabled, wait>>

Runs(w, a) == a \in batch[w]
Held(a) == \E w \in Workers : Runs(w, a)

\* The history of a claim of S: who takes a row from a live worker is counted, and
\* a row nobody runs starts anew.
Take(S) ==
  /\ \A a \in S : Held(a) => taken[a] < MaxTaken
  /\ taken' = [a \in Autos |-> IF a \in S /\ Held(a) THEN taken[a] + 1 ELSE taken[a]]
  /\ late' = {a \in late : a \in S => Held(a)}

\* The claim, and its result at the worker; or the claim commits and its result
\* is lost.  Rows that another claim or a user's edit has locked just then are
\* passed over: a disturbance, bounded like the failures.
ClaimDue(w) ==
  /\ pc[w] = "poll"
  /\ \E S, locked \in SUBSET Autos :
       /\ Selected(S, locked)
       /\ Lock(S)
       /\ \/ /\ pc' = [pc EXCEPT ![w] = "start"]
             /\ batch' = [batch EXCEPT ![w] = S]
             /\ Take(S) /\ UNCHANGED <<cur, todo, soon>>
             /\ IF locked = {} THEN NoFail ELSE Fail
          \/ locked = {} /\ Fail /\ UNCHANGED <<worker, history>>
  /\ UNCHANGED <<feed, seen, tickets, lapses, connected, clearing>>

-----------------------------------------------------------------------------
(* One pipeline pass. *)

Goto(w, label) == pc' = [pc EXCEPT ![w] = label]

\* What one read of the sitemap lists: every post, or, when a child sitemap is
\* unreachable and skipped, some of them.  (A site lists each post once.)
Listing(a, listed) ==
  /\ listed # {}
  /\ \/ listed = 1..feed[a] /\ NoFail
     \/ listed \subseteq 1..feed[a] /\ Fail

\* The newest MaxPosts posts of S (the discoverer lists newest first).
Capped(S) == IF MaxPosts = 0 THEN S
             ELSE {p \in S : Cardinality({q \in S : q > p}) < MaxPosts}

\* The posts not in the seen set, up to the cap, are the run's; what the cap
\* leaves is the backlog.
Begin(w, unseen) ==
  /\ Goto(w, IF Capped(unseen) = {} THEN "complete" ELSE "post")
  /\ todo' = [todo EXCEPT ![w] = Capped(unseen)]
  /\ soon' = [soon EXCEPT ![w] = Capped(unseen) # unseen]

\* The run ends with an error.
Abort(w) ==
  /\ Goto(w, "complete")
  /\ todo' = [todo EXCEPT ![w] = {}]
  /\ soon' = [soon EXCEPT ![w] = FALSE]

\* Variant: the cap is applied before the seen posts are dropped.
StartRunCapFirst(w) ==
  /\ pc[w] = "start"
  /\ \E a \in batch[w] :
       /\ cur' = [cur EXCEPT ![w] = a]
       /\ \/ \E listed \in SUBSET Posts :
               Listing(a, listed) /\ Begin(w, Capped(listed) \ seen[a])
          \/ Abort(w) /\ IF feed[a] = 0 THEN NoFail ELSE Fail
  /\ UNCHANGED <<table, batch, feed, seen, tickets, lapses, connected, clearing, history>>

\* Discover and Unseen; or no post is listed, or one of the two calls fails.
StartRun(w) ==
  /\ pc[w] = "start"
  /\ \E a \in batch[w] :
       /\ cur' = [cur EXCEPT ![w] = a]
       /\ \/ \E listed \in SUBSET Posts :
               Listing(a, listed) /\ Begin(w, listed \ seen[a])
          \/ Abort(w) /\ IF feed[a] = 0 THEN NoFail ELSE Fail
  /\ UNCHANGED <<table, batch, feed, seen, tickets, lapses, connected, clearing, history>>

\* The post the loop is at: the newest one left.
Current(w, p) == p \in todo[w] /\ \A q \in todo[w] : q <= p

\* continue: the loop goes on with the next post.
NextPost(w, p) ==
  /\ todo' = [todo EXCEPT ![w] = @ \ {p}]
  /\ Goto(w, IF todo[w] = {p} THEN "complete" ELSE "post")
  /\ UNCHANGED soon

\* EnsureConnected, then scrape and summarise the post.
ExaminePost(w) ==
  /\ pc[w] = "post"
  /\ \E p \in Posts :
       /\ Current(w, p)
       /\ \/ ~connected /\ Abort(w) /\ NoFail
          \/ connected /\ Abort(w) /\ Fail
          \/ /\ connected /\ p \notin Poison
             /\ Goto(w, "create") /\ UNCHANGED <<todo, soon>> /\ NoFail
          \/ connected /\ p \in Poison /\ NextPost(w, p) /\ NoFail
          \/ connected /\ NextPost(w, p) /\ Fail
  /\ UNCHANGED <<table, batch, cur, feed, seen, tickets, lapses, connected, clearing, history>>

FileTicket(a, p) == tickets' = [tickets EXCEPT ![a][p] = @ + 1]
Lapse(a, p) == lapses' = [lapses EXCEPT ![a][p] = @ + 1]

\* ticketreport.CreateTicket: refused for reauth, failed, filed, or filed in
\* Jira with the answer lost.
CreateTicket(w) ==
  /\ pc[w] = "create"
  /\ \E p \in Posts :
       /\ Current(w, p)
       /\ \/ ~connected /\ Abort(w) /\ NoFail /\ UNCHANGED <<tickets, lapses>>
          \/ connected /\ NextPost(w, p) /\ Fail /\ UNCHANGED <<tickets, lapses>>
          \/ /\ connected /\ FileTicket(cur[w], p) /\ NoFail
             /\ Goto(w, "mark") /\ UNCHANGED <<todo, soon, lapses>>
          \/ /\ connected /\ FileTicket(cur[w], p) /\ Fail
             /\ NextPost(w, p) /\ Lapse(cur[w], p)
  /\ UNCHANGED <<table, batch, cur, feed, seen, connected, clearing, history>>

\* Variant: everything discovered is marked.
MarkDiscovered(w) ==
  /\ pc[w] = "mark"
  /\ \E p \in Posts : Current(w, p) /\ NextPost(w, p)
  /\ seen' = [seen EXCEPT ![cur[w]] = @ \cup 1..feed[cur[w]]]
  /\ UNCHANGED <<table, batch, cur, feed, tickets, lapses, connected, clearing, failures, history>>

\* Variant: nothing is marked.
MarkNothing(w) ==
  /\ pc[w] = "mark"
  /\ \E p \in Posts : Current(w, p) /\ NextPost(w, p)
  /\ UNCHANGED <<table, batch, cur, feed, seen, tickets, lapses, connected, clearing,
                 failures, history>>

\* seen.Add, after the ticket exists; a failure is logged and the loop goes on.
MarkSeen(w) ==
  /\ pc[w] = "mark"
  /\ \E p \in Posts :
       /\ Current(w, p) /\ NextPost(w, p)
       /\ \/ /\ seen' = [seen EXCEPT ![cur[w]] = @ \cup {p}]
             /\ NoFail /\ UNCHANGED lapses
          \/ Lapse(cur[w], p) /\ Fail /\ UNCHANGED seen
  /\ UNCHANGED <<table, batch, cur, feed, tickets, connected, clearing, history>>

\* repo.Complete: unconditional, and without effect on a deleted row.  The next
\* scan comes soon while a backlog remains, else after the interval.
Release(a, next) ==
  IF Live(a) THEN /\ status' = [status EXCEPT ![a] = "idle"]
                  /\ age' = [age EXCEPT ![a] = 0]
                  /\ wait' = [wait EXCEPT ![a] = next]
                  /\ UNCHANGED <<life, enabled>>
             ELSE UNCHANGED table

\* The worker forgets the run and goes on with the rest of its batch.
Forget(w, rest) ==
  /\ batch' = [batch EXCEPT ![w] = rest]
  /\ Goto(w, IF rest = {} THEN "poll" ELSE "start")
  /\ cur' = [cur EXCEPT ![w] = NoAuto]
  /\ todo' = [todo EXCEPT ![w] = {}]
  /\ soon' = [soon EXCEPT ![w] = FALSE]

Complete(w) ==
  /\ pc[w] = "complete"
  /\ Forget(w, batch[w] \ {cur[w]})
  /\ \/ /\ Release(cur[w], IF soon[w] /\ Drain > 0 THEN Drain ELSE Interval)
        /\ NoFail
     \/ Fail /\ UNCHANGED table
  /\ UNCHANGED <<feed, seen, tickets, lapses, connected, clearing, history>>

\* The process dies (or is shut down: its calls fail with the context) and is
\* restarted; its claims stay in the table, an unrecorded ticket stays in Jira.
Crash(w) ==
  /\ pc[w] # "poll" /\ Fail
  /\ Forget(w, {})
  /\ \/ pc[w] # "mark" /\ UNCHANGED lapses
     \/ pc[w] = "mark" /\ \E p \in Posts : Current(w, p) /\ Lapse(cur[w], p)
  /\ UNCHANGED <<table, feed, seen, tickets, connected, clearing, history>>

-----------------------------------------------------------------------------
(* Users, the site, Jira and time. *)

Create(a, on) ==
  /\ life[a] = "unused"
  /\ life' = [life EXCEPT ![a] = "live"]
  /\ enabled' = [enabled EXCEPT ![a] = on]
  /\ UNCHANGED <<status, wait, age, feed, seen, tickets, lapses, connected, clearing,
                 worker, failures, history>>

SetEnabled(a, on) ==
  /\ Live(a)
  /\ enabled' = [enabled EXCEPT ![a] = on]
  /\ UNCHANGED <<life, status, wait, age, feed, seen, tickets, lapses, connected,
                 clearing, worker, failures, history>>

RunNow(a) ==
  /\ Live(a)
  /\ wait' = [wait EXCEPT ![a] = 0]
  /\ UNCHANGED <<life, enabled, status, age, feed, seen, tickets, lapses, connected,
                 clearing, worker, failures, history>>

\* Service.Delete, first half: the row goes.
DeleteRow(a) ==
  /\ life[a] # "unused"
  /\ life' = [life EXCEPT ![a] = "deleted"]
  /\ enabled' = [enabled EXCEPT ![a] = FALSE]
  /\ status' = [status EXCEPT ![a] = "idle"]
  /\ wait' = [wait EXCEPT ![a] = 0]
  /\ age' = [age EXCEPT ![a] = 0]
  /\ clearing' = clearing \cup {a}
  /\ UNCHANGED <<feed, seen, tickets, lapses, connected, worker, failures, history>>

\* Second half: the seen set goes, unless the call fails.
ClearSeen(a) ==
  /\ a \in clearing
  /\ clearing' = clearing \ {a}
  /\ \/ seen' = [seen EXCEPT ![a] = {}] /\ NoFail
     \/ Fail /\ UNCHANGED seen
  /\ UNCHANGED <<table, feed, tickets, lapses, connected, worker, history>>

Delete(a) == DeleteRow(a) \/ ClearSeen(a)

Publish(a) ==
  /\ feed[a] < NumPosts
  /\ feed' = [feed EXCEPT ![a] = @ + 1]
  /\ UNCHANGED <<table, seen, tickets, lapses, connected, clearing, worker, failures, history>>

ToggleConnection ==
  /\ connected' = ~connected
  /\ UNCHANGED <<table, feed, seen, tickets, lapses, clearing, worker, failures, history>>

\* Bound: while a worker waits for its next poll, no row becomes as overdue as a
\* claimable one at the far end of the modelled past; the claim order between
\* them would be lost.
OrderTold ==
  (\E w \in Workers : pc[w] = "poll")
    => ~\E a, b \in Autos : /\ Claimable(a) /\ wait[a] = -MaxOverdue
                           /\ Live(b) /\ wait[b] = 1 - MaxOverdue

Tick ==
  /\ OrderTold
  /\ wait' = [a \in Autos |-> IF Live(a) /\ wait[a] > -MaxOverdue
                              THEN wait[a] - 1 ELSE wait[a]]
  /\ age' = [a \in Autos |-> IF status[a] = "running" /\ age[a] <= Lease
                             THEN age[a] + 1 ELSE age[a]]
  /\ late' = late \cup {a \in Autos : Held(a) /\ age'[a] > Lease}
  /\ UNCHANGED <<life, enabled, status, feed, seen, tickets, lapses, connected,
                 clearing, worker, failures, taken>>

-----------------------------------------------------------------------------
WorkerStep(w) ==
  \/ ClaimDue(w) \/ StartRun(w) \/ ExaminePost(w) \/ CreateTicket(w)
  \/ MarkSeen(w) \/ Complete(w)

UserStep(a) ==
  \/ \E on \in BOOLEAN : Create(a, on) \/ SetEnabled(a, on)
  \/ RunNow(a) \/ Delete(a)

Next ==
  \/ \E w \in Workers : WorkerStep(w) \/ Crash(w)
  \/ \E a \in Autos : UserStep(a) \/ Publish(a)
  \/ ToggleConnection
  \/ Tick

Spec == Init /\ [][Next]_vars

\* Workers keep running (a crashed one is restarted), a delete finishes, and
\* time passes (whenever the bound in Tick lets it, again and again: strong
\* fairness).  Nothing obliges users, the site, Jira or a failure.
Fairness ==
  /\ \A w \in Workers : WF_vars(WorkerStep(w))
  /\ \A a \in Autos : WF_vars(ClearSeen(a))
  /\ SF_vars(Tick)

FairSpec == Spec /\ Fairness

-----------------------------------------------------------------------------
(* Properties. *)

\* The row doubles as the claim lock: from the claim of an automation nobody runs
\* on, no two workers run it, across crashes, lost claims, failed releases, edits
\* and deletes, until a live worker has outrun its lease, which nothing in the code
\* prevents (domain/automation.go, claim_due_automations, RunDue).
OverlapOnlyWhenLate ==
  \A a \in Autos \ late : \A v, w \in Workers : Runs(v, a) /\ Runs(w, a) => v = w

\* A post is marked seen only after its ticket exists: a failure at any step of
\* the pipeline never loses a post (RunOnce).
SeenImpliesFiled ==
  \A a \in Autos : \A p \in seen[a] : tickets[a][p] >= 1

\* While an automation exists, a post has at most one ticket more than the times
\* its mark was lost after the ticket was filed and the times the automation was
\* claimed from under a live worker: re-runs, drains, run-now, reconnects and crashes
\* elsewhere in the pipeline file nothing twice, and a run that outlasts its lease
\* costs one ticket per claim (RunOnce, RunDue).
AtMostOnce ==
  \A a \in Autos : Live(a) => \A p \in Posts : tickets[a][p] <= 1 + lapses[a][p] + taken[a]

\* The owner keeps the automation enabled and connected for good.
Active(a) == Live(a) /\ enabled[a] /\ connected

\* Users do not press "run now" for ever: RunNow moves an overdue row to the back
\* of the claim order.  (A Tick may look like a RunNow.)
UsersRest == <>[][\A b \in Autos : RunNow(b) => Tick]_vars

\* Poison posts are never marked seen, so each newer one takes a place of every
\* capped run: post p is reached if they leave a place.
Reached(p) ==
  \/ MaxPosts = 0
  \/ Cardinality({q \in Poison : q > p}) < MaxPosts

\* Every published post that can be scraped and that poison posts leave a place
\* in the capped runs is filed in the end, whatever failed, crashed or was
\* edited before, if the automation is then left active ("A per-run cap drains a
\* backlog over runs", README.md).
EventuallyFiled ==
  \A a \in Autos : \A p \in Posts \ Poison :
    Reached(p) /\ <>[]Active(a) /\ UsersRest
      => [](p <= feed[a] => <>(tickets[a][p] >= 1))

\* A row left running by a crash, a lost claim or a failed Complete is reclaimed
\* after its lease and returns to idle, unless it is disabled or deleted, if users
\* do not keep moving it to the back of the claim order.
Recovered ==
  UsersRest =>
    \A a \in Autos :
      (Live(a) /\ status[a] = "running")
        ~> (status[a] = "idle" \/ ~enabled[a])

-----------------------------------------------------------------------------
(* The inductive invariant behind OverlapOnlyWhenLate, SeenImpliesFiled and *)
(* AtMostOnce.                                                              *)

\* Where a worker's locals can be.
WorkerInv ==
  \A w \in Workers :
    /\ pc[w] \in {"poll", "start"} => cur[w] = NoAuto /\ todo[w] = {}
    /\ pc[w] = "poll" => batch[w] = {}
    /\ pc[w] \notin {"poll", "start"} => cur[w] \in batch[w]

\* A claimed id has had a row; one whose seen set is being cleared has lost it.
LifeInv ==
  /\ \A w \in Workers : \A a \in batch[w] : life[a] # "unused"
  /\ \A a \in clearing : life[a] = "deleted"

\* While its holder lives and is not late, a row stays locked and inside its lease.
LeaseInv ==
  \A w \in Workers : \A a \in batch[w] \ late :
    Live(a) => status[a] = "running" /\ age[a] <= Lease

\* Worker w has filed post p of a and not yet marked it.
Marking(w, a, p) == pc[w] = "mark" /\ cur[w] = a /\ Current(w, p)

FiledInv ==
  /\ SeenImpliesFiled
  /\ \A w \in Workers, a \in Autos, p \in Posts : Marking(w, a, p) => tickets[a][p] >= 1

Markers(a, p) == {w \in Workers : Marking(w, a, p)}

\* The workers that may still file post p of a: their run has not begun and will
\* find it unseen, or has it left.
Filers(a, p) ==
  {w \in Workers : \/ Runs(w, a) /\ cur[w] # a /\ p \notin seen[a]
                   \/ cur[w] = a /\ p \in todo[w] /\ ~Marking(w, a, p)}

\* Of a post not marked seen every ticket has lost its mark or is about to get it;
\* and the tickets a post has, with those it may still get from the runs under way,
\* are accounted for.
Accounted(a, p) ==
  /\ p \notin seen[a] => tickets[a][p] <= lapses[a][p] + Cardinality(Markers(a, p))
  /\ tickets[a][p] + Cardinality(Filers(a, p)) <= 1 + lapses[a][p] + taken[a]

OnceInv == \A a \in Autos : life[a] # "deleted" => \A p \in Posts : Accounted(a, p)

\* The facts the proofs of Automation's theorems rest on hold together in every
\* state: worker locals, lock and lease, tickets, marks, lapses and claims agree.
IInv ==
  /\ TypeOK /\ WorkerInv /\ LifeInv /\ FiledInv
  /\ LeaseInv /\ OverlapOnlyWhenLate /\ OnceInv
=============================================================================
