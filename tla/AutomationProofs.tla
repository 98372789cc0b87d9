-------------------------- MODULE AutomationProofs --------------------------
(* Proofs of the safety properties of Automation for all constants.         *)
EXTENDS AutomationDigest, FiniteSetTheorems, TLAPS

-----------------------------------------------------------------------------
(* Types: the building blocks of the worker's steps, then the steps. *)

\* A worker that forgets its run (Forget) keeps the types of its locals.
LEMMA ForgetTypes ==
  ASSUME WorkerTypes, NEW w \in Workers, NEW rest \in SUBSET batch[w], Forget(w, rest)
  PROVE  WorkerTypes'
<1> USE DEF WorkerTypes, Forget, Goto
<1>1. (pc \in [Workers -> {"poll", "start", "post", "create", "mark", "complete"}])'
  OBVIOUS
<1>2. (batch \in [Workers -> SUBSET Autos])' /\ (cur \in [Workers -> Autos \cup {NoAuto}])'
  OBVIOUS
<1>3. (todo \in [Workers -> SUBSET Posts])' /\ (soon \in [Workers -> BOOLEAN])'
  OBVIOUS
<1> QED BY <1>1, <1>2, <1>3

\* So does one whose run ends with an error (Abort).
LEMMA AbortTypes ==
  ASSUME WorkerTypes, NEW w \in Workers, Abort(w), UNCHANGED batch,
         (cur \in [Workers -> Autos \cup {NoAuto}])'
  PROVE  WorkerTypes'
<1> USE DEF WorkerTypes, Abort, Goto
<1>1. (pc \in [Workers -> {"poll", "start", "post", "create", "mark", "complete"}])'
  OBVIOUS
<1>2. (todo \in [Workers -> SUBSET Posts])' /\ (soon \in [Workers -> BOOLEAN])'
  OBVIOUS
<1> QED BY <1>1, <1>2

\* So does one that goes on with the next post (NextPost).
LEMMA NextPostTypes ==
  ASSUME WorkerTypes, NEW w \in Workers, NEW p \in Posts, NextPost(w, p),
         UNCHANGED <<batch, cur>>
  PROVE  WorkerTypes'
<1> USE DEF WorkerTypes, NextPost, Goto
<1>1. (pc \in [Workers -> {"poll", "start", "post", "create", "mark", "complete"}])'
  OBVIOUS
<1>2. (todo \in [Workers -> SUBSET Posts])'
  OBVIOUS
<1> QED BY <1>1, <1>2

\* So does one that goes on to file or to mark the post.
LEMMA GotoTypes ==
  ASSUME WorkerTypes, NEW w \in Workers, Goto(w, "create") \/ Goto(w, "mark"),
         UNCHANGED <<batch, cur, todo, soon>>
  PROVE  WorkerTypes'
BY DEF WorkerTypes, Goto

\* Counting a lost mark keeps the type of lapses.
LEMMA LapseTypes ==
  ASSUME lapses \in [Autos -> [Posts -> Nat]], NEW a, NEW p \in Posts, Lapse(a, p)
  PROVE  (lapses \in [Autos -> [Posts -> Nat]])'
<1>1. CASE a \in Autos
  <2>1. [lapses[a] EXCEPT ![p] = @ + 1] \in [Posts -> Nat]
    BY <1>1
  <2> QED BY <1>1, <2>1 DEF Lapse
<1>2. CASE a \notin Autos
  BY <1>2 DEF Lapse
<1> QED BY <1>1, <1>2

\* Filing a ticket keeps the type of tickets.
LEMMA FileTicketTypes ==
  ASSUME tickets \in [Autos -> [Posts -> Nat]], NEW a, NEW p \in Posts, FileTicket(a, p)
  PROVE  (tickets \in [Autos -> [Posts -> Nat]])'
<1>1. CASE a \in Autos
  <2>1. [tickets[a] EXCEPT ![p] = @ + 1] \in [Posts -> Nat]
    BY <1>1
  <2> QED BY <1>1, <2>1 DEF FileTicket
<1>2. CASE a \notin Autos
  BY <1>2 DEF FileTicket
<1> QED BY <1>1, <1>2

\* The per-run cap (RunOnce) picks among the posts it is given.
LEMMA CappedSubset ==
  ASSUME NEW S \in SUBSET Posts
  PROVE  Capped(S) \in SUBSET S
BY DEF Capped

\* The variables keep their types in every step of every process.
LEMMA TypeStep == TypeOK /\ [Next]_vars => TypeOK'
<1> SUFFICES ASSUME TypeOK, [Next]_vars PROVE TypeOK'
  OBVIOUS
<1> USE ConstantsAssumption DEF TypeOK, Fail, NoFail
<1>0. UNCHANGED history => HistoryTypes'
  BY DEF HistoryTypes, history
<1>1. ASSUME NEW w \in Workers, ClaimDue(w) PROVE TypeOK'
  <2>1. TableTypes'
    BY <1>1 DEF ClaimDue, Lock, TableTypes
  <2>2. WorkerTypes'
    BY <1>1 DEF ClaimDue, WorkerTypes, worker
  <2>3. HistoryTypes'
    <3>1. ASSUME NEW S \in SUBSET Autos, Take(S) PROVE HistoryTypes'
      BY <3>1 DEF Take, HistoryTypes
    <3> QED BY <1>0, <1>1, <3>1 DEF ClaimDue
  <2> QED BY <1>1, <2>1, <2>2, <2>3 DEF ClaimDue, WorldTypes
<1>2. ASSUME NEW w \in Workers, StartRun(w) PROVE TypeOK'
  <2>1. (cur \in [Workers -> Autos \cup {NoAuto}])' /\ UNCHANGED <<table, batch>>
    BY <1>2 DEF StartRun, WorkerTypes
  <2>0. TableTypes' /\ WorldTypes' /\ HistoryTypes'
    <3>1. (failures \in 0..MaxFailures)'
      <4>1. \/ UNCHANGED failures
            \/ failures < MaxFailures /\ failures' = failures + 1
        BY <1>2 DEF StartRun, Listing
      <4> QED BY <4>1 DEF WorldTypes
    <3> QED BY <1>0, <1>2, <2>1, <3>1 DEF StartRun, WorldTypes, TableTypes, table
  <2>2. CASE Abort(w)
    BY <2>0, <2>1, <2>2, AbortTypes
  <2>3. CASE \E listed \in SUBSET Posts : \E a \in Autos : Begin(w, listed \ seen[a])
    <3>1. PICK unseen \in SUBSET Posts : Begin(w, unseen)
      BY <2>3
    <3>2. Capped(unseen) \in SUBSET Posts
      BY CappedSubset
    <3>3. (pc \in [Workers -> {"poll", "start", "post", "create", "mark", "complete"}])'
      BY <3>1 DEF Begin, Goto, WorkerTypes
    <3>4. (todo \in [Workers -> SUBSET Posts])' /\ (soon \in [Workers -> BOOLEAN])'
      BY <3>1, <3>2 DEF Begin, WorkerTypes
    <3> QED
      BY <2>0, <2>1, <3>3, <3>4 DEF WorkerTypes
  <2> QED BY <1>0, <1>2, <2>2, <2>3 DEF StartRun, WorkerTypes
<1>3. ASSUME NEW w \in Workers, ExaminePost(w) PROVE TypeOK'
  <2>1. WorkerTypes'
    BY <1>3, AbortTypes, NextPostTypes, GotoTypes DEF ExaminePost, WorkerTypes
  <2> QED BY <1>0, <1>3, <2>1 DEF ExaminePost, TableTypes, WorldTypes, table
<1>4. ASSUME NEW w \in Workers, CreateTicket(w) PROVE TypeOK'
  <2>1. WorkerTypes'
    BY <1>4, AbortTypes, NextPostTypes, GotoTypes DEF CreateTicket, WorkerTypes
  <2>2. WorldTypes'
    BY <1>4, LapseTypes, FileTicketTypes DEF CreateTicket, WorldTypes
  <2> QED BY <1>0, <1>4, <2>1, <2>2 DEF CreateTicket, TableTypes, table
<1>5. ASSUME NEW w \in Workers, MarkSeen(w) PROVE TypeOK'
  <2>1. WorkerTypes'
    BY <1>5, NextPostTypes DEF MarkSeen
  <2>2. WorldTypes'
    <3>1. (lapses \in [Autos -> [Posts -> Nat]])'
      BY <1>5, LapseTypes DEF MarkSeen, WorldTypes
    <3>2. (seen \in [Autos -> SUBSET Posts])'
      <4>1. PICK p \in Posts : seen' = [seen EXCEPT ![cur[w]] = @ \cup {p}] \/ UNCHANGED seen
        BY <1>5 DEF MarkSeen
      <4> QED BY <4>1 DEF WorldTypes
    <3>3. (failures \in 0..MaxFailures)'
      BY <1>5 DEF MarkSeen, WorldTypes
    <3>4. UNCHANGED <<tickets, connected, feed, clearing>>
      BY <1>5 DEF MarkSeen
    <3> QED BY <3>1, <3>2, <3>3, <3>4 DEF WorldTypes
  <2> QED BY <1>0, <1>5, <2>1, <2>2 DEF MarkSeen, TableTypes, table
<1>6. ASSUME NEW w \in Workers, Complete(w) PROVE TypeOK'
  <2>1. WorkerTypes'
    BY <1>6, ForgetTypes DEF Complete
  <2>2. TableTypes'
    BY <1>6 DEF Complete, Release, TableTypes, table
  <2> QED BY <1>0, <1>6, <2>1, <2>2 DEF Complete, WorldTypes
<1>7. ASSUME NEW w \in Workers, Crash(w) PROVE TypeOK'
  <2>1. WorkerTypes'
    BY <1>7, ForgetTypes DEF Crash
  <2>2. WorldTypes'
    BY <1>7, LapseTypes DEF Crash, WorldTypes
  <2> QED BY <1>0, <1>7, <2>1, <2>2 DEF Crash, TableTypes, table
<1>8. ASSUME NEW a \in Autos, UserStep(a) PROVE TypeOK'
  <2> USE DEF TableTypes, WorldTypes, WorkerTypes, table, worker
  <2>1. CASE \E on \in BOOLEAN : Create(a, on) \/ SetEnabled(a, on)
    <3>1. PICK on \in BOOLEAN : Create(a, on) \/ SetEnabled(a, on)
      BY <2>1
    <3>2. CASE Create(a, on)
      BY <1>0, <3>2 DEF Create
    <3>3. CASE SetEnabled(a, on)
      BY <1>0, <3>3 DEF SetEnabled
    <3> QED BY <3>1, <3>2, <3>3
  <2>2. CASE RunNow(a)
    BY <1>0, <2>2 DEF RunNow
  <2>3. CASE DeleteRow(a)
    BY <1>0, <2>3 DEF DeleteRow
  <2>4. CASE ClearSeen(a)
    <3>1. (seen \in [Autos -> SUBSET Posts])'
      BY <2>4 DEF ClearSeen
    <3> QED BY <1>0, <2>4, <3>1 DEF ClearSeen
  <2> QED BY <1>8, <2>1, <2>2, <2>3, <2>4 DEF UserStep, Delete
<1>9. ASSUME NEW a \in Autos, Publish(a) PROVE TypeOK'
  BY <1>0, <1>9 DEF Publish, TableTypes, WorldTypes, WorkerTypes, table, worker
<1>10. CASE ToggleConnection
  BY <1>0, <1>10 DEF ToggleConnection, TableTypes, WorldTypes, WorkerTypes, table, worker
<1>11. CASE Tick
  BY <1>11 DEF Tick, TableTypes, WorldTypes, WorkerTypes, HistoryTypes, worker
<1>12. CASE UNCHANGED vars
  BY <1>0, <1>12 DEF vars, TableTypes, WorldTypes, WorkerTypes, table, worker
<1> QED
  BY <1>1, <1>2, <1>3, <1>4, <1>5, <1>6, <1>7, <1>8, <1>9, <1>10, <1>11, <1>12
     DEF Next, WorkerStep

\* Every reachable state is well typed (the type invariant of Automation).
THEOREM Typed == Spec => []TypeOK
<1>1. Init => TypeOK
  BY ConstantsAssumption DEF Init, TypeOK, TableTypes, WorldTypes, WorkerTypes, HistoryTypes
<1> QED BY <1>1, TypeStep, PTL DEF Spec

-----------------------------------------------------------------------------
(* The workers' locals, and the life of a claimed id. *)

\* Every step keeps the locals of a worker in line with where it is: a worker
\* that polls holds nothing, one inside a run holds the automation it runs.
LEMMA WorkerInvStep == TypeOK /\ WorkerInv /\ [Next]_vars => WorkerInv'
<1> SUFFICES ASSUME TypeOK, WorkerInv, [Next]_vars PROVE WorkerInv'
  OBVIOUS
<1> USE DEF TypeOK, WorkerTypes, WorkerInv
<1>1. ASSUME NEW w \in Workers, ClaimDue(w) PROVE WorkerInv'
  BY <1>1 DEF ClaimDue, worker
<1>2. ASSUME NEW w \in Workers, StartRun(w) PROVE WorkerInv'
  BY <1>2 DEF StartRun, Begin, Abort, Goto
<1>3. ASSUME NEW w \in Workers, ExaminePost(w) PROVE WorkerInv'
  BY <1>3 DEF ExaminePost, Abort, NextPost, Goto
<1>4. ASSUME NEW w \in Workers, CreateTicket(w) PROVE WorkerInv'
  BY <1>4 DEF CreateTicket, Abort, NextPost, Goto
<1>5. ASSUME NEW w \in Workers, MarkSeen(w) PROVE WorkerInv'
  BY <1>5 DEF MarkSeen, NextPost, Goto
<1>6. ASSUME NEW w \in Workers, NEW rest \in SUBSET Autos, Forget(w, rest) PROVE WorkerInv'
  BY <1>6 DEF Forget, Goto
<1>7. CASE UNCHANGED worker
  BY <1>7 DEF worker
<1> QED
  BY <1>1, <1>2, <1>3, <1>4, <1>5, <1>6, <1>7
     DEF Next, WorkerStep, Complete, Crash, UserStep, Delete, Create, SetEnabled, RunNow,
         DeleteRow, ClearSeen, Publish, ToggleConnection, Tick, vars

\* The batch of a worker only grows by a claim, of live rows nobody else can claim.
LEMMA LifeInvStep == TypeOK /\ LifeInv /\ [Next]_vars => LifeInv'
<1> SUFFICES ASSUME TypeOK, LifeInv, [Next]_vars PROVE LifeInv'
  OBVIOUS
<1> USE DEF TypeOK, TableTypes, WorldTypes, WorkerTypes, LifeInv
<1>1. ASSUME NEW w \in Workers, ClaimDue(w) PROVE LifeInv'
  <2>1. PICK S \in SUBSET Autos :
          /\ \A a \in S : life[a] = "live"
          /\ UNCHANGED batch \/ batch' = [batch EXCEPT ![w] = S]
          /\ UNCHANGED <<life, clearing>>
    BY <1>1 DEF ClaimDue, Selected, Claimable, Live, Lock, worker
  <2>2. \A v \in Workers : \A a \in batch'[v] : a \in batch[v] \/ life[a] = "live"
    BY <2>1
  <2> QED BY <2>1, <2>2
<1>2. ASSUME NEW w \in Workers, NEW rest \in SUBSET batch[w], Forget(w, rest),
             UNCHANGED <<life, clearing>>
      PROVE LifeInv'
  BY <1>2 DEF Forget
<1>3. ASSUME NEW a \in Autos, DeleteRow(a) PROVE LifeInv'
  BY <1>3 DEF DeleteRow, worker
<1>4. ASSUME NEW a \in Autos, ClearSeen(a) PROVE LifeInv'
  BY <1>4 DEF ClearSeen, worker, table
<1>5. ASSUME NEW a \in Autos, NEW on \in BOOLEAN, Create(a, on) PROVE LifeInv'
  BY <1>5 DEF Create, worker
<1>6. CASE UNCHANGED <<life, batch, clearing>>
  BY <1>6
<1>7. ASSUME NEW w \in Workers, Complete(w) PROVE LifeInv'
  BY <1>7, <1>2 DEF Complete, Release, table
<1>8. ASSUME NEW w \in Workers, Crash(w) PROVE LifeInv'
  BY <1>8, <1>2 DEF Crash, table
<1> QED
  BY <1>1, <1>3, <1>4, <1>5, <1>6, <1>7, <1>8
     DEF Next, WorkerStep, StartRun, ExaminePost, CreateTicket, MarkSeen, UserStep, Delete,
         SetEnabled, RunNow, Publish, ToggleConnection, Tick, vars, table, worker

-----------------------------------------------------------------------------
(* A marked post is filed. *)

\* Every step keeps the tickets of seen posts, and a worker about to mark a post
\* has filed it (RunOnce: the mark comes after the ticket).
LEMMA FiledInvStep == TypeOK /\ WorkerInv /\ FiledInv /\ [Next]_vars => FiledInv'
<1> SUFFICES ASSUME TypeOK, WorkerInv, FiledInv, [Next]_vars PROVE FiledInv'
  OBVIOUS
<1> USE DEF FiledInv, SeenImpliesFiled, Marking, Current, TypeOK, WorldTypes, WorkerTypes
<1>1. ASSUME NEW w \in Workers, StartRun(w) PROVE FiledInv'
  BY <1>1 DEF StartRun, Begin, Abort, Goto
<1>2. ASSUME NEW w \in Workers, ExaminePost(w) PROVE FiledInv'
  BY <1>2 DEF ExaminePost, Abort, NextPost, Goto
<1>3. ASSUME NEW w \in Workers, CreateTicket(w) PROVE FiledInv'
  <2>1. cur[w] \in Autos /\ pc[w] = "create"
    BY <1>3 DEF CreateTicket, WorkerInv
  <2>2. PICK p \in Posts : /\ Current(w, p)
                          /\ \/ Abort(w) /\ UNCHANGED tickets
                             \/ NextPost(w, p) /\ UNCHANGED tickets
                             \/ NextPost(w, p) /\ FileTicket(cur[w], p)
                             \/ /\ FileTicket(cur[w], p) /\ Goto(w, "mark")
                                /\ UNCHANGED <<todo, soon>>
    BY <1>3 DEF CreateTicket
  <2>3. \A a \in Autos, q \in Posts : tickets'[a][q] >= tickets[a][q]
    <3>1. CASE UNCHANGED tickets
      BY <3>1
    <3>2. CASE FileTicket(cur[w], p)
      <4>1. tickets' = [tickets EXCEPT ![cur[w]] = [tickets[cur[w]] EXCEPT ![p] = @ + 1]]
        BY <3>2 DEF FileTicket
      <4> QED BY <2>1, <4>1
    <3> QED BY <2>2, <3>1, <3>2
  <2>4. UNCHANGED <<seen, cur>> /\ tickets' \in [Autos -> [Posts -> Nat]]
    BY <1>3, FileTicketTypes DEF CreateTicket
  <2>5. SeenImpliesFiled'
    BY <2>3, <2>4
  <2>6. ASSUME NEW v \in Workers, NEW a \in Autos, NEW q \in Posts, Marking(v, a, q)'
        PROVE (tickets[a][q] >= 1)'
    <3>1. CASE v = w
      <4>1. FileTicket(cur[w], p) /\ q = p /\ a = cur[w]
        BY <2>1, <2>2, <2>4, <2>6, <3>1 DEF Abort, NextPost, Goto, Posts
      <4> QED BY <4>1 DEF FileTicket
    <3>2. CASE v # w
      <4>1. Marking(v, a, q)
        BY <2>2, <2>4, <2>6, <3>2 DEF Abort, NextPost, Goto
      <4> QED BY <4>1, <2>3, <2>4
    <3> QED BY <3>1, <3>2
  <2> QED BY <2>5, <2>6
<1>4. ASSUME NEW w \in Workers, MarkSeen(w) PROVE FiledInv'
  <2>1. cur[w] \in Autos /\ pc[w] = "mark"
    BY <1>4 DEF MarkSeen, WorkerInv
  <2>2. PICK p \in Posts : /\ Current(w, p) /\ NextPost(w, p)
                          /\ \/ UNCHANGED seen
                             \/ seen' = [seen EXCEPT ![cur[w]] = @ \cup {p}]
    BY <1>4 DEF MarkSeen
  <2>3. tickets[cur[w]][p] >= 1
    BY <2>1, <2>2
  <2>4. SeenImpliesFiled'
    <3>1. \A a \in Autos : \A q \in seen'[a] : q \in seen[a] \/ (a = cur[w] /\ q = p)
      BY <2>2
    <3> QED BY <1>4, <2>3, <3>1 DEF MarkSeen
  <2>5. \A v \in Workers, a \in Autos, q \in Posts : Marking(v, a, q)' => Marking(v, a, q)
    BY <1>4, <2>2 DEF MarkSeen, NextPost, Goto
  <2> QED BY <1>4, <2>4, <2>5 DEF MarkSeen
<1>5. ASSUME NEW w \in Workers, NEW rest \in SUBSET batch[w], Forget(w, rest),
             UNCHANGED <<seen, tickets>>
      PROVE FiledInv'
  BY <1>5 DEF Forget, Goto
<1>6. ASSUME NEW w \in Workers, ClaimDue(w) PROVE FiledInv'
  BY <1>6 DEF ClaimDue, worker
<1>7. ASSUME NEW a \in Autos, ClearSeen(a) PROVE FiledInv'
  BY <1>7 DEF ClearSeen, worker
<1>8. CASE UNCHANGED <<worker, seen, tickets>>
  BY <1>8 DEF worker
<1>9. ASSUME NEW w \in Workers, Complete(w) \/ Crash(w) PROVE FiledInv'
  BY <1>5, <1>9 DEF Complete, Crash
<1> QED
  BY <1>1, <1>2, <1>3, <1>4, <1>6, <1>7, <1>8, <1>9
     DEF Next, WorkerStep, UserStep, Delete, Create, SetEnabled, RunNow, DeleteRow, Publish,
         ToggleConnection, Tick, vars

------------------------------------------------------------------
-----------------------------------------------------------------------------
(* The claim lock. *)

\* A claim takes an automation a live worker holds only if that worker is late.
LEMMA ClaimIsFresh ==
  ASSUME LeaseInv, TypeOK, NEW S \in SUBSET Autos, NEW locked, Selected(S, locked),
         NEW a \in S
  PROVE  Live(a) /\ (Held(a) => a \in late)
<1>1. Claimable(a)
  BY DEF Selected
<1>2. age[a] \in Int /\ Lease \in Int
  BY ConstantsAssumption DEF TypeOK, TableTypes
<1> QED BY <1>1, <1>2 DEF Claimable, LeaseInv, Held, Runs

\* Every step keeps the row of a worker that is not late locked and inside its
\* lease, and so the workers of an automation nobody is late on apart.
LEMMA LeaseStep ==
  ASSUME TypeOK, WorkerInv, LifeInv, LeaseInv, OverlapOnlyWhenLate, [Next]_vars
  PROVE  LeaseInv' /\ OverlapOnlyWhenLate'
<1> DEFINE Goal == LeaseInv' /\ OverlapOnlyWhenLate'
<1> USE DEF LeaseInv, OverlapOnlyWhenLate, Runs, Live
<1> USE ConstantsAssumption DEF TypeOK, TableTypes, WorkerTypes, HistoryTypes
<1>1. ASSUME NEW w \in Workers, ClaimDue(w) PROVE Goal
  <2>1. PICK S \in SUBSET Autos :
          /\ \E locked \in SUBSET Autos : Selected(S, locked)
          /\ Lock(S)
          /\ \/ UNCHANGED <<batch, late>>
             \/ batch' = [batch EXCEPT ![w] = S] /\ Take(S)
    BY <1>1 DEF ClaimDue, worker, history
  <2>2. batch[w] = {}
    BY <1>1 DEF ClaimDue, WorkerInv
  <2>3. \A a \in S : Held(a) => a \in late
    BY <2>1, ClaimIsFresh
  <2>4. \A a \in Autos : IF a \in S THEN status'[a] = "running" /\ age'[a] = 0
                                    ELSE status'[a] = status[a] /\ age'[a] = age[a]
    BY <2>1 DEF Lock
  <2>5. UNCHANGED life
    BY <2>1 DEF Lock
  <2>6. CASE UNCHANGED <<batch, late>>
    BY <2>4, <2>5, <2>6
  <2>7. CASE batch' = [batch EXCEPT ![w] = S] /\ Take(S)
    <3>1. \A a \in Autos : a \in late' <=> a \in late /\ (a \in S => Held(a))
      BY <2>7 DEF Take
    <3>2. \A v \in Workers : \A a \in batch'[v] : a \in batch[v] \/ (v = w /\ a \in S)
      BY <2>7
    <3>3. \A a \in Autos \ late' : a \in late => a \in S
      BY <3>1
    <3>4. LeaseInv'
      BY <2>4, <2>5, <3>2, <3>3
    <3>5. ASSUME NEW a \in Autos \ late', NEW u \in Workers, NEW v \in Workers,
                 a \in batch'[u], a \in batch'[v]
          PROVE  u = v
      <4>1. CASE a \in S
        <5>1. ~Held(a)
          BY <2>3, <3>1, <4>1
        <5> QED BY <3>2, <3>5, <5>1 DEF Held
      <4>2. CASE a \notin S
        BY <3>2, <3>3, <3>5, <4>2
      <4> QED BY <4>1, <4>2
    <3> QED BY <3>4, <3>5
  <2> QED BY <2>1, <2>6, <2>7
<1>2. ASSUME NEW w \in Workers, Complete(w) PROVE Goal
  <2>1. cur[w] \in batch[w] /\ cur[w] \in Autos
    BY <1>2 DEF Complete, WorkerInv
  <2>2. batch' = [batch EXCEPT ![w] = @ \ {cur[w]}] /\ UNCHANGED late
    BY <1>2 DEF Complete, Forget, history
  <2>3. \A v \in Workers : \A a \in batch'[v] : a \in batch[v] /\ (v = w => a # cur[w])
    BY <2>2
  <2>4. \A v \in Workers : \A a \in batch'[v] \ late : a # cur[w]
    BY <2>1, <2>3
  <2>5. \A a \in Autos : a # cur[w] => status'[a] = status[a] /\ age'[a] = age[a]
    BY <1>2 DEF Complete, Release, table
  <2>6. UNCHANGED life
    BY <1>2 DEF Complete, Release, table
  <2> QED BY <2>2, <2>3, <2>4, <2>5, <2>6
<1>3. ASSUME NEW w \in Workers, Crash(w) PROVE Goal
  <2>1. \A v \in Workers : batch'[v] \subseteq batch[v]
    BY <1>3 DEF Crash, Forget
  <2> QED BY <1>3, <2>1 DEF Crash, table, history
<1>4. ASSUME NEW a \in Autos, NEW on \in BOOLEAN, Create(a, on) PROVE Goal
  <2>1. \A v \in Workers : a \notin batch[v]
    BY <1>4 DEF Create, LifeInv
  <2>2. \A b \in Autos : b # a => life'[b] = life[b]
    BY <1>4 DEF Create
  <2> QED BY <1>4, <2>1, <2>2 DEF Create, worker, history
<1>5. ASSUME NEW a \in Autos, DeleteRow(a) PROVE Goal
  <2>1. \A b \in Autos : IF b = a THEN life'[b] = "deleted"
                         ELSE life'[b] = life[b] /\ status'[b] = status[b] /\ age'[b] = age[b]
    BY <1>5 DEF DeleteRow
  <2> QED BY <1>5, <2>1 DEF DeleteRow, worker, history
<1>6. CASE Tick
  <2>1. UNCHANGED <<life, status, batch>>
    BY <1>6 DEF Tick, worker
  <2>2. \A a \in Autos : a \in late' <=> a \in late \/ (Held(a) /\ age'[a] > Lease)
    BY <1>6 DEF Tick
  <2>3. \A a \in Autos : age'[a] \in Int
    BY <1>6 DEF Tick
  <2>4. LeaseInv'
    BY <2>1, <2>2, <2>3 DEF Held
  <2>5. OverlapOnlyWhenLate'
    BY <2>1, <2>2
  <2> QED BY <2>4, <2>5
<1>7. CASE UNCHANGED <<life, status, age, batch, late>>
  BY <1>7
<1> QED
  BY <1>1, <1>2, <1>3, <1>4, <1>5, <1>6, <1>7
     DEF Next, WorkerStep, StartRun, ExaminePost, CreateTicket, MarkSeen, UserStep, Delete,
         SetEnabled, RunNow, ClearSeen, Publish, ToggleConnection, vars, table, worker, history

-----------------------------------------------------------------------------
(* Counting workers. *)

\* A set of workers is finite: no subset counts more.
LEMMA CardSub ==
  ASSUME NEW S, NEW T, S \subseteq T, T \subseteq Workers
  PROVE  Cardinality(S) \in Nat /\ Cardinality(T) \in Nat /\ Cardinality(S) <= Cardinality(T)
<1>1. IsFiniteSet(T)
  BY FS_Subset, ConstantsAssumption
<1>2. IsFiniteSet(S)
  BY <1>1, FS_Subset
<1> QED BY <1>1, <1>2, FS_Subset, FS_CardinalityType

\* One more element counts at most one more.
LEMMA CardAdd ==
  ASSUME NEW S, NEW T, NEW x, S \subseteq T \cup {x}, T \subseteq Workers
  PROVE  Cardinality(S) \in Nat /\ Cardinality(T) \in Nat /\ Cardinality(S) <= Cardinality(T) + 1
<1>1. IsFiniteSet(T)
  BY FS_Subset, ConstantsAssumption
<1>2. /\ IsFiniteSet(T \cup {x}) /\ Cardinality(T) \in Nat
      /\ Cardinality(T \cup {x}) <= Cardinality(T) + 1
  BY <1>1, FS_AddElement, FS_CardinalityType
<1>3. IsFiniteSet(S) /\ Cardinality(S) <= Cardinality(T \cup {x})
  BY <1>2, FS_Subset
<1>4. Cardinality(S) \in Nat /\ Cardinality(T \cup {x}) \in Nat
  BY <1>2, <1>3, FS_CardinalityType
<1> QED BY <1>2, <1>3, <1>4

\* Without one of its elements a set counts at least one less.
LEMMA CardDrop ==
  ASSUME NEW S, NEW T, NEW x \in T, S \subseteq T \ {x}, T \subseteq Workers
  PROVE  Cardinality(S) \in Nat /\ Cardinality(T) \in Nat /\ Cardinality(S) + 1 <= Cardinality(T)
<1>1. IsFiniteSet(T)
  BY FS_Subset, ConstantsAssumption
<1>2. /\ IsFiniteSet(T \ {x}) /\ Cardinality(T) \in Nat
      /\ Cardinality(T \ {x}) = Cardinality(T) - 1
  BY <1>1, FS_RemoveElement, FS_CardinalityType
<1>3. Cardinality(S) \in Nat /\ Cardinality(S) <= Cardinality(T \ {x})
  BY <1>2, CardSub
<1> QED BY <1>2, <1>3

\* The counts are of workers.
LEMMA Counted ==
  ASSUME NEW a, NEW p
  PROVE  /\ Markers(a, p) \subseteq Workers /\ Filers(a, p) \subseteq Workers
         /\ Cardinality(Markers(a, p)) \in Nat /\ Cardinality(Filers(a, p)) \in Nat
<1>1. Markers(a, p) \subseteq Workers /\ Filers(a, p) \subseteq Workers
  BY DEF Markers, Filers
<1> QED BY <1>1, CardSub

-----------------------------------------------------------------------------
(* The tickets of a post are accounted for. *)

\* A step that files nothing, loses no mark and takes no run, that brings no post to
\* another run and interrupts no marking, keeps the account.
LEMMA Quiet ==
  ASSUME TypeOK, NEW a \in Autos, NEW p \in Posts, Accounted(a, p),
         tickets'[a][p] = tickets[a][p], lapses'[a][p] = lapses[a][p], taken'[a] = taken[a],
         p \in seen[a] => p \in seen'[a],
         Markers(a, p) \subseteq Markers(a, p)', Filers(a, p)' \subseteq Filers(a, p)
  PROVE  Accounted(a, p)'
<1>1. /\ tickets[a][p] \in Nat /\ lapses[a][p] \in Nat /\ taken[a] \in Nat
  BY DEF TypeOK, WorldTypes, HistoryTypes
<1>2. Markers(a, p)' \subseteq Workers /\ Filers(a, p) \subseteq Workers
  BY DEF Markers, Filers
<1>3. Cardinality(Markers(a, p)) <= Cardinality(Markers(a, p)')
      /\ Cardinality(Markers(a, p)) \in Nat /\ Cardinality(Markers(a, p)') \in Nat
  BY <1>2, CardSub
<1>4. Cardinality(Filers(a, p)') <= Cardinality(Filers(a, p))
      /\ Cardinality(Filers(a, p)') \in Nat /\ Cardinality(Filers(a, p)) \in Nat
  BY <1>2, CardSub
<1>5. Cardinality(Markers(a, p)') = Cardinality(Markers(a, p))'
      /\ Cardinality(Filers(a, p)') = Cardinality(Filers(a, p))'
  OBVIOUS
<1> QED BY <1>1, <1>3, <1>4, <1>5 DEF Accounted

\* Worker w moves within its run, or ends it, and was not about to mark.
LEMMA Moves ==
  ASSUME TypeOK, NEW w \in Workers, pc[w] # "mark",
         \A v \in Workers \ {w} : /\ pc'[v] = pc[v] /\ cur'[v] = cur[v]
                                  /\ todo'[v] = todo[v] /\ batch'[v] = batch[v],
         \A p \in todo'[w] : p \in todo[w] /\ cur'[w] = cur[w],
         batch'[w] \subseteq batch[w],
         \A a \in batch'[w] : a = cur[w] => a = cur'[w],
         UNCHANGED seen, NEW a \in Autos, NEW p \in Posts
  PROVE  Markers(a, p) \subseteq Markers(a, p)' /\ Filers(a, p)' \subseteq Filers(a, p)
<1>1. \A v \in Workers : Marking(v, a, p) => Marking(v, a, p)'
  BY DEF Marking, Current
<1>2. \A v \in Workers \ {w} : Marking(v, a, p)' => Marking(v, a, p)
  BY DEF Marking, Current
<1>3. ~Marking(w, a, p)
  BY DEF Marking
<1> QED BY <1>1, <1>2, <1>3 DEF Markers, Filers, Runs

\* Such a step, with nothing else changed, keeps OnceInv.
LEMMA OnceLocal ==
  ASSUME TypeOK, OnceInv, NEW w \in Workers, pc[w] # "mark",
         \A v \in Workers \ {w} : /\ pc'[v] = pc[v] /\ cur'[v] = cur[v]
                                  /\ todo'[v] = todo[v] /\ batch'[v] = batch[v],
         \A p \in todo'[w] : p \in todo[w] /\ cur'[w] = cur[w],
         batch'[w] \subseteq batch[w],
         \A a \in batch'[w] : a = cur[w] => a = cur'[w],
         UNCHANGED <<life, seen, tickets, lapses, taken>>
  PROVE  OnceInv'
<1> SUFFICES ASSUME NEW a \in Autos, life[a] # "deleted", NEW p \in Posts
             PROVE  Accounted(a, p)'
  BY DEF OnceInv
<1>1. Accounted(a, p)
  BY DEF OnceInv
<1>2. Markers(a, p) \subseteq Markers(a, p)' /\ Filers(a, p)' \subseteq Filers(a, p)
  BY Moves
<1> QED BY <1>1, <1>2, Quiet

\* A claim: of an automation at rest, every ticket of an unseen post has lost its
\* mark, and one worker may file it; of one still run, one more worker may.
LEMMA OnceClaim ==
  ASSUME TypeOK, WorkerInv, OnceInv, NEW w \in Workers, pc[w] = "poll",
         NEW S \in SUBSET Autos, Take(S),
         pc' = [pc EXCEPT ![w] = "start"], batch' = [batch EXCEPT ![w] = S],
         UNCHANGED <<cur, todo, life, seen, tickets, lapses>>
  PROVE  OnceInv'
<1> SUFFICES ASSUME NEW a \in Autos, life[a] # "deleted", NEW p \in Posts
             PROVE  Accounted(a, p)'
  BY DEF OnceInv
<1> USE DEF TypeOK, WorldTypes, WorkerTypes, HistoryTypes
<1>1. Accounted(a, p)
  BY DEF OnceInv
<1>2. \A v \in Workers : Marking(v, a, p)' <=> Marking(v, a, p)
  BY DEF Marking, Current
<1>3. Markers(a, p)' = Markers(a, p)
  BY <1>2 DEF Markers
<1>4. \A v \in Workers : Runs(v, a)' <=> Runs(v, a) \/ (v = w /\ a \in S)
  BY DEF WorkerInv, Runs
<1>5. Filers(a, p)' \subseteq Filers(a, p) \cup {w}
  BY <1>2, <1>4 DEF Filers
<1>6. CASE a \notin S
  <2>1. Filers(a, p)' \subseteq Filers(a, p)
    BY <1>2, <1>4, <1>6 DEF Filers
  <2>2. taken'[a] = taken[a]
    BY <1>6 DEF Take
  <2> QED BY <1>1, <1>3, <2>1, <2>2, Quiet
<1>0. /\ tickets[a][p] \in Nat /\ lapses[a][p] \in Nat /\ taken[a] \in Nat
  OBVIOUS
<1>7. CASE a \in S /\ Held(a)
  <2>1. taken'[a] = taken[a] + 1
    BY <1>7 DEF Take
  <2>2. /\ Cardinality(Filers(a, p)') <= Cardinality(Filers(a, p)) + 1
        /\ Cardinality(Filers(a, p)') \in Nat /\ Cardinality(Filers(a, p)) \in Nat
    BY <1>5, Counted, CardAdd
  <2>3. /\ Cardinality(Filers(a, p)') = Cardinality(Filers(a, p))'
        /\ Cardinality(Markers(a, p))' = Cardinality(Markers(a, p))
    BY <1>3
  <2> QED BY <1>0, <1>1, <2>1, <2>2, <2>3 DEF Accounted
<1>8. CASE a \in S /\ ~Held(a)
  <2>1. taken'[a] = taken[a]
    BY <1>8 DEF Take
  <2>2. \A v \in Workers : cur[v] # a
    BY <1>8, ConstantsAssumption DEF WorkerInv, Held, Runs
  <2>3. Markers(a, p) = {}
    BY <2>2 DEF Markers, Marking
  <2>4. Filers(a, p)' \subseteq {w} /\ (p \in seen[a] => Filers(a, p)' = {})
    BY <1>4, <1>8, <2>2 DEF Filers, Held
  <2>5. Cardinality({}) = 0 /\ Cardinality({w}) = 1
    BY FS_EmptySet, FS_Singleton
  <2>6. Cardinality(Filers(a, p)') <= 1 /\ Cardinality(Filers(a, p)') \in Nat
    BY <2>4, <2>5, CardSub, {w} \subseteq Workers
  <2>7. Cardinality(Filers(a, p)) \in Nat
    BY Counted
  <2>8. /\ Cardinality(Filers(a, p)') = Cardinality(Filers(a, p))'
        /\ Cardinality(Markers(a, p))' = Cardinality(Markers(a, p))
    BY <1>3
  <2>9. CASE p \in seen[a]
    <3>1. Cardinality(Filers(a, p))' = 0
      BY <2>4, <2>5, <2>8, <2>9
    <3>2. seen'[a] = seen[a] /\ tickets'[a][p] = tickets[a][p] /\ lapses'[a][p] = lapses[a][p]
      OBVIOUS
    <3> QED BY <1>0, <1>1, <2>1, <2>7, <2>9, <3>1, <3>2 DEF Accounted
  <2>10. CASE p \notin seen[a]
    BY <1>0, <1>1, <2>1, <2>3, <2>5, <2>6, <2>8, <2>10 DEF Accounted
  <2> QED BY <2>9, <2>10
<1> QED BY <1>6, <1>7, <1>8

\* The loop is at one post.
LEMMA OneCurrent ==
  ASSUME NEW w, NEW p \in Posts, NEW q \in Posts, Current(w, p), Current(w, q)
  PROVE  p = q
BY DEF Current, Posts

\* A new marking is one more.
LEMMA OneMore ==
  ASSUME NEW a, NEW p, NEW w \in Markers(a, p)', Markers(a, p) \subseteq Markers(a, p)' \ {w}
  PROVE  /\ Cardinality(Markers(a, p)) \in Nat /\ Cardinality(Markers(a, p)') \in Nat
         /\ Cardinality(Markers(a, p)) + 1 <= Cardinality(Markers(a, p)')
<1>1. Markers(a, p)' \subseteq Workers
  BY DEF Markers
<1> QED BY <1>1, CardDrop

\* What filing a ticket counts.
LEMMA FileCounts ==
  ASSUME TypeOK, NEW b \in Autos, NEW p \in Posts, FileTicket(b, p)
  PROVE  \A a \in Autos, q \in Posts :
           tickets'[a][q] = IF a = b /\ q = p THEN tickets[a][q] + 1 ELSE tickets[a][q]
<1>1. tickets' = [tickets EXCEPT ![b] = [tickets[b] EXCEPT ![p] = @ + 1]]
  BY DEF FileTicket
<1> QED BY <1>1 DEF TypeOK, WorldTypes

\* What losing a mark counts.
LEMMA LapseCounts ==
  ASSUME TypeOK, NEW b \in Autos, NEW p \in Posts, Lapse(b, p)
  PROVE  \A a \in Autos, q \in Posts :
           lapses'[a][q] = IF a = b /\ q = p THEN lapses[a][q] + 1 ELSE lapses[a][q]
<1>1. lapses' = [lapses EXCEPT ![b] = [lapses[b] EXCEPT ![p] = @ + 1]]
  BY DEF Lapse
<1> QED BY <1>1 DEF TypeOK, WorldTypes

\* The post is filed by one that might: the ticket has a mark coming, or has lapsed.
LEMMA OnceCreate ==
  ASSUME TypeOK, WorkerInv, OnceInv, NEW w \in Workers, CreateTicket(w)
  PROVE  OnceInv'
<1> USE DEF TypeOK, WorldTypes, WorkerTypes, HistoryTypes
<1>1. PICK p \in Posts : /\ Current(w, p)
                        /\ \/ Abort(w) /\ UNCHANGED <<tickets, lapses>>
                           \/ NextPost(w, p) /\ UNCHANGED <<tickets, lapses>>
                           \/ NextPost(w, p) /\ FileTicket(cur[w], p) /\ Lapse(cur[w], p)
                           \/ /\ FileTicket(cur[w], p) /\ Goto(w, "mark")
                              /\ UNCHANGED <<todo, soon, lapses>>
  BY DEF CreateTicket
<1>2. pc[w] = "create" /\ cur[w] \in Autos /\ UNCHANGED <<life, cur, seen, batch, taken>>
  BY DEF CreateTicket, table, history, WorkerInv
<1>3. CASE Abort(w) /\ UNCHANGED <<tickets, lapses>>
  BY <1>2, <1>3, OnceLocal DEF Abort, Goto
<1>4. CASE NextPost(w, p) /\ UNCHANGED <<tickets, lapses>>
  BY <1>2, <1>4, OnceLocal DEF NextPost, Goto
<1>5. CASE NextPost(w, p) /\ FileTicket(cur[w], p) /\ Lapse(cur[w], p)
  <2> SUFFICES ASSUME NEW a \in Autos, life[a] # "deleted", NEW q \in Posts
               PROVE  Accounted(a, q)'
    BY <1>2 DEF OnceInv
  <2>1. Accounted(a, q)
    BY DEF OnceInv
  <2>2. Markers(a, q) \subseteq Markers(a, q)' /\ Filers(a, q)' \subseteq Filers(a, q)
    BY <1>2, <1>5, Moves DEF NextPost, Goto
  <2>3. CASE ~(a = cur[w] /\ q = p)
    <3>1. tickets'[a][q] = tickets[a][q] /\ lapses'[a][q] = lapses[a][q]
      BY <1>2, <1>5, <2>3, FileCounts, LapseCounts
    <3> QED BY <1>2, <2>1, <2>2, <3>1, Quiet
  <2>4. CASE a = cur[w] /\ q = p
    <3>1. tickets'[a][q] = tickets[a][q] + 1 /\ lapses'[a][q] = lapses[a][q] + 1
      BY <1>2, <1>5, <2>4, FileCounts, LapseCounts
    <3>2. tickets[a][q] \in Nat /\ lapses[a][q] \in Nat /\ taken[a] \in Nat
      OBVIOUS
    <3>3. Markers(a, q)' \subseteq Workers
      BY DEF Markers
    <3>4. /\ Cardinality(Markers(a, q)) <= Cardinality(Markers(a, q)')
          /\ Cardinality(Markers(a, q)) \in Nat /\ Cardinality(Markers(a, q)') \in Nat
      BY <2>2, <3>3, CardSub
    <3>5. /\ Cardinality(Filers(a, q)') <= Cardinality(Filers(a, q))
          /\ Cardinality(Filers(a, q)) \in Nat /\ Cardinality(Filers(a, q)') \in Nat
      BY <2>2, Counted, CardSub
    <3>6. /\ Cardinality(Filers(a, q)') = Cardinality(Filers(a, q))'
          /\ Cardinality(Markers(a, q)') = Cardinality(Markers(a, q))'
      OBVIOUS
    <3> QED BY <1>2, <2>1, <3>1, <3>2, <3>4, <3>5, <3>6 DEF Accounted
  <2> QED BY <2>3, <2>4
<1>6. CASE FileTicket(cur[w], p) /\ Goto(w, "mark") /\ UNCHANGED <<todo, soon, lapses>>
  <2> SUFFICES ASSUME NEW a \in Autos, life[a] # "deleted", NEW q \in Posts
               PROVE  Accounted(a, q)'
    BY <1>2 DEF OnceInv
  <2>1. Accounted(a, q)
    BY DEF OnceInv
  <2>2. \A v \in Workers \ {w} : Marking(v, a, q)' <=> Marking(v, a, q)
    BY <1>2, <1>6 DEF Marking, Current, Goto
  <2>3. ~Marking(w, a, q) /\ (Marking(w, a, q)' <=> a = cur[w] /\ q = p)
    BY <1>1, <1>2, <1>6 DEF Marking, Current, Goto, Posts
  <2>4. Markers(a, q) \subseteq Markers(a, q)' \ {w} /\ Filers(a, q)' \subseteq Filers(a, q)
    BY <1>2, <1>6, <2>2, <2>3 DEF Markers, Filers, Runs
  <2>5. CASE ~(a = cur[w] /\ q = p)
    <3>1. tickets'[a][q] = tickets[a][q] /\ lapses'[a][q] = lapses[a][q]
      BY <1>2, <1>6, <2>5, FileCounts
    <3>2. Markers(a, q) \subseteq Markers(a, q)'
      BY <2>4
    <3> QED BY <1>2, <2>1, <2>4, <3>1, <3>2, Quiet
  <2>6. CASE a = cur[w] /\ q = p
    <3>1. tickets'[a][q] = tickets[a][q] + 1 /\ lapses'[a][q] = lapses[a][q]
      BY <1>2, <1>6, <2>6, FileCounts
    <3>2. tickets[a][q] \in Nat /\ lapses[a][q] \in Nat /\ taken[a] \in Nat
      OBVIOUS
    <3>3. w \in Markers(a, q)' /\ Markers(a, q) \subseteq Markers(a, q)' \ {w}
      BY <2>3, <2>4, <2>6 DEF Markers
    <3>4. /\ Cardinality(Markers(a, q)) + 1 <= Cardinality(Markers(a, q)')
          /\ Cardinality(Markers(a, q)) \in Nat /\ Cardinality(Markers(a, q)') \in Nat
      BY <3>3, OneMore
    <3>5. w \in Filers(a, q) /\ Filers(a, q)' \subseteq Filers(a, q) \ {w}
      BY <1>1, <1>2, <2>3, <2>4, <2>6 DEF Filers, Current
    <3>6. /\ Cardinality(Filers(a, q)') + 1 <= Cardinality(Filers(a, q))
          /\ Cardinality(Filers(a, q)) \in Nat /\ Cardinality(Filers(a, q)') \in Nat
      BY <3>5, Counted, CardDrop
    <3>7. /\ Cardinality(Filers(a, q)') = Cardinality(Filers(a, q))'
          /\ Cardinality(Markers(a, q)') = Cardinality(Markers(a, q))'
      OBVIOUS
    <3> QED BY <1>2, <2>1, <3>1, <3>2, <3>4, <3>6, <3>7 DEF Accounted
  <2> QED BY <2>5, <2>6
<1> QED BY <1>1, <1>3, <1>4, <1>5, <1>6

\* The post is marked, or its mark is lost: the worker goes on without it, or dies.
LEMMA OnceMark ==
  ASSUME TypeOK, WorkerInv, OnceInv, NEW w \in Workers, pc[w] = "mark",
         NEW p \in Posts, Current(w, p),
         \A v \in Workers \ {w} : /\ pc'[v] = pc[v] /\ cur'[v] = cur[v]
                                  /\ todo'[v] = todo[v] /\ batch'[v] = batch[v],
         pc'[w] # "mark",
         \A q \in todo'[w] : q \in todo[w] /\ q # p /\ cur'[w] = cur[w],
         batch'[w] \subseteq batch[w],
         \A a \in batch'[w] : a = cur[w] => a = cur'[w],
         UNCHANGED <<life, tickets, taken>>,
         \/ seen' = [seen EXCEPT ![cur[w]] = @ \cup {p}] /\ UNCHANGED lapses
         \/ Lapse(cur[w], p) /\ UNCHANGED seen
  PROVE  OnceInv'
<1> USE DEF TypeOK, WorldTypes, WorkerTypes, HistoryTypes
<1>1. cur[w] \in Autos
  BY DEF WorkerInv
<1> SUFFICES ASSUME NEW a \in Autos, life[a] # "deleted", NEW q \in Posts
             PROVE  Accounted(a, q)'
  BY DEF OnceInv
<1>2. Accounted(a, q)
  BY DEF OnceInv
<1>3. \A v \in Workers \ {w} : Marking(v, a, q)' <=> Marking(v, a, q)
  BY DEF Marking, Current
<1>4. Marking(w, a, q) <=> a = cur[w] /\ q = p
  <2>2. ASSUME Marking(w, a, q) PROVE a = cur[w] /\ q = p
    BY <2>2, OneCurrent DEF Marking
  <2>3. ASSUME a = cur[w], q = p PROVE Marking(w, a, q)
    BY <2>3 DEF Marking
  <2> QED BY <2>2, <2>3
<1>5. ~Marking(w, a, q)'
  BY DEF Marking
<1>6. q \in seen[a] => q \in seen'[a]
  BY <1>1
<1>7. Markers(a, q) \ {w} \subseteq Markers(a, q)'
  BY <1>3 DEF Markers
<1>8. Filers(a, q)' \subseteq Filers(a, q)
  BY <1>3, <1>4, <1>5, <1>6 DEF Filers, Runs
<1>9. CASE ~(a = cur[w] /\ q = p)
  <2>1. Markers(a, q) \subseteq Markers(a, q)'
    BY <1>4, <1>7, <1>9 DEF Markers
  <2>2. lapses'[a][q] = lapses[a][q]
    BY <1>1, <1>9, LapseCounts
  <2> QED BY <1>2, <1>6, <1>8, <2>1, <2>2, Quiet
<1>10. CASE a = cur[w] /\ q = p
  <2>1. \/ q \in seen'[a] /\ lapses'[a][q] = lapses[a][q]
        \/ lapses'[a][q] = lapses[a][q] + 1 /\ UNCHANGED seen
    <3>1. CASE seen' = [seen EXCEPT ![cur[w]] = @ \cup {p}] /\ UNCHANGED lapses
      <4>1. q \in seen'[a]
        BY <1>1, <1>10, <3>1
      <4>2. lapses'[a][q] = lapses[a][q]
        BY <3>1
      <4> QED BY <4>1, <4>2
    <3>2. CASE Lapse(cur[w], p) /\ UNCHANGED seen
      BY <1>1, <1>10, <3>2, LapseCounts
    <3> QED BY <3>1, <3>2
  <2>2. tickets[a][q] \in Nat /\ lapses[a][q] \in Nat /\ taken[a] \in Nat
    OBVIOUS
  <2>3. Markers(a, q)' \subseteq Workers /\ Markers(a, q) \subseteq Markers(a, q)' \cup {w}
    BY <1>7 DEF Markers
  <2>4. /\ Cardinality(Markers(a, q)) <= Cardinality(Markers(a, q)') + 1
        /\ Cardinality(Markers(a, q)) \in Nat /\ Cardinality(Markers(a, q)') \in Nat
    BY <2>3, CardAdd
  <2>5. /\ Cardinality(Filers(a, q)') <= Cardinality(Filers(a, q))
        /\ Cardinality(Filers(a, q)) \in Nat /\ Cardinality(Filers(a, q)') \in Nat
    BY <1>8, Counted, CardSub
  <2>6. /\ Cardinality(Filers(a, q)') = Cardinality(Filers(a, q))'
        /\ Cardinality(Markers(a, q)') = Cardinality(Markers(a, q))'
    OBVIOUS
  <2> QED BY <1>2, <2>1, <2>2, <2>4, <2>5, <2>6 DEF Accounted
<1> QED BY <1>9, <1>10

\* A run begins with posts that are not marked seen.
LEMMA OnceStart ==
  ASSUME TypeOK, WorkerInv, OnceInv, NEW w \in Workers, StartRun(w)
  PROVE  OnceInv'
<1> USE DEF TypeOK, WorldTypes, WorkerTypes
<1>1. PICK a \in batch[w] : /\ cur' = [cur EXCEPT ![w] = a]
                           /\ \/ Abort(w)
                              \/ \E listed \in SUBSET Posts : Begin(w, listed \ seen[a])
  BY DEF StartRun
<1>2. /\ pc[w] = "start" /\ cur[w] = NoAuto
      /\ UNCHANGED <<life, batch, seen, tickets, lapses, taken>>
  BY DEF StartRun, table, history, WorkerInv
<1>3. /\ \A v \in Workers \ {w} : /\ pc'[v] = pc[v] /\ cur'[v] = cur[v]
                                  /\ todo'[v] = todo[v]
      /\ cur'[w] = a /\ a \in Autos
  BY <1>1 DEF Begin, Abort, Goto
<1>4. \A p \in todo'[w] : p \notin seen[a]
  <2>1. CASE Abort(w)
    BY <2>1 DEF Abort
  <2>2. ASSUME NEW listed \in SUBSET Posts, Begin(w, listed \ seen[a])
        PROVE  \A p \in todo'[w] : p \notin seen[a]
    <3>1. Capped(listed \ seen[a]) \in SUBSET (listed \ seen[a])
      BY CappedSubset
    <3> QED BY <2>2, <3>1 DEF Begin
  <2> QED BY <1>1, <2>1, <2>2
<1> SUFFICES ASSUME NEW b \in Autos, life[b] # "deleted", NEW p \in Posts
             PROVE  Accounted(b, p)'
  BY <1>2 DEF OnceInv
<1>5. Accounted(b, p)
  BY DEF OnceInv
<1>6. \A v \in Workers \ {w} : Marking(v, b, p)' <=> Marking(v, b, p)
  BY <1>3 DEF Marking, Current
<1>7. ~Marking(w, b, p)
  BY <1>2 DEF Marking
<1>8. cur[w] # b
  BY <1>2, ConstantsAssumption
<1>9. Markers(b, p) \subseteq Markers(b, p)'
  BY <1>6, <1>7 DEF Markers
<1>10. Filers(b, p)' \subseteq Filers(b, p)
  BY <1>1, <1>2, <1>3, <1>4, <1>6, <1>7, <1>8 DEF Filers, Runs
<1> QED BY <1>2, <1>5, <1>9, <1>10, Quiet

\* A step of no worker that loses no mark and brings no automation back.
LEMMA OnceStill ==
  ASSUME TypeOK, OnceInv, \A a \in Autos : life'[a] # "deleted" => life[a] # "deleted",
         UNCHANGED <<pc, batch, cur, todo, seen, tickets, lapses, taken>>
  PROVE  OnceInv'
<1> SUFFICES ASSUME NEW a \in Autos, life[a] # "deleted", NEW p \in Posts
             PROVE  Accounted(a, p)'
  BY DEF OnceInv
<1>1. Accounted(a, p)
  BY DEF OnceInv
<1>2. Markers(a, p)' = Markers(a, p) /\ Filers(a, p)' = Filers(a, p)
  BY DEF Markers, Filers, Runs, Marking, Current
<1> QED BY <1>1, <1>2, Quiet

\* Every step keeps the account of tickets, marks, lapses and claims.
LEMMA OnceStep ==
  ASSUME TypeOK, WorkerInv, LifeInv, OnceInv, [Next]_vars
  PROVE  OnceInv'
<1> USE DEF TypeOK, WorldTypes, WorkerTypes
<1>1. ASSUME NEW w \in Workers, ClaimDue(w) PROVE OnceInv'
  <2>1. pc[w] = "poll" /\ UNCHANGED <<life, seen, tickets, lapses>>
    BY <1>1 DEF ClaimDue, Lock
  <2>2. PICK S \in SUBSET Autos :
          \/ /\ pc' = [pc EXCEPT ![w] = "start"] /\ batch' = [batch EXCEPT ![w] = S]
             /\ Take(S) /\ UNCHANGED <<cur, todo>>
          \/ UNCHANGED <<pc, batch, cur, todo, taken>>
    BY <1>1 DEF ClaimDue, worker, history
  <2>3. CASE Take(S) /\ pc' = [pc EXCEPT ![w] = "start"]
             /\ batch' = [batch EXCEPT ![w] = S] /\ UNCHANGED <<cur, todo>>
    BY <2>1, <2>3, OnceClaim
  <2>4. CASE UNCHANGED <<pc, batch, cur, todo, taken>>
    BY <2>1, <2>4, OnceLocal
  <2> QED BY <2>2, <2>3, <2>4
<1>2. ASSUME NEW w \in Workers, ExaminePost(w) PROVE OnceInv'
  <2>1. pc[w] = "post" /\ UNCHANGED <<life, cur, batch, seen, tickets, lapses, taken>>
    BY <1>2 DEF ExaminePost, table, history
  <2>2. PICK p \in Posts : Abort(w) \/ NextPost(w, p) \/ (Goto(w, "create") /\ UNCHANGED todo)
    BY <1>2 DEF ExaminePost
  <2> QED BY <2>1, <2>2, OnceLocal DEF Abort, NextPost, Goto
<1>3. ASSUME NEW w \in Workers, Complete(w) PROVE OnceInv'
  <2>1. UNCHANGED <<life, seen, tickets, lapses, taken>> /\ pc[w] # "mark"
    BY <1>3 DEF Complete, Release, table, history
  <2>2. Forget(w, batch[w] \ {cur[w]})
    BY <1>3 DEF Complete
  <2>3. batch'[w] \subseteq batch[w] /\ cur[w] \notin batch'[w] /\ todo'[w] = {}
    BY <2>2 DEF Forget
  <2>4. \A v \in Workers \ {w} : /\ pc'[v] = pc[v] /\ cur'[v] = cur[v]
                                /\ todo'[v] = todo[v] /\ batch'[v] = batch[v]
    BY <2>2 DEF Forget, Goto
  <2> QED BY <2>1, <2>3, <2>4, OnceLocal
<1>4. ASSUME NEW a \in Autos, DeleteRow(a) PROVE OnceInv'
  <2>1. \A b \in Autos : life'[b] # "deleted" => life[b] # "deleted"
    BY <1>4 DEF DeleteRow, TypeOK, TableTypes
  <2> QED BY <1>4, <2>1, OnceStill DEF DeleteRow, worker, history
<1>5. ASSUME NEW a \in Autos, ClearSeen(a) PROVE OnceInv'
  <2>1. life[a] = "deleted"
    BY <1>5 DEF ClearSeen, LifeInv
  <2>2. \A b \in Autos : b # a => seen'[b] = seen[b]
    BY <1>5 DEF ClearSeen
  <2>3. UNCHANGED <<life, tickets, lapses, pc, batch, cur, todo, taken>>
    BY <1>5 DEF ClearSeen, table, worker, history
  <2> SUFFICES ASSUME NEW b \in Autos, life[b] # "deleted", NEW p \in Posts
               PROVE  Accounted(b, p)'
    BY <2>3 DEF OnceInv
  <2>4. seen'[b] = seen[b] /\ Accounted(b, p)
    BY <2>1, <2>2 DEF OnceInv
  <2>5. Markers(b, p)' = Markers(b, p) /\ Filers(b, p)' = Filers(b, p)
    BY <2>3, <2>4 DEF Markers, Filers, Runs, Marking, Current
  <2> QED BY <2>3, <2>4, <2>5, Quiet
<1>6. ASSUME NEW a \in Autos, NEW on \in BOOLEAN, Create(a, on) PROVE OnceInv'
  <2>1. \A b \in Autos : life'[b] # "deleted" => life[b] # "deleted"
    BY <1>6 DEF Create
  <2> QED BY <1>6, <2>1, OnceStill DEF Create, worker, history
<1>7. CASE UNCHANGED <<life, worker, seen, tickets, lapses, taken>>
  BY <1>7, OnceStill DEF worker
<1>8. ASSUME NEW w \in Workers, MarkSeen(w) PROVE OnceInv'
  <2>1. PICK p \in Posts :
          /\ Current(w, p) /\ NextPost(w, p)
          /\ \/ seen' = [seen EXCEPT ![cur[w]] = @ \cup {p}] /\ UNCHANGED lapses
             \/ Lapse(cur[w], p) /\ UNCHANGED seen
    BY <1>8 DEF MarkSeen
  <2>2. pc[w] = "mark" /\ UNCHANGED <<life, tickets, cur, batch, taken>>
    BY <1>8 DEF MarkSeen, table, history
  <2>3. /\ \A v \in Workers \ {w} : pc'[v] = pc[v] /\ todo'[v] = todo[v]
        /\ \A q \in todo'[w] : q \in todo[w] /\ q # p
        /\ pc'[w] # "mark"
    BY <2>1 DEF NextPost, Goto
  <2> QED BY <2>1, <2>2, <2>3, OnceMark
<1>9. ASSUME NEW w \in Workers, Crash(w) PROVE OnceInv'
  <2>1. /\ \A v \in Workers \ {w} : /\ pc'[v] = pc[v] /\ todo'[v] = todo[v]
                                    /\ cur'[v] = cur[v] /\ batch'[v] = batch[v]
        /\ todo'[w] = {} /\ batch'[w] = {} /\ pc'[w] = "poll"
    BY <1>9 DEF Crash, Forget, Goto
  <2>2. UNCHANGED <<life, seen, tickets, taken>>
    BY <1>9 DEF Crash, table, history
  <2>3. CASE pc[w] # "mark"
    BY <1>9, <2>1, <2>2, <2>3, OnceLocal DEF Crash
  <2>4. CASE pc[w] = "mark"
    <3>1. PICK p \in Posts : Current(w, p) /\ Lapse(cur[w], p)
      BY <1>9, <2>4 DEF Crash
    <3> QED BY <2>1, <2>2, <2>4, <3>1, OnceMark
  <2> QED BY <2>3, <2>4
<1> QED
  BY <1>1, <1>2, <1>3, <1>4, <1>5, <1>6, <1>7, <1>8, <1>9, OnceStart, OnceCreate
     DEF Next, WorkerStep, UserStep, Delete, SetEnabled, RunNow, Publish, ToggleConnection, Tick,
         vars, table, history

-----------------------------------------------------------------------------
(* The theorems. *)

\* The inductive invariant holds before anything has happened.
LEMMA InitIInv == Init => IInv
<1> SUFFICES ASSUME Init PROVE IInv
  OBVIOUS
<1> USE DEF Init
<1>1. TypeOK
  BY ConstantsAssumption DEF TypeOK, TableTypes, WorldTypes, WorkerTypes, HistoryTypes
<1>2. WorkerInv /\ LifeInv
  BY DEF WorkerInv, LifeInv
<1>3. FiledInv
  BY DEF FiledInv, SeenImpliesFiled, Marking
<1>4. LeaseInv /\ OverlapOnlyWhenLate
  BY DEF LeaseInv, OverlapOnlyWhenLate, Runs
<1>5. ASSUME NEW a \in Autos, NEW p \in Posts PROVE Accounted(a, p)
  <2>1. Markers(a, p) = {} /\ Filers(a, p) = {}
    BY DEF Markers, Filers, Marking, Runs
  <2> QED BY <2>1, FS_EmptySet DEF Accounted
<1>6. OnceInv
  BY <1>5 DEF OnceInv
<1> QED BY <1>1, <1>2, <1>3, <1>4, <1>6 DEF IInv

\* Every step keeps the inductive invariant.
LEMMA StepIInv == IInv /\ [Next]_vars => IInv'
BY TypeStep, WorkerInvStep, LifeInvStep, FiledInvStep, LeaseStep, OnceStep DEF IInv

\* Worker locals, lock, lease, seen set, tickets, lapses and claims agree in every
\* reachable state: the inductive invariant.
THEOREM Inductive == Spec => []IInv
BY InitIInv, StepIInv, PTL DEF Spec

\* A post marked seen has a ticket: no failure, crash, overlap or lapsed lease
\* loses a post.
THEOREM NothingLost == Spec => []SeenImpliesFiled
<1>1. IInv => SeenImpliesFiled
  BY DEF IInv, FiledInv
<1> QED BY <1>1, Inductive, PTL

\* Two workers run one automation only after a live one outran its lease.
THEOREM NoOverlap == Spec => []OverlapOnlyWhenLate
<1>1. IInv => OverlapOnlyWhenLate
  BY DEF IInv
<1> QED BY <1>1, Inductive, PTL

\* A post of an existing automation has at most one ticket more than the marks that
\* were lost and the claims made of it while a worker still ran it.
THEOREM FiledAtMostOnce == Spec => []AtMostOnce
<1>1. ASSUME IInv, NEW a \in Autos, Live(a), NEW p \in Posts
      PROVE  tickets[a][p] <= 1 + lapses[a][p] + taken[a]
  <2>1. tickets[a][p] + Cardinality(Filers(a, p)) <= 1 + lapses[a][p] + taken[a]
    BY <1>1 DEF IInv, OnceInv, Accounted, Live
  <2>2. tickets[a][p] \in Nat /\ lapses[a][p] \in Nat /\ taken[a] \in Nat
    BY <1>1 DEF IInv, TypeOK, WorldTypes, HistoryTypes
  <2>3. Cardinality(Filers(a, p)) \in Nat
    BY Counted
  <2> QED BY <2>1, <2>2, <2>3
<1>2. IInv => AtMostOnce
  BY <1>1 DEF AtMostOnce
<1> QED BY <1>2, Inductive, PTL

-----------------------------------------------------------------------------
(* The refinement of Digest. *)

\* At first nothing is claimed, filed or dropped.
LEMMA InitPromise == Init => Promise!Init
BY DEF Init, Promise!Init, Runs, Holders, Dropped

\* The workers that hold an automation are those that run it.
LEMMA RestIsFree ==
  ASSUME NEW a \in Autos
  PROVE  Promise!AtRest(a) <=> ~Held(a)
BY DEF Promise!AtRest, Holders, Held

\* Forgetting a run and keeping rest gives up the other claims of the worker.
LEMMA ForgetUnclaims ==
  ASSUME WorkerTypes, NEW w \in Workers, NEW S \in SUBSET Autos, Forget(w, batch[w] \ S)
  PROVE  Promise!Unclaim(w, S)
<1>1. ASSUME NEW a \in Autos
      PROVE  Holders'[a] = IF a \in S THEN Holders[a] \ {w} ELSE Holders[a]
  <2>1. \A v \in Workers :
          a \in batch'[v] <=> IF v = w THEN a \in batch[v] /\ a \notin S ELSE a \in batch[v]
    BY DEF Forget, WorkerTypes
  <2> QED BY <2>1 DEF Holders, Runs
<1> QED BY <1>1 DEF Promise!Unclaim, Holders

\* A claim takes automations nobody runs, or somebody runs late; one whose result is
\* lost changes nothing.
LEMMA ClaimKeeps ==
  ASSUME IInv, NEW w \in Workers, ClaimDue(w)
  PROVE  [Promise!Next]_(Promise!dvars)
<1> USE DEF IInv, TypeOK, WorkerTypes, HistoryTypes
<1>1. PICK S \in SUBSET Autos :
        /\ \E locked \in SUBSET Autos : Selected(S, locked)
        /\ \/ UNCHANGED <<batch, late, taken>>
           \/ batch' = [batch EXCEPT ![w] = S] /\ Take(S)
        /\ UNCHANGED <<life, tickets, lapses>>
  BY DEF ClaimDue, Lock, worker, history
<1>2. CASE UNCHANGED <<batch, late, taken>>
  BY <1>1, <1>2 DEF Promise!dvars, Runs, Holders, Dropped
<1>3. CASE batch' = [batch EXCEPT ![w] = S] /\ Take(S)
  <2>1. \A a \in S : a \notin Dropped /\ (Promise!AtRest(a) \/ a \in late)
    BY <1>1, ClaimIsFresh, RestIsFree DEF Dropped, Live
  <2>2. batch[w] = {}
    BY DEF ClaimDue, WorkerInv
  <2>3. Holders' = [a \in Autos |-> IF a \in S THEN Holders[a] \cup {w} ELSE Holders[a]]
    <3>1. ASSUME NEW a \in Autos
          PROVE  Holders'[a] = IF a \in S THEN Holders[a] \cup {w} ELSE Holders[a]
      <4>1. \A v \in Workers : a \in batch'[v] <=> a \in batch[v] \/ (v = w /\ a \in S)
        BY <1>3, <2>2
      <4>2. Holders[a] = {v \in Workers : a \in batch[v]}
        BY DEF Holders, Runs
      <4>3. Holders'[a] = {v \in Workers : a \in batch'[v]}
        BY DEF Holders, Runs
      <4> QED BY <4>1, <4>2, <4>3
    <3> QED BY <3>1 DEF Holders
  <2>4. taken' = [a \in Autos |-> IF a \in S /\ ~Promise!AtRest(a) THEN taken[a] + 1
                                  ELSE taken[a]]
    BY <1>3, RestIsFree DEF Take
  <2>5. late' = {a \in late : a \in S => ~Promise!AtRest(a)}
    BY <1>3, RestIsFree DEF Take
  <2>6. UNCHANGED Dropped
    BY <1>1 DEF Dropped
  <2>7. Promise!Claim(w, S)
    BY <1>1, <2>1, <2>3, <2>4, <2>5, <2>6 DEF Promise!Claim
  <2> QED BY <2>7 DEF Promise!Next
<1> QED BY <1>1, <1>2, <1>3

\* A worker that outruns its lease is late in Digest too.
LEMMA TickKeeps ==
  ASSUME IInv, Tick
  PROVE  [Promise!Next]_(Promise!dvars)
<1> DEFINE S == {a \in Autos : Held(a) /\ age'[a] > Lease}
<1>1. UNCHANGED <<Holders, Dropped, tickets, lapses, taken>>
  BY DEF Tick, worker, Holders, Dropped, Runs
<1>2. late' = late \cup S /\ \A a \in S : ~Promise!AtRest(a)
  BY RestIsFree DEF Tick
<1>3. Promise!Overrun(S)
  BY <1>1, <1>2 DEF Promise!Overrun
<1> QED BY <1>3 DEF Promise!Next

\* Only a worker that runs the automation files, and only a post whose tickets have
\* lapsed or been outrun.
LEMMA CreateKeeps ==
  ASSUME IInv, NEW w \in Workers, CreateTicket(w)
  PROVE  [Promise!Next]_(Promise!dvars)
<1> USE DEF IInv
<1>1. UNCHANGED <<Holders, Dropped, late, taken>>
  BY DEF CreateTicket, Holders, Dropped, Runs, table, history
<1>2. cur[w] \in batch[w] /\ cur[w] \in Autos
  BY DEF CreateTicket, WorkerInv, TypeOK, WorkerTypes
<1>3. CASE UNCHANGED <<tickets, lapses>>
  BY <1>1, <1>3 DEF Promise!dvars
<1>4. CASE \E p \in Posts : /\ Current(w, p) /\ FileTicket(cur[w], p)
                            /\ UNCHANGED lapses \/ Lapse(cur[w], p)
  <2>1. PICK p \in Posts : /\ Current(w, p) /\ FileTicket(cur[w], p)
                           /\ UNCHANGED lapses \/ Lapse(cur[w], p)
    BY <1>4
  <2>2. w \in Holders[cur[w]]
    BY <1>2 DEF Holders, Runs
  <2>3. cur[w] \in Dropped \/ tickets[cur[w]][p] <= lapses[cur[w]][p] + taken[cur[w]]
    <3>1. CASE life[cur[w]] = "deleted"
      BY <1>2, <3>1 DEF Dropped
    <3>2. CASE life[cur[w]] # "deleted"
      <4>1. tickets[cur[w]][p] + Cardinality(Filers(cur[w], p))
              <= 1 + lapses[cur[w]][p] + taken[cur[w]]
        BY <1>2, <3>2 DEF OnceInv, Accounted
      <4>2. w \in Filers(cur[w], p)
        BY <2>1 DEF CreateTicket, Filers, Marking, Current
      <4>3. Cardinality(Filers(cur[w], p)) \in Nat /\ Cardinality(Filers(cur[w], p)) >= 1
        <5>1. Cardinality({w}) = 1
          BY FS_Singleton
        <5> QED BY <4>2, <5>1, Counted, CardSub, {w} \subseteq Filers(cur[w], p)
      <4>4. /\ tickets[cur[w]][p] \in Nat /\ lapses[cur[w]][p] \in Nat
            /\ taken[cur[w]] \in Nat
        BY <1>2 DEF TypeOK, WorldTypes, HistoryTypes
      <4> QED BY <4>1, <4>3, <4>4
    <3> QED BY <3>1, <3>2
  <2>4. Promise!File(w, cur[w], p)
    BY <1>1, <2>1, <2>2, <2>3 DEF Promise!File, Promise!Count, FileTicket, Lapse
  <2> QED BY <1>2, <2>4 DEF Promise!Next
<1> QED BY <1>3, <1>4 DEF CreateTicket

\* A mark that fails loses the record of the holder's ticket.
LEMMA MarkKeeps ==
  ASSUME IInv, NEW w \in Workers, MarkSeen(w)
  PROVE  [Promise!Next]_(Promise!dvars)
<1> USE DEF IInv
<1>1. UNCHANGED <<Holders, Dropped, tickets, late, taken>>
  BY DEF MarkSeen, Holders, Dropped, Runs, table, history
<1>2. cur[w] \in batch[w] /\ cur[w] \in Autos
  BY DEF MarkSeen, WorkerInv, TypeOK, WorkerTypes
<1>3. CASE UNCHANGED lapses
  BY <1>1, <1>3 DEF Promise!dvars
<1>4. ASSUME NEW p \in Posts, Lapse(cur[w], p) PROVE Promise!Next
  <2>1. w \in Holders[cur[w]]
    BY <1>2 DEF Holders, Runs
  <2>2. Promise!LoseRecord(w, cur[w], p)
    BY <1>1, <1>4, <2>1 DEF Promise!LoseRecord, Promise!Count, Lapse
  <2> QED BY <1>2, <2>2 DEF Promise!Next
<1> QED BY <1>3, <1>4 DEF MarkSeen

\* A run that ends, released or not, gives up one claim; a crash gives up all, and
\* may lose the record of a ticket.
LEMMA EndKeeps ==
  ASSUME IInv, NEW w \in Workers, Complete(w) \/ Crash(w)
  PROVE  [Promise!Next]_(Promise!dvars)
<1> USE DEF IInv
<1>1. UNCHANGED <<Dropped, tickets, late, taken>>
  BY DEF Complete, Crash, Release, Dropped, table, history
<1>2. WorkerTypes
  BY DEF TypeOK
<1>3. CASE Complete(w)
  <2>1. cur[w] \in Autos
    BY <1>3, <1>2 DEF Complete, WorkerInv, WorkerTypes
  <2>2. Promise!End(w, {cur[w]})
    BY <1>1, <1>2, <1>3, <2>1, ForgetUnclaims DEF Complete, Promise!End
  <2>3. {cur[w]} \in SUBSET Autos
    BY <2>1
  <2> QED BY <2>2, <2>3 DEF Promise!Next
<1>4. CASE Crash(w)
  <2>1. batch[w] \ Autos = {}
    BY <1>2 DEF WorkerTypes
  <2>2. Promise!Unclaim(w, Autos)
    BY <1>2, <1>4, <2>1, ForgetUnclaims DEF Crash
  <2>3. CASE UNCHANGED lapses
    <3>1. Promise!End(w, Autos)
      BY <1>1, <2>2, <2>3 DEF Promise!End
    <3> QED BY <3>1 DEF Promise!Next
  <2>4. ASSUME pc[w] = "mark", NEW p \in Posts, Lapse(cur[w], p) PROVE Promise!Next
    <3>1. cur[w] \in batch[w] /\ cur[w] \in Autos
      BY <1>2, <2>4 DEF WorkerInv, WorkerTypes
    <3>2. w \in Holders[cur[w]]
      BY <3>1 DEF Holders, Runs
    <3>3. Promise!LoseRecord(w, cur[w], p)
      BY <1>1, <2>2, <2>4, <3>2 DEF Promise!LoseRecord, Promise!Count, Lapse
    <3> QED BY <3>1, <3>3 DEF Promise!Next
  <2> QED BY <1>4, <2>3, <2>4 DEF Crash
<1> QED BY <1>3, <1>4

\* Of what users do only a delete shows in Digest.
LEMMA UserKeeps ==
  ASSUME IInv, NEW a \in Autos, UserStep(a)
  PROVE  [Promise!Next]_(Promise!dvars)
<1> USE DEF IInv, TypeOK, TableTypes
<1>1. UNCHANGED <<Holders, tickets, lapses, late, taken>>
  BY DEF UserStep, Create, SetEnabled, RunNow, Delete, DeleteRow, ClearSeen, Holders, Runs,
         worker, history
<1>2. CASE DeleteRow(a)
  <2>1. Dropped' = Dropped \cup {a}
    BY <1>2 DEF DeleteRow, Dropped
  <2> QED BY <1>1, <2>1 DEF Promise!Drop, Promise!Next
<1>3. CASE UNCHANGED Dropped
  BY <1>1, <1>3 DEF Promise!dvars
<1>4. ASSUME NEW on \in BOOLEAN, Create(a, on) PROVE UNCHANGED Dropped
  BY <1>4 DEF Create, Dropped
<1>5. ASSUME SetEnabled(a, TRUE) \/ SetEnabled(a, FALSE) \/ RunNow(a) \/ ClearSeen(a)
      PROVE  UNCHANGED Dropped
  BY <1>5 DEF SetEnabled, RunNow, ClearSeen, Dropped, table
<1> QED BY <1>2, <1>3, <1>4, <1>5 DEF UserStep, Delete

\* Every step of the automation is a step of Digest or changes nothing in it.
LEMMA StepPromise ==
  ASSUME IInv, [Next]_vars
  PROVE  [Promise!Next]_(Promise!dvars)
<1>1. CASE UNCHANGED <<life, batch, tickets, lapses, late, taken>>
  BY <1>1 DEF Promise!dvars, Holders, Dropped, Runs
<1>2. ASSUME NEW w \in Workers, StartRun(w) \/ ExaminePost(w)
      PROVE  UNCHANGED <<life, batch, tickets, lapses, late, taken>>
  BY <1>2 DEF StartRun, ExaminePost, table, history
<1>3. ASSUME NEW a \in Autos, Publish(a)
      PROVE  UNCHANGED <<life, batch, tickets, lapses, late, taken>>
  BY <1>3 DEF Publish, table, worker, history
<1>4. ToggleConnection \/ UNCHANGED vars
        => UNCHANGED <<life, batch, tickets, lapses, late, taken>>
  BY DEF ToggleConnection, vars, table, worker, history
<1> QED
  BY <1>1, <1>2, <1>3, <1>4, ClaimKeeps, CreateKeeps, MarkKeeps, EndKeeps, UserKeeps, TickKeeps
     DEF Next, WorkerStep

\* The automation implements Digest: for any workers, posts, crashes, failures, edits
\* and leases outrun, every behaviour is one that the promise allows.
THEOREM Refinement == Spec => KeepsPromise
<1>1. IInv /\ [Next]_vars => [Promise!Next]_(Promise!dvars)
  BY StepPromise
<1> QED BY <1>1, InitPromise, Inductive, PTL DEF Spec, KeepsPromise, Promise!Spec
=============================================================================
