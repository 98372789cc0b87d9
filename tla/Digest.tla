------------------------------- MODULE Digest -------------------------------
(***************************************************************************)
(* What the automation promises, whatever its table, lease and seen set    *)
(* do: only a worker that claims an automation files its posts; nobody     *)
(* claims one that another worker still runs, unless a worker has outrun   *)
(* its lease since somebody last took it up from rest; and, until the      *)
(* automation is dropped, a post is filed again only if the record of a    *)
(* ticket for it was lost or the automation was taken from a worker that   *)
(* still ran it, at most once for each time.                               *)
(***************************************************************************)
EXTENDS Naturals

CONSTANTS Workers, Autos, Posts

VARIABLES claimed,  \* claimed[a]: the workers running a
          filed,    \* filed[a][p]: tickets for post p
          lapsed,   \* lapsed[a][p]: tickets whose record was lost
          late,     \* the automations a worker has run beyond the lease
          taken,    \* taken[a]: claims of a while another worker ran it
          dropped   \* the deleted automations

dvars == <<claimed, filed, lapsed, late, taken, dropped>>

Init ==
  /\ claimed = [a \in Autos |-> {}]
  /\ filed = [a \in Autos |-> [p \in Posts |-> 0]]
  /\ lapsed = [a \in Autos |-> [p \in Posts |-> 0]]
  /\ late = {}
  /\ taken = [a \in Autos |-> 0]
  /\ dropped = {}

AtRest(a) == claimed[a] = {}

\* A worker takes a batch of automations nobody runs, or somebody runs late.
Claim(w, S) ==
  /\ \A a \in S : a \notin dropped /\ (AtRest(a) \/ a \in late)
  /\ claimed' = [a \in Autos |-> IF a \in S THEN claimed[a] \cup {w} ELSE claimed[a]]
  /\ taken' = [a \in Autos |-> IF a \in S /\ ~AtRest(a) THEN taken[a] + 1 ELSE taken[a]]
  /\ late' = {a \in late : a \in S => ~AtRest(a)}
  /\ UNCHANGED <<filed, lapsed, dropped>>

\* Workers outrun their lease on some automations.
Overrun(S) ==
  /\ \A a \in S : ~AtRest(a)
  /\ late' = late \cup S
  /\ UNCHANGED <<claimed, filed, lapsed, taken, dropped>>

Unclaim(w, S) ==
  claimed' = [a \in Autos |-> IF a \in S THEN claimed[a] \ {w} ELSE claimed[a]]

\* It is done with some of them, or dies holding them all.
End(w, S) == Unclaim(w, S) /\ UNCHANGED <<filed, lapsed, late, taken, dropped>>

Count(n, a, p) == [n EXCEPT ![a][p] = @ + 1]

File(w, a, p) ==
  /\ w \in claimed[a]
  /\ a \in dropped \/ filed[a][p] <= lapsed[a][p] + taken[a]
  /\ filed' = Count(filed, a, p)
  /\ lapsed' \in {lapsed, Count(lapsed, a, p)}
  /\ UNCHANGED <<claimed, late, taken, dropped>>

\* The record of a ticket is lost, the worker with it or not.
LoseRecord(w, a, p) ==
  /\ w \in claimed[a]
  /\ lapsed' = Count(lapsed, a, p)
  /\ UNCHANGED claimed \/ Unclaim(w, Autos)
  /\ UNCHANGED <<filed, late, taken, dropped>>

Drop(a) == dropped' = dropped \cup {a} /\ UNCHANGED <<claimed, filed, lapsed, late, taken>>

Next ==
  \/ \E w \in Workers, S \in SUBSET Autos : Claim(w, S) \/ End(w, S)
  \/ \E S \in SUBSET Autos : Overrun(S)
  \/ \E w \in Workers, a \in Autos, p \in Posts : File(w, a, p) \/ LoseRecord(w, a, p)
  \/ \E a \in Autos : Drop(a)

Spec == Init /\ [][Next]_dvars
=============================================================================
