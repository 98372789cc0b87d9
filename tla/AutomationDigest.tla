-------------------------- MODULE AutomationDigest --------------------------
(* The scheduler, the table, the lease and the seen set implement Digest.  *)
EXTENDS Automation

\* The workers whose batch holds an automation.
Holders == [a \in Autos |-> {w \in Workers : Runs(w, a)}]

Dropped == {a \in Autos : life[a] = "deleted"}

Promise == INSTANCE Digest WITH
  claimed <- Holders, filed <- tickets, lapsed <- lapses, late <- late,
  taken <- taken, dropped <- Dropped

\* Every behaviour of the automation is one Digest allows: each step of a worker,
\* a user, the site or the clock is a step of Digest or changes nothing in it.
KeepsPromise == Promise!Spec
=============================================================================
