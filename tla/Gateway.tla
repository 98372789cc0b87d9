------------------------------ MODULE Gateway ------------------------------
(***************************************************************************)
(* Login, logout and the session cookie: a browser with several tabs, the  *)
(* middleware that resolves its cookie, and the handlers that create and   *)
(* revoke the sessions of module Session.  Requests carry the cookie jar   *)
(* as it was when they were sent; responses change it when they arrive,    *)
(* late, in any order, or never.                                           *)
(*                                                                         *)
(* The cookies ih_session and ih_csrf are set, cleared and expire          *)
(* together; the front end echoes the one in the header of each unsafe     *)
(* request, which therefore passes the CSRF check.                         *)
(***************************************************************************)
EXTENDS Session

\* Config.Validate: session.absolute_ttl >= session.ttl.
ASSUME GatewayAssumption == TTL <= Absolute

VARIABLES
  jar,      \* the session of the browser's cookies, or NoId
  jarLeft,  \* ticks until they expire (Max-Age)
  route,    \* route[r]: the request r is
  stage,    \* where it is
  sent,     \* sent[r]: the session of its cookie; of a login's answer, the new one
  delay     \* ticks since its answer was written

browser == <<jar, jarLeft>>
http == <<route, stage, sent, delay>>
gatewayVars == <<vars, browser, http>>

GatewayTypeOK ==
  /\ TypeOK
  /\ jar \in Ids \cup {NoId} /\ jarLeft \in 0..TTL
  /\ route \in [Requests -> {"none", "login", "logout", "call", "revoke all"}]
  /\ stage \in [Requests -> {"none", "resolve", "handle", "ok", "refused"}]
  /\ sent \in [Requests -> Ids \cup {NoId}]
  /\ delay \in [Requests -> 0..Latency]

GatewayInit ==
  /\ Init
  /\ jar = NoId /\ jarLeft = 0
  /\ route = [r \in Requests |-> "none"]
  /\ stage = [r \in Requests |-> "none"]
  /\ sent = [r \in Requests |-> NoId]
  /\ delay = [r \in Requests |-> 0]

Enter(r, label) ==
  /\ stage' = [stage EXCEPT ![r] = label]
  /\ UNCHANGED <<browser, route, sent, delay>>

Answered(r) == stage[r] \in {"ok", "refused"}

\* A tab sends a request with the cookie of the jar.  A login needs none; any
\* other route is refused without one.
Send(r) ==
  /\ stage[r] = "none"
  /\ \E what \in {"login", "logout", "call"} :
       /\ route' = [route EXCEPT ![r] = what]
       /\ stage' = [stage EXCEPT ![r] = IF what = "login" THEN "handle"
                                        ELSE IF jar = NoId THEN "refused" ELSE "resolve"]
       /\ sent' = [sent EXCEPT ![r] = IF what = "login" THEN NoId ELSE jar]
  /\ UNCHANGED <<vars, browser, delay>>

\* RequireAuth: the session of the cookie is found, or the request is refused.
Lookup(r) ==
  /\ stage[r] = "resolve" /\ Find(r, sent[r])
  /\ UNCHANGED <<browser, http>>

NotFound(r) ==
  /\ stage[r] = "resolve" /\ pc[r] = "idle" /\ left[sent[r]] = 0
  /\ Enter(r, "refused")
  /\ UNCHANGED vars

Judge(r) == Decide(r) /\ UNCHANGED <<browser, http>>

\* The handler runs once the entry's TTL has been extended; an entry that is gone
\* by then is an error.
Admit(r) ==
  /\ Refresh(r)
  /\ Enter(r, IF left[held[r]] > 0 THEN "handle" ELSE "refused")

Outlived(r) == Delete(r) /\ Enter(r, "refused")

Resolving(r) == Lookup(r) \/ NotFound(r) \/ Judge(r) \/ Admit(r) \/ Outlived(r)

\* A handler that leaves sessions alone.
Handle(r) ==
  /\ stage[r] = "handle" /\ route[r] = "call"
  /\ Enter(r, "ok")
  /\ UNCHANGED vars

\* Login: a session is created, and its id is the cookie of the answer.
Login(r) ==
  /\ stage[r] = "handle" /\ route[r] = "login"
  /\ \E s \in Ids : Create(s) /\ sent' = [sent EXCEPT ![r] = s]
  /\ stage' = [stage EXCEPT ![r] = "ok"]
  /\ UNCHANGED <<browser, route, delay>>

\* Variant: a logout whose revocation fails clears the cookies all the same.
LogoutRegardless(r) ==
  /\ stage[r] = "handle" /\ route[r] = "logout"
  /\ Revoke(sent[r]) \/ UNCHANGED vars
  /\ Enter(r, "ok")

\* Logout: the session of the cookie is revoked; a DEL of nothing is no error.
Logout(r) ==
  /\ stage[r] = "handle" /\ route[r] = "logout"
  /\ Revoke(sent[r]) \/ (left[sent[r]] = 0 /\ UNCHANGED vars)
  /\ Enter(r, "ok")

\* A login that is throttled or has the wrong password, or a call to Redis that
\* fails: an error, without cookies.
Fail(r) ==
  /\ stage[r] \in {"resolve", "handle"}
  /\ IF pc[r] = "idle" THEN UNCHANGED vars ELSE CallFails(r)
  /\ Enter(r, "refused")

\* Variant: Max-Age is the absolute lifetime.
MaxAgeAbsolute == Absolute

\* CookieConfig.MaxAge, as buildRouterDeps sets it: the sliding TTL.
MaxAge == TTL

Idle(r) ==
  /\ route' = [route EXCEPT ![r] = "none"]
  /\ stage' = [stage EXCEPT ![r] = "none"]
  /\ sent' = [sent EXCEPT ![r] = NoId]
  /\ delay' = [delay EXCEPT ![r] = 0]

\* The answer arrives: a login's sets both cookies, a logout's clears them.
Receive(r) ==
  /\ Answered(r) /\ Idle(r)
  /\ \/ stage[r] = "ok" /\ route[r] = "login" /\ jar' = sent[r] /\ jarLeft' = MaxAge
     \/ stage[r] = "ok" /\ route[r] = "logout" /\ jar' = NoId /\ jarLeft' = 0
     \/ (stage[r] = "refused" \/ route[r] \notin {"login", "logout"}) /\ UNCHANGED browser
  /\ UNCHANGED vars

Lose(r) == Answered(r) /\ Idle(r) /\ UNCHANGED <<vars, browser>>

\* Manager.RevokeAllForUser, which no route calls yet.
BeginRevokeAll(r) ==
  /\ stage[r] = "none" /\ ListAll(r)
  /\ route' = [route EXCEPT ![r] = "revoke all"]
  /\ stage' = [stage EXCEPT ![r] = "resolve"]
  /\ UNCHANGED <<browser, sent, delay>>

EndRevokeAll(r) == (DeleteAll(r) \/ (pc[r] = "del all" /\ CallFails(r))) /\ Idle(r) /\ UNCHANGED browser

\* Time passes, for the cookies too; an answer arrives within Latency.
Elapse ==
  /\ Tick
  /\ \A r \in Requests : Answered(r) => delay[r] < Latency
  /\ delay' = [r \in Requests |-> IF Answered(r) THEN delay[r] + 1 ELSE 0]
  /\ jarLeft' = IF jarLeft > 0 THEN jarLeft - 1 ELSE 0
  /\ jar' = IF jarLeft = 1 THEN NoId ELSE jar
  /\ UNCHANGED <<route, stage, sent>>

GatewayNext ==
  \/ \E r \in Requests :
       \/ Send(r) \/ Resolving(r) \/ Handle(r) \/ Login(r) \/ Logout(r) \/ Fail(r)
       \/ Receive(r) \/ Lose(r) \/ BeginRevokeAll(r) \/ EndRevokeAll(r)
  \/ Elapse

GatewaySpec == GatewayInit /\ [][GatewayNext]_gatewayVars

-----------------------------------------------------------------------------
(* Properties. *)

\* A logout that was answered with success has ended its session, whatever the
\* other tabs' requests were doing to that session in the meantime; a later
\* refresh does not bring it back (AuthHandler.Logout, Resolve).
SignedOut ==
  \A r \in Requests :
    route[r] = "logout" /\ stage[r] = "ok" => left[sent[r]] = 0

\* The browser does not go on sending a cookie whose session has run out by
\* itself: the cookie is set later than the entry, by the latency of the answer,
\* and may outlive it by no more (Max-Age against the sliding TTL, the absolute
\* lifetime and config's session.absolute_ttl >= session.ttl).
CookieAlive ==
  [][Elapse \/ (\E r \in Requests : Outlived(r)) =>
       \A s \in Ids : jar' = s /\ left[s] > 0 /\ left'[s] = 0 => jarLeft' <= Latency]_gatewayVars
=============================================================================
