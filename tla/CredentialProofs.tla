-------------------------- MODULE CredentialProofs --------------------------
(***************************************************************************)
(* What holds of one user's credential, for any sites, tokens, requests    *)
(* and failures, however the user's requests and callbacks overlap: the    *)
(* grant is kept, and where status or account go wrong, a request that had *)
(* been overtaken did it.                                                  *)
(***************************************************************************)
EXTENDS Credential, TLAPS

Counts == 0..MaxFailures

Types ==
  /\ status \in {"none", "connected", "needs_reauth"}
  /\ access \in Tokens \cup {NoToken} /\ refresh \in Tokens \cup {NoToken}
  /\ account \in Sites /\ expired \in BOOLEAN /\ stale \in BOOLEAN
  /\ site \in [Tokens -> Sites] /\ valid \subseteq Tokens
  /\ pc \in [Actors -> {"idle", "refresh", "persist", "mark", "auth", "call", "save"}]
  /\ token \in [Actors -> Tokens \cup {NoToken}]
  /\ target \in [Actors -> Sites]
  /\ overtaken \subseteq Requests
  /\ failures \in Counts

\* Whoever needs a pair has one, and so has a row.
HoldInv ==
  /\ \A x \in Actors :
       pc[x] \in {"refresh", "persist", "auth", "call", "save"} => token[x] \in Tokens
  /\ status = "none" => access = NoToken /\ refresh = NoToken
  /\ status # "none" => access \in Tokens /\ refresh \in Tokens

\* What a request that has not been overtaken holds still fits the row.
FitInv ==
  \A r \in Requests \ overtaken :
    /\ pc[r] = "refresh" => status # "none" /\ token[r] = refresh
    /\ pc[r] = "mark" => refresh \notin valid
    /\ pc[r] = "persist" => status # "none" /\ site[token[r]] = site[refresh]
    /\ pc[r] \in {"auth", "call"} => status # "none" /\ token[r] = access
    /\ pc[r] = "call" => target[r] = account

\* The two tokens of the row are one pair, and a disused one is dead.
RowInv == access = refresh /\ (stale => refresh \notin valid)

\* A pair that waits to be stored is in nobody else's hands, nor on the row yet.
HeldInv ==
  \A x \in Actors : pc[x] \in {"persist", "save"} =>
    /\ token[x] \notin {access, refresh}
    /\ \A y \in Actors : y # x => token[y] # token[x]

\* The provider accepts what waits to be stored, and the row's refresh token unless
\* a request is to store another.
GrantInv ==
  failures = 0 =>
    /\ \A x \in Actors : pc[x] \in {"persist", "save"} => token[x] \in valid
    /\ status # "none" /\ ~stale =>
         refresh \in valid \/ \E x \in Requests : pc[x] = "persist"

-----------------------------------------------------------------------------
\* TypeOK with its ranges by name.
LEMMA TypesFact == TypeOK <=> Types
  BY DEF TypeOK, Types, Counts

\* A failure is counted within its bound, and never forgotten.
LEMMA CountFact == Types /\ Fail => failures' \in Counts /\ failures' # 0
  BY CredentialAssumption DEF Types, Fail, Counts

\* Requests and callbacks are the actors.
LEMMA ActorsFact == \A x \in Requests \cup Callbacks : x \in Actors
  BY DEF Actors

\* Every step of a request, a callback, the user or the provider keeps the types.
LEMMA TypeStep == Types /\ HoldInv /\ [Next]_vars => Types'
<1> SUFFICES ASSUME Types, HoldInv, [Next]_vars PROVE Types'
  OBVIOUS
<1>1. ASSUME NEW r \in Requests, LoadCredential(r) PROVE Types'
  BY <1>1 DEF LoadCredential, Goto, Hold, row, provider, Types
<1>2. ASSUME NEW r \in Requests, RefreshTokens(r) PROVE Types'
  BY <1>2, CountFact DEF RefreshTokens, Issue, Goto, Hold, Return, NoFail, row, provider, Types
<1>3. ASSUME NEW r \in Requests, Persist(r) PROVE Types'
  BY <1>3, CountFact, ActorsFact DEF Persist, UpdateTokens, Goto, Hold, Return, NoFail, row, provider, Types
<1>4. ASSUME NEW r \in Requests, MarkReauth(r) PROVE Types'
  BY <1>4, CountFact DEF MarkReauth, Goto, Hold, Return, NoFail, provider, Types
<1>5. ASSUME NEW r \in Requests, ResolveAuth(r) \/ CallJira(r) PROVE Types'
  BY <1>5 DEF ResolveAuth, CallJira, Goto, Hold, Return, row, provider, Types
<1>6. ASSUME NEW c \in Callbacks, Exchange(c) PROVE Types'
  BY <1>6, CountFact DEF Exchange, Issue, Goto, Hold, NoFail, row, Types
<1>7. ASSUME NEW c \in Callbacks, SaveCredential(c) PROVE Types'
  <2>1. token[c] \in Tokens /\ site[token[c]] \in Sites
    BY <1>7, ActorsFact DEF SaveCredential, HoldInv, Types
  <2> QED BY <1>7, <2>1, CountFact DEF SaveCredential, Goto, Hold, Return, NoFail, row, provider, Types
<1>8. ASSUME Disconnect \/ ExpireAccess \/ Inactivity \/ Revoke PROVE Types'
  BY <1>8, CountFact DEF Disconnect, ExpireAccess, Inactivity, Revoke, row, provider, Types
<1>9. CASE UNCHANGED vars
  BY <1>9 DEF vars, row, provider, Types
<1> QED BY <1>1, <1>2, <1>3, <1>4, <1>5, <1>6, <1>7, <1>8, <1>9 DEF Next, RequestStep, FetchValidToken

\* No step leaves a request without the pair it needs, or a row without tokens.
LEMMA HoldStep == Types /\ HoldInv /\ [Next]_vars => HoldInv'
<1> SUFFICES ASSUME Types, HoldInv, [Next]_vars PROVE HoldInv'
  OBVIOUS
<1>1. ASSUME NEW r \in Requests, LoadCredential(r) PROVE HoldInv'
  BY <1>1 DEF LoadCredential, Goto, Hold, row, HoldInv, Types
<1>2. ASSUME NEW r \in Requests, RefreshTokens(r) PROVE HoldInv'
  BY <1>2 DEF RefreshTokens, Goto, Hold, Return, row, HoldInv, Types
<1>3. ASSUME NEW r \in Requests, Persist(r) PROVE HoldInv'
  <2>1. token[r] \in Tokens
    BY <1>3, ActorsFact DEF Persist, HoldInv
  <2> QED BY <1>3, <2>1 DEF Persist, UpdateTokens, Goto, Hold, Return, row, HoldInv, Types
<1>4. ASSUME NEW r \in Requests, MarkReauth(r) PROVE HoldInv'
  BY <1>4 DEF MarkReauth, Goto, Hold, Return, HoldInv, Types
<1>5. ASSUME NEW r \in Requests, ResolveAuth(r) \/ CallJira(r) PROVE HoldInv'
  BY <1>5, ActorsFact DEF ResolveAuth, CallJira, Goto, Hold, Return, row, HoldInv, Types
<1>6. ASSUME NEW c \in Callbacks, Exchange(c) PROVE HoldInv'
  BY <1>6 DEF Exchange, Goto, Hold, row, HoldInv, Types
<1>7. ASSUME NEW c \in Callbacks, SaveCredential(c) PROVE HoldInv'
  <2>1. token[c] \in Tokens
    BY <1>7, ActorsFact DEF SaveCredential, HoldInv
  <2> QED BY <1>7, <2>1 DEF SaveCredential, Goto, Hold, Return, row, HoldInv, Types
<1>8. ASSUME Disconnect \/ ExpireAccess \/ Inactivity \/ Revoke PROVE HoldInv'
  BY <1>8 DEF Disconnect, ExpireAccess, Inactivity, Revoke, row, provider, HoldInv
<1>9. CASE UNCHANGED vars
  BY <1>9 DEF vars, row, HoldInv
<1> QED BY <1>1, <1>2, <1>3, <1>4, <1>5, <1>6, <1>7, <1>8, <1>9 DEF Next, RequestStep, FetchValidToken

\* A count of 0 after a step was 0 before it: nothing has failed.
LEMMA NoneFailed ==
  ASSUME Types, failures' = 0, [Next]_vars
  PROVE  failures = 0 /\ ~Fail
<1>1. ~Fail
  BY CountFact
<1>2. failures' = failures
  BY <1>1 DEF Next, RequestStep, FetchValidToken, LoadCredential, RefreshTokens, Persist, MarkReauth,
        ResolveAuth, CallJira, Exchange, SaveCredential, Disconnect, ExpireAccess, Inactivity,
        Revoke, NoFail, vars
<1> QED BY <1>1, <1>2

\* The row's tokens are replaced together, and no fresh pair is the row's.
LEMMA RowStep == Types /\ HoldInv /\ RowInv /\ [Next]_vars => RowInv'
<1> SUFFICES ASSUME Types, HoldInv, RowInv, [Next]_vars PROVE RowInv'
  OBVIOUS
<1>a. NoToken \notin valid
  BY CredentialAssumption DEF Types
<1>1. ASSUME NEW r \in Requests, LoadCredential(r) \/ MarkReauth(r) \/ ResolveAuth(r) \/ CallJira(r)
      PROVE  RowInv'
  BY <1>1 DEF LoadCredential, MarkReauth, ResolveAuth, CallJira, row, provider, RowInv
<1>2. ASSUME NEW r \in Requests, RefreshTokens(r) PROVE RowInv'
  BY <1>2 DEF RefreshTokens, Issue, Fresh, row, provider, RowInv
<1>3. ASSUME NEW r \in Requests, Persist(r) PROVE RowInv'
  BY <1>3 DEF Persist, UpdateTokens, row, provider, RowInv
<1>4. ASSUME NEW c \in Callbacks, Exchange(c) \/ SaveCredential(c) PROVE RowInv'
  BY <1>4 DEF Exchange, SaveCredential, Issue, Fresh, row, provider, RowInv
<1>5. ASSUME Disconnect \/ ExpireAccess \/ Inactivity \/ Revoke PROVE RowInv'
  BY <1>5, <1>a DEF Disconnect, ExpireAccess, Inactivity, Revoke, row, provider, RowInv
<1>6. CASE UNCHANGED vars
  BY <1>6 DEF vars, row, provider, RowInv
<1> QED BY <1>1, <1>2, <1>3, <1>4, <1>5, <1>6 DEF Next, RequestStep, FetchValidToken

\* Whoever stores tokens or deletes the row overtakes all the others.
LEMMA FitStep ==
  ASSUME Types, HoldInv, RowInv, FitInv, [Next]_vars
  PROVE  FitInv'
<1>1. ASSUME NEW r \in Requests, LoadCredential(r) PROVE FitInv'
  <2>1. UNCHANGED <<status, access, refresh, account, site, valid, target>>
    BY <1>1 DEF LoadCredential, row, provider
  <2>2. \A x \in Requests \ overtaken' : x # r =>
          x \notin overtaken /\ pc'[x] = pc[x] /\ token'[x] = token[x]
    BY <1>1, ActorsFact DEF LoadCredential, Goto, Hold, Types
  <2>3. \/ pc'[r] = "auth" /\ status # "none" /\ token'[r] = access
        \/ pc'[r] = "mark" /\ refresh \notin valid
        \/ pc'[r] = "refresh" /\ status # "none" /\ token'[r] = refresh
    BY <1>1, ActorsFact DEF LoadCredential, Goto, Hold, Types, RowInv
  <2> QED BY <2>1, <2>2, <2>3 DEF FitInv
<1>2. ASSUME NEW r \in Requests, RefreshTokens(r) PROVE FitInv'
  <2>1. /\ UNCHANGED <<status, access, refresh, account, target, overtaken>> /\ pc[r] = "refresh"
        /\ \A x \in Requests : x # r => pc'[x] = pc[x] /\ token'[x] = token[x]
    BY <1>2, ActorsFact DEF RefreshTokens, Goto, Hold, Return, row, Types
  <2>2. /\ refresh \notin valid => refresh \notin valid'
        /\ status # "none" => site'[refresh] = site[refresh]
        /\ \A x \in Requests : x # r /\ pc[x] = "persist" => site'[token[x]] = site[token[x]]
    BY <1>2, ActorsFact DEF RefreshTokens, Issue, Fresh, provider, Types, HoldInv
  <2>3. \/ pc'[r] = "persist" /\ site'[token'[r]] = site[token[r]]
        \/ pc'[r] = "mark" /\ token[r] \notin valid /\ valid' = valid
        \/ pc'[r] = "idle"
    BY <1>2, ActorsFact DEF RefreshTokens, Issue, Goto, Hold, Return, provider, Types
  <2> QED BY <2>1, <2>2, <2>3 DEF FitInv
<1>3. ASSUME NEW r \in Requests, Persist(r) PROVE FitInv'
  <2>1. \A x \in Requests : x # r => pc'[x] = pc[x] /\ token'[x] = token[x]
    BY <1>3, ActorsFact DEF Persist, Goto, Hold, Return, Types
  <2>2. CASE pc'[r] = "idle" /\ UNCHANGED <<row, overtaken>>
    BY <1>3, <2>1, <2>2 DEF Persist, row, provider, FitInv
  <2>3. CASE status = "none" /\ UNCHANGED <<row, overtaken>>
    <3>1. r \in overtaken
      BY <1>3, <2>3 DEF Persist, FitInv
    <3> QED BY <1>3, <2>1, <2>3, <3>1 DEF Persist, row, provider, FitInv
  <2>4. CASE /\ pc'[r] = "auth" /\ token' = token /\ overtaken' = Requests \ {r}
             /\ status' = "connected" /\ access' = token[r]
    BY <2>4 DEF FitInv
  <2> QED BY <1>3, <2>2, <2>3, <2>4, ActorsFact DEF Persist, UpdateTokens, Goto, Return, Types
<1>4. ASSUME NEW r \in Requests, MarkReauth(r) \/ CallJira(r) PROVE FitInv'
  <2>1. /\ pc'[r] = "idle"
        /\ \A x \in Requests : x # r => pc'[x] = pc[x] /\ token'[x] = token[x]
    BY <1>4, ActorsFact DEF MarkReauth, CallJira, Goto, Hold, Return, Types
  <2>2. /\ UNCHANGED <<access, refresh, account, site, valid, target, overtaken>>
        /\ status # "none" => status' # "none"
    BY <1>4 DEF MarkReauth, CallJira, row, provider
  <2> QED BY <2>1, <2>2 DEF FitInv
<1>5. ASSUME NEW r \in Requests, ResolveAuth(r) PROVE FitInv'
  <2>1. \A x \in Requests : x # r => pc'[x] = pc[x] /\ token'[x] = token[x] /\ target'[x] = target[x]
    BY <1>5, ActorsFact DEF ResolveAuth, Goto, Hold, Return, Types
  <2>2. UNCHANGED <<status, access, refresh, account, site, valid, overtaken>> /\ pc[r] = "auth"
    BY <1>5 DEF ResolveAuth, row, provider
  <2>3. \/ pc'[r] = "idle"
        \/ pc'[r] = "call" /\ token'[r] = token[r] /\ target'[r] = account
    BY <1>5, ActorsFact DEF ResolveAuth, Goto, Return, Types
  <2> QED BY <2>1, <2>2, <2>3 DEF FitInv
<1>6. ASSUME NEW c \in Callbacks, Exchange(c) PROVE FitInv'
  <2>1. \A x \in Requests : pc'[x] = pc[x] /\ token'[x] = token[x]
    BY <1>6, ActorsFact, CredentialAssumption DEF Exchange, Goto, Hold, Types
  <2>2. UNCHANGED <<status, access, refresh, account, target, overtaken>>
    BY <1>6 DEF Exchange, row
  <2>3. /\ refresh \notin valid => refresh \notin valid'
        /\ status # "none" => site'[refresh] = site[refresh]
        /\ \A x \in Requests : pc[x] = "persist" => site'[token[x]] = site[token[x]]
    BY <1>6, ActorsFact DEF Exchange, Issue, Fresh, Types, HoldInv
  <2> QED BY <2>1, <2>2, <2>3 DEF FitInv
<1>7. ASSUME NEW c \in Callbacks, SaveCredential(c) PROVE FitInv'
  <2>1. CASE overtaken' = Requests
    BY <2>1 DEF FitInv
  <2>2. CASE UNCHANGED <<row, overtaken>>
    <3>1. \A x \in Requests : pc'[x] = pc[x] /\ token'[x] = token[x]
      BY <1>7, ActorsFact, CredentialAssumption DEF SaveCredential, Goto, Hold, Return, Types
    <3> QED BY <1>7, <2>2, <3>1 DEF SaveCredential, row, provider, FitInv
  <2> QED BY <1>7, <2>1, <2>2 DEF SaveCredential
<1>8. ASSUME Disconnect PROVE FitInv'
  BY <1>8 DEF Disconnect, FitInv
<1>9. ASSUME ExpireAccess \/ Inactivity \/ Revoke PROVE FitInv'
  BY <1>9 DEF ExpireAccess, Inactivity, Revoke, row, provider, FitInv
<1>10. CASE UNCHANGED vars
  BY <1>10 DEF vars, row, provider, FitInv
<1> QED BY <1>1, <1>2, <1>3, <1>4, <1>5, <1>6, <1>7, <1>8, <1>9, <1>10 DEF Next, RequestStep, FetchValidToken

\* Whatever overlaps, a pair is issued that nobody has, and who stores it lets go
\* of it or is past storing it.
LEMMA HeldStep ==
  ASSUME Types, HoldInv, HeldInv, [Next]_vars
  PROVE  HeldInv'
<1>a. \A x \in Actors : pc[x] \in {"persist", "save"} => token[x] \in Tokens
  BY DEF HoldInv
<1>1. ASSUME NEW r \in Requests, LoadCredential(r) PROVE HeldInv'
  BY <1>1, ActorsFact DEF LoadCredential, Goto, Hold, row, HeldInv, Types
<1>2. ASSUME NEW r \in Requests, RefreshTokens(r) PROVE HeldInv'
  <2>1. UNCHANGED <<access, refresh>> /\ \A x \in Actors : x # r => pc'[x] = pc[x] /\ token'[x] = token[x]
    BY <1>2, ActorsFact DEF RefreshTokens, Goto, Hold, Return, row, Types
  <2>2. CASE pc'[r] = "persist"
    <3>1. Fresh(token'[r])
      BY <1>2, <2>2, ActorsFact DEF RefreshTokens, Issue, Goto, Hold, Return, Types
    <3> QED BY <2>1, <3>1, ActorsFact DEF Fresh, HeldInv
  <2>3. CASE pc'[r] = "mark" /\ token' = token
    BY <2>1, <2>3 DEF HeldInv
  <2>4. CASE pc'[r] = "idle" /\ token'[r] = NoToken
    BY <1>a, <2>1, <2>4, CredentialAssumption DEF HeldInv
  <2>5. \/ pc'[r] = "persist"
        \/ pc'[r] = "mark" /\ token' = token
        \/ pc'[r] = "idle" /\ token'[r] = NoToken
    BY <1>2, ActorsFact DEF RefreshTokens, Goto, Hold, Return, Types
  <2> QED BY <2>2, <2>3, <2>4, <2>5
<1>3. ASSUME NEW x \in Actors,
             pc'[x] \notin {"persist", "save"}, token'[x] \in {token[x], NoToken},
             \A y \in Actors : y # x => pc'[y] = pc[y] /\ token'[y] = token[y],
             pc[x] \in {"persist", "save"} \/ UNCHANGED <<access, refresh>>,
             access' \in {access, token[x]}, refresh' \in {refresh, token[x]}
      PROVE  HeldInv'
  BY <1>a, <1>3, CredentialAssumption DEF HeldInv
<1>4. ASSUME NEW r \in Requests, Persist(r) \/ MarkReauth(r) \/ ResolveAuth(r) \/ CallJira(r)
      PROVE  HeldInv'
  <2>1. /\ pc'[r] \notin {"persist", "save"} /\ token'[r] \in {token[r], NoToken}
        /\ \A y \in Actors : y # r => pc'[y] = pc[y] /\ token'[y] = token[y]
    BY <1>4, ActorsFact DEF Persist, MarkReauth, ResolveAuth, CallJira, Goto, Hold, Return, Types
  <2>2. /\ pc[r] \in {"persist", "save"} \/ UNCHANGED <<access, refresh>>
        /\ access' \in {access, token[r]} /\ refresh' \in {refresh, token[r]}
    BY <1>4 DEF Persist, UpdateTokens, MarkReauth, ResolveAuth, CallJira, row
  <2> QED BY <1>3, <2>1, <2>2, ActorsFact
<1>5. ASSUME NEW c \in Callbacks, Exchange(c) PROVE HeldInv'
  <2>1. UNCHANGED <<access, refresh>> /\ \A x \in Actors : x # c => pc'[x] = pc[x] /\ token'[x] = token[x]
    BY <1>5, ActorsFact DEF Exchange, Goto, Hold, row, Types
  <2>2. CASE UNCHANGED <<pc, token>>
    BY <2>1, <2>2 DEF HeldInv
  <2>3. CASE pc'[c] = "save" /\ Fresh(token'[c])
    BY <2>1, <2>3, ActorsFact DEF Fresh, HeldInv
  <2>4. UNCHANGED <<pc, token>> \/ (pc'[c] = "save" /\ Fresh(token'[c]))
    BY <1>5, ActorsFact DEF Exchange, Issue, Goto, Hold, Types
  <2> QED BY <2>2, <2>3, <2>4
<1>6. ASSUME NEW c \in Callbacks, SaveCredential(c) PROVE HeldInv'
  <2>1. /\ pc'[c] \notin {"persist", "save"} /\ token'[c] \in {token[c], NoToken}
        /\ \A y \in Actors : y # c => pc'[y] = pc[y] /\ token'[y] = token[y]
    BY <1>6, ActorsFact DEF SaveCredential, Goto, Hold, Return, Types
  <2>2. /\ pc[c] \in {"persist", "save"}
        /\ access' \in {access, token[c]} /\ refresh' \in {refresh, token[c]}
    BY <1>6 DEF SaveCredential, row
  <2> QED BY <1>3, <2>1, <2>2, ActorsFact
<1>7. ASSUME Disconnect \/ ExpireAccess \/ Inactivity \/ Revoke PROVE HeldInv'
  BY <1>7, <1>a, CredentialAssumption DEF Disconnect, ExpireAccess, Inactivity, Revoke, row, HeldInv
<1>8. CASE UNCHANGED vars
  BY <1>8 DEF vars, row, HeldInv
<1> QED BY <1>1, <1>2, <1>4, <1>5, <1>6, <1>7, <1>8 DEF Next, RequestStep, FetchValidToken

\* Whatever overlaps, only a refresh of the row's own token takes it out of the
\* provider's hands, and that request then holds its successor.
LEMMA GrantStep ==
  ASSUME Types, HoldInv, HeldInv, GrantInv, [Next]_vars
  PROVE  GrantInv'
<1> SUFFICES ASSUME failures' = 0 PROVE GrantInv'
  BY DEF GrantInv
<1>a. failures = 0 /\ ~Fail
  BY NoneFailed
<1>b. /\ \A x \in Actors : pc[x] \in {"persist", "save"} => token[x] \in valid
      /\ status # "none" /\ ~stale => refresh \in valid \/ \E x \in Requests : pc[x] = "persist"
  BY <1>a DEF GrantInv
<1>1. ASSUME NEW r \in Requests, LoadCredential(r) PROVE GrantInv'
  <2>1. pc[r] = "idle" /\ \A x \in Actors : x # r => pc'[x] = pc[x] /\ token'[x] = token[x]
    BY <1>1, ActorsFact DEF LoadCredential, Goto, Hold, Types
  <2>2. pc'[r] \notin {"persist", "save"}
    BY <1>1, ActorsFact DEF LoadCredential, Goto, Types
  <2>3. UNCHANGED <<status, stale, refresh, valid>>
    BY <1>1 DEF LoadCredential, row, provider
  <2>4. \A x \in Actors : pc'[x] \in {"persist", "save"} => token'[x] \in valid'
    BY <1>b, <2>1, <2>2, <2>3
  <2>5. (\E x \in Requests : pc[x] = "persist") => \E x \in Requests : pc'[x] = "persist"
    BY <2>1, ActorsFact
  <2> QED BY <1>b, <2>3, <2>4, <2>5 DEF GrantInv
<1>2. ASSUME NEW r \in Requests, RefreshTokens(r) PROVE GrantInv'
  <2>1. /\ UNCHANGED <<status, stale, refresh>> /\ pc[r] = "refresh"
        /\ \A x \in Actors : x # r => pc'[x] = pc[x] /\ token'[x] = token[x]
    BY <1>2, ActorsFact DEF RefreshTokens, Goto, Hold, Return, row, Types
  <2>2. CASE token[r] \in valid
    <3>1. pc'[r] = "persist" /\ valid' = (valid \ {token[r]}) \cup {token'[r]}
      BY <1>2, <1>a, <2>2, ActorsFact DEF RefreshTokens, Goto, Hold, Types
    <3>2. \A x \in Actors : x # r /\ pc[x] \in {"persist", "save"} => token[x] # token[r]
      BY ActorsFact DEF HeldInv
    <3>3. \A x \in Actors : pc'[x] \in {"persist", "save"} => token'[x] \in valid'
      BY <1>b, <2>1, <3>1, <3>2
    <3> QED BY <3>1, <3>3, ActorsFact DEF GrantInv
  <2>3. CASE token[r] \notin valid
    <3>1. pc'[r] = "mark" /\ UNCHANGED <<token, valid>>
      BY <1>2, <1>a, <2>3, ActorsFact DEF RefreshTokens, Goto, provider, Types
    <3>2. \A x \in Actors : pc'[x] \in {"persist", "save"} => token'[x] \in valid'
      BY <1>b, <2>1, <3>1
    <3>3. (\E x \in Requests : pc[x] = "persist") => \E x \in Requests : pc'[x] = "persist"
      BY <2>1, ActorsFact
    <3> QED BY <1>b, <2>1, <3>1, <3>2, <3>3 DEF GrantInv
  <2> QED BY <2>2, <2>3
<1>3. ASSUME NEW r \in Requests, Persist(r) PROVE GrantInv'
  <2>1. /\ pc'[r] = "auth" /\ pc[r] = "persist"
        /\ \A x \in Actors : x # r => pc'[x] = pc[x] /\ token'[x] = token[x]
    BY <1>3, <1>a, ActorsFact DEF Persist, Goto, Types
  <2>2. token[r] \in valid /\ valid' = valid
    BY <1>3, <1>b, ActorsFact DEF Persist, provider
  <2>3. status' = "none" \/ refresh' = token[r]
    BY <1>3, <1>a DEF Persist, UpdateTokens, row
  <2>4. \A x \in Actors : pc'[x] \in {"persist", "save"} => token'[x] \in valid'
    BY <1>b, <2>1, <2>2
  <2> QED BY <2>2, <2>3, <2>4 DEF GrantInv
<1>4. ASSUME NEW r \in Requests, MarkReauth(r) \/ ResolveAuth(r) \/ CallJira(r) PROVE GrantInv'
  <2>1. /\ pc[r] # "persist" /\ pc'[r] \notin {"persist", "save"}
        /\ \A x \in Actors : x # r => pc'[x] = pc[x] /\ token'[x] = token[x]
    BY <1>4, ActorsFact DEF MarkReauth, ResolveAuth, CallJira, Goto, Hold, Return, Types
  <2>2. UNCHANGED <<stale, refresh, valid>> /\ (status = "none" => status' = "none")
    BY <1>4 DEF MarkReauth, ResolveAuth, CallJira, row, provider
  <2>3. \A x \in Actors : pc'[x] \in {"persist", "save"} => token'[x] \in valid'
    BY <1>b, <2>1, <2>2
  <2>4. (\E x \in Requests : pc[x] = "persist") => \E x \in Requests : pc'[x] = "persist"
    BY <2>1, ActorsFact
  <2> QED BY <1>b, <2>2, <2>3, <2>4 DEF GrantInv
<1>5. ASSUME NEW c \in Callbacks, Exchange(c) PROVE GrantInv'
  <2>1. /\ pc[c] = "idle" /\ pc'[c] = "save" /\ token'[c] \in valid' /\ valid \subseteq valid'
        /\ \A x \in Actors : x # c => pc'[x] = pc[x] /\ token'[x] = token[x]
    BY <1>5, <1>a, ActorsFact DEF Exchange, Goto, Hold, Types
  <2>2. UNCHANGED <<status, stale, refresh>>
    BY <1>5 DEF Exchange, row
  <2>3. \A x \in Actors : pc'[x] \in {"persist", "save"} => token'[x] \in valid'
    BY <1>b, <2>1
  <2>4. (\E x \in Requests : pc[x] = "persist") => \E x \in Requests : pc'[x] = "persist"
    BY <2>1, ActorsFact
  <2> QED BY <1>b, <2>1, <2>2, <2>3, <2>4 DEF GrantInv
<1>6. ASSUME NEW c \in Callbacks, SaveCredential(c) PROVE GrantInv'
  <2>1. /\ pc'[c] = "idle" /\ refresh' = token[c] /\ token[c] \in valid /\ valid' = valid
        /\ \A x \in Actors : x # c => pc'[x] = pc[x] /\ token'[x] = token[x]
    BY <1>6, <1>a, <1>b, ActorsFact DEF SaveCredential, Goto, Hold, Return, provider, Types
  <2>2. \A x \in Actors : pc'[x] \in {"persist", "save"} => token'[x] \in valid'
    BY <1>b, <2>1
  <2> QED BY <2>1, <2>2 DEF GrantInv
<1>7. ASSUME Disconnect \/ ExpireAccess \/ Inactivity PROVE GrantInv'
  BY <1>7, <1>b DEF Disconnect, ExpireAccess, Inactivity, provider, GrantInv
<1>8. ASSUME Revoke PROVE GrantInv'
  BY <1>8, <1>a DEF Revoke
<1>9. CASE UNCHANGED vars
  BY <1>9, <1>b DEF vars, row, provider, GrantInv
<1> QED BY <1>1, <1>2, <1>3, <1>4, <1>5, <1>6, <1>7, <1>8, <1>9 DEF Next, RequestStep, FetchValidToken

-----------------------------------------------------------------------------
\* The inductive invariant.
CredentialInv == Types /\ HoldInv /\ RowInv /\ FitInv /\ HeldInv /\ GrantInv

\* At first there is no row.
LEMMA InitInv == Init => CredentialInv
<1> SUFFICES ASSUME Init PROVE CredentialInv
  OBVIOUS
<1>0. 0 \in Counts
  BY CredentialAssumption DEF Counts
<1>1. Types
  BY <1>0 DEF Init, Types
<1>2. HoldInv /\ RowInv /\ FitInv /\ HeldInv /\ GrantInv
  BY ActorsFact DEF Init, HoldInv, RowInv, FitInv, HeldInv, GrantInv
<1> QED BY <1>1, <1>2 DEF CredentialInv

\* Every step keeps the inductive invariant.
LEMMA NextInv == CredentialInv /\ [Next]_vars => CredentialInv'
  BY TypeStep, HoldStep, RowStep, FitStep, HeldStep, GrantStep DEF CredentialInv

\* Every variable of Credential keeps its type.
THEOREM CredentialTyped == Spec => []TypeOK
<1>1. CredentialInv => TypeOK
  BY TypesFact DEF CredentialInv
<1> QED BY InitInv, NextInv, <1>1, PTL DEF Spec

\* A live refresh token is flipped to needs_reauth only by a request that was
\* overtaken since it read the row (FetchValidToken, MarkNeedsReauth).
THEOREM ReauthWhenOvertaken == Spec => FlippedWhenOvertaken
<1> DEFINE Flips == status # "needs_reauth" /\ status' = "needs_reauth" /\ refresh' \in valid'
           Good == Flips => \E r \in overtaken : MarkReauth(r)
<1>1. CredentialInv /\ Next => Good
  <2> SUFFICES ASSUME CredentialInv, Next, Flips PROVE \E r \in overtaken : MarkReauth(r)
    OBVIOUS
  <2>1. PICK r \in Requests : MarkReauth(r)
    BY DEF CredentialInv, Types, Next, RequestStep, FetchValidToken, LoadCredential, RefreshTokens,
           Persist, UpdateTokens, ResolveAuth, CallJira, Exchange, SaveCredential, Disconnect,
           ExpireAccess, Inactivity, Revoke, row
  <2>2. pc[r] = "mark" /\ refresh \in valid
    BY <2>1 DEF MarkReauth, provider
  <2> QED BY <2>1, <2>2 DEF CredentialInv, FitInv
<1>2. CredentialInv /\ [Next]_vars => [Good]_vars
  BY <1>1
<1> QED BY InitInv, NextInv, <1>2, PTL DEF Spec, FlippedWhenOvertaken

\* Tokens of one account get under the id of another only by a request that was
\* overtaken since it read the row (SaveCredential, UpdateTokens).
THEOREM MixWhenOvertaken == Spec => MixedWhenOvertaken
<1> DEFINE Good == Mixed' => Mixed \/ \E r \in overtaken : Persist(r)
<1>1. CredentialInv /\ [Next]_vars => Good
  <2> SUFFICES ASSUME CredentialInv, [Next]_vars, ~Mixed, Mixed' PROVE \E r \in overtaken : Persist(r)
    OBVIOUS
  <2>1. \A r \in Requests : ~(LoadCredential(r) \/ MarkReauth(r) \/ ResolveAuth(r) \/ CallJira(r))
    BY DEF LoadCredential, MarkReauth, ResolveAuth, CallJira, row, provider, Mixed
  <2>2. \A r \in Requests : ~RefreshTokens(r)
    BY DEF CredentialInv, Types, HoldInv, RefreshTokens, Issue, Fresh, row, provider, Mixed
  <2>3. \A c \in Callbacks : ~Exchange(c)
    BY DEF CredentialInv, Types, HoldInv, Exchange, Issue, Fresh, row, Mixed
  <2>4. \A c \in Callbacks : ~SaveCredential(c)
    BY DEF SaveCredential, row, provider, Mixed
  <2>5. ~(Disconnect \/ ExpireAccess \/ Inactivity \/ Revoke \/ UNCHANGED vars)
    BY DEF Disconnect, ExpireAccess, Inactivity, Revoke, row, provider, vars, Mixed
  <2>6. PICK r \in Requests : Persist(r)
    BY <2>1, <2>2, <2>3, <2>4, <2>5 DEF Next, RequestStep, FetchValidToken
  <2>7. ASSUME r \notin overtaken PROVE FALSE
    BY <2>6, <2>7 DEF CredentialInv, FitInv, RowInv, Persist, UpdateTokens, row, provider, Mixed
  <2> QED BY <2>6, <2>7
<1>2. CredentialInv /\ [Next]_vars => [Good]_vars
  BY <1>1
<1> QED BY InitInv, NextInv, <1>2, PTL DEF Spec, MixedWhenOvertaken

\* Requests that overlap may flip the status or mix accounts, but they do not lose
\* the grant: without failures and disuse the refresh token of the row is one the
\* provider accepts, or its successor is about to be stored (UpdateTokens,
\* SaveCredential), in whatever order requests and callbacks stored theirs.
THEOREM GrantNotLost == Spec => []GrantKept
<1>1. CredentialInv => GrantKept
  BY DEF CredentialInv, GrantInv, GrantKept
<1> QED BY InitInv, NextInv, <1>1, PTL DEF Spec

\* Token and site of a call belong together, unless the request was overtaken
\* between the two loads of resolveAuth, or the row itself is mixed.
THEOREM CallsMatch == Spec => []AuthMatchesSite
<1>1. CredentialInv => AuthMatchesSite
  BY DEF CredentialInv, RowInv, FitInv, Mixed, AuthMatchesSite
<1> QED BY InitInv, NextInv, <1>1, PTL DEF Spec

\* Nothing but a callback brings a row into being.
THEOREM ConnectCreates == Spec => OnlyConnectCreates
<1>1. [Next]_vars => [status = "none" /\ status' # "none" => \E c \in Callbacks : SaveCredential(c)]_vars
  BY DEF Next, RequestStep, FetchValidToken, LoadCredential, RefreshTokens, Persist, UpdateTokens,
         MarkReauth, ResolveAuth, CallJira, Exchange, Disconnect, ExpireAccess, Inactivity, Revoke,
         row
<1> QED BY <1>1, PTL DEF Spec, OnlyConnectCreates
=============================================================================
