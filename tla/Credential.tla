----------------------------- MODULE Credential -----------------------------
(***************************************************************************)
(* One user's Jira credential: the encrypted row in                        *)
(* integration_credentials, the requests that fetch a valid token from it  *)
(* (ReactiveTokenManager.FetchValidToken, then the second load of          *)
(* resolveAuth), the callbacks that store a new one, disconnect, and the   *)
(* OAuth provider, whose refresh tokens rotate: a refresh invalidates the  *)
(* refresh token it used.  Every database call is a transaction of its     *)
(* own, so requests interleave between them.                               *)
(***************************************************************************)
EXTENDS Naturals

CONSTANTS
  Requests,     \* API requests and scheduler runs that need a token
  Callbacks,    \* OAuth callbacks
  Sites,        \* Jira cloud ids a user may grant access to
  Tokens,       \* token pairs (access and refresh); one nobody has is issued anew
  NoToken,
  MaxFailures   \* bound: failed calls, lost answers, tokens revoked at the provider

ASSUME CredentialAssumption ==
  /\ MaxFailures \in Nat
  /\ NoToken \notin Tokens
  /\ Requests \cap Callbacks = {}

Actors == Requests \cup Callbacks

VARIABLES
  \* the row
  status,     \* "none" (no row), "connected" or "needs_reauth"
  access,     \* the pair the access token belongs to
  refresh,    \* the pair the refresh token belongs to
  account,    \* external_account_id
  expired,    \* access_expires_at has passed
  stale,      \* refresh_last_used_at is beyond the inactivity window
  \* the provider
  site,       \* site[t]: the site pair t was granted for
  valid,      \* pairs whose refresh token the provider still accepts
  \* requests and callbacks
  pc,         \* where each one is
  token,      \* the pair it holds: read, obtained or to be saved
  target,     \* the cloud id a request calls Jira with
  overtaken,  \* requests that have not read the row since somebody else stored
              \* tokens on it or deleted it (a history: no step reads it)
  failures

row == <<status, access, refresh, account, expired, stale>>
provider == <<site, valid>>
vars == <<row, provider, pc, token, target, overtaken, failures>>

TypeOK ==
  /\ status \in {"none", "connected", "needs_reauth"}
  /\ access \in Tokens \cup {NoToken} /\ refresh \in Tokens \cup {NoToken}
  /\ account \in Sites
  /\ expired \in BOOLEAN /\ stale \in BOOLEAN
  /\ site \in [Tokens -> Sites]
  /\ valid \subseteq Tokens
  /\ pc \in [Actors -> {"idle", "refresh", "persist", "mark", "auth", "call", "save"}]
  /\ token \in [Actors -> Tokens \cup {NoToken}]
  /\ target \in [Actors -> Sites]
  /\ overtaken \subseteq Requests
  /\ failures \in 0..MaxFailures

Init ==
  /\ status = "none" /\ access = NoToken /\ refresh = NoToken /\ account \in Sites
  /\ expired = FALSE /\ stale = FALSE
  /\ site = [t \in Tokens |-> account] /\ valid = {}
  /\ pc = [x \in Actors |-> "idle"]
  /\ token = [x \in Actors |-> NoToken]
  /\ target = [x \in Actors |-> account]
  /\ overtaken = {} /\ failures = 0

Fail == failures < MaxFailures /\ failures' = failures + 1
NoFail == UNCHANGED failures

Goto(x, label) == pc' = [pc EXCEPT ![x] = label]
Hold(x, t) == token' = [token EXCEPT ![x] = t]

\* x ends its request: it forgets what it held.
Return(x) == Goto(x, "idle") /\ Hold(x, NoToken)

-----------------------------------------------------------------------------
(* The provider: it issues a pair for a site. *)

Fresh(t) == t \notin {access, refresh} /\ \A x \in Actors : token[x] # t

Issue(t, s) == Fresh(t) /\ site' = [site EXCEPT ![t] = s]

-----------------------------------------------------------------------------
(* FetchValidToken and resolveAuth. *)

\* Load the row and decide: no row or needs_reauth end the request; an access
\* token not yet expired is used as it is; a refresh token past the inactivity
\* window is given up; otherwise the provider is asked.
LoadCredential(r) ==
  /\ pc[r] = "idle" /\ status = "connected"
  /\ \/ ~expired /\ Goto(r, "auth") /\ Hold(r, access)
     \/ expired /\ stale /\ Goto(r, "mark") /\ UNCHANGED token
     \/ expired /\ ~stale /\ Goto(r, "refresh") /\ Hold(r, refresh)
  /\ overtaken' = overtaken \ {r}
  /\ UNCHANGED <<row, provider, target, failures>>

\* Variant: every error of the provider is taken for invalid_grant.
RefreshTokensAnyError(r) ==
  /\ pc[r] = "refresh"
  /\ \/ /\ token[r] \in valid
        /\ \E t \in Tokens :
             /\ Issue(t, site[token[r]])
             /\ valid' = (valid \ {token[r]}) \cup {t}
             /\ Goto(r, "persist") /\ Hold(r, t) /\ NoFail
     \/ /\ Goto(r, "mark") /\ IF token[r] \in valid THEN Fail ELSE NoFail
        /\ UNCHANGED <<provider, token>>
  /\ UNCHANGED <<row, target, overtaken>>

\* RefreshTokens: a new pair (the old refresh token may die), invalid_grant, a
\* transient error, or a new pair whose answer is lost.
RefreshTokens(r) ==
  /\ pc[r] = "refresh"
  /\ \/ /\ token[r] \in valid
        /\ \E t \in Tokens :
             /\ Issue(t, site[token[r]])
             /\ valid' = (valid \ {token[r]}) \cup {t}
             /\ \/ Goto(r, "persist") /\ Hold(r, t) /\ NoFail
                \/ Return(r) /\ Fail
     \/ /\ token[r] \notin valid /\ Goto(r, "mark") /\ NoFail
        /\ UNCHANGED <<provider, token>>
     \/ Return(r) /\ Fail /\ UNCHANGED provider
  /\ UNCHANGED <<row, target, overtaken>>

\* Variant: the rotated refresh token is not persisted.
UpdateAccessOnly(t) ==
  IF status = "none" THEN UNCHANGED row
  ELSE /\ status' = "connected" /\ access' = t
       /\ expired' = FALSE /\ stale' = FALSE
       /\ UNCHANGED <<account, refresh>>

\* Variant: an upsert.
UpsertTokens(t) ==
  /\ status' = "connected" /\ access' = t /\ refresh' = t
  /\ expired' = FALSE /\ stale' = FALSE
  /\ UNCHANGED account

\* UpdateTokens: tokens, expiry and status of whatever row there is now, and of
\* no row without an error; the account stays.
UpdateTokens(t) ==
  IF status = "none" THEN UNCHANGED row
  ELSE /\ status' = "connected" /\ access' = t /\ refresh' = t
       /\ expired' = FALSE /\ stale' = FALSE
       /\ UNCHANGED account

Persist(r) ==
  /\ pc[r] = "persist"
  /\ \/ /\ UpdateTokens(token[r]) /\ Goto(r, "auth") /\ UNCHANGED token /\ NoFail
        /\ IF status = "none" THEN UNCHANGED overtaken ELSE overtaken' = Requests \ {r}
     \/ Return(r) /\ UNCHANGED <<row, overtaken>> /\ Fail
  /\ UNCHANGED <<provider, target>>

\* Variant: another status.
MarkRevoked(r) ==
  /\ pc[r] = "mark"
  /\ status' = IF status = "none" THEN status ELSE "revoked"
  /\ Return(r) /\ NoFail
  /\ UNCHANGED <<access, refresh, account, expired, stale, provider, target, overtaken>>

\* MarkNeedsReauth, whatever the row holds by now; best effort.
MarkReauth(r) ==
  /\ pc[r] = "mark"
  /\ \/ status # "none" /\ status' = "needs_reauth" /\ NoFail
     \/ status = "none" /\ UNCHANGED status /\ NoFail
     \/ UNCHANGED status /\ Fail
  /\ Return(r)
  /\ UNCHANGED <<access, refresh, account, expired, stale, provider, target, overtaken>>

\* Variant: the cloud id is resolved once per process.
ResolveAuthOnce(r) ==
  /\ pc[r] = "auth"
  /\ \/ status # "none" /\ Goto(r, "call") /\ UNCHANGED token
     \/ Return(r)
  /\ UNCHANGED <<row, provider, target, overtaken, failures>>

\* resolveAuth loads the row a second time, for the cloud id; EnsureConnected
\* stops before.
ResolveAuth(r) ==
  /\ pc[r] = "auth"
  /\ \/ /\ status # "none" /\ Goto(r, "call")
        /\ target' = [target EXCEPT ![r] = account]
        /\ UNCHANGED token
     \/ Return(r) /\ UNCHANGED target
  /\ UNCHANGED <<row, provider, overtaken, failures>>

\* The Jira call with that token and that cloud id, and the end of the request.
CallJira(r) ==
  /\ pc[r] = "call" /\ Return(r)
  /\ UNCHANGED <<row, provider, target, overtaken, failures>>

-----------------------------------------------------------------------------
(* Connect, disconnect and time. *)

\* ExchangeCodeForTokens, of a callback whose state was accepted.
Exchange(c) ==
  /\ pc[c] = "idle"
  /\ \E t \in Tokens, s \in Sites :
       /\ Issue(t, s)
       /\ valid' = valid \cup {t}
       /\ \/ Goto(c, "save") /\ Hold(c, t) /\ NoFail
          \/ Fail /\ UNCHANGED <<pc, token>>
  /\ UNCHANGED <<row, target, overtaken>>

\* Variant: the conflict clause leaves the account as it is.
SaveKeepsAccount(c) ==
  /\ pc[c] = "save" /\ Return(c)
  /\ status' = "connected" /\ access' = token[c] /\ refresh' = token[c]
  /\ account' = IF status = "none" THEN site[token[c]] ELSE account
  /\ expired' = FALSE /\ stale' = FALSE
  /\ overtaken' = Requests /\ NoFail /\ UNCHANGED <<provider, target>>

\* SaveCredential: the upsert replaces the row.
SaveCredential(c) ==
  /\ pc[c] = "save" /\ Return(c)
  /\ \/ /\ status' = "connected"
        /\ access' = token[c] /\ refresh' = token[c]
        /\ account' = site[token[c]]
        /\ expired' = FALSE /\ stale' = FALSE
        /\ overtaken' = Requests /\ NoFail
     \/ UNCHANGED <<row, overtaken>> /\ Fail
  /\ UNCHANGED <<provider, target>>

Disconnect ==
  /\ status # "none"
  /\ status' = "none" /\ access' = NoToken /\ refresh' = NoToken
  /\ expired' = FALSE /\ stale' = FALSE /\ overtaken' = Requests
  /\ UNCHANGED <<account, provider, pc, token, target, failures>>

ExpireAccess ==
  /\ status # "none" /\ ~expired /\ expired' = TRUE
  /\ UNCHANGED <<status, access, refresh, account, stale, provider, pc, token, target,
                 overtaken, failures>>

\* Long disuse: the provider drops the refresh token, and the row shows it.
Inactivity ==
  /\ expired /\ ~stale /\ stale' = TRUE
  /\ valid' = valid \ {refresh}
  /\ \A x \in Actors : pc[x] = "idle"  \* no request lasts that long
  /\ UNCHANGED <<status, access, refresh, account, expired, site, pc, token, target,
                 overtaken, failures>>

\* The refresh token is revoked at the provider.
Revoke ==
  /\ refresh \in valid /\ valid' = valid \ {refresh} /\ Fail
  /\ UNCHANGED <<row, site, pc, token, target, overtaken>>

FetchValidToken(r) ==
  LoadCredential(r) \/ RefreshTokens(r) \/ Persist(r) \/ MarkReauth(r)

RequestStep(r) == FetchValidToken(r) \/ ResolveAuth(r) \/ CallJira(r)

Next ==
  \/ \E r \in Requests : RequestStep(r)
  \/ \E c \in Callbacks : Exchange(c) \/ SaveCredential(c)
  \/ Disconnect \/ ExpireAccess \/ Inactivity \/ Revoke

Spec == Init /\ [][Next]_vars

-----------------------------------------------------------------------------
(* Properties. *)

\* A credential is flipped to needs_reauth only when its refresh token is dead
\* (docs/DATA-MODEL.md, connection_status): false as it stands, see below.
ReauthMeansDead == status = "needs_reauth" => refresh \notin valid

\* What does hold of it, however requests and callbacks overlap: a live refresh
\* token is flipped only by a request that has been overtaken since it read the row
\* (MarkNeedsReauth does not say for which token), never for a transient error of
\* the provider or a failed write (FetchValidToken).
FlippedWhenOvertaken ==
  [][status # "needs_reauth" /\ status' = "needs_reauth" /\ refresh' \in valid'
       => \E r \in overtaken : MarkReauth(r)]_vars

\* The row holds tokens of one account under the id of another.
Mixed == status # "none" /\ {site[access], site[refresh]} # {account}

\* "A reconnect replaces the prior one" (SaveCredential): tokens and account change
\* together.  The one exception is what the code does when a refresh is overtaken
\* by a reconnect: UpdateTokens writes the old account's tokens on the new row.
MixedWhenOvertaken == [][Mixed' => Mixed \/ \E r \in overtaken : Persist(r)]_vars

\* No grant is lost: without failures and short of the inactivity window, the
\* refresh token of a row is the one the provider will accept next, unless a
\* request is about to store its successor, in whatever order overlapping requests
\* and callbacks store theirs ("the rotated refresh token is persisted",
\* docs/DECISIONS.md; FetchValidToken, UpdateTokens, SaveCredential).
GrantKept ==
  (failures = 0 /\ ~stale /\ status # "none" /\ \A r \in Requests : pc[r] # "persist")
    => refresh \in valid

\* Jira is called with a token of the site it is called at: the two loads of
\* resolveAuth see one credential, unless the request was overtaken in between, or
\* the row itself is mixed.
AuthMatchesSite ==
  \A r \in Requests \ overtaken : pc[r] = "call" /\ ~Mixed => site[token[r]] = target[r]

\* Only a callback brings a row into being: no refresh or reauth mark that was
\* under way when the user disconnected brings the credential back.
OnlyConnectCreates ==
  [][status = "none" /\ status' # "none" => \E c \in Callbacks : SaveCredential(c)]_vars
=============================================================================
