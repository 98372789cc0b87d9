------------------------------ MODULE Connect ------------------------------
(***************************************************************************)
(* The OAuth connect flow: a user starts an authorization, which stores a  *)
(* one-time state bound to the user in Redis; the provider asks for        *)
(* consent and redirects the browser back with that state and a code; the  *)
(* callback consumes the state, checks it against the session it runs in,  *)
(* redeems the code and stores the credential.  A user may consent twice,  *)
(* a redirect may be loaded again or late, several callbacks may be under  *)
(* way, and the browser may by then be logged in as somebody else.  What   *)
(* happens to the row afterwards is Credential's.                          *)
(***************************************************************************)
EXTENDS Naturals

CONSTANTS
  Users,
  NoUser,
  States,       \* state tokens; one is generated once
  NoState,
  Codes,        \* authorization codes; one is issued once
  NoCode,
  Callbacks,    \* callback requests
  MaxFailures   \* bound: failed calls, lost answers and crashes

ASSUME ConnectAssumption ==
  /\ NoUser \notin Users /\ NoState \notin States /\ NoCode \notin Codes
  /\ MaxFailures \in Nat

VARIABLES
  bound,     \* bound[s]: the user state s was generated for; NoUser: not yet
  store,     \* the states Redis has, oauthstate:{state}
  consent,   \* consent[k]: the state code k was issued with; NoState: not yet
  codes,     \* codes the provider would still redeem
  grants,    \* grants[s]: grants the provider has given on codes of state s
  saved,     \* saved[u]: the state whose grant the row of u holds; NoState: no row
  stored,    \* states whose grant has been on a row
  siteless,  \* states whose grant was refused because it reaches no Jira site
  pc,        \* where each callback is
  who,       \* the session it runs in
  code,      \* the code it carries, and with it the state
  failures

provider == <<consent, codes, grants>>
vars == <<bound, store, provider, saved, stored, siteless, pc, who, code, failures>>

TypeOK ==
  /\ bound \in [States -> Users \cup {NoUser}]
  /\ store \subseteq States
  /\ consent \in [Codes -> States \cup {NoState}]
  /\ codes \subseteq Codes
  /\ grants \in [States -> Nat]
  /\ saved \in [Users -> States \cup {NoState}]
  /\ stored \subseteq States /\ siteless \subseteq States
  /\ pc \in [Callbacks -> {"idle", "consume", "exchange", "save"}]
  /\ who \in [Callbacks -> Users \cup {NoUser}]
  /\ code \in [Callbacks -> Codes \cup {NoCode}]
  /\ failures \in 0..MaxFailures

Init ==
  /\ bound = [s \in States |-> NoUser] /\ store = {}
  /\ consent = [k \in Codes |-> NoState] /\ codes = {}
  /\ grants = [s \in States |-> 0]
  /\ saved = [u \in Users |-> NoState] /\ stored = {} /\ siteless = {}
  /\ pc = [c \in Callbacks |-> "idle"]
  /\ who = [c \in Callbacks |-> NoUser]
  /\ code = [c \in Callbacks |-> NoCode]
  /\ failures = 0

Fail == failures < MaxFailures /\ failures' = failures + 1
NoFail == UNCHANGED failures

Goto(c, label) ==
  pc' = [pc EXCEPT ![c] = label] /\ UNCHANGED <<who, code>>

\* The callback redirects the browser and ends.
Return(c) ==
  /\ pc' = [pc EXCEPT ![c] = "idle"]
  /\ who' = [who EXCEPT ![c] = NoUser]
  /\ code' = [code EXCEPT ![c] = NoCode]

\* The state in the URL of callback c.
StateOf(c) == consent[code[c]]

-----------------------------------------------------------------------------
(* The user and the provider. *)

\* GenerateState: a new state, bound to the user; a failed write leaves none.
StartAuthorization(u, s) ==
  /\ bound[s] = NoUser
  /\ bound' = [bound EXCEPT ![s] = u]
  /\ (store' = store \cup {s} /\ NoFail) \/ (UNCHANGED store /\ Fail)
  /\ UNCHANGED <<provider, saved, stored, siteless, pc, who, code>>

\* The user consents: a code is issued with the state of the consent URL.
Consent(s, k) ==
  /\ bound[s] # NoUser /\ consent[k] = NoState
  /\ consent' = [consent EXCEPT ![k] = s]
  /\ codes' = codes \cup {k}
  /\ UNCHANGED <<bound, store, grants, saved, stored, siteless, pc, who, code, failures>>

\* oauthStateTTL passes.
StateExpires(s) ==
  /\ s \in store /\ store' = store \ {s}
  /\ UNCHANGED <<bound, provider, saved, stored, siteless, pc, who, code, failures>>

-----------------------------------------------------------------------------
(* CompleteAuthorization. *)

\* The browser loads the redirect, in a session of user u.
Callback(c, u, k) ==
  /\ pc[c] = "idle" /\ consent[k] # NoState
  /\ pc' = [pc EXCEPT ![c] = "consume"]
  /\ who' = [who EXCEPT ![c] = u]
  /\ code' = [code EXCEPT ![c] = k]
  /\ UNCHANGED <<bound, store, provider, saved, stored, siteless, failures>>

\* Variant: GET instead of GETDEL, the entry is left to its TTL.
ConsumeKeeps(c) ==
  /\ pc[c] = "consume"
  /\ IF StateOf(c) \in store /\ bound[StateOf(c)] = who[c]
     THEN Goto(c, "exchange") ELSE Return(c)
  /\ UNCHANGED <<bound, store, provider, saved, stored, siteless, failures>>

\* Variant: the principal is not compared.
ConsumeAnybody(c) ==
  /\ pc[c] = "consume"
  /\ store' = store \ {StateOf(c)}
  /\ IF StateOf(c) \in store THEN Goto(c, "exchange") ELSE Return(c)
  /\ UNCHANGED <<bound, provider, saved, stored, siteless, failures>>

\* Variant: the principal is compared after the code is redeemed.
ConsumeLate(c) ==
  /\ pc[c] = "consume"
  /\ store' = store \ {StateOf(c)}
  /\ IF StateOf(c) \in store /\ code[c] \in codes
     THEN /\ codes' = codes \ {code[c]}
          /\ grants' = [grants EXCEPT ![StateOf(c)] = @ + 1]
          /\ IF bound[StateOf(c)] = who[c] THEN Goto(c, "save") ELSE Return(c)
     ELSE Return(c) /\ UNCHANGED <<codes, grants>>
  /\ UNCHANGED <<bound, consent, saved, stored, siteless, failures>>

\* ConsumeState (GETDEL) and the check of the principal: an unknown state, and
\* one of another user, which is gone then as well, end the callback; or the
\* call fails, before or after it took effect.
ConsumeState(c) ==
  /\ pc[c] = "consume"
  /\ \/ /\ store' = store \ {StateOf(c)} /\ NoFail
        /\ IF StateOf(c) \in store /\ bound[StateOf(c)] = who[c]
           THEN Goto(c, "exchange") ELSE Return(c)
     \/ store' \in {store, store \ {StateOf(c)}} /\ Return(c) /\ Fail
  /\ UNCHANGED <<bound, provider, saved, stored, siteless>>

\* ExchangeCodeForTokens: the code is redeemed, and the site resolved; or the
\* grant reaches no site, and the callback is refused (errNoAccessibleSites); or
\* the code is refused; or a call fails, and the grant may have been given.
ExchangeCode(c) ==
  /\ pc[c] = "exchange"
  /\ \/ /\ code[c] \in codes
        /\ codes' = codes \ {code[c]}
        /\ grants' = [grants EXCEPT ![StateOf(c)] = @ + 1]
        /\ \/ Goto(c, "save") /\ NoFail /\ UNCHANGED siteless
           \/ Return(c) /\ NoFail /\ siteless' = siteless \cup {StateOf(c)}
           \/ Return(c) /\ Fail /\ UNCHANGED siteless
     \/ /\ code[c] \notin codes /\ Return(c) /\ NoFail
        /\ UNCHANGED <<codes, grants, siteless>>
     \/ Return(c) /\ Fail /\ UNCHANGED <<codes, grants, siteless>>
  /\ UNCHANGED <<bound, store, consent, saved, stored>>

\* SaveCredential, on the row of the session's user.
SaveCredential(c) ==
  /\ pc[c] = "save" /\ Return(c)
  /\ \/ /\ saved' = [saved EXCEPT ![who[c]] = StateOf(c)]
        /\ stored' = stored \cup {StateOf(c)} /\ NoFail
     \/ UNCHANGED <<saved, stored>> /\ Fail
  /\ UNCHANGED <<bound, store, provider, siteless>>

DisconnectIntegration(u) ==
  /\ saved[u] # NoState
  /\ saved' = [saved EXCEPT ![u] = NoState]
  /\ UNCHANGED <<bound, store, provider, stored, siteless, pc, who, code, failures>>

Crash(c) ==
  /\ pc[c] # "idle" /\ Return(c) /\ Fail
  /\ UNCHANGED <<bound, store, provider, saved, stored, siteless>>

-----------------------------------------------------------------------------
CallbackStep(c) == ConsumeState(c) \/ ExchangeCode(c) \/ SaveCredential(c)

Next ==
  \/ \E u \in Users, s \in States : StartAuthorization(u, s)
  \/ \E s \in States, k \in Codes : Consent(s, k)
  \/ \E s \in States : StateExpires(s)
  \/ \E c \in Callbacks, u \in Users, k \in Codes : Callback(c, u, k)
  \/ \E c \in Callbacks : CallbackStep(c) \/ Crash(c)
  \/ \E u \in Users : DisconnectIntegration(u)

Spec == Init /\ [][Next]_vars

-----------------------------------------------------------------------------
(* Properties. *)

\* Started by whom it serves: the credential on a user's row comes from an
\* authorization this user started, whoever's session the redirect was loaded in
\* ("cross-checks that it was bound to this very session's identity",
\* CompleteAuthorization).
OwnGrant == \A u \in Users : saved[u] # NoState => bound[saved[u]] = u

\* "Strictly one-time" (docs/DATA-MODEL.md, OAuth state): one started
\* authorization ends in at most one grant of the provider, however often the
\* user consents and the redirect is loaded, and however callbacks interleave.
OneGrant == \A s \in States : grants[s] <= 1

\* No grant is left behind at the provider, but for two reasons: a call failed, or
\* the account has no Jira site, which only the grant itself can tell
\* (resolveAccount).  Everything else a callback can be refused for is checked
\* before the code is redeemed (CompleteAuthorization), so every other grant
\* reaches a row.
GrantStored ==
  failures = 0 /\ (\A c \in Callbacks : pc[c] # "save")
    => \A s \in States : grants[s] > 0 => s \in stored \cup siteless

-----------------------------------------------------------------------------
(* The inductive invariant behind OwnGrant and OneGrant. *)

\* Callback c has consumed state s.
Consumed(c, s) == pc[c] \in {"exchange", "save"} /\ StateOf(c) = s

\* What a callback carries: a code that was issued, with a state that exists.
CarryInv ==
  /\ \A c \in Callbacks : pc[c] # "idle" => code[c] \in Codes /\ StateOf(c) \in States
  /\ \A k \in Codes : consent[k] # NoState => bound[consent[k]] # NoUser

\* A state in the store has no grant and is consumed by nobody; a consumed one
\* belongs to its only consumer, and has no grant before the exchange.
StateInv ==
  /\ \A s \in store : bound[s] # NoUser /\ grants[s] = 0 /\ \A c \in Callbacks : ~Consumed(c, s)
  /\ \A c \in Callbacks, s \in States :
       Consumed(c, s) => /\ bound[s] = who[c]
                         /\ pc[c] = "exchange" => grants[s] = 0
                         /\ \A d \in Callbacks : Consumed(d, s) => d = c
  /\ \A s \in States : bound[s] = NoUser => grants[s] = 0

IInv == TypeOK /\ CarryInv /\ StateInv /\ OwnGrant /\ OneGrant
=============================================================================
