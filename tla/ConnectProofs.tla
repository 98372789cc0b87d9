--------------------------- MODULE ConnectProofs ---------------------------
(***************************************************************************)
(* IInv is an inductive invariant of Connect, for any users, states, codes *)
(* and callbacks; OwnGrant and OneGrant follow.                            *)
(***************************************************************************)
EXTENDS Connect, TLAPS

\* In the initial states there is no state, code or callback.
LEMMA InitInv == Init => IInv
  BY ConnectAssumption
  DEF Init, IInv, TypeOK, CarryInv, StateInv, OwnGrant, OneGrant, Consumed, StateOf

\* If nobody consumes a state, nothing is granted and none is stored, the relation
\* of states and consumers holds on.
LEMMA NoNewConsumer ==
  ASSUME StateInv, store \subseteq States, UNCHANGED <<bound, grants>>,
         store' \subseteq store,
         \A d \in Callbacks, t \in States :
           Consumed(d, t)' => Consumed(d, t) /\ who'[d] = who[d] /\ pc'[d] = pc[d]
  PROVE  StateInv'
<1>1. ASSUME NEW s \in store'
      PROVE  bound'[s] # NoUser /\ grants'[s] = 0 /\ \A d \in Callbacks : ~Consumed(d, s)'
  BY <1>1 DEF StateInv
<1>2. ASSUME NEW d \in Callbacks, NEW s \in States, Consumed(d, s)'
      PROVE  /\ bound'[s] = who'[d]
             /\ pc'[d] = "exchange" => grants'[s] = 0
             /\ \A e \in Callbacks : Consumed(e, s)' => e = d
  BY <1>2 DEF StateInv
<1>3. \A s \in States : bound'[s] = NoUser => grants'[s] = 0
  BY DEF StateInv
<1> QED BY <1>1, <1>2, <1>3 DEF StateInv

\* Starting an authorization gives a state to a user; it was neither consumed
\* nor granted before.
LEMMA StartKeeps ==
  ASSUME IInv, NEW u \in Users, NEW s \in States, StartAuthorization(u, s)
  PROVE IInv'
<1> USE ConnectAssumption
<1>1. TypeOK'
  BY DEF IInv, TypeOK, StartAuthorization, Fail, NoFail, provider
<1>2. CarryInv'
  BY DEF IInv, TypeOK, CarryInv, StartAuthorization, StateOf, provider
<1>3. \A c \in Callbacks, t \in States : Consumed(c, t) => bound[t] # NoUser
  BY DEF IInv, CarryInv, Consumed, StateOf
<1>4. StateInv'
  BY <1>3 DEF IInv, TypeOK, CarryInv, StateInv, StartAuthorization, Consumed, StateOf, provider
<1>5. OwnGrant' /\ OneGrant'
  BY DEF IInv, TypeOK, OwnGrant, OneGrant, StartAuthorization, provider
<1> QED BY <1>1, <1>2, <1>4, <1>5 DEF IInv

\* A new code carries a state that was started, and no callback carries the code.
LEMMA ConsentKeeps ==
  ASSUME IInv, NEW s \in States, NEW k \in Codes, Consent(s, k)
  PROVE IInv'
<1> USE ConnectAssumption
<1>1. TypeOK'
  BY DEF IInv, TypeOK, Consent
<1>2. \A c \in Callbacks : pc[c] # "idle" => code[c] # k /\ StateOf(c)' = StateOf(c)
  BY DEF IInv, TypeOK, CarryInv, Consent, StateOf
<1>3. \A c \in Callbacks, t \in States :
        Consumed(c, t)' => Consumed(c, t) /\ who'[c] = who[c] /\ pc'[c] = pc[c]
  BY <1>2 DEF Consent, Consumed
<1>4. CarryInv'
  BY <1>2 DEF IInv, TypeOK, CarryInv, Consent
<1>5. StateInv'
  BY <1>3, NoNewConsumer DEF IInv, TypeOK, Consent
<1>6. OwnGrant' /\ OneGrant'
  BY DEF IInv, OwnGrant, OneGrant, Consent
<1> QED BY <1>1, <1>4, <1>5, <1>6 DEF IInv

\* Expiry only takes states from the store.
LEMMA ExpiryKeeps ==
  ASSUME IInv, NEW s \in States, StateExpires(s)
  PROVE IInv'
  BY DEF IInv, TypeOK, CarryInv, StateInv, OwnGrant, OneGrant, Consumed, StateOf,
         StateExpires, provider

\* A callback that starts has consumed nothing.
LEMMA CallbackKeeps ==
  ASSUME IInv, NEW c \in Callbacks, NEW u \in Users, NEW k \in Codes, Callback(c, u, k)
  PROVE IInv'
<1> USE ConnectAssumption
<1>1. TypeOK'
  BY DEF IInv, TypeOK, Callback, provider
<1>2. CarryInv'
  BY DEF IInv, TypeOK, CarryInv, Callback, StateOf, provider
<1>3. \A d \in Callbacks, t \in States :
        Consumed(d, t)' => d # c /\ Consumed(d, t) /\ who'[d] = who[d] /\ pc'[d] = pc[d]
  BY DEF IInv, TypeOK, Callback, Consumed, StateOf, provider
<1>4. StateInv'
  BY <1>3, NoNewConsumer DEF IInv, TypeOK, Callback, provider
<1>5. OwnGrant' /\ OneGrant'
  BY DEF IInv, OwnGrant, OneGrant, Callback, provider
<1> QED BY <1>1, <1>2, <1>4, <1>5 DEF IInv

\* A callback that ends leaves the others what they have consumed.
LEMMA ReturnForgets ==
  ASSUME TypeOK, NEW c \in Callbacks, Return(c), UNCHANGED consent
  PROVE \A d \in Callbacks :
          /\ pc'[d] # "idle" => d # c
          /\ d # c => /\ pc'[d] = pc[d] /\ who'[d] = who[d] /\ code'[d] = code[d]
                      /\ StateOf(d)' = StateOf(d)
  BY DEF TypeOK, Return, StateOf

\* A callback moves on, with its session, code and state.
LEMMA GotoKeeps ==
  ASSUME TypeOK, NEW c \in Callbacks, NEW label, Goto(c, label), UNCHANGED consent
  PROVE /\ pc'[c] = label
        /\ \A d \in Callbacks : /\ d # c => pc'[d] = pc[d]
                                /\ who'[d] = who[d] /\ StateOf(d)' = StateOf(d)
  BY DEF TypeOK, Goto, StateOf

\* Callback c consumes its state only from the store, where nobody has consumed
\* it and the provider has given nothing for it.
LEMMA ConsumesOnce ==
  ASSUME IInv, NEW c \in Callbacks, ConsumeState(c)
  PROVE IInv'
<1> USE ConnectAssumption
<1>1. TypeOK'
  BY DEF IInv, TypeOK, ConsumeState, Goto, Return, Fail, NoFail, provider
<1>2. CarryInv'
  BY DEF IInv, TypeOK, CarryInv, ConsumeState, Goto, Return, StateOf, provider
<1>3. store' \subseteq store /\ UNCHANGED <<bound, consent, grants, saved>>
  BY DEF ConsumeState, provider
<1>4. OwnGrant' /\ OneGrant'
  BY <1>3 DEF IInv, OwnGrant, OneGrant
<1>5. CASE Return(c)
  <2>1. \A d \in Callbacks, t \in States :
          Consumed(d, t)' => d # c /\ Consumed(d, t) /\ who'[d] = who[d] /\ pc'[d] = pc[d]
    BY <1>3, <1>5, ReturnForgets DEF IInv, Consumed
  <2>2. StateInv'
    BY <1>3, <2>1, NoNewConsumer DEF IInv, TypeOK
  <2> QED BY <1>1, <1>2, <1>4, <2>2 DEF IInv
<1>6. CASE /\ Goto(c, "exchange") /\ StateOf(c) \in store /\ bound[StateOf(c)] = who[c]
           /\ store' = store \ {StateOf(c)}
  <2>1. \A d \in Callbacks, t \in States :
          Consumed(d, t)' => /\ who'[d] = who[d]
                             /\ \/ d = c /\ t = StateOf(c)
                                \/ d # c /\ Consumed(d, t) /\ pc'[d] = pc[d]
    BY <1>3, <1>6, GotoKeeps DEF IInv, Consumed
  <2>2. \A d \in Callbacks : ~Consumed(d, StateOf(c))
    BY <1>6 DEF IInv, StateInv
  <2>3. grants[StateOf(c)] = 0
    BY <1>6 DEF IInv, StateInv
  <2>4. StateInv'
    <3>1. \A s \in store' : /\ bound'[s] # NoUser /\ grants'[s] = 0
                            /\ \A d \in Callbacks : ~Consumed(d, s)'
      BY <1>3, <1>6, <2>1 DEF IInv, StateInv, TypeOK
    <3>2. \A d \in Callbacks, s \in States :
            Consumed(d, s)' => /\ bound'[s] = who'[d]
                               /\ pc'[d] = "exchange" => grants'[s] = 0
                               /\ \A e \in Callbacks : Consumed(e, s)' => e = d
      BY <1>3, <1>6, <2>1, <2>2, <2>3 DEF IInv, StateInv
    <3>3. \A s \in States : bound'[s] = NoUser => grants'[s] = 0
      BY <1>3 DEF IInv, StateInv
    <3> QED BY <3>1, <3>2, <3>3 DEF StateInv
  <2> QED BY <1>1, <1>2, <1>4, <2>4 DEF IInv
<1> QED BY <1>5, <1>6 DEF ConsumeState

\* The exchange is the only consumer's, and the first for its state.
LEMMA ExchangeKeeps ==
  ASSUME IInv, NEW c \in Callbacks, ExchangeCode(c)
  PROVE IInv'
<1> USE ConnectAssumption
<1>1. TypeOK'
  BY DEF IInv, TypeOK, CarryInv, ExchangeCode, Goto, Return, StateOf, Fail, NoFail
<1>2. CarryInv'
  BY DEF IInv, TypeOK, CarryInv, ExchangeCode, Goto, Return, StateOf
<1>3. UNCHANGED <<bound, store, consent, saved>> /\ (Return(c) \/ Goto(c, "save"))
  BY DEF ExchangeCode
<1>4. StateOf(c) \in States /\ Consumed(c, StateOf(c)) /\ grants[StateOf(c)] = 0
  BY DEF IInv, CarryInv, StateInv, ExchangeCode, Consumed
<1>5. \A s \in States : grants'[s] = grants[s] \/ (s = StateOf(c) /\ grants'[s] = 1)
  BY <1>4 DEF IInv, TypeOK, ExchangeCode
<1>6. \A d \in Callbacks, t \in States :
        Consumed(d, t)' => /\ Consumed(d, t) /\ who'[d] = who[d]
                           /\ pc'[d] = "exchange" => d # c
  <2>1. CASE Return(c)
    BY <1>3, <2>1, ReturnForgets DEF IInv, Consumed
  <2>2. CASE Goto(c, "save")
    BY <1>3, <1>4, <2>2, GotoKeeps DEF IInv, Consumed
  <2> QED BY <1>3, <2>1, <2>2
<1>7. StateInv'
  <2>1. \A s \in store' : /\ bound'[s] # NoUser /\ grants'[s] = 0
                          /\ \A d \in Callbacks : ~Consumed(d, s)'
    BY <1>3, <1>4, <1>5, <1>6 DEF IInv, TypeOK, StateInv
  <2>2. \A d \in Callbacks, s \in States :
          Consumed(d, s)' => /\ bound'[s] = who'[d]
                             /\ \A e \in Callbacks : Consumed(e, s)' => e = d
    BY <1>3, <1>6 DEF IInv, StateInv
  <2>3. ASSUME NEW d \in Callbacks, NEW s \in States, Consumed(d, s)', pc'[d] = "exchange"
        PROVE  grants'[s] = 0
    <3>1. Consumed(d, s) /\ pc[d] = "exchange" /\ d # c
      BY <1>3, <1>6, <2>3, ReturnForgets, GotoKeeps DEF IInv
    <3>2. s # StateOf(c)
      BY <1>4, <3>1 DEF IInv, StateInv
    <3> QED BY <1>5, <3>1, <3>2 DEF IInv, StateInv
  <2>4. \A s \in States : bound'[s] = NoUser => grants'[s] = 0
    <3>1. bound[StateOf(c)] # NoUser
      BY <1>4 DEF IInv, CarryInv, Consumed, StateOf
    <3> QED BY <1>3, <1>5, <3>1 DEF IInv, StateInv
  <2> QED BY <2>1, <2>2, <2>3, <2>4 DEF StateInv
<1>8. OwnGrant' /\ OneGrant'
  BY <1>3, <1>5 DEF IInv, TypeOK, OwnGrant, OneGrant
<1> QED BY <1>1, <1>2, <1>7, <1>8 DEF IInv

\* The row of the session's user gets a grant of a state bound to this user.
LEMMA SaveKeeps ==
  ASSUME IInv, NEW c \in Callbacks, SaveCredential(c)
  PROVE IInv'
<1> USE ConnectAssumption
<1>1. Consumed(c, StateOf(c)) /\ StateOf(c) \in States /\ bound[StateOf(c)] = who[c]
  BY DEF IInv, CarryInv, StateInv, SaveCredential, Consumed
<1>2. TypeOK'
  BY <1>1 DEF IInv, TypeOK, SaveCredential, Return, Fail, NoFail, provider
<1>3. UNCHANGED <<bound, store, consent, grants>> /\ Return(c)
  BY DEF SaveCredential, provider
<1>4. CarryInv'
  BY <1>3, ReturnForgets DEF IInv, TypeOK, CarryInv
<1>5. \A d \in Callbacks, t \in States :
        Consumed(d, t)' => Consumed(d, t) /\ who'[d] = who[d] /\ pc'[d] = pc[d]
  BY <1>3, ReturnForgets DEF IInv, Consumed
<1>6. StateInv'
  BY <1>3, <1>5, NoNewConsumer DEF IInv, TypeOK
<1>7. OwnGrant' /\ OneGrant'
  BY <1>1, <1>3 DEF IInv, TypeOK, OwnGrant, OneGrant, SaveCredential
<1> QED BY <1>2, <1>4, <1>6, <1>7 DEF IInv

\* A disconnect empties a row.
LEMMA DisconnectKeeps ==
  ASSUME IInv, NEW u \in Users, DisconnectIntegration(u)
  PROVE IInv'
  BY ConnectAssumption
  DEF IInv, TypeOK, CarryInv, StateInv, OwnGrant, OneGrant, Consumed, StateOf,
      DisconnectIntegration, provider

\* A callback that dies has no effect any more.
LEMMA CrashKeeps ==
  ASSUME IInv, NEW c \in Callbacks, Crash(c)
  PROVE IInv'
<1> USE ConnectAssumption
<1>1. UNCHANGED <<bound, store, consent, codes, grants, saved, stored, siteless>> /\ Return(c) /\ Fail
  BY DEF Crash, provider
<1>2. TypeOK'
  BY <1>1 DEF IInv, TypeOK, Return, Fail
<1>3. CarryInv'
  BY <1>1, ReturnForgets DEF IInv, TypeOK, CarryInv
<1>4. \A d \in Callbacks, t \in States :
        Consumed(d, t)' => Consumed(d, t) /\ who'[d] = who[d] /\ pc'[d] = pc[d]
  BY <1>1, ReturnForgets DEF IInv, Consumed
<1>5. StateInv'
  BY <1>1, <1>4, NoNewConsumer DEF IInv, TypeOK
<1>6. OwnGrant' /\ OneGrant'
  BY <1>1 DEF IInv, OwnGrant, OneGrant
<1> QED BY <1>2, <1>3, <1>5, <1>6 DEF IInv

\* Every step of Connect keeps the invariant.
LEMMA StepInv == IInv /\ [Next]_vars => IInv'
<1> SUFFICES ASSUME IInv, [Next]_vars PROVE IInv'
  OBVIOUS
<1>1. CASE UNCHANGED vars
  BY <1>1 DEF vars, provider, IInv, TypeOK, CarryInv, StateInv, OwnGrant, OneGrant,
              Consumed, StateOf
<1>2. CASE Next
  BY <1>2, StartKeeps, ConsentKeeps, ExpiryKeeps, CallbackKeeps, ConsumesOnce,
     ExchangeKeeps, SaveKeeps, DisconnectKeeps, CrashKeeps DEF Next, CallbackStep
<1> QED BY <1>1, <1>2

\* What the connect flow rests on, in every state: a stored state is untouched, a
\* consumed one has one consumer, of the user it is bound to.
THEOREM Inductive == Spec => []IInv
  BY InitInv, StepInv, PTL DEF Spec

\* However often a user consents, and however callbacks interleave, are repeated,
\* crash or lose answers, a user's row only ever holds a grant this user asked for.
THEOREM OwnGrants == Spec => []OwnGrant
<1>1. IInv => OwnGrant
  BY DEF IInv
<1> QED BY <1>1, Inductive, PTL

\* And a started authorization ends in at most one grant (ConsumeState is GETDEL).
THEOREM OneGrantOnly == Spec => []OneGrant
<1>1. IInv => OneGrant
  BY DEF IInv
<1> QED BY <1>1, Inductive, PTL

-----------------------------------------------------------------------------
\* While no call has failed, a grant is stored or reaches no site, or its callback
\* is about to store it.
PlacedInv ==
  failures = 0 => \A s \in States : grants[s] > 0 =>
    s \in stored \cup siteless \/ \E c \in Callbacks : pc[c] = "save" /\ StateOf(c) = s

\* A step without failure leaves every grant where it was, but for the callback
\* that obtains it and the one that stores it.
LEMMA PlacedStep == IInv /\ PlacedInv /\ [Next]_vars => PlacedInv'
<1> SUFFICES ASSUME IInv, PlacedInv, [Next]_vars, failures' = 0 PROVE PlacedInv'
  BY DEF PlacedInv
<1>1. failures = 0 /\ NoFail /\ ~Fail
  <2>1. failures \in Nat
    BY ConnectAssumption DEF IInv, TypeOK
  <2>2. failures' = failures \/ failures' = failures + 1
    BY DEF Next, CallbackStep, StartAuthorization, Consent, StateExpires, Callback, ConsumeState,
           ExchangeCode, SaveCredential, DisconnectIntegration, Crash, Fail, NoFail, vars
  <2> QED BY <2>1, <2>2 DEF Fail, NoFail
<1>2. ASSUME UNCHANGED <<grants, stored, siteless>>,
             \A c \in Callbacks : pc[c] = "save" => pc'[c] = "save" /\ StateOf(c)' = StateOf(c)
      PROVE  PlacedInv'
  BY <1>1, <1>2 DEF PlacedInv
<1>3. CASE UNCHANGED <<grants, stored, siteless, consent, pc, code>>
  BY <1>2, <1>3 DEF StateOf
<1>4. ASSUME NEW s \in States, NEW k \in Codes, Consent(s, k) PROVE PlacedInv'
  <2>1. \A c \in Callbacks : pc[c] = "save" => StateOf(c)' = StateOf(c)
    BY <1>4, ConnectAssumption DEF IInv, TypeOK, CarryInv, Consent, StateOf
  <2> QED BY <1>2, <1>4, <2>1 DEF Consent
<1>5. ASSUME NEW c \in Callbacks, NEW u \in Users, NEW k \in Codes, Callback(c, u, k)
      PROVE  PlacedInv'
  BY <1>2, <1>5 DEF IInv, TypeOK, Callback, StateOf, provider
<1>6. ASSUME NEW c \in Callbacks, ConsumeState(c) PROVE PlacedInv'
  <2>1. UNCHANGED <<grants, stored, siteless, consent>> /\ (Goto(c, "exchange") \/ Return(c)) /\ pc[c] # "save"
    BY <1>6 DEF ConsumeState, provider
  <2> QED BY <1>2, <2>1, ReturnForgets, GotoKeeps DEF IInv, TypeOK, Return, Goto
<1>7. ASSUME NEW c \in Callbacks, ExchangeCode(c) PROVE PlacedInv'
  <2>1. UNCHANGED <<stored, consent>> /\ (Goto(c, "save") \/ Return(c)) /\ pc[c] # "save"
    BY <1>7 DEF ExchangeCode
  <2>2. \A d \in Callbacks : pc[d] = "save" => pc'[d] = "save" /\ StateOf(d)' = StateOf(d)
    BY <2>1, ReturnForgets, GotoKeeps DEF IInv
  <2>3. CASE UNCHANGED <<grants, siteless>>
    BY <1>2, <2>1, <2>2, <2>3
  <2>4. CASE /\ grants' = [grants EXCEPT ![StateOf(c)] = @ + 1] /\ UNCHANGED siteless
             /\ Goto(c, "save")
    <3>1. pc'[c] = "save" /\ StateOf(c)' = StateOf(c)
      BY <2>1, <2>4, GotoKeeps DEF IInv
    <3>2. \A s \in States : s = StateOf(c) \/ grants'[s] = grants[s]
      BY <2>4 DEF IInv, TypeOK
    <3> QED BY <1>1, <2>1, <2>2, <2>4, <3>1, <3>2 DEF PlacedInv
  <2>5. CASE /\ grants' = [grants EXCEPT ![StateOf(c)] = @ + 1]
             /\ siteless' = siteless \cup {StateOf(c)}
    <3>1. \A s \in States : s = StateOf(c) \/ grants'[s] = grants[s]
      BY <2>5 DEF IInv, TypeOK
    <3> QED BY <1>1, <2>1, <2>2, <2>5, <3>1 DEF PlacedInv
  <2> QED BY <1>1, <1>7, <2>3, <2>4, <2>5 DEF ExchangeCode
<1>8. ASSUME NEW c \in Callbacks, SaveCredential(c) PROVE PlacedInv'
  <2>1. UNCHANGED <<grants, consent, siteless>> /\ Return(c) /\ stored' = stored \cup {StateOf(c)}
    BY <1>1, <1>8 DEF SaveCredential, provider
  <2>2. \A d \in Callbacks : d # c => pc'[d] = pc[d] /\ StateOf(d)' = StateOf(d)
    BY <2>1, ReturnForgets DEF IInv
  <2> QED BY <1>1, <2>1, <2>2 DEF PlacedInv
<1> QED
  BY <1>1, <1>3, <1>4, <1>5, <1>6, <1>7, <1>8
     DEF Next, CallbackStep, StartAuthorization, StateExpires, DisconnectIntegration, Crash,
         provider, vars

\* Without a failed call every grant reaches a row, unless it reaches no Jira site:
\* whatever else can refuse a callback is checked before the code is redeemed
\* (CompleteAuthorization, resolveAccount).
THEOREM GrantsStored == Spec => []GrantStored
<1>1. Init => PlacedInv
  BY DEF Init, PlacedInv
<1>2. IInv /\ PlacedInv => GrantStored
  BY DEF PlacedInv, GrantStored
<1> QED BY <1>1, <1>2, PlacedStep, Inductive, PTL DEF Spec
=============================================================================
