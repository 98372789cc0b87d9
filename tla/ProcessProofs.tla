---------------------------- MODULE ProcessProofs ---------------------------
(***************************************************************************)
(* What a process runs with and what it leaves behind, for any layers of   *)
(* configuration, any number of requests and profiles, and any shutdown    *)
(* timeout: its types, its configuration, requests of a drain that         *)
(* reported success, requests cut off by its deadline, the rows of a seed. *)
(***************************************************************************)
EXTENDS Process, TLAPS

Ages == 0..MaxAge
Building == {"load", "pool", "redis", "cipher", "start"}
Seeding == {"find tenant", "create tenant", "find user", "create user"}
Serving == {"serving", "drain pprof", "drain public"}
Closing == {"close redis", "close pool", "exited"}

Types ==
  /\ cmd \in {"seed", "scheduler", "serve"}
  /\ pc \in Building \cup Seeding \cup {"loop"} \cup Serving \cup Closing
  /\ open \subseteq Clients
  /\ left \in Nat /\ spent \in Nat
  /\ flight \in [All -> {"none", "running", "cut"}]
  /\ age \in [All -> Ages]

OutcomeTypes ==
  /\ exit \in {"none", "ok", "error", "deadline", "panic", "killed"}
  /\ signalled \in BOOLEAN
  /\ holding \subseteq Requests
  /\ rows \subseteq {"tenant", "user", "other"}

Server == {"off", "starting", "up", "failed", "closed"}
ServerTypes == public \in Server /\ pprof \in Server

\* A server reports at most one error, and then it is over.
Spent(server) == IF server \in {"failed", "closed"} THEN 1 ELSE 0
ErrorInv == ServerTypes /\ errors \in Nat /\ errors <= Spent(public) + Spent(pprof)

\* Where main is, and what there is by then.
PhaseInv ==
  /\ pc \in Building => public = "off" /\ pprof = "off"
  /\ cmd # "serve" => public = "off"
  /\ pc \in Seeding => cmd = "seed"
  /\ pc = "loop" => cmd = "scheduler"
  /\ pc \in Serving => cmd = "serve" /\ open = Clients
  /\ pc \in {"cipher", "start"} => open = Clients
  /\ pc = "redis" => "pool" \in open
  /\ exit = "none" <=> pc \notin Closing
  /\ pc = "drain public" => public = "closed"

\* No request without a server, none cut while the clients are there, and none
\* left after a drain.
FlightInv ==
  /\ public = "off" => \A r \in Requests : flight[r] = "none"
  /\ pprof = "off" => \A p \in Profiles : flight[p] = "none"
  /\ pc \in Serving => \A r \in Requests : flight[r] # "cut"
  /\ exit = "ok" => public \in {"off", "closed"} /\ \A r \in Requests : flight[r] = "none"

\* The numbers of Argon2 that have 32 bits.
Wide == {"memory", "iterations", "key_length"}
Fits(c) == \A key \in Wide : c[key] \in 0..(Uint32 - 1)

\* A configuration is whole, its numbers are numbers, its timeout is one that ages
\* are counted up to, and what has been loaded is in range and has passed the validation.
ConfigInv ==
  /\ DOMAIN cfg = Keys
  /\ \A key \in Numbers : cfg[key] \in Int
  /\ cfg.shutdown_timeout <= MaxAge
  /\ cfg.parallelism \in 0..255
  /\ pc \notin {"load", "exited"} => Valid(cfg) /\ Fits(cfg)

\* What a request in flight has not yet had of the timeout is left, or was spent on
\* requests of pprof.
PatienceInv ==
  /\ pc \notin {"drain pprof", "drain public"} \cup Closing => spent = 0
  /\ pc = "drain pprof" => left + spent = Timeout
  /\ pc = "drain public" =>
       \A r \in Requests : flight[r] = "running" => age[r] + left + spent >= Timeout
  /\ exit = "deadline" =>
       /\ public = "closed"
       /\ \A r \in Requests : flight[r] # "none" => age[r] + spent >= Timeout

\* A seed that has passed the tenant has one, and a user belongs to a tenant.
SeedInv ==
  /\ pc \in {"find user", "create user"} \/ "user" \in rows => "tenant" \in rows
  /\ cmd = "seed" /\ exit = "ok" => "user" \in rows

-----------------------------------------------------------------------------
\* Counting an age stays within its bound.
LEMMA AgesFact ==
  0 \in Ages /\ \A n \in Ages : n \in Nat /\ n <= MaxAge /\ (n < MaxAge => n + 1 \in Ages)
  BY ProcessAssumption DEF Ages

\* The timeout of a shutdown is one that ages are counted up to.
LEMMA TimeoutFact == ConfigInv => Timeout \in Nat /\ Timeout <= MaxAge
  BY ProcessAssumption, ConfigAssumption DEF ConfigInv, Numbers, Timeout

\* What Validate lets through, of the requirements that other parts rely on.
LEMMA ValidFact ==
  ASSUME NEW c, \A key \in Numbers : c[key] \in Int, Valid(c)
  PROVE  /\ c.session_ttl > 0 /\ c.absolute_ttl >= c.session_ttl /\ c.parallelism >= 1
         /\ c.memory >= MinArgon2MemoryKiB /\ c.iterations >= 1
         /\ c.key_length >= MinArgon2KeyLength
         /\ c.token_key = AesKeyBytes /\ c.redirect_uri # "" /\ c.scopes # <<>>
<1>1. /\ "ttl" \notin Problems(c) /\ "absolute_ttl" \notin Problems(c)
      /\ "token_key" \notin Problems(c) /\ "parallelism" \notin Problems(c)
      /\ "memory" \notin Problems(c) /\ "iterations" \notin Problems(c)
      /\ "key_length" \notin Problems(c) /\ "jira" \notin Problems(c)
  BY DEF Valid
<1>2. ~(c.session_ttl <= 0) /\ ~(c.absolute_ttl < c.session_ttl)
  BY <1>1 DEF Problems
<1>3. /\ ~(c.parallelism < 1) /\ ~(c.iterations < 1)
      /\ ~(c.memory < MinArgon2MemoryKiB) /\ ~(c.key_length < MinArgon2KeyLength)
  BY <1>1 DEF Problems
<1>4. /\ c.session_ttl \in Int /\ c.absolute_ttl \in Int /\ c.parallelism \in Int
      /\ c.memory \in Int /\ c.iterations \in Int /\ c.key_length \in Int
  BY DEF Numbers
<1>5. c.session_ttl > 0 /\ c.absolute_ttl >= c.session_ttl
  BY <1>2, <1>4
<1>6. /\ c.parallelism >= 1 /\ c.iterations >= 1
      /\ c.memory >= MinArgon2MemoryKiB /\ c.key_length >= MinArgon2KeyLength
  BY <1>3, <1>4 DEF MinArgon2MemoryKiB, MinArgon2KeyLength
<1>7. c.token_key = AesKeyBytes
  BY <1>1 DEF Problems
<1>8. c.redirect_uri # "" /\ c.scopes # <<>>
  BY <1>1 DEF Problems
<1> QED BY <1>5, <1>6, <1>7, <1>8

\* A narrowed number fits.
LEMMA NarrowedFact ==
  ASSUME NEW n \in Int, NEW modulus \in Nat \ {0}
  PROVE  Narrowed(n, modulus) \in 0..(modulus - 1)
  BY DEF Narrowed

\* The defaults of numbers are numbers.
LEMMA DefaultsFact == \A key \in Numbers : Defaults[key] \in Int
<1>1. /\ Defaults.shutdown_timeout \in Int /\ Defaults.session_ttl \in Int
      /\ Defaults.absolute_ttl \in Int /\ Defaults.token_key \in Int
      /\ Defaults.memory \in Int /\ Defaults.iterations \in Int
      /\ Defaults.parallelism \in Int /\ Defaults.key_length \in Int
      /\ Defaults.scheduler_tick \in Int
  BY ConfigAssumption DEF Defaults
<1> QED BY <1>1 DEF Numbers

\* What Load resolves from any two layers has every key, its numbers are numbers,
\* and the numbers of Argon2 fit their 8 and 32 bits.
LEMMA ResolvedFact ==
  ASSUME NEW file, NEW env, IsLayer(file), IsLayer(env)
  PROVE  /\ DOMAIN Resolved(file, env) = Keys
         /\ \A key \in Numbers : Resolved(file, env)[key] \in Int
         /\ Resolved(file, env).parallelism \in 0..255
         /\ Fits(Resolved(file, env))
<1> DEFINE under == Over(env, Over(file, Defaults))
           c == Resolved(file, env)
<1>1. Numbers \subseteq Keys /\ Wide \cup {"parallelism"} \subseteq Numbers /\ "scopes" \notin Numbers
  BY DEF Numbers, Wide, Keys, Defaults
<1>2. \A key \in Numbers : Defaults[key] \in Int
  BY DefaultsFact
<1>3. DOMAIN file \subseteq Keys /\ DOMAIN env \subseteq Keys /\ DOMAIN Defaults = Keys
  BY DEF IsLayer, Keys
<1>4. DOMAIN under = Keys
  BY <1>3 DEF Over
<1>5. \A key \in Numbers : under[key] \in Int
  BY <1>1, <1>2, <1>3 DEF Over, IsLayer
<1>6. DOMAIN c = Keys
  BY <1>4 DEF Resolved
<1>7. \A key \in Numbers : key \notin Wide \cup {"parallelism"} => c[key] = under[key]
  BY <1>1, <1>4 DEF Resolved, Wide
<1>8. c.parallelism \in 0..255
  <2>1. under.parallelism \in Int
    BY <1>1, <1>5
  <2>2. c.parallelism = Narrowed(under.parallelism, 256)
    BY <1>1, <1>4 DEF Resolved
  <2>3. Narrowed(under.parallelism, 256) \in 0..(256 - 1)
    <3>1. 256 \in Nat \ {0}
      OBVIOUS
    <3> QED BY <2>1, <3>1, NarrowedFact, Zenon
  <2> QED BY <2>2, <2>3
<1>9. Fits(c)
  <2> SUFFICES ASSUME NEW key \in Wide PROVE c[key] \in 0..(Uint32 - 1)
    BY DEF Fits
  <2>1. under[key] \in Int
    BY <1>1, <1>5
  <2>2. c[key] = Narrowed(under[key], Uint32)
    BY <1>1, <1>4 DEF Resolved, Wide
  <2> QED BY <2>1, <2>2, NarrowedFact, ConfigAssumption
<1>10. c.parallelism \in Int /\ \A key \in Wide : c[key] \in Int
  BY <1>8, <1>9, ConfigAssumption DEF Fits
<1>11. \A key \in Numbers : c[key] \in Int
  BY <1>5, <1>7, <1>10
<1> QED BY <1>6, <1>8, <1>9, <1>11

\* Every step of main, the servers, requests and the outside keeps the types.
LEMMA TypeStep == Types /\ ConfigInv /\ [Next]_vars => Types'
<1> SUFFICES ASSUME Types, ConfigInv, [Next]_vars PROVE Types'
  OBVIOUS
<1> USE DEF Building, Seeding, Serving, Closing
<1>1. ASSUME Load \/ LoadFails \/ NewPostgresPool \/ NewRedisClient \/ NewCipher PROVE Types'
  BY <1>1 DEF Load, LoadFails, NewPostgresPool, NewRedisClient, NewCipher, Connect, Goto, Exit,
              Clients, Types
<1>2. ASSUME Start PROVE Types'
  BY <1>2 DEF Start, Goto, Return, Types
<1>3. ASSUME Seed PROVE Types'
  BY <1>3 DEF Seed, FindTenant, CreateTenant, FindUserByEmail, CreateUser, SeedFails, SeedFrame,
              Goto, Return, Types
<1>4. ASSUME RunScheduler \/ ServerFailed \/ DrainPprof \/ DrainPublic \/ CloseRedis PROVE Types'
  BY <1>4 DEF RunScheduler, ServerFailed, DrainPprof, DrainPublic, CloseRedis, Goto, Return, Types
<1>5. ASSUME BeginShutdown PROVE Types'
  BY <1>5, TimeoutFact DEF BeginShutdown, Goto, Types
<1>6. ASSUME ClosePool \/ Kill PROVE Types'
  BY <1>6 DEF ClosePool, Kill, Exit, Types
<1>7. ASSUME ListenPublic \/ ListenPprof \/ Signal \/ OtherSeed PROVE Types'
  BY <1>7 DEF ListenPublic, ListenPprof, Signal, OtherSeed, traffic, Types
<1>8. ASSUME NEW r \in All, Accept(r) \/ Answer(r) \/ Acquire(r) \/ Release(r) \/ Break(r) PROVE Types'
  BY <1>8, AgesFact DEF Accept, Answer, Acquire, Release, Break, Types
<1>9. ASSUME Tick PROVE Types'
  <2>1. left' \in Nat
    <3>1. left \in Nat
      BY DEF Types
    <3>2. left' = IF left > 0 THEN left - 1 ELSE 0
      BY <1>9 DEF Tick
    <3> QED BY <3>1, <3>2
  <2>2. age' \in [All -> Ages]
    BY <1>9, AgesFact DEF Tick, Types
  <2>3. spent' \in Nat
    <3>1. spent \in Nat
      BY DEF Types
    <3>2. spent' = spent + 1 \/ spent' = spent
      BY <1>9 DEF Tick
    <3> QED BY <3>1, <3>2
  <2>4. UNCHANGED <<cmd, pc, open, flight>>
    BY <1>9 DEF Tick
  <2> QED BY <2>1, <2>2, <2>3, <2>4 DEF Types
<1>10. CASE UNCHANGED vars
  BY <1>10 DEF vars, traffic, Types
<1> QED BY <1>1, <1>2, <1>3, <1>4, <1>5, <1>6, <1>7, <1>8, <1>9, <1>10
   DEF Next, Main, Build, Serve, Close, Traffic, All

\* So it does what main returns, connections and rows.
LEMMA OutcomeStep == OutcomeTypes /\ [Next]_vars => OutcomeTypes'
<1> SUFFICES ASSUME OutcomeTypes, [Next]_vars PROVE OutcomeTypes'
  OBVIOUS
<1>1. CASE Build
  BY <1>1 DEF Build, Load, LoadFails, NewPostgresPool, NewRedisClient, NewCipher, Connect, Start,
              Goto, Exit, Return, OutcomeTypes
<1>2. CASE Seed \/ RunScheduler
  BY <1>2 DEF Seed, FindTenant, CreateTenant, FindUserByEmail, CreateUser, SeedFails, SeedFrame,
              RunScheduler, Goto, Return, OutcomeTypes
<1>3. CASE Serve \/ Close \/ Kill
  BY <1>3 DEF Serve, ServerFailed, BeginShutdown, DrainPprof, DrainPublic, Close, CloseRedis,
              ClosePool, Kill, Goto, Exit, Return, OutcomeTypes
<1>4. CASE Traffic
  BY <1>4 DEF Traffic, Accept, Answer, Acquire, Release, Break, OutcomeTypes
<1>5. CASE ListenPublic \/ ListenPprof \/ Signal \/ OtherSeed \/ Tick \/ UNCHANGED vars
  BY <1>5 DEF ListenPublic, ListenPprof, Signal, OtherSeed, Tick, vars, traffic, OutcomeTypes
<1> QED BY <1>1, <1>2, <1>3, <1>4, <1>5 DEF Next, Main

\* A configuration is only ever loaded, and main goes on only with a valid one.
LEMMA ConfigStep == ConfigInv /\ [Next]_vars => ConfigInv'
<1> SUFFICES ASSUME ConfigInv, [Next]_vars PROVE ConfigInv'
  OBVIOUS
<1>1. CASE Load
  <2>1. PICK file \in Files, env \in Envs :
          IF Valid(Resolved(file, env)) THEN Goto("pool") /\ cfg' = Resolved(file, env)
                                        ELSE Exit("error") /\ UNCHANGED cfg
    BY <1>1 DEF Load
  <2>2. IsLayer(file) /\ IsLayer(env) /\ Resolved(file, env).shutdown_timeout <= MaxAge
    BY ProcessAssumption
  <2>3. CASE Valid(Resolved(file, env))
    BY <2>1, <2>2, <2>3, ResolvedFact DEF ConfigInv
  <2>4. CASE ~Valid(Resolved(file, env))
    BY <2>1, <2>4 DEF Exit, ConfigInv
  <2> QED BY <2>3, <2>4
<1>2. ASSUME ~Load PROVE cfg' = cfg /\ (pc' \notin {"load", "exited"} => pc \notin {"load", "exited"})
  <2>1. CASE LoadFails \/ NewPostgresPool \/ NewRedisClient \/ NewCipher \/ Start
    BY <2>1 DEF LoadFails, NewPostgresPool, NewRedisClient, NewCipher, Connect, Start, Goto, Exit, Return
  <2>2. CASE Seed \/ RunScheduler
    BY <2>2 DEF Seed, FindTenant, CreateTenant, FindUserByEmail, CreateUser, SeedFails, SeedFrame,
                RunScheduler, Goto, Return
  <2>3. CASE Serve \/ Close \/ Kill
    BY <2>3 DEF Serve, ServerFailed, BeginShutdown, DrainPprof, DrainPublic, Close, CloseRedis,
                ClosePool, Kill, Goto, Exit, Return
  <2>4. CASE ListenPublic \/ ListenPprof \/ Traffic \/ Signal \/ OtherSeed \/ Tick \/ UNCHANGED vars
    BY <2>4 DEF ListenPublic, ListenPprof, Traffic, Accept, Answer, Acquire, Release, Break, Signal,
                OtherSeed, Tick, vars
  <2> QED BY <1>2, <2>1, <2>2, <2>3, <2>4 DEF Next, Main, Build
<1> QED BY <1>1, <1>2 DEF ConfigInv, Fits

\* No server reports an error that it has not stopped for.
LEMMA ErrorStep == PhaseInv /\ ErrorInv /\ [Next]_vars => ErrorInv'
<1> SUFFICES ASSUME PhaseInv, ErrorInv, [Next]_vars PROVE ErrorInv'
  OBVIOUS
<1>1. CASE Start
  <2>1. public = "off" /\ pprof = "off"
    BY <1>1 DEF Start, PhaseInv, Building
  <2>2. errors = 0
    BY <2>1 DEF ErrorInv, Spent
  <2>3. ServerTypes' /\ errors' = errors
    BY <1>1 DEF Start, ErrorInv, ServerTypes, Server, servers
  <2>4. Spent(public)' \in Nat /\ Spent(pprof)' \in Nat
    BY DEF Spent
  <2> QED BY <2>2, <2>3, <2>4 DEF ErrorInv, Spent
<1>2. CASE ServerFailed
  BY <1>2 DEF ServerFailed, ErrorInv, ServerTypes, Spent
<1>3. CASE BeginShutdown \/ DrainPprof
  <2>1. ServerTypes' /\ errors' = errors
    BY <1>3 DEF BeginShutdown, DrainPprof, ErrorInv, ServerTypes, Server
  <2>2. (public' = public \/ public' = "closed") /\ (pprof' = pprof \/ pprof' = "closed" \/ pprof = "off")
    BY <1>3 DEF BeginShutdown, DrainPprof
  <2> QED BY <2>1, <2>2 DEF ErrorInv, Spent
<1>4. CASE ListenPublic \/ ListenPprof
  BY <1>4 DEF ListenPublic, ListenPprof, ErrorInv, ServerTypes, Server, Spent
<1>5. ASSUME ~Start, ~ServerFailed, ~BeginShutdown, ~DrainPprof, ~ListenPublic, ~ListenPprof
      PROVE  UNCHANGED <<public, pprof, errors>>
  BY <1>5 DEF Next, Main, Build, Load, LoadFails, NewPostgresPool, NewRedisClient, NewCipher, Connect,
     Seed, FindTenant, CreateTenant, FindUserByEmail, CreateUser, SeedFails, SeedFrame, RunScheduler,
     Serve, DrainPublic, Close, CloseRedis, ClosePool,
     Traffic, Accept, Answer, Acquire, Release, Break, Signal, Kill, OtherSeed, Tick, servers, vars
<1> QED BY <1>1, <1>2, <1>3, <1>4, <1>5 DEF ErrorInv, ServerTypes, Spent

\* Every step keeps servers, clients and exit code in line with where main is.
LEMMA PhaseStep == Types /\ PhaseInv /\ [Next]_vars => PhaseInv'
<1> SUFFICES ASSUME Types, PhaseInv, [Next]_vars PROVE PhaseInv'
  OBVIOUS
<1> USE DEF Building, Seeding, Serving, Closing
<1>1. ASSUME Load \/ LoadFails \/ NewPostgresPool \/ NewRedisClient \/ NewCipher PROVE PhaseInv'
  <2>1. CASE Load \/ LoadFails \/ NewPostgresPool \/ NewCipher
    BY <2>1 DEF Load, LoadFails, NewPostgresPool, NewCipher, Connect, Goto, Exit, servers, PhaseInv
  <2>2. CASE NewRedisClient
    <3>1. pc' = "cipher" => open' = Clients
      BY <2>2 DEF NewRedisClient, Connect, Exit, Clients, PhaseInv, Types
    <3> QED BY <2>2, <3>1 DEF NewRedisClient, Connect, Goto, Exit, servers, PhaseInv
  <2> QED BY <1>1, <2>1, <2>2
<1>2. ASSUME Start PROVE PhaseInv'
  BY <1>2 DEF Start, Goto, Return, servers, PhaseInv
<1>3. ASSUME Seed PROVE PhaseInv'
  BY <1>3 DEF Seed, FindTenant, CreateTenant, FindUserByEmail, CreateUser, SeedFails, SeedFrame,
              Goto, Return, servers, PhaseInv
<1>4. ASSUME RunScheduler \/ ServerFailed \/ BeginShutdown \/ DrainPprof \/ DrainPublic PROVE PhaseInv'
  BY <1>4 DEF RunScheduler, ServerFailed, BeginShutdown, DrainPprof, DrainPublic, Goto, Return,
              servers, PhaseInv
<1>5. ASSUME CloseRedis \/ ClosePool \/ Kill PROVE PhaseInv'
  BY <1>5 DEF CloseRedis, ClosePool, Kill, Goto, Exit, servers, PhaseInv
<1>6. ASSUME ListenPublic \/ ListenPprof PROVE PhaseInv'
  BY <1>6 DEF ListenPublic, ListenPprof, PhaseInv
<1>7. ASSUME (\E r \in All : Accept(r) \/ Answer(r) \/ Acquire(r) \/ Release(r) \/ Break(r))
               \/ Signal \/ OtherSeed \/ Tick
      PROVE  PhaseInv'
  BY <1>7 DEF Accept, Answer, Acquire, Release, Break, Signal, OtherSeed, Tick, servers, PhaseInv
<1>8. CASE UNCHANGED vars
  BY <1>8 DEF vars, servers, PhaseInv
<1> QED BY <1>1, <1>2, <1>3, <1>4, <1>5, <1>6, <1>7, <1>8
   DEF Next, Main, Build, Serve, Close, Traffic, All

\* Clients are closed only behind the drain, and nothing is accepted after it.
LEMMA FlightStep == Types /\ PhaseInv /\ FlightInv /\ [Next]_vars => FlightInv'
<1> SUFFICES ASSUME Types, PhaseInv, FlightInv, [Next]_vars PROVE FlightInv'
  OBVIOUS
<1> USE DEF Building, Seeding, Serving, Closing
<1>a. Requests \subseteq All /\ Profiles \subseteq All /\ Requests \cap Profiles = {}
  BY ProcessAssumption DEF All
<1>1. ASSUME Load \/ LoadFails \/ NewPostgresPool \/ NewRedisClient \/ NewCipher PROVE FlightInv'
  BY <1>1, <1>a DEF Load, LoadFails, NewPostgresPool, NewRedisClient, NewCipher, Connect, Goto, Exit,
              servers, PhaseInv, FlightInv
<1>2. ASSUME Start PROVE FlightInv'
  BY <1>2 DEF Start, Goto, Return, servers, PhaseInv, FlightInv
<1>3. ASSUME Seed PROVE FlightInv'
  BY <1>3 DEF Seed, FindTenant, CreateTenant, FindUserByEmail, CreateUser, SeedFails, SeedFrame,
              Goto, Return, servers, PhaseInv, FlightInv
<1>4. ASSUME RunScheduler \/ ServerFailed \/ BeginShutdown PROVE FlightInv'
  BY <1>4 DEF RunScheduler, ServerFailed, BeginShutdown, Goto, Return, servers, PhaseInv, FlightInv
<1>5. ASSUME DrainPprof PROVE FlightInv'
  BY <1>5 DEF DrainPprof, Goto, PhaseInv, FlightInv
<1>6. ASSUME DrainPublic PROVE FlightInv'
  <2>1. exit' = "ok" => \A r \in Requests : flight[r] # "running"
    BY <1>6 DEF DrainPublic, Return, Running
  <2>2. \A r \in Requests : flight[r] \in {"none", "running"}
    BY <1>6, <1>a DEF DrainPublic, FlightInv, Types
  <2> QED BY <1>6, <2>1, <2>2 DEF DrainPublic, Return, servers, PhaseInv, FlightInv
<1>7. ASSUME CloseRedis \/ ClosePool \/ Kill PROVE FlightInv'
  BY <1>7, <1>a DEF CloseRedis, ClosePool, Kill, Goto, Exit, servers, PhaseInv, FlightInv
<1>8. ASSUME ListenPublic \/ ListenPprof PROVE FlightInv'
  BY <1>8 DEF ListenPublic, ListenPprof, traffic, FlightInv
<1>9. ASSUME NEW r \in All, Accept(r) PROVE FlightInv'
  BY <1>9, <1>a DEF Accept, servers, FlightInv, Types
<1>10. ASSUME NEW r \in All, Answer(r) PROVE FlightInv'
  BY <1>10, <1>a DEF Answer, servers, FlightInv, Types
<1>11. ASSUME NEW r \in Requests, Break(r) PROVE FlightInv'
  BY <1>11, <1>a DEF Break, servers, PhaseInv, FlightInv, Types
<1>12. ASSUME (\E r \in Requests : Acquire(r) \/ Release(r)) \/ Signal \/ OtherSeed \/ Tick
       PROVE  FlightInv'
  BY <1>12 DEF Acquire, Release, Signal, OtherSeed, Tick, servers, traffic, FlightInv
<1>13. CASE UNCHANGED vars
  BY <1>13 DEF vars, servers, traffic, FlightInv
<1> QED BY <1>1, <1>2, <1>3, <1>4, <1>5, <1>6, <1>7, <1>8, <1>9, <1>10, <1>11, <1>12, <1>13
   DEF Next, Main, Build, Serve, Close, Traffic

\* Rows are only added, and a user only under a tenant.
LEMMA SeedStep == PhaseInv /\ SeedInv /\ [Next]_vars => SeedInv'
<1> SUFFICES ASSUME PhaseInv, SeedInv, [Next]_vars PROVE SeedInv'
  OBVIOUS
<1> USE DEF Building, Seeding, Serving, Closing
<1>1. ASSUME Build PROVE SeedInv'
  BY <1>1 DEF Build, Load, LoadFails, NewPostgresPool, NewRedisClient, NewCipher, Start, Connect,
              Goto, Exit, Return, PhaseInv, SeedInv
<1>2. ASSUME Seed PROVE SeedInv'
  BY <1>2 DEF Seed, FindTenant, CreateTenant, FindUserByEmail, CreateUser, SeedFails, SeedFrame,
              Goto, Return, PhaseInv, SeedInv
<1>3. ASSUME RunScheduler \/ Serve PROVE SeedInv'
  BY <1>3 DEF RunScheduler, Serve, ServerFailed, BeginShutdown, DrainPprof, DrainPublic, Goto,
              Return, PhaseInv, SeedInv
<1>4. ASSUME Close \/ Kill PROVE SeedInv'
  BY <1>4 DEF Close, CloseRedis, ClosePool, Kill, Goto, Exit, PhaseInv, SeedInv
<1>5. ASSUME OtherSeed PROVE SeedInv'
  BY <1>5 DEF OtherSeed, SeedInv
<1>6. ASSUME ListenPublic \/ ListenPprof \/ Traffic \/ Signal \/ Tick PROVE SeedInv'
  BY <1>6 DEF ListenPublic, ListenPprof, Traffic, Accept, Answer, Acquire, Release, Break, Signal,
              Tick, SeedInv
<1>7. CASE UNCHANGED vars
  BY <1>7 DEF vars, SeedInv
<1> QED BY <1>1, <1>2, <1>3, <1>4, <1>5, <1>6, <1>7 DEF Next, Main

\* Each tick of the public drain is one that every request in flight has had, and
\* each tick before it is spent.
LEMMA PatienceStep ==
  ASSUME Types, ConfigInv, PhaseInv, FlightInv, PatienceInv, [Next]_vars
  PROVE  PatienceInv'
<1> USE DEF Building, Seeding, Serving, Closing
<1>a. Requests \subseteq All /\ Profiles \subseteq All /\ Requests \cap Profiles = {}
  BY ProcessAssumption DEF All
<1>b. Timeout \in Nat /\ Timeout <= MaxAge /\ left \in Nat /\ spent \in Nat
  BY TimeoutFact DEF Types
<1>c. \A r \in Requests : age[r] \in Nat
  BY <1>a, AgesFact DEF Types
<1>1. ASSUME Build PROVE PatienceInv'
  BY <1>1 DEF Build, Load, LoadFails, NewPostgresPool, NewRedisClient, NewCipher, Start, Connect,
              Goto, Exit, Return, servers, PhaseInv, PatienceInv
<1>2. ASSUME Seed \/ RunScheduler \/ ServerFailed PROVE PatienceInv'
  BY <1>2 DEF Seed, FindTenant, CreateTenant, FindUserByEmail, CreateUser, SeedFails, SeedFrame,
              RunScheduler, ServerFailed, Return, Goto, servers, PhaseInv, PatienceInv
<1>3. ASSUME BeginShutdown PROVE PatienceInv'
  <2>1. /\ UNCHANGED <<cfg, spent, exit>> /\ pc' = "drain pprof" /\ pc = "serving"
        /\ left' = Timeout /\ Timeout' = Timeout
    BY <1>3 DEF BeginShutdown, Goto, Timeout
  <2>2. spent = 0 /\ exit = "none"
    BY <2>1 DEF PhaseInv, PatienceInv
  <2>3. left' + spent' = Timeout'
    <3>1. left' = Timeout /\ spent' = 0 /\ Timeout' = Timeout
      BY <2>1, <2>2
    <3> QED BY <3>1, <1>b
  <2> QED BY <2>1, <2>2, <2>3 DEF PatienceInv
<1>4. ASSUME DrainPprof PROVE PatienceInv'
  <2>1. UNCHANGED <<cfg, left, spent, age, flight, exit>> /\ pc' = "drain public"
        /\ Timeout' = Timeout /\ pc = "drain pprof"
    BY <1>4 DEF DrainPprof, Goto, Timeout
  <2>2. exit = "none"
    BY <2>1 DEF PhaseInv
  <2>3. ASSUME NEW r \in Requests PROVE age[r] + left + spent >= Timeout
    <3>1. left + spent = Timeout /\ age[r] \in Nat
      BY <2>1, <1>c DEF PatienceInv
    <3> QED BY <3>1, <1>b
  <2> QED BY <2>1, <2>2, <2>3 DEF PatienceInv
<1>5. ASSUME DrainPublic PROVE PatienceInv'
  <2>1. UNCHANGED <<cfg, public, left, spent, age, flight>> /\ pc' = "close redis"
        /\ Timeout' = Timeout /\ pc = "drain public" /\ public = "closed"
    BY <1>5 DEF DrainPublic, Return, Timeout, servers, PhaseInv
  <2>2. exit' = "deadline" => left = 0
    BY <1>5 DEF DrainPublic, Return
  <2>3. \A r \in Requests : flight[r] # "none" => flight[r] = "running"
    BY <2>1, <1>a DEF FlightInv, Types
  <2>4. ASSUME left = 0, NEW r \in Requests, flight[r] # "none"
        PROVE  age[r] + spent >= Timeout
    <3>1. age[r] + left + spent >= Timeout /\ age[r] \in Nat
      BY <2>1, <2>3, <2>4, <1>c DEF PatienceInv
    <3> QED BY <2>4, <3>1, <1>b
  <2> QED BY <2>1, <2>2, <2>4 DEF PatienceInv
<1>6. ASSUME Close \/ Kill PROVE PatienceInv'
  <2>1. /\ UNCHANGED <<cfg, public, spent, age>> /\ Timeout' = Timeout
        /\ pc' \in {"close pool", "exited"} /\ (exit' = "deadline" => exit = "deadline")
    BY <1>6 DEF Close, CloseRedis, ClosePool, Kill, Goto, Exit, Timeout, servers
  <2>2. \A r \in Requests : flight'[r] # "none" => flight[r] # "none"
    BY <1>6, <1>a DEF Close, CloseRedis, ClosePool, Kill, Goto, Exit
  <2> QED BY <2>1, <2>2 DEF PatienceInv
<1>7. ASSUME ListenPublic \/ ListenPprof PROVE PatienceInv'
  <2>1. UNCHANGED <<cfg, pc, exit, left, spent, flight, age>> /\ Timeout' = Timeout
    BY <1>7 DEF ListenPublic, ListenPprof, Timeout, traffic
  <2>2. public = "closed" => public' = "closed"
    BY <1>7 DEF ListenPublic, ListenPprof
  <2> QED BY <2>1, <2>2 DEF PatienceInv
<1>8. ASSUME NEW r \in All, Accept(r) PROVE PatienceInv'
  <2>1. UNCHANGED <<cfg, public, left, spent, pc, exit>> /\ Timeout' = Timeout
    BY <1>8 DEF Accept, Timeout, servers
  <2>2. r \in Requests => public = "up"
    BY <1>8 DEF Accept
  <2>3. pc = "drain public" => public = "closed"
    BY DEF PhaseInv
  <2>4. \A q \in Requests : q # r => flight'[q] = flight[q] /\ age'[q] = age[q]
    BY <1>8, <1>a DEF Accept, Types
  <2> QED BY <2>1, <2>2, <2>3, <2>4, <1>a DEF PatienceInv
<1>9. ASSUME NEW r \in All, Answer(r) \/ Acquire(r) \/ Release(r) \/ (r \in Requests /\ Break(r))
      PROVE  PatienceInv'
  <2>1. UNCHANGED <<cfg, public, left, spent, pc, exit, age>> /\ Timeout' = Timeout
    BY <1>9 DEF Answer, Acquire, Release, Break, Timeout, servers
  <2>2. \A q \in Requests : /\ flight'[q] # "none" => flight[q] # "none"
                            /\ flight'[q] = "running" => flight[q] = "running"
    BY <1>9, <1>a DEF Answer, Acquire, Release, Break, Types
  <2> QED BY <2>1, <2>2 DEF PatienceInv
<1>10. ASSUME Tick PROVE PatienceInv'
  <2>1. UNCHANGED <<cfg, public, pc, exit, flight>> /\ Timeout' = Timeout
    BY <1>10 DEF Tick, Timeout, servers
  <2>2. ASSUME NEW r \in Requests
        PROVE  age'[r] >= age[r] /\ (flight[r] = "running" => age'[r] = age[r] + 1 \/ age'[r] >= MaxAge)
    <3>1. age'[r] = IF flight[r] = "running" /\ age[r] < MaxAge THEN age[r] + 1 ELSE age[r]
      BY <1>10, <1>a DEF Tick
    <3> QED BY <3>1, <1>c, ProcessAssumption
  <2>3. left' \in Nat /\ left' >= left - 1 /\ (left > 0 => left' = left - 1)
    <3>1. left' = IF left > 0 THEN left - 1 ELSE 0
      BY <1>10 DEF Tick
    <3> QED BY <3>1, <1>b
  <2>4. \A r \in Requests : age'[r] \in Nat
    <3>1. \A r \in Requests : age'[r] = IF flight[r] = "running" /\ age[r] < MaxAge
                                         THEN age[r] + 1 ELSE age[r]
      BY <1>10, <1>a DEF Tick
    <3> QED BY <3>1, <1>c
  <2>5. pc # "drain pprof" => spent' = spent
    BY <1>10 DEF Tick
  <2>6. ASSUME pc = "drain pprof" PROVE left' + spent' = Timeout
    <3>1. left > 0 /\ spent' = spent + 1
      BY <1>10, <2>6 DEF Tick, Waiting
    <3>2. left + spent = Timeout
      BY <2>6 DEF PatienceInv
    <3> QED BY <2>3, <3>1, <3>2, <1>b
  <2>7. ASSUME pc = "drain public", NEW r \in Requests, flight[r] = "running"
        PROVE  age'[r] + left' + spent' >= Timeout
    <3>1. age[r] + left + spent >= Timeout
      BY <2>7 DEF PatienceInv
    <3>2. age'[r] = age[r] + 1 \/ age'[r] >= MaxAge
      BY <2>2, <2>7
    <3>3. spent' = spent
      BY <2>5, <2>7
    <3> QED BY <2>3, <2>4, <3>1, <3>2, <3>3, <1>b, <1>c, ProcessAssumption
  <2>8. ASSUME exit = "deadline", NEW r \in Requests, flight[r] # "none"
        PROVE  age'[r] + spent' >= Timeout
    <3>1. age[r] + spent >= Timeout
      BY <2>8 DEF PatienceInv
    <3>2. spent' = spent
      BY <2>5, <2>8 DEF PhaseInv
    <3> QED BY <2>2, <2>4, <3>1, <3>2, <1>b, <1>c
  <2>9. pc \notin {"drain pprof", "drain public"} \cup Closing => spent' = 0
    BY <2>5 DEF PatienceInv
  <2> QED BY <2>1, <2>6, <2>7, <2>8, <2>9 DEF PatienceInv
<1>11. ASSUME Signal \/ OtherSeed PROVE PatienceInv'
  BY <1>11 DEF Signal, OtherSeed, Timeout, servers, traffic, PatienceInv
<1>12. CASE UNCHANGED vars
  BY <1>12 DEF vars, servers, traffic, Timeout, PatienceInv
<1> QED BY <1>1, <1>2, <1>3, <1>4, <1>5, <1>6, <1>7, <1>8, <1>9, <1>10, <1>11, <1>12
   DEF Next, Main, Serve, Traffic, All

-----------------------------------------------------------------------------
\* The inductive invariant.
ProcessInv ==
  Types /\ OutcomeTypes /\ ConfigInv /\ ErrorInv /\ PhaseInv /\ FlightInv /\ PatienceInv /\ SeedInv

\* At first the process has done nothing.
LEMMA InitInv == Init => ProcessInv
<1> SUFFICES ASSUME Init PROVE ProcessInv
  OBVIOUS
<1>1. Types /\ OutcomeTypes
  BY AgesFact DEF Init, Types, OutcomeTypes, Building
<1>2. ConfigInv
  <2>1. \A key \in Numbers : Defaults[key] \in Int
    BY DefaultsFact
  <2>2. Defaults.shutdown_timeout = DefaultShutdown /\ Defaults.parallelism = 4
    BY DEF Defaults
  <2> QED BY <2>1, <2>2, ProcessAssumption DEF Init, ConfigInv, Keys
<1>5. ErrorInv
  BY DEF Init, ErrorInv, ServerTypes, Server, Spent
<1>3. PhaseInv /\ FlightInv /\ PatienceInv
  BY DEF Init, PhaseInv, FlightInv, PatienceInv, Building, Seeding, Serving, Closing, All
<1>4. SeedInv
  BY DEF Init, SeedInv
<1> QED BY <1>1, <1>2, <1>3, <1>4, <1>5 DEF ProcessInv

\* Every step keeps the inductive invariant.
LEMMA NextInv == ProcessInv /\ [Next]_vars => ProcessInv'
  BY TypeStep, OutcomeStep, ConfigStep, ErrorStep, PhaseStep, FlightStep, PatienceStep, SeedStep DEF ProcessInv

\* Every variable keeps its type (main.go, app.go, server.go), whatever the layers of
\* configuration hold.
THEOREM ProcessTyped == Spec => []TypeOK
<1>1. ProcessInv => TypeOK
  <2> SUFFICES ASSUME ProcessInv PROVE TypeOK
    OBVIOUS
  <2>1. errors \in 0..2
    BY DEF ProcessInv, ErrorInv, Spent
  <2>2. DOMAIN cfg = Keys
    BY DEF ProcessInv, ConfigInv
  <2> QED BY <2>1, <2>2 DEF ProcessInv, Types, OutcomeTypes, ErrorInv, ServerTypes, Server, TypeOK, Ages, Building, Seeding, Serving, Closing
<1> QED BY InitInv, NextInv, <1>1, PTL DEF Spec

\* Whatever a file and the environment say, a process goes past Load only with the
\* lifetimes, the key and the Argon2 parameters that the other parts assume, the latter
\* in range as narrowed (Load, Validate).
THEOREM RunsConfigured == Spec => []WellConfigured
<1>1. ProcessInv => WellConfigured
  <2> SUFFICES ASSUME ProcessInv, pc \notin {"load", "exited"} PROVE WellConfigured
    BY DEF WellConfigured
  <2>1. /\ \A key \in Numbers : cfg[key] \in Int
        /\ cfg.parallelism \in 0..255 /\ Valid(cfg) /\ Fits(cfg)
    BY DEF ProcessInv, ConfigInv
  <2>2. /\ cfg.session_ttl > 0 /\ cfg.absolute_ttl >= cfg.session_ttl
        /\ cfg.token_key = AesKeyBytes /\ cfg.redirect_uri # "" /\ cfg.scopes # <<>>
    BY <2>1, ValidFact
  <2>3. cfg.parallelism \in 1..255
    <3>1. cfg.parallelism >= 1
      BY <2>1, ValidFact
    <3> QED BY <2>1, <3>1
  <2>4. /\ cfg.iterations \in 1..(Uint32 - 1)
        /\ cfg.memory \in MinArgon2MemoryKiB..(Uint32 - 1)
        /\ cfg.key_length \in MinArgon2KeyLength..(Uint32 - 1)
    <3>1. /\ cfg.iterations >= 1 /\ cfg.memory >= MinArgon2MemoryKiB
          /\ cfg.key_length >= MinArgon2KeyLength
      BY <2>1, ValidFact
    <3>2. /\ cfg.iterations \in 0..(Uint32 - 1) /\ cfg.memory \in 0..(Uint32 - 1)
          /\ cfg.key_length \in 0..(Uint32 - 1)
      BY <2>1 DEF Fits, Wide
    <3> QED BY <3>1, <3>2, ConfigAssumption DEF MinArgon2MemoryKiB, MinArgon2KeyLength
  <2> QED BY <2>2, <2>3, <2>4 DEF WellConfigured
<1> QED BY InitInv, NextInv, <1>1, PTL DEF Spec

\* A server that returns without an error has answered every public request it
\* accepted (Server.Run, shutdown), whatever pprof, signals and failures do.
THEOREM Drained == Spec => []CleanDrain
<1>1. ProcessInv => CleanDrain
  BY DEF ProcessInv, FlightInv, CleanDrain
<1> QED BY InitInv, NextInv, <1>1, PTL DEF Spec

\* A shutdown cuts off only requests that had its whole timeout, the configured one or
\* the default, but for what the drain of pprof spent of it (shutdown, Close).
THEOREM DrainedPatiently == Spec => []PatientDrain
<1>1. ProcessInv => PatientDrain
  BY DEF ProcessInv, PatienceInv, PatientDrain
<1> QED BY InitInv, NextInv, <1>1, PTL DEF Spec

\* A seed that reports success has left its tenant and its user, whatever another
\* seed does between its look-ups and its inserts (Seed).
THEOREM SeedDone == Spec => []Seeded
<1>1. ProcessInv => Seeded
  BY DEF ProcessInv, SeedInv, Seeded
<1> QED BY InitInv, NextInv, <1>1, PTL DEF Spec
=============================================================================
