------------------------------ MODULE Process ------------------------------
(***************************************************************************)
(* One process of the service, from its start to its end: main loads the   *)
(* configuration, opens Postgres and Redis, and then seeds, schedules or   *)
(* serves; a signal, or a server that fails, ends it.  While it serves,    *)
(* public requests and profiling requests are in flight in goroutines of   *)
(* their own, and the shutdown gives both servers one budget of time.      *)
(* Another seed may write the same rows at any moment.                     *)
(***************************************************************************)
EXTENDS Config, FiniteSets

CONSTANTS
  Requests,   \* public requests in flight at a time
  Profiles,   \* requests of the pprof server in flight at a time
  Files,      \* the configuration files ...
  Envs,       \* ... and the environments the process may be started with
  MaxAge      \* ages of requests are counted up to here

ASSUME ProcessAssumption ==
  /\ Requests \cap Profiles = {}
  /\ MaxAge \in Nat /\ DefaultShutdown <= MaxAge
  /\ \A layer \in Files \cup Envs : IsLayer(layer)
  /\ \A file \in Files, env \in Envs : Resolved(file, env).shutdown_timeout <= MaxAge

VARIABLES
  cmd,        \* the subcommand
  cfg,        \* the configuration
  pc,         \* where main is
  exit,       \* what main returns, once that is known
  signalled,  \* SIGINT or SIGTERM has arrived: ctx is cancelled
  open,       \* the clients that are open
  public,     \* the public server ...
  pprof,      \* ... and the internal one
  errors,     \* errors in errCh
  left,       \* ticks left of the shutdown timeout
  spent,      \* history: ticks of it spent on requests of pprof
  flight,     \* flight[r]: is request r in flight, or was it cut off
  holding,    \* requests that hold a connection of the pool
  age,        \* age[r]: ticks since r was accepted
  rows        \* the seed's rows; "other": the email belongs to another tenant

servers == <<public, pprof, errors>>
traffic == <<flight, holding, age>>
vars == <<cmd, cfg, pc, exit, signalled, open, servers, left, spent, traffic, rows>>

All == Requests \cup Profiles
Clients == {"pool", "redis"}

TypeOK ==
  /\ cmd \in {"seed", "scheduler", "serve"}
  /\ DOMAIN cfg = Keys
  /\ pc \in {"load", "pool", "redis", "cipher", "start", "find tenant", "create tenant",
             "find user", "create user", "loop", "serving", "drain pprof", "drain public",
             "close redis", "close pool", "exited"}
  /\ exit \in {"none", "ok", "error", "deadline", "panic", "killed"}
  /\ signalled \in BOOLEAN
  /\ open \subseteq Clients
  /\ public \in {"off", "starting", "up", "failed", "closed"}
  /\ pprof \in {"off", "starting", "up", "failed", "closed"}
  /\ errors \in 0..2
  /\ left \in Nat /\ spent \in Nat
  /\ flight \in [All -> {"none", "running", "cut"}]
  /\ holding \subseteq Requests
  /\ age \in [All -> 0..MaxAge]
  /\ rows \subseteq {"tenant", "user", "other"}

Init ==
  /\ cmd \in {"seed", "scheduler", "serve"}
  /\ cfg = Defaults
  /\ pc = "load" /\ exit = "none"
  /\ signalled = FALSE
  /\ open = {}
  /\ public = "off" /\ pprof = "off" /\ errors = 0
  /\ left = 0 /\ spent = 0
  /\ flight = [r \in All |-> "none"]
  /\ holding = {}
  /\ age = [r \in All |-> 0]
  /\ rows \in {{}, {"tenant"}, {"tenant", "user"}, {"other"}}
  /\ cmd # "seed" => rows = {}

Running(group) == {r \in group : flight[r] = "running"}

\* shutdown: a timeout that is not positive is replaced by the default.
Timeout == IF cfg.shutdown_timeout <= 0 THEN DefaultShutdown ELSE cfg.shutdown_timeout

\* The process ends: whatever is in flight is cut off.
Exit(code) ==
  /\ pc' = "exited" /\ exit' = code
  /\ flight' = [r \in All |-> IF flight[r] = "running" THEN "cut" ELSE flight[r]]
  /\ holding' = {}

\* Run returns, and its deferred Close follows.
Return(code) ==
  /\ pc' = "close redis" /\ exit' = code
  /\ UNCHANGED <<flight, holding>>

Goto(label) == pc' = label /\ UNCHANGED <<exit, flight, holding>>

-----------------------------------------------------------------------------
(* Start: Load and Build. *)

\* Variant: parallelism is validated before it is narrowed.
LoadWide ==
  /\ pc = "load"
  /\ \E file \in Files, env \in Envs :
       LET c == Resolved(file, env)
           wide == [c EXCEPT !.parallelism = Over(env, Over(file, Defaults)).parallelism]
       IN IF Valid(wide) THEN Goto("pool") /\ cfg' = c ELSE Exit("error") /\ UNCHANGED cfg
  /\ UNCHANGED <<cmd, signalled, open, servers, left, spent, age, rows>>

Load ==
  /\ pc = "load"
  /\ \E file \in Files, env \in Envs :
       LET c == Resolved(file, env)
       IN IF Valid(c) THEN Goto("pool") /\ cfg' = c ELSE Exit("error") /\ UNCHANGED cfg
  /\ UNCHANGED <<cmd, signalled, open, servers, left, spent, age, rows>>

LoadFails ==
  /\ pc = "load" /\ Exit("error")
  /\ UNCHANGED <<cmd, cfg, signalled, open, servers, left, spent, age, rows>>

\* A client is opened and pinged; a cancelled context fails the ping.  When Build
\* fails Run has no App to close: what is open stays so until the process ends.
Connect(client, at, next) ==
  /\ pc = at
  /\ \/ ~signalled /\ Goto(next) /\ open' = open \cup {client}
     \/ Exit("error") /\ UNCHANGED open
  /\ UNCHANGED <<cmd, cfg, signalled, servers, left, spent, age, rows>>

NewPostgresPool == Connect("pool", "pool", "redis")
NewRedisClient == Connect("redis", "redis", "cipher")

NewCipher ==
  /\ pc = "cipher"
  /\ IF cfg.token_key = AesKeyBytes THEN Goto("start") ELSE Exit("error")
  /\ UNCHANGED <<cmd, cfg, signalled, open, servers, left, spent, age, rows>>

\* The subcommand.  NewTicker panics on a period that is not positive, and the
\* deferred Close runs on the way out; Serve starts a goroutine per server.
Start ==
  /\ pc = "start"
  /\ \/ cmd = "seed" /\ Goto("find tenant") /\ UNCHANGED servers
     \/ /\ cmd = "scheduler" /\ UNCHANGED servers
        /\ IF cfg.scheduler_tick > 0 THEN Goto("loop") ELSE Return("panic")
     \/ /\ cmd = "serve" /\ Goto("serving")
        /\ public' = "starting"
        /\ pprof' = IF cfg.pprof THEN "starting" ELSE "off"
        /\ UNCHANGED errors
  /\ UNCHANGED <<cmd, cfg, signalled, open, left, spent, age, rows>>

Build == Load \/ LoadFails \/ NewPostgresPool \/ NewRedisClient \/ NewCipher \/ Start

-----------------------------------------------------------------------------
(* The subcommand seed. *)

SeedFrame == UNCHANGED <<cmd, cfg, signalled, open, servers, left, spent, age>>

FindTenant ==
  /\ pc = "find tenant" /\ ~signalled
  /\ Goto(IF "tenant" \in rows THEN "find user" ELSE "create tenant")
  /\ SeedFrame /\ UNCHANGED rows

\* The slug is unique: a second insert is an error.
CreateTenant ==
  /\ pc = "create tenant" /\ ~signalled
  /\ rows' = rows \cup {"tenant"}
  /\ IF "tenant" \in rows THEN Return("error") ELSE Goto("find user")
  /\ SeedFrame

FindUserByEmail ==
  /\ pc = "find user" /\ ~signalled
  /\ IF "user" \in rows THEN Return("ok") ELSE Goto("create user")
  /\ SeedFrame /\ UNCHANGED rows

\* Variant: an insert that meets the unique index is taken for done.
CreateUserIgnoresConflict ==
  /\ pc = "create user" /\ ~signalled /\ Return("ok")
  /\ rows' = IF rows \cap {"user", "other"} = {} THEN rows \cup {"user"} ELSE rows
  /\ SeedFrame

\* Emails are unique across tenants: the insert fails for one that another
\* seed, or another tenant, has taken in the meantime.
CreateUser ==
  /\ pc = "create user" /\ ~signalled
  /\ IF rows \cap {"user", "other"} = {}
     THEN rows' = rows \cup {"user"} /\ Return("ok")
     ELSE UNCHANGED rows /\ Return("error")
  /\ SeedFrame

\* A call of the seed fails, its insert done or not.
SeedFails ==
  /\ pc \in {"find tenant", "create tenant", "find user", "create user"}
  /\ Return("error")
  /\ \/ UNCHANGED rows
     \/ pc = "create tenant" /\ rows' = rows \cup {"tenant"}
     \/ pc = "create user" /\ "other" \notin rows /\ rows' = rows \cup {"user"}
  /\ SeedFrame

\* Another process seeds the same tenant and user; of this one only a seed reads
\* the rows.
OtherSeed ==
  /\ cmd = "seed" /\ pc # "exited"
  /\ \/ rows' = rows \cup {"tenant"}
     \/ "tenant" \in rows /\ "other" \notin rows /\ rows' = rows \cup {"user"}
  /\ UNCHANGED <<cmd, cfg, pc, exit, signalled, open, servers, left, spent, traffic>>

Seed == FindTenant \/ CreateTenant \/ FindUserByEmail \/ CreateUser \/ SeedFails

\* RunScheduler: the loop of Scheduler.Run ends when ctx is cancelled, which is
\* no error.  What it does until then is module Automation's.
RunScheduler ==
  /\ pc = "loop" /\ signalled /\ Return("ok")
  /\ UNCHANGED <<cmd, cfg, signalled, open, servers, left, spent, age, rows>>

-----------------------------------------------------------------------------
(* Server.Run and its shutdown. *)

\* A goroutine of Run listens, or fails: to bind at first, to accept later.  A
\* server that has been shut down does neither.
ListenPublic ==
  /\ \/ public = "starting" /\ public' = "up" /\ UNCHANGED errors
     \/ public \in {"starting", "up"} /\ public' = "failed" /\ errors' = errors + 1
  /\ UNCHANGED <<cmd, cfg, pc, exit, signalled, open, pprof, left, spent, traffic, rows>>

\* Variant: a server reports each failed accept and goes on.
ListenPprofReports ==
  /\ \/ pprof = "starting" /\ pprof' = "up" /\ UNCHANGED errors
     \/ pprof \in {"starting", "up"} /\ errors' = errors + 1 /\ UNCHANGED pprof
  /\ UNCHANGED <<cmd, cfg, pc, exit, signalled, open, public, left, spent, traffic, rows>>

ListenPprof ==
  /\ \/ pprof = "starting" /\ pprof' = "up" /\ UNCHANGED errors
     \/ pprof \in {"starting", "up"} /\ pprof' = "failed" /\ errors' = errors + 1
  /\ UNCHANGED <<cmd, cfg, pc, exit, signalled, open, public, left, spent, traffic, rows>>

\* The select of Run: an error of either server returns at once, without a
\* shutdown; a cancelled context starts one, which closes pprof's listener first.
ServerFailed ==
  /\ pc = "serving" /\ errors > 0 /\ Return("error")
  /\ errors' = errors - 1
  /\ UNCHANGED <<cmd, cfg, signalled, open, public, pprof, left, spent, age, rows>>

\* Variant: a timeout that is not set leaves no time at all.
BeginShutdownNoDefault ==
  /\ pc = "serving" /\ signalled /\ Goto("drain pprof")
  /\ left' = IF cfg.shutdown_timeout < 0 THEN 0 ELSE cfg.shutdown_timeout
  /\ pprof' = IF pprof = "off" THEN "off" ELSE "closed"
  /\ UNCHANGED <<cmd, cfg, signalled, open, public, errors, spent, age, rows>>

BeginShutdown ==
  /\ pc = "serving" /\ signalled /\ Goto("drain pprof")
  /\ left' = Timeout
  /\ pprof' = IF pprof = "off" THEN "off" ELSE "closed"
  /\ UNCHANGED <<cmd, cfg, signalled, open, public, errors, spent, age, rows>>

\* pprof.Shutdown returns when its requests are done or the time is over; only
\* then does public.Shutdown close the public listener.
DrainPprof ==
  /\ pc = "drain pprof" /\ Goto("drain public")
  /\ Running(Profiles) = {} \/ left = 0
  /\ public' = "closed"
  /\ UNCHANGED <<cmd, cfg, signalled, open, pprof, errors, left, spent, age, rows>>

\* Variant: shutdown returns without waiting for requests in flight.
DrainPublicAtOnce ==
  /\ pc = "drain public" /\ Return("ok")
  /\ UNCHANGED <<cmd, cfg, signalled, open, servers, left, spent, age, rows>>

\* Variant: public.Shutdown is given a context without a deadline.
DrainPublicForever ==
  /\ pc = "drain public" /\ Running(Requests) = {} /\ Return("ok")
  /\ UNCHANGED <<cmd, cfg, signalled, open, servers, left, spent, age, rows>>

\* public.Shutdown, with what is left of the same time.
DrainPublic ==
  /\ pc = "drain public"
  /\ \/ Running(Requests) = {} /\ Return("ok")
     \/ Running(Requests) # {} /\ left = 0 /\ Return("deadline")
  /\ UNCHANGED <<cmd, cfg, signalled, open, servers, left, spent, age, rows>>

\* App.Close, in reverse order of opening.  pool.Close refuses new connections
\* and waits for the ones in use; then the process ends.
CloseRedis ==
  /\ pc = "close redis" /\ Goto("close pool")
  /\ open' = open \ {"redis"}
  /\ UNCHANGED <<cmd, cfg, signalled, servers, left, spent, age, rows>>

ClosePool ==
  /\ pc = "close pool" /\ holding = {} /\ Exit(exit)
  /\ open' = open \ {"pool"}
  /\ UNCHANGED <<cmd, cfg, signalled, servers, left, spent, age, rows>>

Serve == ServerFailed \/ BeginShutdown \/ DrainPprof \/ DrainPublic
Close == CloseRedis \/ ClosePool
Main == Build \/ Seed \/ RunScheduler \/ Serve \/ Close

-----------------------------------------------------------------------------
(* Requests, the outside and time. *)

Accept(r) ==
  /\ pc # "exited" /\ flight[r] = "none"
  /\ IF r \in Requests THEN public = "up" ELSE pprof = "up"
  /\ flight' = [flight EXCEPT ![r] = "running"]
  /\ age' = [age EXCEPT ![r] = 0]
  /\ UNCHANGED <<cmd, cfg, pc, exit, signalled, open, servers, left, spent, holding, rows>>

\* A handler takes a connection for a query or a transaction, and gives it back.
Acquire(r) ==
  /\ flight[r] = "running" /\ r \notin holding
  /\ "pool" \in open /\ pc # "close pool"
  /\ holding' = holding \cup {r}
  /\ UNCHANGED <<cmd, cfg, pc, exit, signalled, open, servers, left, spent, flight, age, rows>>

Release(r) ==
  /\ r \in holding
  /\ holding' = holding \ {r}
  /\ UNCHANGED <<cmd, cfg, pc, exit, signalled, open, servers, left, spent, flight, age, rows>>

Answer(r) ==
  /\ flight[r] = "running" /\ r \notin holding
  /\ flight' = [flight EXCEPT ![r] = "none"]
  /\ UNCHANGED <<cmd, cfg, pc, exit, signalled, open, servers, left, spent, holding, age, rows>>

\* A request meets a client that is closed, or a pool that is closing.
Break(r) ==
  /\ flight[r] = "running" /\ r \notin holding
  /\ open # Clients \/ pc = "close pool"
  /\ flight' = [flight EXCEPT ![r] = "cut"]
  /\ UNCHANGED <<cmd, cfg, pc, exit, signalled, open, servers, left, spent, holding, age, rows>>

Traffic ==
  \/ \E r \in All : Accept(r) \/ Answer(r)
  \/ \E r \in Requests : Acquire(r) \/ Release(r) \/ Break(r)

Signal ==
  /\ ~signalled /\ pc # "exited"
  /\ signalled' = TRUE
  /\ UNCHANGED <<cmd, cfg, pc, exit, open, servers, left, spent, traffic, rows>>

\* SIGKILL, or a crash.
Kill ==
  /\ pc # "exited" /\ Exit("killed")
  /\ UNCHANGED <<cmd, cfg, signalled, open, servers, left, spent, age, rows>>

\* Main waits: for a signal or an error, for requests, or for connections.
\* Where it does not, it moves before time passes.
Waiting ==
  \/ pc = "serving" /\ ~signalled /\ errors = 0
  \/ pc = "drain pprof" /\ left > 0 /\ Running(Profiles) # {}
  \/ pc = "drain public" /\ left > 0 /\ Running(Requests) # {}
  \/ pc = "close pool" /\ holding # {}

Tick ==
  /\ Waiting
  /\ left' = IF left > 0 THEN left - 1 ELSE 0
  /\ spent' = IF pc = "drain pprof" THEN spent + 1 ELSE spent
  /\ age' = [r \in All |-> IF flight[r] = "running" /\ age[r] < MaxAge
                           THEN age[r] + 1 ELSE age[r]]
  /\ UNCHANGED <<cmd, cfg, pc, exit, signalled, open, servers, flight, holding, rows>>

Next == Main \/ ListenPublic \/ ListenPprof \/ Traffic \/ Signal \/ Kill \/ OtherSeed \/ Tick

Spec == Init /\ [][Next]_vars

\* Main is scheduled, time passes, and a connection comes back: statement_timeout
\* and idle_in_transaction_session_timeout bound how long a handler keeps one.
\* Nothing makes a handler, or a profile, end.
Fairness ==
  /\ WF_vars(Main) /\ WF_vars(Tick)
  /\ \A r \in Requests : WF_vars(Release(r))

FairSpec == Spec /\ Fairness

-----------------------------------------------------------------------------
(* Properties. *)

\* What runs is configured as the other parts assume: the session lifetimes of
\* SessionAssumption, a key the cipher accepts, scopes to ask for, and Argon2
\* parameters that are in range after their narrowing to 8 and 32 bits (Load,
\* Validate), whatever the layers say.
WellConfigured ==
  pc \notin {"load", "exited"} =>
    /\ cfg.session_ttl > 0 /\ cfg.absolute_ttl >= cfg.session_ttl
    /\ cfg.token_key = AesKeyBytes
    /\ cfg.parallelism \in 1..255 /\ cfg.iterations \in 1..(Uint32 - 1)
    /\ cfg.memory \in MinArgon2MemoryKiB..(Uint32 - 1)
    /\ cfg.key_length \in MinArgon2KeyLength..(Uint32 - 1)
    /\ cfg.redirect_uri # "" /\ cfg.scopes # <<>>

\* "then drains in-flight requests" (server.go): when a server returns without an
\* error, every public request it accepted has been answered, although Close
\* follows and takes the clients away from under whatever is still running.
CleanDrain == exit = "ok" => \A r \in Requests : flight[r] # "running" /\ flight[r] # "cut"

\* "... within the configured shutdown timeout": a shutdown cuts off only requests that
\* had the whole of it, but for what was spent on requests of pprof before the public
\* listener closed: one accepted meanwhile is cut that much earlier (shutdown).
PatientDrain ==
  exit = "deadline" =>
    \A r \in Requests : flight[r] = "cut" => age[r] + spent >= Timeout

\* A seed that reports success has left a user who can log in, whatever another
\* seed did at the same time (Seed).
Seeded == cmd = "seed" /\ exit = "ok" => {"tenant", "user"} \subseteq rows

\* A signalled process ends, although handlers and profiles may run for ever
\* (shutdown's timeout, then Close).
Stops == signalled ~> pc = "exited"
=============================================================================
