------------------------------- MODULE Config ------------------------------
(***************************************************************************)
(* How the service's configuration is resolved and validated: built-in     *)
(* defaults, an optional file over them, the environment over both.        *)
(*                                                                         *)
(* A layer is a function from the keys it sets to their values; an         *)
(* environment variable set to nothing counts as not set.  A value is kept *)
(* as far as a later check or step tells values apart: durations and sizes *)
(* are integers, and 0 when they cannot be read, as viper's getters return *)
(* them; an address or a name is a string of which only emptiness matters; *)
(* token_key is the number of bytes it decodes to; scopes is a text        *)
(* between commas or a list.                                               *)
(***************************************************************************)
EXTENDS Integers, Sequences

CONSTANTS
  DefaultShutdown,   \* the shutdown timeout of 15 s, in ticks
  Uint32,            \* 2^32, or a smaller number that TLC can count to
  NotString          \* an item of a list that is no string

ASSUME ConfigAssumption == DefaultShutdown \in Nat \ {0} /\ Uint32 \in Nat \ {0}

NotBase64 == -1
AesKeyBytes == 32
MinArgon2KeyLength == 16
MinArgon2MemoryKiB == 8 * 1024

\* Text has its entries between commas, trimmed.
Text(entries) == [text |-> TRUE, entries |-> entries]
List(entries) == [text |-> FALSE, entries |-> entries]

\* setDefaults; the keys it leaves out read as empty.
Defaults ==
  [ http_addr |-> ":8080", shutdown_timeout |-> DefaultShutdown, pprof |-> TRUE,
    postgres_host |-> "localhost", postgres_user |-> "", postgres_db |-> "",
    redis_addr |-> "localhost:6379", session_ttl |-> 24, absolute_ttl |-> 168,
    token_key |-> 0, memory |-> 64 * 1024, iterations |-> 3, parallelism |-> 4,
    key_length |-> 32, prefix |-> "ih_pat", redirect_uri |-> "",
    scopes |-> List(<<"read", "write", "user", "offline">>), jira_url |-> "atlassian",
    scheduler_tick |-> 10 ]

Keys == DOMAIN Defaults

\* The getters of these return a number, whatever text a layer holds; token_key
\* counts bytes.
Numbers == {"shutdown_timeout", "session_ttl", "absolute_ttl", "token_key", "memory",
            "iterations", "parallelism", "key_length", "scheduler_tick"}

IsLayer(layer) ==
  \A key \in DOMAIN layer : key \in Keys /\ (key \in Numbers => layer[key] \in Int)

\* One layer over another.
Over(layer, below) ==
  [key \in DOMAIN layer \cup DOMAIN below |->
     IF key \in DOMAIN layer THEN layer[key] ELSE below[key]]

NonBlank(entry) == entry # ""
IsString(item) == item # NotString

\* Of a text the blank entries are dropped, of a list what is no string; any other
\* value reads as the empty list.
getStringSlice(value) ==
  IF value.text THEN SelectSeq(value.entries, NonBlank)
                ELSE SelectSeq(value.entries, IsString)

\* A negative number reads as 0, a large one wraps: uint8(v.GetUint(...)) and
\* v.GetUint32(...).
Narrowed(n, modulus) == IF n < 0 THEN 0 ELSE n % modulus

\* The resolution of Load.
Resolved(file, env) ==
  [Over(env, Over(file, Defaults)) EXCEPT
     !.scopes = getStringSlice(@), !.parallelism = Narrowed(@, 256),
     !.memory = Narrowed(@, Uint32), !.iterations = Narrowed(@, Uint32),
     !.key_length = Narrowed(@, Uint32)]

\* The requirements of Validate that a configuration fails, all of them.
Problems(c) ==
  {problem \in {"addr", "postgres", "redis", "ttl", "absolute_ttl", "token_key", "memory",
                "iterations", "parallelism", "key_length", "prefix", "jira"} :
     \/ problem = "addr"         /\ c.http_addr = ""
     \/ problem = "postgres"     /\ "" \in {c.postgres_host, c.postgres_user, c.postgres_db}
     \/ problem = "redis"        /\ c.redis_addr = ""
     \/ problem = "ttl"          /\ c.session_ttl <= 0
     \/ problem = "absolute_ttl" /\ c.absolute_ttl < c.session_ttl
     \/ problem = "token_key"    /\ c.token_key # AesKeyBytes
     \/ problem = "memory"       /\ c.memory < MinArgon2MemoryKiB
     \/ problem = "iterations"   /\ c.iterations < 1
     \/ problem = "parallelism"  /\ c.parallelism < 1
     \/ problem = "key_length"   /\ c.key_length < MinArgon2KeyLength
     \/ problem = "prefix"       /\ c.prefix = ""
     \/ problem = "jira"         /\ ("" \in {c.redirect_uri, c.jira_url} \/ c.scopes = <<>>)}

Valid(c) == Problems(c) = {}
=============================================================================
