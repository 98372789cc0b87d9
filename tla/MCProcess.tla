----------------------------- MODULE MCProcess -----------------------------
(* An instance of Process: the layers that tell the checks apart. *)
EXTENDS Process, TLC

Deployed == [postgres_user |-> "app", postgres_db |-> "app", token_key |-> 32,
             redirect_uri |-> "http://localhost/callback"]

MCFiles == {Deployed, Deployed @@ [pprof |-> FALSE, scopes |-> List(<<NotString, "read">>)],
            [redirect_uri |-> ""] @@ Deployed, [scopes |-> Text(<<"read", "">>)] @@ Deployed}

MCEnvs ==
  {<<>>, [shutdown_timeout |-> 0], [shutdown_timeout |-> 1], [scheduler_tick |-> 0],
   [parallelism |-> 256], [parallelism |-> 257], [session_ttl |-> 200],
   [token_key |-> NotBase64], [scopes |-> Text(<<"", "">>)], [memory |-> Uint32 + 1],
   [iterations |-> -1]}

MCSymmetry == Permutations(Requests)
=============================================================================
