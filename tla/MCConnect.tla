----------------------------- MODULE MCConnect -----------------------------
(* Instances of Connect for TLC. *)
EXTENDS Connect, TLC

\* Users, states, codes and callbacks are interchangeable among themselves.
Symmetry ==
  Permutations(Users) \cup Permutations(States) \cup Permutations(Codes)
    \cup Permutations(Callbacks)
=============================================================================
