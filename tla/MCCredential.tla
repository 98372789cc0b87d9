---------------------------- MODULE MCCredential ----------------------------
(* Instances of Credential for TLC. *)
EXTENDS Credential, TLC

\* Token pairs, sites and requests are interchangeable among themselves.
Symmetry == Permutations(Tokens) \cup Permutations(Sites) \cup Permutations(Requests)
=============================================================================
