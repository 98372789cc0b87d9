----------------------------- MODULE MCGateway -----------------------------
(* Instances of Gateway for TLC. *)
EXTENDS Gateway, TLC

\* Session ids are interchangeable, and so are the tabs' requests.
Symmetry == Permutations(Ids) \cup Permutations(Requests)
=============================================================================
