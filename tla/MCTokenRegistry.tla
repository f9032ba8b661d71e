-------------------------- MODULE MCTokenRegistry --------------------------
(* Small instances of TokenRegistry for TLC. *)
EXTENDS TokenRegistry, TLC

RequestsOnly == Permutations(Requests)

RequestsAndNames == Permutations(Requests) \cup Permutations(Names)
=============================================================================
