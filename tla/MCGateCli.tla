------------------------------ MODULE MCGateCli ------------------------------
(***************************************************************************)
(* Instances of GateCli for TLC: three commands, any mix of operations and *)
(* names.                                                                  *)
(***************************************************************************)
EXTENDS GateCli, TLC

Configured == [Default EXCEPT !.ready = TRUE]

OneConfigured == {Configured}
NoneOrConfigured == {None, Configured}

\* Processes and names are only compared for equality.
Symmetric == Permutations(Procs) \cup Permutations(Names)
=============================================================================
