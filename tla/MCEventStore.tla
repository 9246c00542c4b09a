---------------------------- MODULE MCEventStore ----------------------------
(***************************************************************************)
(* EventStore with two leased workers and one operator on one instance.    *)
(***************************************************************************)
EXTENDS EventStore, TLC

Symmetry == Permutations(Workers) \cup Permutations(Operators) \cup Permutations(Steps)
=============================================================================
