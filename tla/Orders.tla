------------------------------- MODULE Orders -------------------------------
(***************************************************************************)
(* Steps are numbered in the order of their definition: a list of steps    *)
(* that the code builds by going through definition.steps is the set of    *)
(* those steps, and its order is that of the numbers.                      *)
(***************************************************************************)
EXTENDS Integers, FiniteSets

\* How many of S come before s.
Before(S, s) == Cardinality({t \in S : t < s})

\* S as a list.
InOrder(S) == [k \in 1 .. Cardinality(S) |-> CHOOSE s \in S : Before(S, s) = k - 1]

\* The first n of the list, or all of it: S[:n].
FirstOf(S, n) == {s \in S : Before(S, s) < n}
=============================================================================
