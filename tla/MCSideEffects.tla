--------------------------- MODULE MCSideEffects ----------------------------
(***************************************************************************)
(* SideEffects with interchangeable workers.                               *)
(***************************************************************************)
EXTENDS SideEffects, TLC

Symmetry == Permutations(Workers)
=============================================================================
