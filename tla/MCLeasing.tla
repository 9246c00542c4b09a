----------------------------- MODULE MCLeasing ------------------------------
(***************************************************************************)
(* Leasing on small fleets.  The instances are interchangeable, which the  *)
(* safety run uses.                                                        *)
(***************************************************************************)
EXTENDS Leasing, TLC

CONSTANT Wide  \* the workers that run two drives at a time; the others run one

Slots == [w \in Workers |-> IF w \in Wide THEN 2 ELSE 1]

Symmetry == Permutations(Instances)
=============================================================================
