----------------------------- MODULE MCEioGroup -----------------------------
(***************************************************************************)
(* Instances of EioGroup for TLC.                                          *)
(***************************************************************************)
EXTENDS EioGroupProps, TLC

CONSTANTS g1, g2, r1, r2, r3

\* A negative limit is converted to an unsigned one.
Unlimited == {-1, 1}

Symmetry == Permutations(Groups) \cup Permutations(Plain)
=============================================================================
