----------------------------- MODULE MCAsyncIO -----------------------------
(***************************************************************************)
(* Instances of AsyncIO for TLC.                                           *)
(***************************************************************************)
EXTENDS AsyncIOProps, TLC

CONSTANTS r1, r2, r3, t1, t2

Symmetry == Permutations(Reqs)
=============================================================================
