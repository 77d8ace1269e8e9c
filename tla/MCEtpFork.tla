----------------------------- MODULE MCEtpFork -----------------------------
(***************************************************************************)
(* Instances of EtpFork for TLC.                                           *)
(***************************************************************************)
EXTENDS EtpFork, TLC

CONSTANTS r1, r2, r3, q1, w1, w2, w3, c1, c2

Symmetry == Permutations(Workers) \cup Permutations(Reqs)
=============================================================================
