----------------------------- MODULE MCEtpPool -----------------------------
(***************************************************************************)
(* Instances of the thread pool for TLC.                                   *)
(***************************************************************************)
EXTENDS EtpPoolProps, TLC

CONSTANTS r1, r2, r3, q1, q2, w1, w2, w3, c1, c2

Symmetry == Permutations(Workers) \cup Permutations(Reqs)
=============================================================================
