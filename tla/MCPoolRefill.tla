---------------------------- MODULE MCPoolRefill ----------------------------
(***************************************************************************)
(* A few keys, queries and workers of the dispatcher for TLC.              *)
(***************************************************************************)
EXTENDS PoolRefill

CONSTANTS k1, k2, q1, q2, q3, w1, w2
=============================================================================
