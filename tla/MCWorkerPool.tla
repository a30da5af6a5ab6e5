---------------------------- MODULE MCWorkerPool ----------------------------
(***************************************************************************)
(* A pool of two goroutines and a few calls for TLC.                       *)
(***************************************************************************)
EXTENDS WorkerPool

CONSTANTS w1, w2, r1, b1
=============================================================================
