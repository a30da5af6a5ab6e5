---------------------------- MODULE MCWikiCompile ----------------------------
(***************************************************************************)
(* A few attempts of one job.                                              *)
(***************************************************************************)
EXTENDS WikiCompile, TLC

CONSTANTS c1, c2
Symmetry == Permutations(Candidates)
=============================================================================
