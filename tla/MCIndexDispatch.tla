-------------------------- MODULE MCIndexDispatch --------------------------
(* Instances of IndexDispatch for TLC.                                     *)
EXTENDS IndexDispatch, TLC

CONSTANTS w1, w2, j1, j2

Symmetry == Permutations({w1, w2}) \cup Permutations({j1, j2})

(* Bounds: two attempts, of one job or of two; only one of these at a time:*)
(* both jobs have an attempt, the job or the build was withdrawn, a worker *)
(* counts a lease as over that is not; at most two requests in flight, and *)
(* a failure report alone.                                                 *)
BothJobs  == \A j \in Jobs : dc[j].n > 0
Withdrawn == rtw.state = "CANCELLED" \/ \E j \in Jobs : dc[j].state = "cancelled"
TwoAttempts ==
  /\ dc[j1].n + dc[j2].n <= 2
  /\ ~(BothJobs /\ Withdrawn) /\ ~(BothJobs /\ ending # {}) /\ ~(Withdrawn /\ ending # {})
  /\ Cardinality(wire) <= 2
  /\ \A m \in wire : m.to = "fail" => wire = {m}

=============================================================================
