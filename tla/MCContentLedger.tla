-------------------------- MODULE MCContentLedger --------------------------
(* Instances of ContentLedger for TLC.                                     *)
EXTENDS ContentLedger, FiniteSets, TLC

CONSTANTS b1, b2, i1, i2, v1, v2, a1, a2, r1, r2, h1, h2, p1

(* Two inputs that share revision v2.                                      *)
MCRevisionsOf == i1 :> {v1, v2} @@ i2 :> {v2}

Symmetry ==
  Permutations({a1, a2}) \cup Permutations({r1, r2}) \cup Permutations({h1, h2})

(* Bounds: either one build, with all attempts, epochs and leases, or both *)
(* builds by one attempt, with all that tombstones can do, or the profile. *)
OneBuild ==
  /\ state[b2] = "ABSENT"
  /\ \A r \in Revisions : tombstone[r].version <= 1
  /\ \A p \in Profiles : profile[p] = None

AttemptsUsed == {fence[b].attempt : b \in Builds} \ {None}
RefsUsed ==
  UNION {{chunks[b], result[b]} \cup {lanes[b][l] : l \in Lanes} : b \in Builds} \ {None}
OneAttempt ==
  /\ Cardinality(AttemptsUsed) <= 1 /\ Cardinality(RefsUsed) <= 1
  /\ clock <= 1
  /\ \A b \in Builds : fence[b].epoch <= 1 /\ fence[b].expiry <= 1
  /\ (\A p \in Profiles : profile[p] = None) \/ (\A r \in Revisions : tombstone[r] = NoMark)

OneBuildOrOneAttempt == OneBuild \/ OneAttempt

=============================================================================
