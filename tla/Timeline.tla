------------------------------- MODULE Timeline -------------------------------
(***************************************************************************)
(* What the user fact ledger promises the readers of its outbox            *)
(* (usermodel.Store.OutboxAfter): for each subject one timeline of         *)
(* changes.  A transaction extends the timeline of one subject at its end, *)
(* by all it changed or by nothing, the state version is the length of the *)
(* timeline, and every change is on it exactly once.                       *)
(***************************************************************************)
EXTENDS Naturals, Sequences, FiniteSets

CONSTANT Subjects

VARIABLES
  timeline,   \* subject -> what each state version announced, a set of changes
  known,      \* subject -> the changes that took effect
  version     \* subject -> state_version

vars == <<timeline, known, version>>

Entries(t) == UNION {t[i] : i \in DOMAIN t}

(* With as many changes as versions, each version announces one of them.   *)
Faithful(s) ==
  /\ version[s] = Len(timeline[s])
  /\ known[s] = Entries(timeline[s])
  /\ Cardinality(known[s]) = version[s]

Init ==
  /\ timeline = [s \in Subjects |-> <<>>]
  /\ known    = [s \in Subjects |-> {}]
  /\ version  = [s \in Subjects |-> 0]

(* Only subject s changes, and its reader finds what it read before.       *)
Extend(s) ==
  /\ Len(timeline'[s]) > Len(timeline[s])
  /\ SubSeq(timeline'[s], 1, Len(timeline[s])) = timeline[s]
  /\ \A r \in Subjects \ {s} : timeline'[r] = timeline[r]
  /\ \A r \in Subjects : Faithful(r)'

Next == \E s \in Subjects : Extend(s)

Spec == Init /\ [][Next]_vars
===============================================================================
