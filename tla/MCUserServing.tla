---------------------------- MODULE MCUserServing ----------------------------
(***************************************************************************)
(* A few facts with times before and after the moment they are accepted,   *)
(* and two specs.  One half of the behaviours is about building snapshots, *)
(* with baselines and the ontology, the other about serving one encoder    *)
(* while approvals come and go.                                            *)
(***************************************************************************)
EXTENDS UserServing, TLC

CONSTANTS w1, w2
Symmetry == Permutations(Workers)

F(at, seen, delay, seq, retract) ==
  [at |-> at, seen |-> seen, delay |-> delay, seq |-> seq, retract |-> retract]
MCFacts == {F(1, 1, 0, 1, FALSE), F(3, 1, 1, 2, FALSE), F(2, 2, 0, 0, TRUE)}

Windowed == [window |-> 2, rule |-> FALSE]
Ruled    == [window |-> 0, rule |-> TRUE]
MCSpecs  == {Windowed, Ruled}
MCPairs  == {[name |-> "tower", spec |-> Windowed]}

VARIABLE theme
MCInit == Init /\ theme \in {"ontology", "baseline", "serving"}

Building(spec, accept) ==
  \A w \in Workers : task'[w].pc \in {"read", "ontology", "future"} =>
                       task'[w].spec = spec /\ (task'[w].accept => accept)

(* Bounds of the three themes.                                             *)
Ontology ==
  /\ theme = "ontology"
  /\ Building(Ruled, FALSE)
  /\ grants' = grants /\ calls' <= 3
Baseline ==
  /\ theme = "baseline"
  /\ Building(Windowed, TRUE)
  /\ definitions' = <<>> /\ grants' = grants /\ bundles' = {} /\ calls' <= 2
Serving ==
  /\ theme = "serving"
  /\ Building(Windowed, FALSE)
  /\ definitions' = <<>> /\ Len(log') <= 1

MCNext == Next /\ (Ontology \/ Baseline \/ Serving) /\ UNCHANGED theme
MCSpec == MCInit /\ [][MCNext]_<<vars, theme>>
=============================================================================
