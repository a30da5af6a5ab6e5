----------------------------- MODULE UserServing -----------------------------
(***************************************************************************)
(* From the accepted facts of one subject to the representation served for *)
(* it: the ontology projection, the feature baseline and snapshot, the     *)
(* bundles and the pointer that selects one (package usermodel of the      *)
(* async domain: ontology_store.go, features_store.go, serving.go).        *)
(*                                                                         *)
(* Every procedure reads in one or several short transactions, computes or *)
(* calls out, and writes in a last transaction that locks the subject and  *)
(* looks again at the versions it built on.  A step here is one such       *)
(* transaction or call, so that facts are accepted, time passes and others *)
(* write between any two of them.  A call that fails leaves no trace.      *)
(*                                                                         *)
(* The facts come from FactLedger, of which log is the part needed: the    *)
(* accepted facts in the order of their versions, with the time of the     *)
(* outbox row.  All facts are of the kind the features select.             *)
(***************************************************************************)
EXTENDS Naturals, Sequences, FiniteSetsExt

CONSTANTS
  Workers,
  Facts,      \* what can be accepted: [at, seen, delay, seq, retract]
  Specs,      \* feature specs: [window, rule], a window of 0 is none
  Windows,    \* of the relation of an ontology definition
  Pairs,      \* [name, spec]: an encoder and the spec it was trained on
  Horizon, Lag, CutLag, MaxFacts, MaxDefinitions, MaxRevision, MaxGrant, MaxPointer, MaxCalls, \* bounds
  Never,      \* a time after all others: the NULL of next_change_at
  None

ASSUME ServingAssumption ==
  /\ \A f \in Facts : f.at \in Nat /\ f.seen \in Nat /\ f.delay \in Nat /\ f.seq \in Nat /\ f.retract \in BOOLEAN
  /\ \A s \in Specs : s.window \in Nat /\ s.rule \in BOOLEAN
  /\ \A p \in Pairs : p.spec \in Specs
  /\ Windows \subseteq Nat
  /\ {Lag, CutLag, MaxFacts, MaxDefinitions, MaxRevision, MaxGrant, MaxPointer, MaxCalls} \subseteq Nat
  /\ Horizon \in Nat \ {0} /\ Never \in Nat /\ Never > Horizon

(* The rows of usermodel_feature_baselines; a NULL is none of them.        *)
Baselines == [revision : Nat, spec : Specs, asOf : Nat, available : Nat,
              mark : Nat, facts : SUBSET Nat]
ASSUME NullAssumption == None \notin Baselines

VARIABLES
  now,
  log,          \* accepted facts; its length is the subject's state version
  definitions,  \* the windows of the published ontology definitions
  projection,   \* usermodel_ontology_projections
  baseline,     \* the baseline the head points at
  snapshot,     \* usermodel_feature_snapshots
  bundles,      \* usermodel_serving_bundles
  pointers,     \* pair -> usermodel_serving_pointers
  grants,       \* pair -> recommend's approval of it (external)
  task,         \* each worker's call in progress
  calls         \* calls so far
vars == <<now, log, definitions, projection, baseline, snapshot, bundles, pointers,
          grants, task, calls>>

Sources == <<log, definitions, grants>>
Rows    == <<projection, baseline, snapshot, bundles, pointers>>
Idle    == [pc |-> "idle"]

-------------------------------------------------------------------------------
(* The ledger as the feature code reads it.                                *)

Eligible(l, asOf, available) ==
  {i \in DOMAIN l : l[i].at <= asOf /\ l[i].seen <= available /\ l[i].created <= available}
Active(l, asOf, available) ==
  LET S == Eligible(l, asOf, available)
  IN  {i \in S : ~l[i].retract /\ \A j \in S : l[j].old # i}

(* Faulty variant: gaps are covered as well.                               *)
HighestSeen(l, asOf, available) ==
  Max({0} \cup {l[i].seq : i \in Eligible(l, asOf, available)})

Contiguous(l, asOf, available) ==
  LET seqs == {l[i].seq : i \in Eligible(l, asOf, available)}
  IN  Max({n \in 0..Len(l) : 1..n \subseteq seqs})

(* futureAcceptedChangeAt: when facts accepted already come to count.      *)
FutureChanges(l, asOf, available) ==
  {Max({l[i].at, l[i].seen, l[i].created}) : i \in DOMAIN l \ Eligible(l, asOf, available)}

Soonest(times) == Min(times \cup {Never})

InWindow(l, i, window, asOf) == window = 0 \/ l[i].at + window > asOf

(* featureValues: the facts a count or a latest value is taken from.       *)
Values(l, facts, window, asOf) == {i \in facts : InWindow(l, i, window, asOf)}

(* Faulty variant: what has just expired is still waited for.              *)
ExpiriesTooEarly(l, facts, window, asOf) ==
  IF window = 0 THEN {}
  ELSE {l[i].at + window : i \in {j \in facts : l[j].at + window >= asOf}}

Expiries(l, facts, window, asOf) ==
  IF window = 0 THEN {}
  ELSE {l[i].at + window : i \in {j \in facts : l[j].at + window > asOf}}

(* Store.Current: the active facts of the ledger, whatever their times.    *)
Current(l) == {i \in DOMAIN l : ~l[i].retract /\ \A j \in DOMAIN l : l[j].old # i}

(* BuildOntologyProjection: the evidence of the relation's edges and the   *)
(* time one of them appears or expires.                                    *)
Edges(l, window, asOf) ==
  Values(l, {i \in Current(l) : l[i].at <= asOf}, window, asOf)
BuildOntologyProjection(l, version, asOf) ==
  LET window == definitions[version]
      edges  == Edges(l, window, asOf)
  IN  [definition |-> version, state |-> Len(l), asOf |-> asOf, edges |-> edges,
       next |-> Soonest({l[i].at : i \in {j \in Current(l) : l[j].at > asOf}}
                          \cup Expiries(l, edges, window, asOf))]

ReadyProjection(asOf) ==
  /\ projection # None
  /\ projection.definition = Len(definitions)
  /\ projection.state = Len(log)
  /\ projection.asOf <= asOf
  /\ asOf < projection.next

-------------------------------------------------------------------------------
(* Feature snapshots.                                                      *)

Covered(l, i, mark) == l[i].seq \in 1..mark

(* validateFeatureCoverage: the warehouse counted just the accepted facts  *)
(* at its own cutoff that its watermark covers.                            *)
CoverageIsValid(b, l) ==
  /\ b.mark <= Contiguous(l, b.asOf, b.available)
  /\ b.facts = {i \in Active(l, b.asOf, b.available) : Covered(l, i, b.mark)}

Merges(b, spec, l, asOf, available) ==
  b # None =>
    /\ b.spec = spec /\ b.asOf <= asOf /\ b.available <= available
    /\ b.mark <= Contiguous(l, asOf, available)
    /\ \A i \in Active(l, asOf, available) : (i \in b.facts) <=> Covered(l, i, b.mark)

(* mergeFeatureSnapshot, when it succeeds, and setFutureFeatureChange.     *)
Merge(b, spec, l, onto, asOf, available) ==
  LET facts == Active(l, asOf, available) IN
  [spec |-> spec, state |-> Len(l), asOf |-> asOf, available |-> available,
   revision |-> IF b = None THEN 0 ELSE b.revision,
   values   |-> Values(l, facts, spec.window, asOf),
   ontology |-> IF spec.rule THEN onto.definition ELSE 0,
   derived  |-> IF spec.rule THEN onto.edges ELSE {},
   next     |-> Soonest(Expiries(l, facts, spec.window, asOf)
                          \cup (IF spec.rule THEN {onto.next} ELSE {})
                          \cup FutureChanges(l, asOf, available))]

HeadRevision == IF baseline = None THEN 0 ELSE baseline.revision

(* Faulty variant: the time of the next change is not looked at.           *)
ReadyWithoutTime(snap) ==
  /\ snap # None /\ snap.state = Len(log) /\ snap.revision = HeadRevision
  /\ snap.ontology # 0 => snap.ontology = Len(definitions)

(* ReadyFeatureSnapshot, currentFeatureTx.                                 *)
Ready(snap) ==
  /\ snap # None
  /\ snap.state = Len(log)
  /\ snap.revision = HeadRevision
  /\ snap.ontology # 0 => snap.ontology = Len(definitions)
  /\ now < snap.next

(* saveFeatureSnapshot: the time a snapshot was available does not rewind. *)
MaySave(snap) == snapshot = None \/ snapshot.available <= snap.available

-------------------------------------------------------------------------------
Init ==
  /\ now = 1
  /\ log = <<>> /\ definitions = <<>>
  /\ projection = None /\ baseline = None /\ snapshot = None
  /\ bundles = {}
  /\ pointers = [p \in Pairs |-> None]
  /\ grants = [p \in Pairs |-> [revision |-> 0, active |-> FALSE]]
  /\ task = [w \in Workers |-> Idle]
  /\ calls = 0

Tick ==
  /\ now < Horizon
  /\ now' = now + 1
  /\ UNCHANGED <<Sources, Rows, task, calls>>

Recently(lag) == {t \in 1..now : t + lag >= now}

(* FactLedger accepts a fact, in sequence or without a position; it may    *)
(* correct or retract one that has no successor.  Its outbox row carries   *)
(* the time its transaction began.                                         *)
Accept ==
  /\ Len(log) < MaxFacts
  /\ \E f \in Facts, old \in 0..Len(log) :
       /\ f.delay < now
       /\ f.seq # 0 => \A i \in DOMAIN log : log[i].seq # f.seq
       /\ old # 0 => \A i \in DOMAIN log : log[i].old # old
       /\ f.retract => old # 0
       /\ log' = Append(log, [at |-> f.at, seen |-> f.seen, retract |-> f.retract,
                              created |-> now - f.delay, seq |-> f.seq, old |-> old])
  /\ UNCHANGED <<now, definitions, grants, Rows, task, calls>>

(* PublishOntology, with the head its caller expects.                      *)
PublishOntology ==
  /\ Len(definitions) < MaxDefinitions
  /\ \E window \in Windows : definitions' = Append(definitions, window)
  /\ UNCHANGED <<now, log, grants, Rows, task, calls>>

(* Recommend approves a pair, or takes the approval back (external).       *)
Decide ==
  /\ \E p \in Pairs :
       /\ grants[p].revision < MaxGrant
       /\ grants' = [grants EXCEPT ![p].revision = @ + 1, ![p].active = ~@]
  /\ UNCHANGED <<now, log, definitions, Rows, task, calls>>

Begin(w, call) ==
  /\ task[w] = Idle /\ calls < MaxCalls
  /\ task' = [task EXCEPT ![w] = call]
  /\ calls' = calls + 1
Continue(w, call) ==
  /\ task' = [task EXCEPT ![w] = call]
  /\ UNCHANGED calls
Return(w) == Continue(w, Idle)

-------------------------------------------------------------------------------
(* RebuildOntology: the facts are read first, then the definition and the  *)
(* subject are locked and the version of the facts is compared.  Bound: no *)
(* caller asks for a time to come, which the code does not refuse.         *)
StartRebuild(w) ==
  /\ log # <<>>
  /\ \E asOf \in Recently(CutLag) :
       Begin(w, [pc |-> "rebuild", asOf |-> asOf, log |-> log])
  /\ UNCHANGED <<now, Sources, Rows>>

(* Faulty variant: facts accepted meanwhile go unnoticed.                  *)
RebuildUnfenced(w) ==
  /\ task[w].pc = "rebuild"
  /\ LET t == task[w] IN
     projection' =
       IF definitions # <<>> /\ (projection = None \/ projection.asOf <= t.asOf)
       THEN [BuildOntologyProjection(t.log, Len(definitions), t.asOf)
               EXCEPT !.state = Len(log)]
       ELSE projection
  /\ Return(w)
  /\ UNCHANGED <<now, Sources, baseline, snapshot, bundles, pointers>>

FinishRebuild(w) ==
  /\ task[w].pc = "rebuild"
  /\ LET t == task[w]
         ok == /\ definitions # <<>> /\ t.log = log
               /\ projection = None \/ projection.asOf <= t.asOf
     IN  projection' = IF ok THEN BuildOntologyProjection(log, Len(definitions), t.asOf)
                       ELSE projection
  /\ Return(w)
  /\ UNCHANGED <<now, Sources, baseline, snapshot, bundles, pointers>>

-------------------------------------------------------------------------------
(* RefreshFeatureSnapshot and AcceptFeatureBaseline.                       *)

Build(pc, spec, asOf, available, b, accept) ==
  [pc |-> pc, spec |-> spec, asOf |-> asOf, available |-> available,
   base |-> b, accept |-> accept, log |-> <<>>, onto |-> None]

(* activeFeatureBaseline.                                                  *)
StartRefresh(w) ==
  /\ \E spec \in Specs, available \in Recently(CutLag) :
       \E asOf \in Recently(CutLag) \cap 1..available :
         Begin(w, Build("read", spec, asOf, available, baseline, FALSE))
  /\ UNCHANGED <<now, Sources, Rows>>

(* A warehouse generation: what it read of the ledger, perhaps a while ago *)
(* (the first n facts), up to its watermark.  validateFeatureCoverage      *)
(* compares it with the ledger at its cutoff.  Bounds: what happened and   *)
(* what was known are cut at one time, the snapshot is asked for now, and  *)
(* a revision is the head's or the next one.                               *)
StartAccept(w) ==
  /\ task[w] = Idle /\ log # <<>>
  /\ \E spec \in Specs, cut \in Recently(Lag), n \in 0..Len(log) :
       \E mark \in 0..MaxFacts, revision \in {HeadRevision, HeadRevision + 1} :
         LET read == SubSeq(log, 1, n)
             b == [revision |-> revision, spec |-> spec, asOf |-> cut, available |-> cut,
                   mark |-> mark,
                   facts |-> {i \in Active(read, cut, cut) : Covered(read, i, mark)}]
         IN  /\ revision \in 1..MaxRevision
             /\ CoverageIsValid(b, log)
             /\ Begin(w, Build("read", spec, now, now, b, TRUE))
  /\ UNCHANGED <<now, Sources, Rows>>

(* featureStateAt.                                                         *)
ReadState(w) ==
  /\ task[w].pc = "read"
  /\ IF log = <<>> THEN Return(w)
     ELSE Continue(w, [task[w] EXCEPT !.pc = "ontology", !.log = log])
  /\ UNCHANGED <<now, Sources, Rows>>

(* featureOntology, mergeFeatureSnapshot.                                  *)
ReadOntology(w) ==
  /\ task[w].pc = "ontology"
  /\ LET t  == task[w]
         ok == /\ t.spec.rule => ReadyProjection(t.asOf) /\ projection.state = Len(t.log)
               /\ Merges(t.base, t.spec, t.log, t.asOf, t.available)
     IN  IF ok THEN Continue(w, [t EXCEPT !.pc = "future", !.onto = projection])
         ELSE Return(w)
  /\ UNCHANGED <<now, Sources, Rows>>

(* setFutureFeatureChange looks at the ledger again.                       *)
ReadFuture(w) ==
  /\ task[w].pc = "future"
  /\ LET t    == task[w]
         snap == Merge(t.base, t.spec, t.log, t.onto, t.asOf, t.available)
         next == Min({snap.next} \cup FutureChanges(log, t.asOf, t.available))
     IN  Continue(w, [pc |-> "save", base |-> t.base, accept |-> t.accept,
                      snap |-> [snap EXCEPT !.next = next]])
  /\ UNCHANGED <<now, Sources, Rows>>

HeadIsStill(b) == HeadRevision = IF b = None THEN 0 ELSE b.revision

(* A new head follows the old one and covers what it covered.              *)
Advances(b) ==
  /\ b.revision = HeadRevision + 1
  /\ baseline # None =>
       /\ b.mark >= baseline.mark
       /\ b.asOf >= baseline.asOf /\ b.available >= baseline.available

SaveRefreshed(w) ==
  /\ task[w].pc = "save" /\ ~task[w].accept
  /\ LET t == task[w] IN
     snapshot' = IF t.snap.state = Len(log) /\ HeadIsStill(t.base) /\ MaySave(t.snap)
                 THEN t.snap ELSE snapshot
  /\ Return(w)
  /\ UNCHANGED <<now, Sources, projection, baseline, bundles, pointers>>

SaveAccepted(w) ==
  /\ task[w].pc = "save" /\ task[w].accept
  /\ LET t  == task[w]
         ok == /\ t.snap.state = Len(log)
               /\ t.base = baseline \/ Advances(t.base)
               /\ MaySave(t.snap)
     IN  /\ snapshot' = IF ok THEN t.snap ELSE snapshot
         /\ baseline' = IF ok THEN t.base ELSE baseline
  /\ Return(w)
  /\ UNCHANGED <<now, Sources, projection, bundles, pointers>>

-------------------------------------------------------------------------------
(* BuildServingBundle: the encoder is called between the read and the      *)
(* transaction, which insists on the very same snapshot.                   *)
StartEncode(w) ==
  /\ Ready(snapshot)
  /\ \E p \in Pairs : /\ p.spec = snapshot.spec
                      /\ Begin(w, [pc |-> "encode", pair |-> p, snap |-> snapshot])
  /\ UNCHANGED <<now, Sources, Rows>>

SaveBundle(w) ==
  /\ task[w].pc = "encode"
  /\ LET t == task[w] IN
     bundles' = IF Ready(snapshot) /\ snapshot = t.snap
                THEN bundles \cup {[pair |-> t.pair, snap |-> t.snap]} ELSE bundles
  /\ Return(w)
  /\ UNCHANGED <<now, Sources, projection, baseline, snapshot, pointers>>

PointerVersion(p) == IF pointers[p] = None THEN 0 ELSE pointers[p].version

(* ActivateServingBundle asks recommend first.  The version of the pointer *)
(* the caller expects is its own knowledge.                                *)
StartActivate(w) ==
  /\ \E p \in Pairs, b \in bundles, expected \in 0..MaxPointer :
       /\ grants[p].active
       /\ Begin(w, [pc |-> "activate", pair |-> p, bundle |-> b, expected |-> expected,
                    approval |-> grants[p].revision])
  /\ UNCHANGED <<now, Sources, Rows>>

(* Faulty variant: an older approval may replace a newer one.              *)
MayActivateUnordered(t) ==
  /\ Ready(snapshot)
  /\ t.bundle = [pair |-> t.pair, snap |-> snapshot]
  /\ PointerVersion(t.pair) = t.expected

MayActivate(t) ==
  /\ Ready(snapshot)
  /\ t.bundle = [pair |-> t.pair, snap |-> snapshot]
  /\ PointerVersion(t.pair) = t.expected
  /\ pointers[t.pair] # None => t.approval >= pointers[t.pair].approval

FinishActivate(w) ==
  /\ task[w].pc = "activate"
  /\ LET t == task[w] IN
     pointers' = IF MayActivate(t) /\ t.expected < MaxPointer
                 THEN [pointers EXCEPT ![t.pair] =
                         [bundle |-> t.bundle, state |-> "active", approval |-> t.approval,
                          version |-> t.expected + 1]]
                 ELSE pointers
  /\ Return(w)
  /\ UNCHANGED <<now, Sources, projection, baseline, snapshot, bundles>>

(* DisableServingBundle is one transaction.                                *)
Disable ==
  /\ \E p \in Pairs :
       /\ pointers[p] # None /\ pointers[p].state = "active"
       /\ pointers[p].version < MaxPointer
       /\ pointers' = [pointers EXCEPT ![p].state = "disabled", ![p].version = @ + 1]
  /\ UNCHANGED <<now, Sources, projection, baseline, snapshot, bundles, task, calls>>

(* Faulty variant: the pointer alone decides.                              *)
ServedByPointer(p) ==
  /\ pointers[p] # None /\ pointers[p].state = "active"
  /\ pointers[p].bundle.pair = p

(* ReadyServingBundle.                                                     *)
Served(p) ==
  /\ Ready(snapshot)
  /\ pointers[p] # None /\ pointers[p].state = "active"
  /\ pointers[p].bundle.pair = p
  /\ pointers[p].bundle.snap = snapshot

-------------------------------------------------------------------------------
Step(w) ==
  \/ StartRebuild(w) \/ FinishRebuild(w)
  \/ StartRefresh(w) \/ StartAccept(w) \/ ReadState(w) \/ ReadOntology(w) \/ ReadFuture(w)
  \/ SaveRefreshed(w) \/ SaveAccepted(w)
  \/ StartEncode(w) \/ SaveBundle(w)
  \/ StartActivate(w) \/ FinishActivate(w)

Next == Tick \/ Accept \/ PublishOntology \/ Decide \/ Disable \/ \E w \in Workers : Step(w)
Spec == Init /\ [][Next]_vars

-------------------------------------------------------------------------------
(* Versions, revisions and times are in range and in order: a snapshot is  *)
(* built for a cutoff that had come, from facts there were, and changes    *)
(* after it.                                                               *)
TypeOK ==
  /\ now \in 1..Horizon /\ calls \in 0..MaxCalls
  /\ Len(log) <= MaxFacts
  /\ \A i \in DOMAIN log : /\ log[i].old \in 0..(i - 1) /\ log[i].created \in 1..now
                           /\ log[i].seq \in Nat
  /\ \A i \in DOMAIN definitions : definitions[i] \in Windows
  /\ projection # None =>
       /\ projection.definition \in 1..Len(definitions) /\ projection.state \in 1..Len(log)
       /\ projection.asOf \in 1..now /\ projection.next > projection.asOf
  /\ baseline # None =>
       /\ baseline.revision \in 1..MaxRevision /\ baseline.mark \in 0..Len(log)
       /\ baseline.asOf \in 1..baseline.available /\ baseline.available \in 1..now
  /\ snapshot # None =>
       /\ snapshot.spec \in Specs /\ snapshot.state \in 1..Len(log)
       /\ snapshot.asOf \in 1..snapshot.available /\ snapshot.available \in 1..now
       /\ snapshot.revision \in 0..HeadRevision /\ snapshot.next > snapshot.asOf
  /\ \A b \in bundles : b.pair.spec = b.snap.spec
  /\ \A p \in Pairs : pointers[p] # None => /\ pointers[p].bundle \in bundles
                                            /\ pointers[p].approval \in 1..grants[p].revision

(* What would be computed now, from all that has been accepted and         *)
(* published.                                                              *)
Fresh(snap) ==
  /\ snap.values = Values(log, Active(log, now, now), snap.spec.window, now)
  /\ snap.spec.rule => snap.derived = Edges(log, definitions[Len(definitions)], now)

(* What ReadyFeatureSnapshot hands out as current is that, although it was *)
(* computed for an earlier cutoff in several transactions.                 *)
ReadyIsCurrent == Ready(snapshot) => Fresh(snapshot)

(* The representation ReadyServingBundle hands out for a pair was encoded  *)
(* from such features, by the spec the encoder was trained on.             *)
ServedIsCurrent ==
  \A p \in Pairs : Served(p) => /\ Fresh(pointers[p].bundle.snap)
                                /\ pointers[p].bundle.snap.spec = p.spec

(* A snapshot was taken of one state of the ledger and one definition: the *)
(* facts, the ontology and the versions it names belong together.          *)
OneState(snap) ==
  LET l == SubSeq(log, 1, snap.state) IN
  /\ snap.values = Values(l, Active(l, snap.asOf, snap.available), snap.spec.window, snap.asOf)
  /\ snap.spec.rule => snap.derived = Edges(l, definitions[snap.ontology], snap.asOf)
SnapshotIsOneState ==
  /\ snapshot # None => OneState(snapshot)
  /\ \A b \in bundles : OneState(b.snap)

(* Whatever is corrected, withdrawn, late or promoted after a baseline was *)
(* accepted, a snapshot can be built on that baseline now: it never        *)
(* misses a fact that its watermark covers.                                *)
CanAlwaysRebuild ==
  baseline # None => Merges(baseline, baseline.spec, log, now, now)

(* A pointer moves one version at a time and never back to an approval     *)
(* older than the one it was last activated under.                         *)
PointersMoveForward ==
  [][\A p \in Pairs : pointers'[p] # pointers[p] =>
       /\ pointers'[p].version = PointerVersion(p) + 1
       /\ pointers[p] # None => pointers'[p].approval >= pointers[p].approval]_vars
=============================================================================
