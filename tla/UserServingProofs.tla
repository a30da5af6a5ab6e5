-------------------------- MODULE UserServingProofs --------------------------
(***************************************************************************)
(* Proofs about UserServing, for every set of workers, facts, specs,       *)
(* windows and pairs, and every value of the bounds.                       *)
(***************************************************************************)
EXTENDS UserServing, FiniteSetTheorems, SequenceTheorems, WellFoundedInduction, TLAPS

-------------------------------------------------------------------------------
(* The inductive invariant: what the rows and the calls in progress know   *)
(* stays true of the ledger and the definitions, which only grow.          *)

Row == [at : Nat, seen : Nat, retract : BOOLEAN, created : Nat, seq : Nat, old : Nat]

(* No position of the source is taken twice.                               *)
Distinct(l) == \A i, j \in 1..Len(l) : l[i].seq = l[j].seq /\ l[i].seq # 0 => i = j

LedgerOK ==
  /\ log \in Seq(Row) /\ Len(log) <= MaxFacts
  /\ \A i \in 1..Len(log) : log[i].old \in 0..(i - 1) /\ log[i].created \in 1..now
  /\ Distinct(log)
  /\ definitions \in Seq(Windows)

GrantOK(g) ==
  /\ g \in [revision : Nat, active : {g.active}]
  /\ g.active => g.revision > 0

GrantsOK ==
  grants = [p \in Pairs |-> grants[p]] /\ \A p \in Pairs : GrantOK(grants[p])

(* The facts at version n.                                                 *)
First(n) == SubSeq(log, 1, n)

(* Projection o shows the edges of the facts l from asOf on until it says  *)
(* that they change.                                                       *)
EdgesLast(o, l, asOf) ==
  /\ o.definition \in 1..Len(definitions)
  /\ o.next \in Nat /\ asOf < o.next
  /\ \A t \in asOf..(o.next - 1) : o.edges = Edges(l, definitions[o.definition], t)

ProjectionOK ==
  projection # None =>
    /\ projection.state \in 1..Len(log) /\ projection.asOf \in 1..now
    /\ EdgesLast(projection, First(projection.state), projection.asOf)

(* A baseline misses no fact that its watermark covers and that counted at *)
(* its cutoff.                                                             *)
Covers(b, l) ==
  /\ b.mark <= Contiguous(l, b.asOf, b.available)
  /\ \A i \in b.facts : i \in 1..Len(l) /\ Covered(l, i, b.mark)
  /\ \A i \in Active(l, b.asOf, b.available) : Covered(l, i, b.mark) => i \in b.facts

BaseOK(b) ==
  /\ b \in Baselines /\ b.revision \in 1..MaxRevision
  /\ b.asOf \in 1..b.available /\ b.available \in 1..now
  /\ Covers(b, log)

RevisionOf(b) == IF b = None THEN 0 ELSE b.revision

(* A snapshot tells what would be computed from the facts l and the window *)
(* of its definition at any time from t on, until it says that it changes. *)
TellsAt(s, l, window, t) ==
  /\ s.values = Values(l, Active(l, t, t), s.spec.window, t)
  /\ s.spec.rule => s.derived = Edges(l, window, t)

SnapOK(s) ==
  /\ s.spec \in Specs /\ s.state \in 1..Len(log) /\ s.revision \in Nat
  /\ s.asOf \in 1..s.available /\ s.available \in 1..now
  /\ s.next \in Nat /\ s.asOf < s.next
  /\ IF s.spec.rule THEN s.ontology \in 1..Len(definitions) ELSE s.ontology = 0
  /\ OneState(s)
  /\ \A t \in s.available..(s.next - 1) :
       TellsAt(s, First(s.state), definitions[s.ontology], t)

BundleOK(b) == SnapOK(b.snap) /\ b.pair.spec = b.snap.spec

PointerOK(r, p) ==
  r # None => r \in [bundle : bundles, state : {"active", "disabled"},
                     approval : 1..grants[p].revision, version : Nat]

RebuildOK(t) == t.pc = "rebuild" /\ t.asOf \in 1..now /\ log # <<>>

BuildOK(t) ==
  /\ t.pc \in {"read", "ontology", "future"}
  /\ t \in [pc : {t.pc}, spec : Specs, asOf : Nat, available : Nat,
            base : Baselines \cup {None}, accept : BOOLEAN, log : {t.log}, onto : {t.onto}]
  /\ t.asOf \in 1..t.available /\ t.available \in 1..now
  /\ t.accept => BaseOK(t.base)
  /\ t.pc # "read" => Len(t.log) \in 1..Len(log) /\ t.log = First(Len(t.log))
  /\ t.pc = "future" /\ t.spec.rule => EdgesLast(t.onto, t.log, t.asOf)

SaveOK(t) ==
  /\ t.pc = "save" /\ t.accept \in BOOLEAN
  /\ t.base \in Baselines \cup {None}
  /\ t.accept => BaseOK(t.base)
  /\ SnapOK(t.snap) /\ t.snap.revision = RevisionOf(t.base)

EncodeOK(t) == t.pc = "encode" /\ BundleOK(t)

ActivateOK(t) ==
  /\ t.pc = "activate" /\ t.pair \in Pairs /\ t.bundle \in bundles
  /\ t.expected \in Nat /\ t.approval \in 1..grants[t.pair].revision

CallOK(t) ==
  \/ t = Idle \/ RebuildOK(t) \/ BuildOK(t) \/ SaveOK(t) \/ EncodeOK(t) \/ ActivateOK(t)

BaselineOK == baseline # None => BaseOK(baseline)
SnapshotOK == snapshot # None => SnapOK(snapshot) /\ snapshot.revision <= HeadRevision
BundlesOK  == \A b \in bundles : BundleOK(b)
PointersOK == pointers = [p \in Pairs |-> pointers[p]] /\ \A p \in Pairs : PointerOK(pointers[p], p)
CallsOK    == task = [w \in Workers |-> task[w]] /\ \A w \in Workers : CallOK(task[w])

IInv ==
  /\ now \in 1..Horizon /\ calls \in 0..MaxCalls
  /\ LedgerOK /\ GrantsOK
  /\ ProjectionOK /\ BaselineOK /\ SnapshotOK /\ BundlesOK /\ PointersOK
  /\ CallsOK

-------------------------------------------------------------------------------
(* Least and greatest elements of sets of numbers.                         *)

LEMMA MinIs ==
  ASSUME NEW S \in SUBSET Nat, S # {}
  PROVE  Min(S) \in S /\ \A y \in S : Min(S) <= y
<1>1. PICK m \in S : \A n \in S : <<n, m>> \notin OpToRel(<, Nat)
  BY WFMin, NatLessThanWellFounded, Zenon
<1>2. \A n \in S : ~(n < m)
  BY <1>1, Zenon DEF OpToRel
<1>3. \A n \in S : m <= n
  BY <1>2
<1>4. QED
  BY <1>3 DEF Min

LEMMA MaxIs ==
  ASSUME NEW S \in SUBSET Nat, S # {}, NEW b \in Nat, \A n \in S : n <= b
  PROVE  Max(S) \in S /\ \A n \in S : n <= Max(S)
<1> DEFINE T == {b - n : n \in S}
<1>1. \A n \in S : b - n \in Nat
  OBVIOUS
<1>2. T \in SUBSET Nat /\ T # {}
  BY <1>1
<1>3. \A n \in S : b - n \in T
  OBVIOUS
<1>4. \A t \in T : \E n \in S : t = b - n
  OBVIOUS
<1> HIDE DEF T
<1>5. Min(T) \in T /\ \A t \in T : Min(T) <= t
  BY <1>2, MinIs
<1>6. PICK m \in S : Min(T) = b - m
  BY <1>4, <1>5
<1>7. \A n \in S : n <= m
  BY <1>3, <1>5, <1>6
<1>8. QED
  BY <1>7 DEF Max

LEMMA SoonestIs ==
  ASSUME NEW T \in SUBSET Nat
  PROVE  /\ Soonest(T) \in T \cup {Never} /\ Soonest(T) \in Nat
         /\ Soonest(T) <= Never /\ \A x \in T : Soonest(T) <= x
<1>1. Never \in Nat
  BY ServingAssumption
<1>2. QED
  BY <1>1, MinIs DEF Soonest

LEMMA MaxOfThree ==
  ASSUME NEW a \in Nat, NEW b \in Nat, NEW c \in Nat
  PROVE  LET m == Max({a, b, c}) IN m \in {a, b, c} /\ a <= m /\ b <= m /\ c <= m
<1> DEFINE S == {a, b, c}
<1>1. \E x \in S : \A y \in S : y <= x
  OBVIOUS
<1>2. Max(S) \in S /\ \A y \in S : y <= Max(S)
  BY <1>1 DEF Max
<1>3. QED
  BY <1>2

-------------------------------------------------------------------------------
(* Reading the ledger at a time.                                           *)

LEMMA RowsAre ==
  ASSUME NEW l \in Seq(Row)
  PROVE  /\ DOMAIN l = 1..Len(l) /\ Len(l) \in Nat
         /\ \A i \in 1..Len(l) : /\ l[i].at \in Nat /\ l[i].seen \in Nat /\ l[i].created \in Nat
                                 /\ l[i].seq \in Nat /\ l[i].old \in Nat
                                 /\ l[i].retract \in BOOLEAN
<1>1. l \in [1..Len(l) -> Row] /\ Len(l) \in Nat /\ DOMAIN l = 1..Len(l)
  BY LenProperties
<1>2. QED
  BY <1>1 DEF Row

(* The contiguous watermark is the longest prefix of the positions that    *)
(* counts.                                                                 *)
LEMMA ContiguousIs ==
  ASSUME NEW l \in Seq(Row), NEW asOf, NEW available
  PROVE  /\ Contiguous(l, asOf, available) \in 0..Len(l)
         /\ \A m \in Nat :
              m <= Contiguous(l, asOf, available) <=>
                m <= Len(l) /\ 1..m \subseteq {l[i].seq : i \in Eligible(l, asOf, available)}
<1> DEFINE seqs == {l[i].seq : i \in Eligible(l, asOf, available)}
           S == {n \in 0..Len(l) : 1..n \subseteq seqs}
<1> HIDE DEF seqs
<1>1. Len(l) \in Nat
  BY RowsAre
<1>2. S \in SUBSET Nat /\ 0 \in S /\ \A n \in S : n <= Len(l)
  BY <1>1
<1>3. Max(S) \in S /\ \A n \in S : n <= Max(S)
  BY <1>1, <1>2, MaxIs
<1>4. Contiguous(l, asOf, available) = Max(S)
  BY DEF Contiguous, seqs
<1>5. Max(S) \in 0..Len(l) /\ 1..Max(S) \subseteq seqs
  BY <1>3
<1>6. \A m \in Nat : m <= Len(l) /\ 1..m \subseteq seqs => m <= Max(S)
  BY <1>1, <1>3
<1> HIDE DEF S
<1>7. \A m \in Nat : m <= Max(S) => m <= Len(l) /\ 1..m \subseteq seqs
  <2> SUFFICES ASSUME NEW m \in Nat, m <= Max(S) PROVE m <= Len(l) /\ 1..m \subseteq seqs
    OBVIOUS
  <2>1. 1..m \subseteq 1..Max(S)
    BY <1>5
  <2>2. QED
    BY <1>1, <1>5, <2>1
<1>8. QED
  BY <1>4, <1>5, <1>6, <1>7 DEF seqs

(* Until the next fact begins or ceases to count the edges are the same.   *)
LEMMA EdgesStay ==
  ASSUME NEW l \in Seq(Row), NEW window \in Nat, NEW asOf \in Nat, NEW n \in Nat,
         \A i \in Current(l) : l[i].at > asOf => n <= l[i].at,
         \A x \in Expiries(l, Edges(l, window, asOf), window, asOf) : n <= x
  PROVE  \A t \in asOf..(n - 1) : Edges(l, window, asOf) = Edges(l, window, t)
<1> TAKE t \in asOf..(n - 1)
<1>1. \A i \in Current(l) : i \in 1..Len(l) /\ l[i].at \in Nat
  BY RowsAre DEF Current
<1>2. \A i : i \in Edges(l, window, asOf) <=>
               i \in Current(l) /\ l[i].at <= asOf /\ InWindow(l, i, window, asOf)
  BY DEF Edges, Values
<1>3. \A i : i \in Edges(l, window, t) <=>
               i \in Current(l) /\ l[i].at <= t /\ InWindow(l, i, window, t)
  BY DEF Edges, Values
<1>4. ASSUME NEW i \in Edges(l, window, asOf) PROVE i \in Edges(l, window, t)
  <2>1. window # 0 => l[i].at + window > asOf
    BY <1>2, <1>4 DEF InWindow
  <2>2. window # 0 => l[i].at + window \in Expiries(l, Edges(l, window, asOf), window, asOf)
    BY <1>4, <2>1 DEF Expiries
  <2>3. window # 0 => n <= l[i].at + window
    BY <2>2
  <2>4. QED
    BY <1>1, <1>2, <1>3, <1>4, <2>3 DEF InWindow
<1>5. ASSUME NEW i \in Edges(l, window, t) PROVE i \in Edges(l, window, asOf)
  <2>1. i \in Current(l) /\ l[i].at <= t /\ l[i].at \in Nat /\ InWindow(l, i, window, t)
    BY <1>1, <1>3, <1>5
  <2>2. l[i].at <= asOf
    BY <2>1
  <2>3. InWindow(l, i, window, asOf)
    BY <2>1 DEF InWindow
  <2>4. QED
    BY <1>2, <2>1, <2>2, <2>3
<1>6. QED
  BY <1>4, <1>5

(* What BuildOntologyProjection returns is true until its next change.     *)
LEMMA ProjectionLasts ==
  ASSUME LedgerOK, NEW l \in Seq(Row), NEW d \in 1..Len(definitions), NEW asOf \in 1..Horizon
  PROVE  LET p == BuildOntologyProjection(l, d, asOf)
         IN  p.state = Len(l) /\ p.asOf = asOf /\ EdgesLast(p, l, asOf)
<1> DEFINE window == definitions[d]
           edges == Edges(l, window, asOf)
           begins == {l[i].at : i \in {j \in Current(l) : l[j].at > asOf}}
           ends == Expiries(l, edges, window, asOf)
           p == BuildOntologyProjection(l, d, asOf)
<1>1. window \in Nat
  BY ServingAssumption, LenProperties DEF LedgerOK
<1> HIDE DEF window
<1>2. \A i \in Current(l) : l[i].at \in Nat
  BY RowsAre DEF Current
<1>3. edges \subseteq Current(l)
  BY DEF Edges, Values
<1>4. begins \in SUBSET Nat /\ \A x \in begins : x > asOf
  BY <1>2
<1>5. ends \in SUBSET Nat /\ \A x \in ends : x > asOf
  BY <1>1, <1>2, <1>3 DEF Expiries
<1>6. /\ p.definition = d /\ p.state = Len(l) /\ p.asOf = asOf
      /\ p.edges = edges /\ p.next = Soonest(begins \cup ends)
  BY DEF BuildOntologyProjection, window
<1>7. Never > asOf /\ asOf \in Nat
  BY ServingAssumption
<1> HIDE DEF begins, ends, edges
<1>8. /\ p.next \in Nat /\ asOf < p.next
      /\ \A x \in begins \cup ends : p.next <= x
  BY <1>4, <1>5, <1>6, <1>7, SoonestIs
<1>9. \A i \in Current(l) : l[i].at > asOf => p.next <= l[i].at
  BY <1>8 DEF begins
<1>10. \A x \in Expiries(l, Edges(l, window, asOf), window, asOf) : p.next <= x
  BY <1>8 DEF ends, edges
<1> HIDE DEF p
<1>11. \A t \in asOf..(p.next - 1) : Edges(l, window, asOf) = Edges(l, window, t)
  BY <1>1, <1>7, <1>8, <1>9, <1>10, EdgesStay
<1>12. EdgesLast(p, l, asOf)
  BY <1>6, <1>8, <1>11 DEF EdgesLast, edges, window
<1>13. QED
  BY <1>6, <1>12 DEF p

(* Until the next change the same facts count, and the same ones are       *)
(* active.                                                                 *)
LEMMA ActiveStays ==
  ASSUME NEW l \in Seq(Row), NEW available \in Nat, NEW asOf \in 0..available, NEW n \in Nat,
         \A x \in FutureChanges(l, asOf, available) : n <= x
  PROVE  \A t \in available..(n - 1) : Active(l, t, t) = Active(l, asOf, available)
<1> TAKE t \in available..(n - 1)
<1>1. \A i \in DOMAIN l : l[i].at \in Nat /\ l[i].seen \in Nat /\ l[i].created \in Nat
  BY RowsAre
<1>2. \A i : i \in Eligible(l, t, t) <=>
               i \in DOMAIN l /\ l[i].at <= t /\ l[i].seen <= t /\ l[i].created <= t
  BY DEF Eligible
<1>3. \A i : i \in Eligible(l, asOf, available) <=>
               /\ i \in DOMAIN l /\ l[i].at <= asOf
               /\ l[i].seen <= available /\ l[i].created <= available
  BY DEF Eligible
<1>4. ASSUME NEW i \in Eligible(l, asOf, available) PROVE i \in Eligible(l, t, t)
  BY <1>1, <1>2, <1>3, <1>4
<1>5. ASSUME NEW i \in Eligible(l, t, t), i \notin Eligible(l, asOf, available) PROVE FALSE
  <2> DEFINE m == Max({l[i].at, l[i].seen, l[i].created})
  <2>1. i \in DOMAIN l /\ l[i].at <= t /\ l[i].seen <= t /\ l[i].created <= t
    BY <1>2, <1>5
  <2>2. m \in {l[i].at, l[i].seen, l[i].created}
    BY <1>1, <2>1, MaxOfThree
  <2>3. m \in FutureChanges(l, asOf, available)
    BY <1>5, <2>1 DEF FutureChanges
  <2> HIDE DEF m
  <2>4. n <= m
    BY <2>3
  <2>5. QED
    BY <1>1, <2>1, <2>2, <2>4
<1>6. Eligible(l, t, t) = Eligible(l, asOf, available)
  BY <1>4, <1>5
<1>7. QED
  BY <1>6 DEF Active

(* And until one of them expires the same values are taken.                *)
LEMMA ValuesStay ==
  ASSUME NEW l, NEW window \in Nat, NEW facts, \A i \in facts : l[i].at \in Nat,
         NEW asOf \in Nat, NEW t \in Nat, asOf <= t,
         \A x \in Expiries(l, facts, window, asOf) : t < x
  PROVE  Values(l, facts, window, t) = Values(l, facts, window, asOf)
<1>1. ASSUME NEW i \in facts PROVE InWindow(l, i, window, t) <=> InWindow(l, i, window, asOf)
  <2>1. window # 0 /\ l[i].at + window > asOf => t < l[i].at + window
    BY <1>1 DEF Expiries
  <2>2. QED
    BY <2>1 DEF InWindow
<1>2. QED
  BY <1>1 DEF Values

LEMMA FirstIs ==
  ASSUME LedgerOK, NEW n \in 0..Len(log)
  PROVE  First(n) \in Seq(Row) /\ Len(First(n)) = n /\ \A i \in 1..n : First(n)[i] = log[i]
<1>1. log \in Seq(Row) /\ Len(log) \in Nat
  BY LenProperties DEF LedgerOK
<1>2. QED
  BY <1>1, SubSeqProperties DEF First

(* A snapshot merged from the facts of one version, and told of what was   *)
(* accepted by a later look at the ledger, is good until its next change.  *)
LEMMA MergeIsOK ==
  ASSUME LedgerOK, now \in 1..Horizon, NEW t, BuildOK(t), t.pc = "future"
  PROVE  LET snap == Merge(t.base, t.spec, t.log, t.onto, t.asOf, t.available)
             next == Min({snap.next} \cup FutureChanges(log, t.asOf, t.available))
         IN  /\ SnapOK([snap EXCEPT !.next = next])
             /\ snap.revision = RevisionOf(t.base)
<1> DEFINE l == t.log
           asOf == t.asOf
           available == t.available
           window == t.spec.window
           facts == Active(l, asOf, available)
           ends == Expiries(l, facts, window, asOf)
           future == FutureChanges(l, asOf, available)
           times == ends \cup (IF t.spec.rule THEN {t.onto.next} ELSE {}) \cup future
           snap == Merge(t.base, t.spec, l, t.onto, asOf, available)
           later == {snap.next} \cup FutureChanges(log, asOf, available)
           next == Min(later)
           s == [snap EXCEPT !.next = next]
<1>1. /\ t.spec \in Specs /\ asOf \in 1..available /\ available \in 1..now
      /\ t.base \in Baselines \cup {None}
      /\ Len(l) \in 1..Len(log) /\ l = First(Len(l))
      /\ t.spec.rule => EdgesLast(t.onto, l, asOf)
  BY DEF BuildOK
<1>2. asOf \in Nat /\ available \in Nat /\ asOf \in 0..available /\ asOf <= available
      /\ now \in Nat /\ Horizon \in Nat /\ available <= Horizon
  BY <1>1, ServingAssumption
<1>3. window \in Nat /\ t.spec.rule \in BOOLEAN
  BY <1>1, ServingAssumption
<1>4. l \in Seq(Row) /\ log \in Seq(Row)
  BY <1>1, FirstIs DEF LedgerOK
<1>5. \A m \in Seq(Row) : \A x \in FutureChanges(m, asOf, available) : x \in Nat /\ x > asOf
  <2> SUFFICES ASSUME NEW m \in Seq(Row), NEW x \in FutureChanges(m, asOf, available)
               PROVE  x \in Nat /\ x > asOf
    OBVIOUS
  <2>1. PICK i \in DOMAIN m \ Eligible(m, asOf, available) :
               x = Max({m[i].at, m[i].seen, m[i].created})
    BY DEF FutureChanges
  <2>2. m[i].at \in Nat /\ m[i].seen \in Nat /\ m[i].created \in Nat
    BY RowsAre, <2>1
  <2>3. m[i].at > asOf \/ m[i].seen > available \/ m[i].created > available
    BY <2>1, <2>2, <1>2 DEF Eligible
  <2>4. x \in {m[i].at, m[i].seen, m[i].created} /\ m[i].at <= x /\ m[i].seen <= x /\ m[i].created <= x
    BY <2>1, <2>2, MaxOfThree
  <2> HIDE DEF asOf, available
  <2>5. x \in Nat
    BY <2>2, <2>4
  <2>6. QED
    BY <1>2, <2>2, <2>3, <2>4, <2>5
<1>6. facts \subseteq DOMAIN l
  BY DEF Active, Eligible
<1>7. \A x \in ends : x \in Nat /\ x > asOf
  <2>1. \A i \in facts : l[i].at \in Nat
    BY <1>4, <1>6, RowsAre
  <2>2. QED
    BY <1>3, <2>1 DEF Expiries
<1>8. t.spec.rule => t.onto.next \in Nat /\ t.onto.next > asOf
  BY <1>1, <1>2 DEF EdgesLast
<1>9. /\ snap.spec = t.spec /\ snap.state = Len(l) /\ snap.asOf = asOf
      /\ snap.available = available /\ snap.revision = RevisionOf(t.base)
      /\ snap.values = Values(l, facts, window, asOf)
      /\ snap.ontology = (IF t.spec.rule THEN t.onto.definition ELSE 0)
      /\ snap.derived = (IF t.spec.rule THEN t.onto.edges ELSE {})
      /\ snap.next = Soonest(times)
  BY DEF Merge, RevisionOf
<1>10. /\ s.spec = t.spec /\ s.state = Len(l) /\ s.asOf = asOf
       /\ s.available = available /\ s.revision = RevisionOf(t.base)
       /\ s.values = Values(l, facts, window, asOf)
       /\ s.ontology = (IF t.spec.rule THEN t.onto.definition ELSE 0)
       /\ s.derived = (IF t.spec.rule THEN t.onto.edges ELSE {})
       /\ s.next = next
  BY DEF Merge, RevisionOf
<1> HIDE DEF snap, s, facts, ends, future
<1>11. times \in SUBSET Nat /\ \A x \in times : x > asOf
  BY <1>4, <1>5, <1>7, <1>8 DEF future
<1>12. /\ snap.next \in Nat /\ snap.next > asOf
       /\ \A x \in times : snap.next <= x
  <2>1. Never > asOf /\ Never \in Nat
    BY <1>2, ServingAssumption
  <2> HIDE DEF times
  <2>2. Soonest(times) \in times \cup {Never} /\ Soonest(times) \in Nat
        /\ \A x \in times : Soonest(times) <= x
    BY <1>11, SoonestIs
  <2>3. QED
    BY <1>9, <1>11, <2>1, <2>2
<1>13. later \in SUBSET Nat /\ snap.next \in later /\ \A x \in later : x > asOf
  BY <1>4, <1>5, <1>12
<1> HIDE DEF later
<1>14. next \in Nat /\ next > asOf /\ next <= snap.next
  BY <1>13, MinIs
<1> HIDE DEF next
<1>15. \A x \in times : next <= x
  BY <1>11, <1>12, <1>14
<1>16. \A x \in ends : next <= x
  BY <1>15
<1>17. \A x \in future : next <= x
  BY <1>15
<1>18. t.spec.rule => next <= t.onto.next
  BY <1>15
<1> HIDE DEF times
<1>19. OneState(s)
  <2>1. s.spec.rule => /\ s.derived = Edges(l, definitions[s.ontology], asOf)
    <3>1. asOf \in asOf..(t.onto.next - 1) \/ ~t.spec.rule
      BY <1>2, <1>8
    <3>2. QED
      BY <1>1, <1>10, <3>1 DEF EdgesLast
  <2>2. SubSeq(log, 1, s.state) = l
    BY <1>1, <1>10 DEF First
  <2>3. QED
    BY <1>10, <2>1, <2>2 DEF OneState, facts
<1>20. ASSUME NEW u \in s.available..(s.next - 1)
       PROVE  TellsAt(s, First(s.state), definitions[s.ontology], u)
  <2>1. u \in available..(next - 1) /\ u \in asOf..(next - 1)
    BY <1>2, <1>10, <1>14, <1>20
  <2>2. Active(l, u, u) = facts
    BY <1>2, <1>4, <1>14, <1>17, <2>1, ActiveStays DEF future, facts
  <2>3. Values(l, facts, window, u) = Values(l, facts, window, asOf)
    <3>1. next \in Nat /\ u \in Nat /\ asOf <= u /\ u < next /\ asOf \in Nat
      BY <1>2, <1>14, <2>1
    <3>2. \A x \in Expiries(l, facts, window, asOf) : next <= x /\ x \in Nat
      BY <1>7, <1>16 DEF ends
    <3>3. \A x \in Expiries(l, facts, window, asOf) : u < x
      BY <3>1, <3>2
    <3>4. \A i \in facts : l[i].at \in Nat
      BY <1>4, <1>6, RowsAre
    <3> HIDE DEF l, window, asOf
    <3>5. QED
      BY <1>3, <3>1, <3>3, <3>4, ValuesStay
  <2>4. t.spec.rule => u \in asOf..(t.onto.next - 1)
    BY <1>2, <1>8, <1>14, <1>18, <2>1
  <2>5. t.spec.rule => t.onto.edges = Edges(l, definitions[t.onto.definition], u)
    BY <1>1, <2>4 DEF EdgesLast
  <2>6. First(s.state) = l
    BY <1>1, <1>10
  <2>7. QED
    BY <1>10, <2>2, <2>3, <2>5, <2>6 DEF TellsAt
<1>21. t.spec.rule => t.onto.definition \in 1..Len(definitions)
  BY <1>1 DEF EdgesLast
<1>22. RevisionOf(t.base) \in Nat
  BY <1>1 DEF RevisionOf, Baselines
<1>23. SnapOK(s)
  BY <1>1, <1>2, <1>3, <1>10, <1>14, <1>19, <1>20, <1>21, <1>22 DEF SnapOK
<1>24. QED
  BY <1>9, <1>23 DEF s, snap, next, later

-------------------------------------------------------------------------------
(* What is known stays known while the ledger grows.                       *)

IsExtended(l, m) == Len(l) <= Len(m) /\ \A i \in 1..Len(l) : m[i] = l[i]

LEMMA AppendExtends ==
  ASSUME NEW S, NEW l \in Seq(S), NEW x \in S
  PROVE  /\ Append(l, x) \in Seq(S) /\ Len(Append(l, x)) = Len(l) + 1
         /\ IsExtended(l, Append(l, x)) /\ Append(l, x)[Len(l) + 1] = x
<1>1. Len(l) \in Nat
  BY LenProperties
<1>2. QED
  BY <1>1, AppendProperties DEF IsExtended

LEMMA FirstStays ==
  ASSUME NEW l \in Seq(Row), NEW m \in Seq(Row), IsExtended(l, m), NEW n \in 0..Len(l)
  PROVE  SubSeq(m, 1, n) = SubSeq(l, 1, n)
<1>1. Len(l) \in Nat /\ Len(m) \in Nat /\ Len(l) <= Len(m)
  BY LenProperties DEF IsExtended
<1>2. \A i \in 1..n : l[i] = m[i]
  BY <1>1 DEF IsExtended
<1>3. /\ SubSeq(l, 1, n) \in Seq(Row) /\ Len(SubSeq(l, 1, n)) = n
      /\ \A i \in 1..n : SubSeq(l, 1, n)[i] = l[i]
  BY <1>1, SubSeqProperties
<1>4. /\ SubSeq(m, 1, n) \in Seq(Row) /\ Len(SubSeq(m, 1, n)) = n
      /\ \A i \in 1..n : SubSeq(m, 1, n)[i] = m[i]
  BY <1>1, SubSeqProperties
<1>5. QED
  BY <1>2, <1>3, <1>4, SeqEqual

(* What counted at a cutoff still counts, then and later.                  *)
LEMMA EligibleGrows ==
  ASSUME NEW l \in Seq(Row), NEW m \in Seq(Row), IsExtended(l, m),
         NEW a \in Nat, NEW v \in Nat, NEW b \in Nat, NEW w \in Nat, a <= b, v <= w
  PROVE  Eligible(l, a, v) \subseteq Eligible(m, b, w)
<1>1. ASSUME NEW i \in Eligible(l, a, v) PROVE i \in Eligible(m, b, w)
  <2>1. i \in 1..Len(l) /\ l[i].at <= a /\ l[i].seen <= v /\ l[i].created <= v
    BY <1>1, RowsAre DEF Eligible
  <2>2. l[i].at \in Nat /\ l[i].seen \in Nat /\ l[i].created \in Nat
    BY <2>1, RowsAre
  <2>3. m[i] = l[i] /\ i \in DOMAIN m
    BY <2>1, RowsAre DEF IsExtended
  <2>4. QED
    BY <2>1, <2>2, <2>3 DEF Eligible
<1>2. QED
  BY <1>1

(* A fact accepted late does not take a position that is covered, so what  *)
(* a baseline covers of a longer ledger, at its cutoff or later, is in it. *)
LEMMA CoversOn ==
  ASSUME NEW l \in Seq(Row), NEW m \in Seq(Row), IsExtended(l, m), Distinct(m),
         NEW base \in Baselines, Covers(base, l),
         NEW b \in Nat, NEW w \in Nat, base.asOf <= b, base.available <= w
  PROVE  /\ base.mark <= Contiguous(m, b, w)
         /\ \A i \in base.facts : i \in 1..Len(m) /\ Covered(m, i, base.mark)
         /\ \A i \in Active(m, b, w) : Covered(m, i, base.mark) => i \in base.facts
<1> DEFINE a == base.asOf
           v == base.available
           mark == base.mark
<1>1. a \in Nat /\ v \in Nat /\ mark \in Nat
  BY DEF Baselines
<1>2. Len(l) \in Nat /\ Len(m) \in Nat /\ Len(l) <= Len(m)
  BY RowsAre DEF IsExtended
<1>3. mark <= Len(l) /\ 1..mark \subseteq {l[i].seq : i \in Eligible(l, a, v)}
  BY <1>1, ContiguousIs DEF Covers
<1>4. Eligible(l, a, v) \subseteq Eligible(m, b, w)
  BY <1>1, EligibleGrows
<1>5. Eligible(l, a, v) \subseteq 1..Len(l)
  BY RowsAre DEF Eligible
<1>6. \A i \in 1..Len(l) : m[i] = l[i]
  BY DEF IsExtended
<1>7. 1..mark \subseteq {m[i].seq : i \in Eligible(m, b, w)}
  <2> SUFFICES ASSUME NEW n \in 1..mark PROVE \E i \in Eligible(m, b, w) : n = m[i].seq
    OBVIOUS
  <2>1. PICK i \in Eligible(l, a, v) : n = l[i].seq
    BY <1>3
  <2>2. QED
    BY <1>4, <1>5, <1>6, <2>1
<1>8. mark <= Contiguous(m, b, w)
  <2>1. \A n \in Nat :
          n <= Contiguous(m, b, w) <=>
            n <= Len(m) /\ 1..n \subseteq {m[i].seq : i \in Eligible(m, b, w)}
    BY ContiguousIs
  <2> HIDE DEF mark
  <2>2. mark <= Len(m)
    BY <1>1, <1>2, <1>3
  <2>3. QED
    BY <1>1, <1>7, <2>1, <2>2
<1>9. ASSUME NEW i \in base.facts PROVE i \in 1..Len(m) /\ Covered(m, i, mark)
  <2>1. i \in 1..Len(l) /\ Covered(l, i, mark)
    BY DEF Covers
  <2>2. QED
    BY <1>2, <1>6, <2>1 DEF Covered
<1>10. ASSUME NEW i \in Active(m, b, w), Covered(m, i, mark) PROVE i \in base.facts
  <2>1. m[i].seq \in 1..mark /\ i \in Eligible(m, b, w) /\ ~m[i].retract
        /\ \A j \in Eligible(m, b, w) : m[j].old # i
    BY <1>10 DEF Covered, Active
  <2>2. PICK j \in Eligible(l, a, v) : m[i].seq = l[j].seq
    BY <1>3, <2>1
  <2>3. i \in 1..Len(m) /\ j \in 1..Len(m) /\ m[j] = l[j] /\ m[i].seq # 0
    <3>1. j \in 1..Len(l)
      BY <1>5, <2>2
    <3>2. j \in 1..Len(m) /\ m[j] = l[j]
      BY <1>2, <1>6, <3>1
    <3>3. i \in DOMAIN m
      BY <2>1 DEF Eligible
    <3>4. i \in 1..Len(m)
      BY <3>3, RowsAre
    <3>5. m[i].seq # 0
      BY <1>1, <2>1
    <3>6. QED
      BY <3>2, <3>4, <3>5
  <2>4. i = j
    BY <2>2, <2>3 DEF Distinct
  <2>5. i \in Eligible(l, a, v) /\ ~l[i].retract /\ \A k \in Eligible(l, a, v) : l[k].old # i
    BY <1>4, <1>5, <1>6, <2>1, <2>2, <2>3, <2>4
  <2>6. i \in Active(l, a, v) /\ Covered(l, i, mark)
    BY <2>1, <2>2, <2>3, <2>4, <2>5 DEF Active, Covered
  <2>7. QED
    BY <2>6 DEF Covers
<1>11. QED
  BY <1>8, <1>9, <1>10

LEMMA CoversMeansMerges ==
  ASSUME LedgerOK, now \in 1..Horizon, NEW b, BaseOK(b)
  PROVE  Merges(b, b.spec, log, now, now)
<1>1. b \in Baselines /\ b.asOf \in 1..b.available /\ b.available \in 1..now /\ Covers(b, log)
  BY DEF BaseOK
<1>2. /\ now \in Nat /\ b.asOf <= now /\ b.available <= now
      /\ log \in Seq(Row) /\ Distinct(log) /\ IsExtended(log, log)
  BY <1>1, LenProperties, ServingAssumption DEF LedgerOK, IsExtended, Baselines
<1>3. /\ b.mark <= Contiguous(log, now, now)
      /\ \A i \in b.facts : i \in 1..Len(log) /\ Covered(log, i, b.mark)
      /\ \A i \in Active(log, now, now) : Covered(log, i, b.mark) => i \in b.facts
  BY <1>1, <1>2, CoversOn
<1>4. QED
  BY <1>2, <1>3 DEF Merges

-------------------------------------------------------------------------------
(* Every step lets the ledger, the definitions, the approvals and the      *)
(* bundles grow.                                                           *)

Grows ==
  /\ now <= now' /\ now' \in 1..Horizon
  /\ IsExtended(log, log')
  /\ IsExtended(definitions, definitions')
  /\ bundles \subseteq bundles'
  /\ \A p \in Pairs : grants[p].revision <= grants'[p].revision

LEMMA GrantMoves ==
  ASSUME NEW g, GrantOK(g), NEW x
  PROVE  LET h == [g EXCEPT !.revision = @ + 1, !.active = x]
         IN  GrantOK(h) /\ h.revision = g.revision + 1
<1> DEFINE h == [g EXCEPT !.revision = @ + 1, !.active = x]
<1>1. g \in [revision : Nat, active : {g.active}] /\ g.revision + 1 \in Nat
  BY DEF GrantOK
<1>2. h.revision = g.revision + 1 /\ h.active = x
  BY <1>1
<1>3. h \in [revision : Nat, active : {x}]
  BY <1>1
<1> HIDE DEF h
<1>4. GrantOK(h)
  BY <1>1, <1>2, <1>3 DEF GrantOK
<1>5. QED
  BY <1>2, <1>4 DEF h

LEMMA SourcesOnlyGrow ==
  ASSUME IInv, [Next]_vars
  PROVE  LedgerOK' /\ GrantsOK' /\ Grows
<1> USE DEF IInv
<1>0. /\ now \in Nat /\ Horizon \in Nat /\ log \in Seq(Row) /\ Len(log) \in Nat
      /\ definitions \in Seq(Windows) /\ Len(definitions) \in Nat
      /\ IsExtended(log, log) /\ IsExtended(definitions, definitions)
      /\ \A p \in Pairs : grants[p].revision \in Nat
  BY ServingAssumption, LenProperties DEF LedgerOK, GrantsOK, GrantOK, IsExtended
<1>1. CASE UNCHANGED <<now, log, definitions, grants>> /\ bundles \subseteq bundles'
  BY <1>0, <1>1 DEF LedgerOK, GrantsOK, Grows
<1>2. CASE Tick
  <2>1. /\ now' = now + 1 /\ now < Horizon /\ log' = log /\ definitions' = definitions
        /\ grants' = grants /\ bundles' = bundles
    BY <1>2 DEF Tick, Sources, Rows
  <2>2. 1..now \subseteq 1..now'
    BY <1>0, <2>1
  <2>3. LedgerOK'
    BY <2>1, <2>2 DEF LedgerOK
  <2>4. QED
    BY <1>0, <2>1, <2>3 DEF GrantsOK, Grows
<1>3. CASE Accept
  <2>1. PICK f \in Facts, old \in 0..Len(log) :
          /\ Len(log) < MaxFacts
          /\ f.delay < now
          /\ f.seq # 0 => \A i \in DOMAIN log : log[i].seq # f.seq
          /\ log' = Append(log, [at |-> f.at, seen |-> f.seen, retract |-> f.retract,
                                 created |-> now - f.delay, seq |-> f.seq, old |-> old])
    BY <1>3 DEF Accept
  <2>2. /\ now' = now /\ definitions' = definitions /\ grants' = grants /\ bundles' = bundles
    BY <1>3 DEF Accept, Rows
  <2> DEFINE r == [at |-> f.at, seen |-> f.seen, retract |-> f.retract,
                   created |-> now - f.delay, seq |-> f.seq, old |-> old]
  <2>3. r \in Row /\ r.created \in 1..now /\ r.old = old /\ r.seq = f.seq
    <3>1. f.at \in Nat /\ f.seen \in Nat /\ f.delay \in Nat /\ f.seq \in Nat
      BY <2>1, ServingAssumption
    <3>2. f.retract \in BOOLEAN
      BY <2>1, ServingAssumption
    <3>3. now - f.delay \in 1..now /\ now - f.delay \in Nat /\ old \in Nat
      BY <1>0, <2>1, <3>1
    <3>4. r \in Row
      BY <3>1, <3>2, <3>3 DEF Row
    <3>5. QED
      BY <3>3, <3>4
  <2> HIDE DEF r
  <2>4. log' = Append(log, r)
    BY <2>1 DEF r
  <2>5. log' \in Seq(Row) /\ Len(log') = Len(log) + 1 /\ IsExtended(log, log')
        /\ log'[Len(log) + 1] = r
    BY <1>0, <2>3, <2>4, AppendExtends
  <2>6. \A i \in 1..Len(log') : i \in 1..Len(log) \/ i = Len(log) + 1
    BY <1>0, <2>5
  <2>7. \A i \in 1..Len(log) : log'[i] = log[i]
    BY <2>5 DEF IsExtended
  <2>8. Distinct(log')
    <3>1. r.seq # 0 => \A i \in 1..Len(log) : log[i].seq # r.seq
      BY <1>0, <2>1, <2>3, RowsAre
    <3>2. QED
      BY <2>5, <2>6, <2>7, <3>1 DEF Distinct, LedgerOK
  <2>9. \A i \in 1..Len(log') : log'[i].old \in 0..(i - 1) /\ log'[i].created \in 1..now
    BY <1>0, <2>3, <2>5, <2>6, <2>7 DEF LedgerOK
  <2>10. Len(log') <= MaxFacts
    BY <1>0, <2>1, <2>5, ServingAssumption
  <2>11. LedgerOK'
    BY <2>2, <2>5, <2>8, <2>9, <2>10 DEF LedgerOK
  <2>12. QED
    BY <1>0, <2>2, <2>5, <2>11 DEF GrantsOK, Grows
<1>4. CASE PublishOntology
  <2>1. PICK window \in Windows : definitions' = Append(definitions, window)
    BY <1>4 DEF PublishOntology
  <2>2. now' = now /\ log' = log /\ grants' = grants /\ bundles' = bundles
    BY <1>4 DEF PublishOntology, Rows
  <2>3. definitions' \in Seq(Windows) /\ IsExtended(definitions, definitions')
    BY <1>0, <2>1, AppendExtends
  <2>4. QED
    BY <1>0, <2>2, <2>3 DEF LedgerOK, GrantsOK, Grows
<1>5. CASE Decide
  <2>1. PICK p \in Pairs :
          grants' = [grants EXCEPT ![p].revision = @ + 1, ![p].active = ~@]
    BY <1>5 DEF Decide
  <2>2. now' = now /\ log' = log /\ definitions' = definitions /\ bundles' = bundles
    BY <1>5 DEF Decide, Rows
  <2>3. grants' = [q \in Pairs |-> grants'[q]] /\ \A q \in Pairs \ {p} : grants'[q] = grants[q]
    BY <2>1 DEF GrantsOK
  <2>4. grants'[p] = [grants[p] EXCEPT !.revision = @ + 1, !.active = ~@]
    BY <2>1 DEF GrantsOK
  <2>5. GrantOK(grants[p])
    BY DEF GrantsOK
  <2>6. GrantOK(grants'[p]) /\ grants'[p].revision = grants[p].revision + 1
    <3> DEFINE g == grants[p]
               x == ~grants[p].active
    <3>1. grants'[p] = [g EXCEPT !.revision = @ + 1, !.active = x]
      BY <2>4, Zenon
    <3>2. GrantOK(g)
      BY <2>5
    <3> HIDE DEF g, x
    <3>3. LET h == [g EXCEPT !.revision = @ + 1, !.active = x]
          IN  GrantOK(h) /\ h.revision = g.revision + 1
      BY <3>2, GrantMoves
    <3>4. QED
      BY <3>1, <3>3 DEF g
  <2>7. \A q \in Pairs : GrantOK(grants'[q]) /\ grants[q].revision <= grants'[q].revision
    BY <1>0, <2>3, <2>6 DEF GrantsOK
  <2>8. QED
    BY <1>0, <2>2, <2>3, <2>7 DEF LedgerOK, GrantsOK, Grows
<1>6. CASE Disable
  BY <1>1, <1>6 DEF Disable, Sources
<1>7. ASSUME NEW w \in Workers, Step(w)
      PROVE  UNCHANGED <<now, log, definitions, grants>> /\ bundles \subseteq bundles'
  BY <1>7 DEF Step, StartRebuild, FinishRebuild, StartRefresh, StartAccept, ReadState,
              ReadOntology, ReadFuture, SaveRefreshed, SaveAccepted, StartEncode, SaveBundle,
              StartActivate, FinishActivate, Sources, Rows
<1>8. CASE UNCHANGED vars
  BY <1>1, <1>8 DEF vars
<1>9. QED
  BY <1>1, <1>2, <1>3, <1>4, <1>5, <1>6, <1>7, <1>8 DEF Next

LEMMA KnownStays ==
  ASSUME IInv, LedgerOK', GrantsOK', Grows
  PROVE  /\ \A n \in 0..Len(log) : First(n)' = First(n)
         /\ \A o, l, asOf : EdgesLast(o, l, asOf) => EdgesLast(o, l, asOf)'
         /\ \A b : BaseOK(b) => BaseOK(b)'
         /\ \A s : SnapOK(s) => SnapOK(s)'
         /\ \A b : BundleOK(b) => BundleOK(b)'
         /\ \A r : \A p \in Pairs : PointerOK(r, p) => PointerOK(r, p)'
         /\ \A t : CallOK(t) => CallOK(t)'
<1>1. /\ now \in Nat /\ now' \in Nat /\ now <= now' /\ Horizon \in Nat
      /\ log \in Seq(Row) /\ log' \in Seq(Row)
      /\ Len(log) \in Nat /\ Len(log') \in Nat /\ Len(log) <= Len(log')
      /\ \A i \in 1..Len(log) : log'[i] = log[i]
      /\ Len(definitions) \in Nat /\ Len(definitions') \in Nat
      /\ Len(definitions) <= Len(definitions')
      /\ \A i \in 1..Len(definitions) : definitions'[i] = definitions[i]
  BY ServingAssumption, LenProperties DEF IInv, LedgerOK, Grows, IsExtended
<1>2. \A n \in 0..Len(log) : First(n)' = First(n)
  BY <1>1, FirstStays DEF Grows, First
<1>3. \A o, l, asOf : EdgesLast(o, l, asOf) => EdgesLast(o, l, asOf)'
  BY <1>1 DEF EdgesLast
<1>4. ASSUME NEW b, BaseOK(b) PROVE BaseOK(b)'
  <2>1. /\ b \in Baselines /\ b.revision \in 1..MaxRevision
        /\ b.asOf \in 1..b.available /\ b.available \in 1..now /\ Covers(b, log)
    BY <1>4 DEF BaseOK
  <2>2. b.asOf \in Nat /\ b.available \in Nat /\ b.asOf <= b.asOf /\ b.available <= b.available
    BY <2>1 DEF Baselines
  <2>3. Covers(b, log')
    BY <1>1, <2>1, <2>2, CoversOn DEF Covers, LedgerOK, Grows
  <2>4. b.available \in 1..now'
    BY <1>1, <2>1
  <2>5. QED
    BY <2>1, <2>3, <2>4 DEF BaseOK
<1>5. ASSUME NEW s, SnapOK(s) PROVE SnapOK(s)'
  <2>1. /\ s.spec \in Specs /\ s.state \in 1..Len(log) /\ s.revision \in Nat
        /\ s.asOf \in 1..s.available /\ s.available \in 1..now
        /\ s.next \in Nat /\ s.asOf < s.next
        /\ IF s.spec.rule THEN s.ontology \in 1..Len(definitions) ELSE s.ontology = 0
        /\ OneState(s)
        /\ \A t \in s.available..(s.next - 1) :
             TellsAt(s, First(s.state), definitions[s.ontology], t)
    BY <1>5 DEF SnapOK
  <2>2. First(s.state)' = First(s.state) /\ SubSeq(log', 1, s.state) = SubSeq(log, 1, s.state)
    BY <1>1, <1>2, <2>1 DEF First
  <2>3. s.spec.rule => definitions'[s.ontology] = definitions[s.ontology]
                       /\ s.ontology \in 1..Len(definitions')
    BY <1>1, <2>1
  <2>4. OneState(s)'
    BY <2>1, <2>2, <2>3 DEF OneState
  <2>5. \A t \in s.available..(s.next - 1) :
          TellsAt(s, First(s.state)', definitions'[s.ontology], t)
    BY <2>1, <2>2, <2>3 DEF TellsAt
  <2>6. s.state \in 1..Len(log') /\ s.available \in 1..now'
    BY <1>1, <2>1
  <2>7. QED
    BY <2>1, <2>3, <2>4, <2>5, <2>6 DEF SnapOK
<1>6. \A b : BundleOK(b) => BundleOK(b)'
  BY <1>5 DEF BundleOK
<1>7. \A p \in Pairs : 1..grants[p].revision \subseteq 1..grants'[p].revision
  <2>1. \A p \in Pairs : /\ grants[p].revision \in Nat /\ grants'[p].revision \in Nat
                         /\ grants[p].revision <= grants'[p].revision
    BY DEF IInv, GrantsOK, GrantOK, Grows
  <2>2. QED
    BY <2>1
<1>8. \A r : \A p \in Pairs : PointerOK(r, p) => PointerOK(r, p)'
  BY <1>7 DEF PointerOK, Grows
<1>9. ASSUME NEW t, CallOK(t) PROVE CallOK(t)'
  <2>1. CASE t = Idle
    BY <2>1 DEF CallOK, Idle
  <2>2. CASE RebuildOK(t)
    <3>1. log' # <<>> /\ t.asOf \in 1..now'
      BY <1>1, <2>2 DEF RebuildOK
    <3>2. QED
      BY <2>2, <3>1 DEF CallOK, RebuildOK
  <2>3. CASE BuildOK(t)
    <3>1. t.pc # "read" => Len(t.log) \in 1..Len(log') /\ t.log = First(Len(t.log))'
      BY <1>1, <1>2, <2>3 DEF BuildOK
    <3>2. t.available \in 1..now'
      BY <1>1, <2>3 DEF BuildOK
    <3>3. t.accept => BaseOK(t.base)'
      BY <1>4, <2>3 DEF BuildOK
    <3>4. t.pc = "future" /\ t.spec.rule => EdgesLast(t.onto, t.log, t.asOf)'
      BY <1>3, <2>3 DEF BuildOK
    <3>5. BuildOK(t)'
      BY <2>3, <3>1, <3>2, <3>3, <3>4 DEF BuildOK
    <3>6. QED
      BY <3>5 DEF CallOK
  <2>4. CASE SaveOK(t)
    BY <1>4, <1>5, <2>4 DEF CallOK, SaveOK, RevisionOf
  <2>5. CASE EncodeOK(t)
    BY <1>6, <2>5 DEF CallOK, EncodeOK
  <2>6. CASE ActivateOK(t)
    BY <1>7, <2>6 DEF CallOK, ActivateOK, Grows
  <2>7. QED
    BY <1>9, <2>1, <2>2, <2>3, <2>4, <2>5, <2>6 DEF CallOK
<1>10. QED
  BY <1>2, <1>3, <1>4, <1>5, <1>6, <1>8, <1>9

(* So a row that a step leaves alone stays right, and the call that it     *)
(* changes is the only one to look at.                                     *)
LEMMA RowsStay ==
  ASSUME IInv, LedgerOK', GrantsOK', Grows
  PROVE  /\ projection' = projection => ProjectionOK'
         /\ baseline' = baseline => BaselineOK'
         /\ baseline' = baseline /\ snapshot' = snapshot => SnapshotOK'
         /\ bundles' = bundles => BundlesOK'
         /\ pointers' = pointers => PointersOK'
         /\ task' = task => CallsOK'
         /\ \A w \in Workers : \A c :
              task' = [task EXCEPT ![w] = c] /\ CallOK(c)' => CallsOK'
<1>1. ASSUME projection' = projection PROVE ProjectionOK'
  <2>1. CASE projection = None
    BY <1>1, <2>1 DEF ProjectionOK
  <2>2. CASE projection # None
    <3>1. /\ projection.state \in 1..Len(log) /\ projection.asOf \in 1..now
          /\ EdgesLast(projection, First(projection.state), projection.asOf)
      BY <2>2 DEF IInv, ProjectionOK
    <3> DEFINE n == projection.state
    <3>2. /\ Len(log) \in Nat /\ Len(log') \in Nat /\ Len(log) <= Len(log')
          /\ now \in Nat /\ now' \in Nat /\ now <= now'
      BY ServingAssumption, LenProperties DEF IInv, LedgerOK, Grows, IsExtended
    <3>3. First(n)' = First(n)
      <4>1. PICK m \in 1..Len(log) : m = n
        BY <3>1
      <4>2. First(m)' = First(m)
        BY <3>2, <4>1, KnownStays
      <4>3. QED
        BY <1>1, <4>1, <4>2 DEF First
    <3>4. PICK o, l, asOf : o = projection /\ l = First(n) /\ asOf = projection.asOf
      OBVIOUS
    <3>5. EdgesLast(o, l, asOf)'
      BY <3>1, <3>4, KnownStays
    <3>6. EdgesLast(projection, First(n), projection.asOf)'
      BY <1>1, <3>3, <3>4, <3>5 DEF EdgesLast
    <3>7. n \in 1..Len(log') /\ projection.asOf \in 1..now'
      BY <3>1, <3>2
    <3>8. QED
      BY <1>1, <3>6, <3>7 DEF ProjectionOK
  <2>3. QED
    BY <2>1, <2>2
<1>2. ASSUME baseline' = baseline PROVE BaselineOK'
  <2>1. PICK b : b = baseline
    OBVIOUS
  <2>2. b # None => BaseOK(b)'
    BY <2>1, KnownStays DEF IInv, BaselineOK
  <2>3. QED
    BY <1>2, <2>1, <2>2 DEF BaselineOK, BaseOK
<1>3. ASSUME baseline' = baseline, snapshot' = snapshot PROVE SnapshotOK'
  <2>1. PICK s : s = snapshot
    OBVIOUS
  <2>2. s # None => SnapOK(s)' /\ s.revision <= HeadRevision
    BY <2>1, KnownStays DEF IInv, SnapshotOK
  <2>3. HeadRevision' = HeadRevision
    BY <1>3 DEF HeadRevision
  <2>4. SnapOK(snapshot)' <=> SnapOK(s)'
    BY <1>3, <2>1 DEF SnapOK, OneState
  <2>5. QED
    BY <1>3, <2>1, <2>2, <2>3, <2>4 DEF SnapshotOK
<1>4. ASSUME bundles' = bundles PROVE BundlesOK'
  BY <1>4, KnownStays DEF IInv, BundlesOK
<1>5. ASSUME pointers' = pointers PROVE PointersOK'
  <2>1. PICK q : q = pointers
    OBVIOUS
  <2>2. \A p \in Pairs : PointerOK(q[p], p)'
    BY <2>1, KnownStays DEF IInv, PointersOK
  <2>3. \A p \in Pairs : PointerOK(pointers[p], p)'
    BY <1>5, <2>1, <2>2 DEF PointerOK
  <2>4. QED
    BY <1>5, <2>3 DEF IInv, PointersOK
<1>6. PICK u : u = task
  OBVIOUS
<1>7. u = [w \in Workers |-> u[w]] /\ \A w \in Workers : CallOK(u[w])'
  BY <1>6, KnownStays DEF IInv, CallsOK
<1>8. ASSUME NEW v, v = [w \in Workers |-> v[w]], \A w \in Workers : CallOK(v[w])', task' = v
      PROVE  CallsOK'
  <2>1. \A w \in Workers : CallOK(task[w])'
    BY <1>8 DEF CallOK, RebuildOK, BuildOK, SaveOK, EncodeOK, ActivateOK
  <2>2. QED
    BY <1>8, <2>1 DEF CallsOK
<1>9. task' = task => CallsOK'
  BY <1>6, <1>7, <1>8
<1>10. ASSUME NEW w \in Workers, NEW c, task' = [task EXCEPT ![w] = c], CallOK(c)'
       PROVE  CallsOK'
  <2> DEFINE v == [u EXCEPT ![w] = c]
  <2>1. v = [x \in Workers |-> v[x]]
    BY <1>7
  <2>2. \A x \in Workers : v[x] = IF x = w THEN c ELSE u[x]
    BY <1>7
  <2>3. task' = v
    BY <1>6, <1>10
  <2> HIDE DEF v
  <2>4. \A x \in Workers : CallOK(v[x])'
    BY <1>7, <1>10, <2>2
  <2>5. QED
    BY <1>8, <2>1, <2>3, <2>4
<1>11. QED
  BY <1>1, <1>2, <1>3, <1>4, <1>5, <1>9, <1>10

-------------------------------------------------------------------------------
(* Init and every action.                                                  *)

LEMMA InitIsOK == Init => IInv
<1> SUFFICES ASSUME Init PROVE IInv
  OBVIOUS
<1>1. log = <<>> /\ definitions = <<>> /\ Len(log) = 0
  BY DEF Init
<1>2. LedgerOK
  BY <1>1, ServingAssumption DEF LedgerOK, Distinct
<1>3. GrantsOK
  BY DEF Init, GrantsOK, GrantOK
<1>4. CallsOK
  BY DEF Init, CallsOK, CallOK
<1>5. PointersOK
  BY DEF Init, PointersOK, PointerOK
<1>6. now \in 1..Horizon /\ calls \in 0..MaxCalls
  BY ServingAssumption DEF Init
<1>7. QED
  BY <1>2, <1>3, <1>4, <1>5, <1>6
     DEF Init, IInv, ProjectionOK, BaselineOK, SnapshotOK, BundlesOK

(* Where a call is begun or goes on and no row is written.                 *)
LEMMA CallsStep ==
  ASSUME IInv, LedgerOK', GrantsOK', Grows, UNCHANGED Rows,
         NEW w \in Workers, NEW c, CallOK(c)', Begin(w, c) \/ Continue(w, c)
  PROVE  IInv'
<1>1. task' = [task EXCEPT ![w] = c] /\ calls' \in 0..MaxCalls
  BY ServingAssumption DEF Begin, Continue, IInv
<1>2. CallsOK'
  BY <1>1, RowsStay
<1>3. ProjectionOK' /\ BaselineOK' /\ SnapshotOK' /\ BundlesOK' /\ PointersOK'
  BY RowsStay DEF Rows
<1>4. QED
  BY <1>1, <1>2, <1>3 DEF IInv, Grows

LEMMA IdleIsOK == CallOK(Idle)'
BY DEF CallOK

LEMMA NumbersAre ==
  ASSUME IInv
  PROVE  /\ now \in Nat /\ Horizon \in Nat /\ now <= Horizon /\ 1 <= now
         /\ log \in Seq(Row) /\ Len(log) \in Nat /\ Len(definitions) \in Nat
         /\ log # <<>> => Len(log) \in 1..Len(log)
         /\ definitions # <<>> => Len(definitions) \in 1..Len(definitions)
         /\ First(Len(log)) = log
<1>1. /\ now \in Nat /\ Horizon \in Nat /\ now <= Horizon /\ 1 <= now
      /\ log \in Seq(Row) /\ definitions \in Seq(Windows)
  BY ServingAssumption DEF IInv, LedgerOK
<1>2. Len(log) \in Nat /\ Len(definitions) \in Nat
  BY <1>1, LenProperties
<1>3. (log # <<>> => Len(log) # 0) /\ (definitions # <<>> => Len(definitions) # 0)
  BY <1>1, EmptySeq
<1>4. First(Len(log)) = log
  <2>1. /\ First(Len(log)) \in Seq(Row) /\ Len(First(Len(log))) = Len(log)
        /\ \A i \in 1..Len(log) : First(Len(log))[i] = log[i]
    BY <1>2, FirstIs DEF IInv
  <2>2. QED
    BY <1>1, <2>1, SeqEqual
<1>5. QED
  BY <1>1, <1>2, <1>3, <1>4

LEMMA RecentIs == ASSUME NEW lag, NEW t \in Recently(lag) PROVE t \in 1..now
BY DEF Recently

LEMMA RebuildSteps ==
  ASSUME IInv, LedgerOK', GrantsOK', Grows, NEW w \in Workers, StartRebuild(w) \/ FinishRebuild(w)
  PROVE  IInv'
<1>1. CASE StartRebuild(w)
  <2>1. PICK asOf \in Recently(CutLag) : Begin(w, [pc |-> "rebuild", asOf |-> asOf, log |-> log])
    BY <1>1 DEF StartRebuild
  <2>2. now' = now /\ log' = log /\ log # <<>> /\ UNCHANGED Rows
    BY <1>1 DEF StartRebuild, Sources
  <2>3. PICK c : c = [pc |-> "rebuild", asOf |-> asOf, log |-> log]
    OBVIOUS
  <2>4. CallOK(c)'
    BY <2>2, <2>3, RecentIs DEF CallOK, RebuildOK
  <2>5. QED
    BY <2>1, <2>2, <2>3, <2>4, CallsStep
<1>2. CASE FinishRebuild(w)
  <2> DEFINE t == task[w]
             ok == /\ definitions # <<>> /\ t.log = log
                   /\ projection = None \/ projection.asOf <= t.asOf
  <2>1. /\ projection' = IF ok THEN BuildOntologyProjection(log, Len(definitions), t.asOf)
                         ELSE projection
        /\ t.pc = "rebuild" /\ task' = [task EXCEPT ![w] = Idle] /\ calls' = calls
        /\ now' = now /\ log' = log /\ definitions' = definitions /\ baseline' = baseline
        /\ snapshot' = snapshot /\ bundles' = bundles /\ pointers' = pointers
    BY <1>2 DEF FinishRebuild, Return, Continue, Sources
  <2>2. BaselineOK' /\ SnapshotOK' /\ BundlesOK' /\ PointersOK' /\ CallsOK'
    BY <2>1, RowsStay, IdleIsOK
  <2>3. RebuildOK(t)
    BY <2>1 DEF IInv, CallsOK, CallOK, BuildOK, SaveOK, EncodeOK, ActivateOK, Idle
  <2>4. CASE ok
    <3> DEFINE p == BuildOntologyProjection(log, Len(definitions), t.asOf)
    <3>1. t.asOf \in 1..Horizon /\ t.asOf \in 1..now /\ log # <<>>
      BY <2>3, NumbersAre DEF RebuildOK
    <3>2. Len(definitions) \in 1..Len(definitions)
      BY <2>4, NumbersAre
    <3>3. p.state = Len(log) /\ p.asOf = t.asOf /\ EdgesLast(p, log, t.asOf)
      BY <3>1, <3>2, NumbersAre, ProjectionLasts DEF IInv
    <3> HIDE DEF p
    <3>4. projection' = p
      BY <2>1, <2>4 DEF p
    <3>5. First(Len(log)) = log /\ Len(log) \in 1..Len(log)
      BY <3>1, NumbersAre
    <3>6. EdgesLast(projection', First(projection'.state), projection'.asOf)
      BY <3>3, <3>4, <3>5
    <3>7. ProjectionOK'
      BY <2>1, <3>1, <3>3, <3>4, <3>5, <3>6 DEF ProjectionOK, EdgesLast, First
    <3>8. QED
      BY <2>1, <2>2, <3>7 DEF IInv, Grows
  <2>5. CASE ~ok
    <3>1. ProjectionOK'
      BY <2>1, <2>5, RowsStay
    <3>2. QED
      BY <2>1, <2>2, <3>1 DEF IInv, Grows
  <2>6. QED
    BY <2>4, <2>5
<1>3. QED
  BY <1>1, <1>2

LEMMA StartSteps ==
  ASSUME IInv, LedgerOK', GrantsOK', Grows, NEW w \in Workers, StartRefresh(w) \/ StartAccept(w)
  PROVE  IInv'
<1>1. CASE StartRefresh(w)
  <2>1. PICK spec \in Specs, available \in Recently(CutLag), asOf \in Recently(CutLag) :
          /\ asOf \in 1..available
          /\ Begin(w, Build("read", spec, asOf, available, baseline, FALSE))
    BY <1>1 DEF StartRefresh
  <2>2. now' = now /\ UNCHANGED Rows
    BY <1>1 DEF StartRefresh
  <2>3. PICK c : c = Build("read", spec, asOf, available, baseline, FALSE)
    OBVIOUS
  <2>4. available \in 1..now /\ asOf \in 1..available /\ asOf \in Nat /\ available \in Nat
    BY <2>1, RecentIs
  <2>5. baseline \in Baselines \cup {None}
    BY DEF IInv, BaselineOK, BaseOK
  <2>6. CallOK(c)'
    BY <2>2, <2>3, <2>4, <2>5 DEF CallOK, BuildOK, Build
  <2>7. QED
    BY <2>1, <2>2, <2>3, <2>6, CallsStep
<1>2. CASE StartAccept(w)
  <2>1. PICK spec \in Specs, cut \in Recently(Lag), n \in 0..Len(log), mark \in 0..MaxFacts,
             revision \in {HeadRevision, HeadRevision + 1} :
          LET read == SubSeq(log, 1, n)
              b == [revision |-> revision, spec |-> spec, asOf |-> cut, available |-> cut,
                    mark |-> mark,
                    facts |-> {i \in Active(read, cut, cut) : Covered(read, i, mark)}]
          IN  /\ revision \in 1..MaxRevision
              /\ CoverageIsValid(b, log)
              /\ Begin(w, Build("read", spec, now, now, b, TRUE))
    BY <1>2 DEF StartAccept
  <2>2. now' = now /\ log' = log /\ UNCHANGED Rows
    BY <1>2 DEF StartAccept, Sources
  <2> DEFINE read == SubSeq(log, 1, n)
             facts == {i \in Active(read, cut, cut) : Covered(read, i, mark)}
             b == [revision |-> revision, spec |-> spec, asOf |-> cut, available |-> cut,
                   mark |-> mark, facts |-> facts]
  <2>3. /\ revision \in 1..MaxRevision /\ CoverageIsValid(b, log)
        /\ Begin(w, Build("read", spec, now, now, b, TRUE))
    BY <2>1
  <2>4. /\ b.revision = revision /\ b.spec = spec /\ b.asOf = cut /\ b.available = cut
        /\ b.mark = mark /\ b.facts = facts
    OBVIOUS
  <2>5. /\ mark <= Contiguous(log, cut, cut)
        /\ facts = {i \in Active(log, cut, cut) : Covered(log, i, mark)}
    BY <2>3, <2>4 DEF CoverageIsValid
  <2> HIDE DEF facts
  <2>6. cut \in 1..now /\ cut \in Nat /\ mark \in Nat /\ revision \in Nat
    BY <2>3, RecentIs, NumbersAre, ServingAssumption
  <2>7. Active(log, cut, cut) \subseteq 1..Len(log)
    BY NumbersAre, RowsAre DEF Active, Eligible
  <2>8. facts \in SUBSET Nat
    BY <2>5, <2>7
  <2>9. b \in Baselines
    BY <2>6, <2>8 DEF Baselines
  <2> HIDE DEF b
  <2>10. Covers(b, log)
    BY <2>4, <2>5, <2>7 DEF Covers
  <2>11. BaseOK(b)
    BY <2>3, <2>4, <2>6, <2>9, <2>10 DEF BaseOK
  <2>12. PICK base : base = b
    OBVIOUS
  <2>13. PICK c : c = Build("read", spec, now, now, base, TRUE)
    OBVIOUS
  <2>14. CallOK(c)'
    <3>1. /\ c.pc = "read" /\ c.asOf = now /\ c.available = now /\ c.accept = TRUE /\ c.base = base
          /\ now \in 1..now /\ now \in Nat
      BY <2>13, NumbersAre DEF Build
    <3>2. c \in [pc : {c.pc}, spec : Specs, asOf : Nat, available : Nat,
                 base : Baselines \cup {None}, accept : BOOLEAN, log : {c.log}, onto : {c.onto}]
      BY <2>9, <2>12, <2>13, <3>1 DEF Build
    <3>3. BaseOK(base)'
      BY <2>2, <2>11, <2>12 DEF BaseOK
    <3>4. BuildOK(c)'
      BY <2>2, <3>1, <3>2, <3>3 DEF BuildOK
    <3>5. QED
      BY <3>4 DEF CallOK
  <2>15. QED
    BY <2>2, <2>3, <2>12, <2>13, <2>14, CallsStep
<1>3. QED
  BY <1>1, <1>2

LEMMA IsBuilding ==
  ASSUME IInv, NEW w \in Workers, task[w].pc \in {"read", "ontology", "future"}
  PROVE  BuildOK(task[w])
BY DEF IInv, CallsOK, CallOK, RebuildOK, SaveOK, EncodeOK, ActivateOK, Idle

LEMMA ReadSteps ==
  ASSUME IInv, LedgerOK', GrantsOK', Grows, NEW w \in Workers,
         ReadState(w) \/ ReadOntology(w) \/ ReadFuture(w)
  PROVE  IInv'
<1>0. PICK t : t = task[w]
  OBVIOUS
<1>1. UNCHANGED <<now, log, definitions, Rows>>
  BY DEF ReadState, ReadOntology, ReadFuture, Sources
<1>2. BuildOK(t)
  BY <1>0, IsBuilding DEF ReadState, ReadOntology, ReadFuture
<1>3. ASSUME NEW c, CallOK(c)', Continue(w, c) PROVE IInv'
  BY <1>1, <1>3, CallsStep
<1>4. Return(w) => IInv'
  BY <1>3, IdleIsOK DEF Return
<1>5. /\ t \in [pc : {t.pc}, spec : Specs, asOf : Nat, available : Nat,
                base : Baselines \cup {None}, accept : BOOLEAN, log : {t.log}, onto : {t.onto}]
      /\ t.asOf \in 1..t.available /\ t.available \in 1..now
      /\ t.accept => BaseOK(t.base)
      /\ t.pc # "read" => Len(t.log) \in 1..Len(log) /\ t.log = First(Len(t.log))
  BY <1>2 DEF BuildOK
<1>6. t.accept => BaseOK(t.base)'
  BY <1>1, <1>5 DEF BaseOK
<1>7. CASE ReadState(w) /\ ~Return(w)
  <2>1. PICK c : c = [t EXCEPT !.pc = "ontology", !.log = log]
    OBVIOUS
  <2>2. Continue(w, c) /\ log # <<>>
    BY <1>0, <1>7, <2>1 DEF ReadState
  <2>3. /\ c.pc = "ontology" /\ c.log = log /\ c.spec = t.spec /\ c.asOf = t.asOf
        /\ c.available = t.available /\ c.base = t.base /\ c.accept = t.accept
        /\ c \in [pc : {c.pc}, spec : Specs, asOf : Nat, available : Nat,
                  base : Baselines \cup {None}, accept : BOOLEAN, log : {c.log}, onto : {c.onto}]
    BY <1>5, <2>1
  <2>4. Len(log) \in 1..Len(log) /\ log = First(Len(log))
    BY <2>2, NumbersAre
  <2>5. BuildOK(c)'
    BY <1>1, <1>5, <1>6, <2>3, <2>4 DEF BuildOK, First
  <2>6. QED
    BY <1>3, <2>2, <2>5 DEF CallOK
<1>8. CASE ReadOntology(w) /\ ~Return(w)
  <2>1. PICK c : c = [t EXCEPT !.pc = "future", !.onto = projection]
    OBVIOUS
  <2>2. /\ Continue(w, c) /\ t.pc = "ontology"
        /\ t.spec.rule => ReadyProjection(t.asOf) /\ projection.state = Len(t.log)
    BY <1>0, <1>8, <2>1 DEF ReadOntology
  <2>3. /\ c.pc = "future" /\ c.log = t.log /\ c.spec = t.spec /\ c.asOf = t.asOf
        /\ c.available = t.available /\ c.base = t.base /\ c.accept = t.accept
        /\ c.onto = projection
        /\ c \in [pc : {c.pc}, spec : Specs, asOf : Nat, available : Nat,
                  base : Baselines \cup {None}, accept : BOOLEAN, log : {c.log}, onto : {c.onto}]
    BY <1>5, <2>1
  <2>4. ASSUME t.spec.rule PROVE EdgesLast(projection, t.log, t.asOf)
    <3>1. /\ projection # None /\ projection.state = Len(t.log)
          /\ projection.asOf <= t.asOf /\ t.asOf < projection.next
      BY <2>2, <2>4 DEF ReadyProjection
    <3>2. EdgesLast(projection, t.log, projection.asOf) /\ projection.asOf \in 1..now
      BY <1>5, <2>2, <3>1 DEF IInv, ProjectionOK
    <3>3. t.asOf \in Nat /\ projection.asOf \in Nat /\ projection.next \in Nat
      BY <1>5, <3>2 DEF EdgesLast
    <3>4. t.asOf..(projection.next - 1) \subseteq projection.asOf..(projection.next - 1)
      BY <3>1, <3>3
    <3>5. QED
      BY <3>1, <3>2, <3>4 DEF EdgesLast
  <2>5. c.spec.rule => EdgesLast(c.onto, c.log, c.asOf)'
    BY <1>1, <2>3, <2>4 DEF EdgesLast
  <2>6. Len(c.log) \in 1..Len(log) /\ c.log = First(Len(c.log))
    BY <1>5, <2>2, <2>3
  <2>7. BuildOK(c)'
    BY <1>1, <1>5, <1>6, <2>3, <2>5, <2>6 DEF BuildOK, First
  <2>8. QED
    BY <1>3, <2>2, <2>7 DEF CallOK
<1>9. CASE ReadFuture(w)
  <2> DEFINE snap == Merge(t.base, t.spec, t.log, t.onto, t.asOf, t.available)
             next == Min({snap.next} \cup FutureChanges(log, t.asOf, t.available))
  <2>1. PICK s : s = [snap EXCEPT !.next = next]
    OBVIOUS
  <2>2. s.revision = snap.revision
    BY <2>1 DEF Merge
  <2>3. SnapOK(s) /\ s.revision = RevisionOf(t.base)
    BY <1>0, <1>2, <1>9, <2>1, <2>2, MergeIsOK DEF IInv, ReadFuture
  <2>4. PICK c : c = [pc |-> "save", base |-> t.base, accept |-> t.accept, snap |-> s]
    OBVIOUS
  <2>5. Continue(w, c)
    BY <1>0, <1>9, <2>1, <2>4 DEF ReadFuture
  <2>6. SnapOK(s)'
    BY <2>3, KnownStays
  <2>7. /\ c.pc = "save" /\ c.base = t.base /\ c.accept = t.accept /\ c.snap = s
        /\ c.accept \in BOOLEAN /\ c.base \in Baselines \cup {None}
    BY <1>5, <2>4
  <2>8. SaveOK(c)'
    BY <1>6, <2>3, <2>6, <2>7 DEF SaveOK, RevisionOf
  <2>9. QED
    BY <1>3, <2>5, <2>8 DEF CallOK
<1>10. QED
  BY <1>4, <1>7, <1>8, <1>9

LEMMA SaveSteps ==
  ASSUME IInv, LedgerOK', GrantsOK', Grows, NEW w \in Workers, SaveRefreshed(w) \/ SaveAccepted(w)
  PROVE  IInv'
<1>1. PICK t : t = task[w]
  OBVIOUS
<1>2. /\ UNCHANGED <<now, log, definitions, grants, projection, bundles, pointers, calls>>
      /\ task' = [task EXCEPT ![w] = Idle] /\ t.pc = "save"
  BY <1>1 DEF SaveRefreshed, SaveAccepted, Return, Continue, Sources
<1>3. ProjectionOK' /\ BundlesOK' /\ PointersOK' /\ CallsOK'
  BY <1>2, RowsStay, IdleIsOK
<1>4. BaselineOK' /\ SnapshotOK' => IInv'
  BY <1>2, <1>3 DEF IInv, Grows
<1>5. SaveOK(t)
  BY <1>1, <1>2 DEF IInv, CallsOK, CallOK, RebuildOK, BuildOK, EncodeOK, ActivateOK, Idle
<1>6. /\ t.base \in Baselines \cup {None}
      /\ t.accept => BaseOK(t.base)
      /\ SnapOK(t.snap) /\ t.snap.revision = RevisionOf(t.base)
  BY <1>5 DEF SaveOK
<1>7. PICK s, b : s = t.snap /\ b = t.base
  OBVIOUS
<1>8. SnapOK(s)' /\ s.revision \in Nat
  BY <1>6, <1>7, KnownStays DEF SnapOK
<1>9. CASE snapshot' = snapshot /\ baseline' = baseline
  BY <1>4, <1>9, RowsStay
<1>10. CASE SaveRefreshed(w) /\ snapshot' # snapshot
  <2>1. snapshot' = s /\ baseline' = baseline /\ HeadIsStill(b)
    BY <1>1, <1>7, <1>10 DEF SaveRefreshed
  <2>2. s.revision = HeadRevision'
    BY <1>6, <1>7, <2>1 DEF HeadIsStill, HeadRevision, RevisionOf
  <2>3. SnapOK(snapshot)'
    BY <1>8, <2>1 DEF SnapOK, OneState
  <2>4. SnapshotOK'
    BY <1>8, <2>1, <2>2, <2>3 DEF SnapshotOK
  <2>5. QED
    BY <1>4, <2>1, <2>4, RowsStay
<1>11. CASE SaveAccepted(w) /\ ~(snapshot' = snapshot /\ baseline' = baseline)
  <2>1. snapshot' = s /\ baseline' = b /\ t.accept
    BY <1>1, <1>7, <1>11 DEF SaveAccepted
  <2>2. BaseOK(b) /\ b \in Baselines
    BY <1>6, <1>7, <2>1 DEF BaseOK
  <2>3. b # None
    BY <2>2, NullAssumption
  <2>4. s.revision = HeadRevision'
    BY <1>6, <1>7, <2>1, <2>3 DEF HeadRevision, RevisionOf
  <2>5. BaseOK(b)'
    BY <2>2, KnownStays
  <2>6. BaselineOK'
    BY <2>1, <2>5 DEF BaselineOK, BaseOK
  <2>7. SnapOK(snapshot)'
    BY <1>8, <2>1 DEF SnapOK, OneState
  <2>8. SnapshotOK'
    BY <1>8, <2>1, <2>4, <2>7 DEF SnapshotOK
  <2>9. QED
    BY <1>4, <2>6, <2>8
<1>12. QED
  BY <1>9, <1>10, <1>11 DEF SaveRefreshed

LEMMA BundleSteps ==
  ASSUME IInv, LedgerOK', GrantsOK', Grows, NEW w \in Workers, StartEncode(w) \/ SaveBundle(w)
  PROVE  IInv'
<1>1. CASE StartEncode(w)
  <2>1. PICK p \in Pairs : /\ p.spec = snapshot.spec
                           /\ Begin(w, [pc |-> "encode", pair |-> p, snap |-> snapshot])
    BY <1>1 DEF StartEncode
  <2>2. UNCHANGED Rows /\ snapshot # None
    BY <1>1 DEF StartEncode, Ready
  <2>3. PICK s, c : s = snapshot /\ c = [pc |-> "encode", pair |-> p, snap |-> s]
    OBVIOUS
  <2>4. SnapOK(s)
    BY <2>2, <2>3 DEF IInv, SnapshotOK
  <2>5. SnapOK(s)'
    BY <2>4, KnownStays
  <2>6. c.pc = "encode" /\ c.pair = p /\ c.snap = s /\ p.spec = s.spec
    BY <2>1, <2>3
  <2>7. CallOK(c)'
    BY <2>5, <2>6 DEF CallOK, EncodeOK, BundleOK
  <2>8. QED
    BY <2>1, <2>2, <2>3, <2>7, CallsStep
<1>2. CASE SaveBundle(w)
  <2>1. PICK t : t = task[w]
    OBVIOUS
  <2>2. /\ UNCHANGED <<now, projection, baseline, snapshot, pointers, calls>>
        /\ task' = [task EXCEPT ![w] = Idle] /\ t.pc = "encode"
        /\ bundles' \subseteq bundles \cup {[pair |-> t.pair, snap |-> t.snap]}
    BY <1>2, <2>1 DEF SaveBundle, Return, Continue
  <2>3. ProjectionOK' /\ BaselineOK' /\ SnapshotOK' /\ PointersOK' /\ CallsOK'
    BY <2>2, RowsStay, IdleIsOK
  <2>4. EncodeOK(t)
    BY <2>1, <2>2 DEF IInv, CallsOK, CallOK, RebuildOK, BuildOK, SaveOK, ActivateOK, Idle
  <2>5. PICK b : b = [pair |-> t.pair, snap |-> t.snap]
    OBVIOUS
  <2>6. BundleOK(b)
    BY <2>4, <2>5 DEF EncodeOK, BundleOK
  <2>7. \A x \in bundles \cup {b} : BundleOK(x)'
    BY <2>6, KnownStays DEF IInv, BundlesOK
  <2>8. BundlesOK'
    BY <2>2, <2>5, <2>7 DEF BundlesOK
  <2>9. QED
    BY <2>2, <2>3, <2>8 DEF IInv, Grows
<1>3. QED
  BY <1>1, <1>2

LEMMA PointerSteps ==
  ASSUME IInv, LedgerOK', GrantsOK', Grows, NEW w \in Workers, StartActivate(w) \/ FinishActivate(w)
  PROVE  IInv'
<1>1. CASE StartActivate(w)
  <2>1. PICK p \in Pairs, b \in bundles, expected \in 0..MaxPointer :
          /\ grants[p].active
          /\ Begin(w, [pc |-> "activate", pair |-> p, bundle |-> b, expected |-> expected,
                       approval |-> grants[p].revision])
    BY <1>1 DEF StartActivate
  <2>2. UNCHANGED Rows
    BY <1>1 DEF StartActivate
  <2>3. PICK c : c = [pc |-> "activate", pair |-> p, bundle |-> b, expected |-> expected,
                      approval |-> grants[p].revision]
    OBVIOUS
  <2>4. grants[p].revision \in 1..grants[p].revision /\ expected \in Nat
    BY <2>1, ServingAssumption DEF IInv, GrantsOK, GrantOK
  <2>5. CallOK(c)
    BY <2>3, <2>4 DEF CallOK, ActivateOK
  <2>6. CallOK(c)'
    BY <2>5, KnownStays
  <2>7. QED
    BY <2>1, <2>2, <2>3, <2>6, CallsStep
<1>2. CASE FinishActivate(w)
  <2>1. PICK t : t = task[w]
    OBVIOUS
  <2>2. PICK r : r = [bundle |-> t.bundle, state |-> "active", approval |-> t.approval,
                      version |-> t.expected + 1]
    OBVIOUS
  <2>3. /\ UNCHANGED <<now, projection, baseline, snapshot, bundles, calls>>
        /\ task' = [task EXCEPT ![w] = Idle] /\ t.pc = "activate"
        /\ pointers' = pointers \/ pointers' = [pointers EXCEPT ![t.pair] = r]
    BY <1>2, <2>1, <2>2 DEF FinishActivate, Return, Continue
  <2>4. ProjectionOK' /\ BaselineOK' /\ SnapshotOK' /\ BundlesOK' /\ CallsOK'
    BY <2>3, RowsStay, IdleIsOK
  <2>5. ActivateOK(t)
    BY <2>1, <2>3 DEF IInv, CallsOK, CallOK, RebuildOK, BuildOK, SaveOK, EncodeOK, Idle
  <2>6. PICK p \in Pairs : p = t.pair
    BY <2>5 DEF ActivateOK
  <2>7. PointerOK(r, p)
    BY <2>2, <2>5, <2>6 DEF ActivateOK, PointerOK
  <2>8. PICK q : q = pointers
    OBVIOUS
  <2>9. \A x \in Pairs : PointerOK(q[x], x)'
    BY <2>8, KnownStays DEF IInv, PointersOK
  <2>10. PointerOK(r, p)'
    BY <2>7, KnownStays
  <2>11. CASE pointers' = pointers
    BY <2>3, <2>4, <2>11, RowsStay DEF IInv, Grows
  <2>12. CASE pointers' = [pointers EXCEPT ![p] = r]
    <3>1. pointers' = [x \in Pairs |-> pointers'[x]]
          /\ \A x \in Pairs : pointers'[x] = IF x = p THEN r ELSE q[x]
      BY <2>8, <2>12 DEF IInv, PointersOK
    <3>2. \A x \in Pairs : PointerOK(pointers[x], x)'
      BY <2>9, <2>10, <3>1 DEF PointerOK
    <3>3. PointersOK'
      BY <3>1, <3>2 DEF PointersOK
    <3>4. QED
      BY <2>3, <2>4, <3>3 DEF IInv, Grows
  <2>13. QED
    BY <2>3, <2>6, <2>11, <2>12
<1>3. QED
  BY <1>1, <1>2

LEMMA DisableStep ==
  ASSUME IInv, LedgerOK', GrantsOK', Grows, Disable
  PROVE  IInv'
<1>1. PICK p \in Pairs :
        /\ pointers[p] # None
        /\ pointers' = [pointers EXCEPT ![p].state = "disabled", ![p].version = @ + 1]
  BY DEF Disable
<1>2. UNCHANGED <<now, projection, baseline, snapshot, bundles, task, calls>>
  BY DEF Disable
<1>3. ProjectionOK' /\ BaselineOK' /\ SnapshotOK' /\ BundlesOK' /\ CallsOK'
  BY <1>2, RowsStay
<1>4. PICK q : q = pointers
  OBVIOUS
<1>5. q = [x \in Pairs |-> q[x]] /\ \A x \in Pairs : PointerOK(q[x], x)
  BY <1>4 DEF IInv, PointersOK
<1>6. PICK r : r = [q[p] EXCEPT !.state = "disabled", !.version = @ + 1]
  OBVIOUS
<1>7. PointerOK(r, p)
  <2>1. q[p] \in [bundle : bundles, state : {"active", "disabled"},
                  approval : 1..grants[p].revision, version : Nat]
    BY <1>1, <1>4, <1>5 DEF PointerOK
  <2>2. q[p].version + 1 \in Nat
    BY <2>1
  <2>3. r \in [bundle : bundles, state : {"active", "disabled"},
               approval : 1..grants[p].revision, version : Nat]
    BY <1>6, <2>1, <2>2
  <2>4. QED
    BY <2>3 DEF PointerOK
<1>8. pointers' = [x \in Pairs |-> pointers'[x]]
      /\ \A x \in Pairs : pointers'[x] = IF x = p THEN r ELSE q[x]
  BY <1>1, <1>4, <1>5, <1>6
<1>9. \A x \in Pairs : PointerOK(IF x = p THEN r ELSE q[x], x)'
  BY <1>5, <1>7, KnownStays
<1>10. \A x \in Pairs : PointerOK(pointers[x], x)'
  BY <1>8, <1>9 DEF PointerOK
<1>11. PointersOK'
  BY <1>8, <1>10 DEF PointersOK
<1>12. QED
  BY <1>2, <1>3, <1>11 DEF IInv, Grows

LEMMA StepIsOK == IInv /\ [Next]_vars => IInv'
<1> SUFFICES ASSUME IInv, [Next]_vars PROVE IInv'
  OBVIOUS
<1>1. LedgerOK' /\ GrantsOK' /\ Grows
  BY SourcesOnlyGrow
<1>2. CASE UNCHANGED <<Rows, task, calls>>
  BY <1>1, <1>2, RowsStay DEF IInv, Grows, Rows
<1>3. Tick \/ Accept \/ PublishOntology \/ Decide \/ UNCHANGED vars => UNCHANGED <<Rows, task, calls>>
  BY DEF Tick, Accept, PublishOntology, Decide, vars, Rows
<1>4. CASE Disable
  BY <1>1, <1>4, DisableStep
<1>5. ASSUME NEW w \in Workers, Step(w) PROVE IInv'
  BY <1>1, <1>5, RebuildSteps, StartSteps, ReadSteps, SaveSteps, BundleSteps, PointerSteps DEF Step
<1>6. QED
  BY <1>2, <1>3, <1>4, <1>5 DEF Next

-------------------------------------------------------------------------------
(* What the rows and the calls know stays true of the ledger.              *)
THEOREM ServingIsConsistent == Spec => []IInv
BY InitIsOK, StepIsOK, PTL DEF Spec

(* Versions, revisions and times are in range and in order.                *)
THEOREM TypesAreRight == Spec => []TypeOK
<1>1. IInv => TypeOK
  <2> SUFFICES ASSUME IInv PROVE TypeOK
    OBVIOUS
  <2>1. now \in 1..Horizon /\ calls \in 0..MaxCalls /\ Len(log) <= MaxFacts
    BY DEF IInv, LedgerOK
  <2>2. \A i \in DOMAIN log : /\ log[i].old \in 0..(i - 1) /\ log[i].created \in 1..now
                              /\ log[i].seq \in Nat
    BY NumbersAre, RowsAre DEF IInv, LedgerOK
  <2>3. \A i \in DOMAIN definitions : definitions[i] \in Windows
    BY LenProperties DEF IInv, LedgerOK
  <2>4. projection # None =>
          /\ projection.definition \in 1..Len(definitions) /\ projection.state \in 1..Len(log)
          /\ projection.asOf \in 1..now /\ projection.next > projection.asOf
    <3>1. projection # None =>
            /\ projection.definition \in 1..Len(definitions) /\ projection.state \in 1..Len(log)
            /\ projection.asOf \in 1..now /\ projection.asOf < projection.next
            /\ projection.next \in Nat
      BY DEF IInv, ProjectionOK, EdgesLast
    <3>2. QED
      BY <3>1
  <2>5. baseline # None =>
          /\ baseline.revision \in 1..MaxRevision /\ baseline.mark \in 0..Len(log)
          /\ baseline.asOf \in 1..baseline.available /\ baseline.available \in 1..now
    <3>1. baseline # None =>
            /\ baseline \in Baselines /\ baseline.revision \in 1..MaxRevision
            /\ baseline.asOf \in 1..baseline.available /\ baseline.available \in 1..now
            /\ baseline.mark <= Contiguous(log, baseline.asOf, baseline.available)
      BY DEF IInv, BaselineOK, BaseOK, Covers
    <3>2. Contiguous(log, baseline.asOf, baseline.available) \in 0..Len(log)
      BY NumbersAre, ContiguousIs
    <3>3. QED
      BY <3>1, <3>2, NumbersAre DEF Baselines
  <2>6. snapshot # None =>
          /\ snapshot.spec \in Specs /\ snapshot.state \in 1..Len(log)
          /\ snapshot.asOf \in 1..snapshot.available /\ snapshot.available \in 1..now
          /\ snapshot.revision \in 0..HeadRevision /\ snapshot.next > snapshot.asOf
    <3>1. HeadRevision \in Nat
      BY DEF IInv, BaselineOK, BaseOK, Baselines, HeadRevision
    <3>2. snapshot # None =>
            /\ snapshot.spec \in Specs /\ snapshot.state \in 1..Len(log)
            /\ snapshot.asOf \in 1..snapshot.available /\ snapshot.available \in 1..now
            /\ snapshot.revision \in Nat /\ snapshot.revision <= HeadRevision
            /\ snapshot.next \in Nat /\ snapshot.asOf < snapshot.next
      BY DEF IInv, SnapshotOK, SnapOK
    <3>3. QED
      BY <3>1, <3>2, NumbersAre
  <2>7. \A b \in bundles : b.pair.spec = b.snap.spec
    BY DEF IInv, BundlesOK, BundleOK
  <2>8. \A p \in Pairs : pointers[p] # None => /\ pointers[p].bundle \in bundles
                                               /\ pointers[p].approval \in 1..grants[p].revision
    BY DEF IInv, PointersOK, PointerOK
  <2>9. QED
    BY <2>1, <2>2, <2>3, <2>4, <2>5, <2>6, <2>7, <2>8 DEF TypeOK
<1>2. QED
  BY <1>1, ServingIsConsistent, PTL

LEMMA ReadyIsFresh == IInv => ReadyIsCurrent
<1> SUFFICES ASSUME IInv, Ready(snapshot) PROVE Fresh(snapshot)
  BY DEF ReadyIsCurrent
<1>1. PICK s : s = snapshot
  OBVIOUS
<1>2. /\ SnapOK(s) /\ s.state = Len(log) /\ now < s.next
      /\ s.ontology # 0 => s.ontology = Len(definitions)
  BY <1>1 DEF IInv, SnapshotOK, Ready
<1>3. /\ s.available \in 1..now /\ s.next \in Nat
      /\ s.spec.rule => s.ontology \in 1..Len(definitions)
      /\ \A t \in s.available..(s.next - 1) :
           TellsAt(s, First(s.state), definitions[s.ontology], t)
  BY <1>2 DEF SnapOK
<1>4. now \in s.available..(s.next - 1)
  BY <1>2, <1>3, NumbersAre
<1>5. TellsAt(s, log, definitions[s.ontology], now)
  BY <1>2, <1>3, <1>4, NumbersAre
<1>6. s.spec.rule => s.ontology = Len(definitions)
  BY <1>2, <1>3, NumbersAre
<1>7. QED
  BY <1>1, <1>5, <1>6 DEF TellsAt, Fresh

(* What ReadyFeatureSnapshot hands out as current is what would be         *)
(* computed from everything accepted and published.                        *)
THEOREM ReadyIsAlwaysCurrent == Spec => []ReadyIsCurrent
BY ReadyIsFresh, ServingIsConsistent, PTL

(* So is what ReadyServingBundle serves for a pair, encoded by its spec.   *)
THEOREM ServedIsAlwaysCurrent == Spec => []ServedIsCurrent
<1>1. IInv => ServedIsCurrent
  <2> SUFFICES ASSUME IInv, NEW p \in Pairs, Served(p)
               PROVE  /\ Fresh(pointers[p].bundle.snap)
                      /\ pointers[p].bundle.snap.spec = p.spec
    BY DEF ServedIsCurrent
  <2>1. /\ Ready(snapshot) /\ pointers[p] # None
        /\ pointers[p].bundle.pair = p /\ pointers[p].bundle.snap = snapshot
    BY DEF Served
  <2>2. pointers[p].bundle \in bundles
    BY <2>1 DEF IInv, PointersOK, PointerOK
  <2>3. pointers[p].bundle.pair.spec = pointers[p].bundle.snap.spec
    BY <2>2 DEF IInv, BundlesOK, BundleOK
  <2>4. QED
    BY <2>1, <2>3, ReadyIsFresh DEF ReadyIsCurrent
<1>2. QED
  BY <1>1, ServingIsConsistent, PTL

(* A snapshot, saved or in a bundle, is of one state of the ledger and one *)
(* definition.                                                             *)
THEOREM SnapshotsAreOfOneState == Spec => []SnapshotIsOneState
<1>1. IInv => SnapshotIsOneState
  BY DEF IInv, SnapshotOK, BundlesOK, BundleOK, SnapOK, SnapshotIsOneState
<1>2. QED
  BY <1>1, ServingIsConsistent, PTL

(* A snapshot can always be built on the accepted baseline.                *)
THEOREM BaselineNeverBlocks == Spec => []CanAlwaysRebuild
<1>1. IInv => CanAlwaysRebuild
  BY CoversMeansMerges DEF IInv, BaselineOK, CanAlwaysRebuild
<1>2. QED
  BY <1>1, ServingIsConsistent, PTL

(* A pointer moves one version at a time and never to an older approval.   *)
THEOREM PointersOnlyMoveForward == Spec => PointersMoveForward
<1> DEFINE Moves(p) == pointers'[p] # pointers[p] =>
                         /\ pointers'[p].version = PointerVersion(p) + 1
                         /\ pointers[p] # None => pointers'[p].approval >= pointers[p].approval
<1>1. ASSUME IInv, [Next]_vars, NEW p \in Pairs PROVE Moves(p)
  <2>1. pointers = [x \in Pairs |-> pointers[x]] /\ PointerOK(pointers[p], p)
    BY <1>1 DEF IInv, PointersOK
  <2>2. pointers[p] # None =>
          pointers[p] \in [bundle : bundles, state : {"active", "disabled"},
                           approval : 1..grants[p].revision, version : Nat]
    BY <2>1 DEF PointerOK
  <2>3. CASE pointers' = pointers
    BY <2>3
  <2>4. CASE Disable
    <3>1. PICK q \in Pairs :
            /\ pointers[q] # None
            /\ pointers' = [pointers EXCEPT ![q].state = "disabled", ![q].version = @ + 1]
      BY <2>4 DEF Disable
    <3>2. CASE q = p
      <4>1. pointers'[p] = [pointers[p] EXCEPT !.state = "disabled", !.version = @ + 1]
        BY <2>1, <3>1, <3>2
      <4>2. /\ pointers'[p].version = pointers[p].version + 1
            /\ pointers'[p].approval = pointers[p].approval /\ pointers[p].approval \in Int
        <5> DEFINE r == pointers[p]
        <5>1. r \in [bundle : bundles, state : {"active", "disabled"},
                     approval : 1..grants[p].revision, version : Nat]
          BY <2>2, <3>1, <3>2
        <5>2. r.approval \in Int
          BY <5>1
        <5> HIDE DEF r
        <5>3. pointers'[p] = [r EXCEPT !.state = "disabled", !.version = @ + 1]
          BY <4>1 DEF r
        <5>4. pointers'[p].version = r.version + 1 /\ pointers'[p].approval = r.approval
          BY <5>1, <5>3
        <5>5. QED
          BY <5>2, <5>4 DEF r
      <4>3. QED
        BY <3>1, <3>2, <4>2 DEF PointerVersion
    <3>3. CASE q # p
      BY <2>1, <3>1, <3>3
    <3>4. QED
      BY <3>2, <3>3
  <2>5. ASSUME NEW w \in Workers, FinishActivate(w) PROVE Moves(p)
    <3> DEFINE t == task[w]
               r == [bundle |-> t.bundle, state |-> "active", approval |-> t.approval,
                     version |-> t.expected + 1]
    <3>1. CASE pointers' = [pointers EXCEPT ![t.pair] = r] /\ MayActivate(t)
      <4>1. pointers'[p] = IF p = t.pair THEN r ELSE pointers[p]
        BY <2>1, <3>1
      <4>2. p = t.pair => /\ PointerVersion(p) = t.expected
                          /\ pointers[p] # None => t.approval >= pointers[p].approval
        BY <3>1 DEF MayActivate
      <4>3. r.version = t.expected + 1 /\ r.approval = t.approval
        OBVIOUS
      <4>4. QED
        BY <4>1, <4>2, <4>3
    <3>2. QED
      BY <2>3, <2>5, <3>1 DEF FinishActivate
  <2>6. ASSUME NEW w \in Workers, Step(w) PROVE pointers' = pointers \/ FinishActivate(w)
    BY <2>6 DEF Step, StartRebuild, FinishRebuild, StartRefresh, StartAccept, ReadState,
                ReadOntology, ReadFuture, SaveRefreshed, SaveAccepted, StartEncode, SaveBundle,
                StartActivate, Rows
  <2>7. Tick \/ Accept \/ PublishOntology \/ Decide \/ UNCHANGED vars => pointers' = pointers
    BY DEF Tick, Accept, PublishOntology, Decide, Rows, vars
  <2>8. QED
    BY <1>1, <2>3, <2>4, <2>5, <2>6, <2>7 DEF Next
<1>2. IInv /\ [Next]_vars => [\A p \in Pairs : Moves(p)]_vars
  BY <1>1
<1>3. QED
  BY <1>2, ServingIsConsistent, PTL DEF Spec, PointersMoveForward

=============================================================================
