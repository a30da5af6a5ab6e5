------------------------------ MODULE FactProofs ------------------------------
(***************************************************************************)
(* Proofs about FactLedger, for all sets of subjects, aliases, envelopes   *)
(* and displays and all limits of the two loops, and then about            *)
(* FactDelivery, for every stream, every number of workers, faults and     *)
(* other routes, and all sizes of a batch.                                 *)
(***************************************************************************)
EXTENDS FactDelivery, FiniteSetTheorems, SequenceTheorems, WellFoundedInduction, TLAPS

-------------------------------------------------------------------------------
(* Numbers and loops.  The library's induction theorems take a predicate   *)
(* as a parameter; these lemmas say of sets and functions what is needed   *)
(* of them, from the well-foundedness of the natural numbers.              *)

(* A set of numbers has a least element, and a bounded one a greatest.      *)
LEMMA Least ==
  ASSUME NEW S \in SUBSET Nat, S # {}
  PROVE  \E m \in S : \A n \in S : m <= n
<1>1. PICK m \in S : \A n \in S : <<n, m>> \notin OpToRel(<, Nat)
  BY WFMin, NatLessThanWellFounded, Zenon
<1>2. \A n \in S : ~(n < m)
  BY <1>1, Zenon DEF OpToRel
<1>3. \A n \in S : m <= n
  BY <1>2
<1>4. QED
  BY <1>3

LEMMA Greatest ==
  ASSUME NEW S \in SUBSET Nat, S # {}, NEW b \in Nat, \A n \in S : n <= b
  PROVE  \E m \in S : \A n \in S : n <= m
<1> DEFINE T == {b - n : n \in S}
<1>1. \A n \in S : b - n \in Nat
  OBVIOUS
<1>2. T \in SUBSET Nat /\ T # {}
  BY <1>1
<1>3. \A n \in S : b - n \in T
  OBVIOUS
<1>4. \A t \in T : \E n \in S : t = b - n
  OBVIOUS
<1> HIDE DEF T
<1>5. PICK d \in T : \A t \in T : d <= t
  BY <1>2, Least
<1>6. PICK m \in S : d = b - m
  BY <1>4
<1>7. \A n \in S : n <= m
  BY <1>3, <1>5, <1>6
<1>8. QED
  BY <1>7

(* What the first turn of a loop has and every turn keeps, all turns have.  *)
LEMMA Stays ==
  ASSUME NEW S, NEW L \in Nat, NEW f, f[0] \in S,
         \A n \in 1..L : f[n - 1] \in S => f[n] \in S
  PROVE  \A n \in 0..L : f[n] \in S
<1> DEFINE T == {n \in 0..L : f[n] \notin S}
<1> SUFFICES ASSUME T # {} PROVE FALSE
  OBVIOUS
<1>1. \A n : n \in T <=> n \in 0..L /\ f[n] \notin S
  OBVIOUS
<1>2. T \in SUBSET Nat
  OBVIOUS
<1> HIDE DEF T
<1>3. PICK m \in T : \A n \in T : m <= n
  BY <1>2, Least
<1>4. m \in 1..L /\ m - 1 \in 0..L
  BY <1>1
<1>5. m - 1 \notin T
  BY <1>3, <1>4
<1>6. QED
  BY <1>1, <1>4, <1>5

(* A loop of L turns in S exists as a function of the turn.                *)
IsLoop(f, S, L, x, F) ==
  f \in [0..L -> S] /\ f[0] = x /\ \A n \in 1..L : f[n] = F[f[n - 1]]

LEMMA Iterates ==
  ASSUME NEW S, NEW L \in Nat, NEW x \in S, NEW F \in [S -> S]
  PROVE  \E f : IsLoop(f, S, L, x, F)
<1> DEFINE Good(m) == \E f \in [0..m -> S] : f[0] = x /\ \A n \in 1..m : f[n] = F[f[n - 1]]
           T == {m \in 0..L : ~Good(m)}
<1>1. Good(0)
  <2> DEFINE g == [n \in 0..0 |-> x]
  <2>1. g \in [0..0 -> S] /\ g[0] = x /\ \A n \in 1..0 : g[n] = F[g[n - 1]]
    OBVIOUS
  <2>2. QED
    BY <2>1
<1>2. ASSUME NEW m \in 1..L, Good(m - 1) PROVE Good(m)
  <2>1. PICK g \in [0..(m - 1) -> S] : g[0] = x /\ \A n \in 1..(m - 1) : g[n] = F[g[n - 1]]
    BY <1>2
  <2> DEFINE f == [n \in 0..m |-> IF n = m THEN F[g[m - 1]] ELSE g[n]]
  <2>2. \A n \in 0..m : n = m \/ n \in 0..(m - 1)
    OBVIOUS
  <2>3. m - 1 \in 0..(m - 1) /\ 0 \in 0..m /\ 0 # m
    OBVIOUS
  <2>4. f \in [0..m -> S]
    BY <2>1, <2>2, <2>3
  <2>5. f[0] = x
    BY <2>1, <2>3
  <2>6. ASSUME NEW n \in 1..m PROVE f[n] = F[f[n - 1]]
    <3>1. n \in 0..m /\ n - 1 \in 0..m /\ n - 1 # m
      OBVIOUS
    <3>2. n # m => n \in 1..(m - 1)
      OBVIOUS
    <3>3. QED
      BY <2>1, <3>1, <3>2
  <2>7. QED
    BY <2>4, <2>5, <2>6
<1> HIDE DEF Good
<1>3. \A n : n \in T <=> n \in 0..L /\ ~Good(n)
  OBVIOUS
<1>4. T \in SUBSET Nat
  OBVIOUS
<1> HIDE DEF T
<1>5. T = {}
  <2> SUFFICES ASSUME T # {} PROVE FALSE
    OBVIOUS
  <2>1. PICK m \in T : \A n \in T : m <= n
    BY <1>4, Least
  <2>2. m \in 1..L /\ m - 1 \in 0..L
    BY <1>1, <1>3
  <2>3. m - 1 \notin T
    BY <2>1, <2>2
  <2>4. QED
    BY <1>2, <1>3, <2>2, <2>3
<1>6. Good(L)
  BY <1>3, <1>5
<1>7. QED
  BY <1>6 DEF Good, IsLoop

LEMMA MaxIs ==
  ASSUME NEW S \in SUBSET Nat, NEW m \in S, \A n \in S : n <= m
  PROVE  Max(S) = m
<1>1. \A n \in S : m >= n
  OBVIOUS
<1>2. \A x \in S : (\A n \in S : x >= n) => x = m
  OBVIOUS
<1>3. QED
  BY <1>1, <1>2 DEF Max

LEMMA MaxOfTwo ==
  ASSUME NEW a \in Nat, NEW b \in Nat
  PROVE  Max({a, b}) \in {a, b} /\ a <= Max({a, b}) /\ b <= Max({a, b})
<1>1. CASE a <= b
  BY <1>1, MaxIs
<1>2. CASE ~(a <= b)
  BY <1>2, MaxIs
<1>3. QED
  BY <1>1, <1>2

-------------------------------------------------------------------------------
(* The rows of a subject.                                                  *)

Tables(X) == UNION {[K -> X] : K \in SUBSET Keys}
Marks     == [Sources -> [contiguous : Nat, seen : Nat]]
Announcements ==
  [version : Nat, type : {"fact.accepted", "attribution.linked"}, key : Keys]
Ledgers ==
  [version : Nat, rows : Tables(Row), active : SUBSET Keys, links : Tables(Link),
   marks : Marks, outbox : SUBSET Announcements, clash : BOOLEAN]

LEMMA TableIs ==
  ASSUME NEW X, NEW f
  PROVE  f \in Tables(X) <=> DOMAIN f \subseteq Keys /\ f \in [DOMAIN f -> X]
BY DEF Tables

LEMMA EnvelopeFields ==
  ASSUME NEW e \in Envelopes
  PROVE  /\ e.key \in Keys /\ e.source \in Sources /\ e.seq \in Nat
         /\ e.key # None /\ e.supersedes # e.key
BY EnvelopeAssumption, NullAssumption DEF Keys, Sources

LEMMA RowFields ==
  ASSUME NEW l \in Ledgers, NEW k \in Stored(l)
  PROVE  /\ k \in Keys /\ l.rows[k] \in Row /\ Envelope(l, k) \in Envelopes
         /\ l.rows[k].status \in Statuses /\ l.rows[k].initialVersion \in Nat
<1>1. l.rows \in Tables(Row)
  BY DEF Ledgers
<1>2. DOMAIN l.rows \subseteq Keys /\ l.rows \in [DOMAIN l.rows -> Row]
  BY <1>1, TableIs
<1>3. k \in Keys /\ l.rows[k] \in Row
  BY <1>2 DEF Stored
<1>4. QED
  BY <1>3 DEF Row, Envelope

-------------------------------------------------------------------------------
(* Watermarks.  A are the facts that count as accepted, B those whose      *)
(* position is recorded.                                                   *)

Reached(rows, A, p, n) ==
  \E k \in A : rows[k].envelope.source = p /\ rows[k].envelope.seq = n

MarkOK(mark, rows, A, B, p) ==
  /\ mark.contiguous <= mark.seen
  /\ \A n \in 1..mark.contiguous : Reached(rows, A, p, n)
  /\ ~Reached(rows, A, p, mark.contiguous + 1)
  /\ \A k \in B : rows[k].envelope.source = p => rows[k].envelope.seq <= mark.seen
  /\ mark.seen # 0 => Reached(rows, B, p, mark.seen)

LEMMA MarksRecord ==
  ASSUME NEW marks \in Marks, NEW rows \in Tables(Row), NEW e \in Envelopes,
         NEW A \in SUBSET DOMAIN rows, NEW B \in SUBSET DOMAIN rows, A \subseteq B,
         e.key \in DOMAIN rows, rows[e.key].envelope = e,
         \A p \in Sources : MarkOK(marks[p], rows, A, B, p)
  PROVE  /\ RecordPosition(marks, e) \in Marks
         /\ \A p \in Sources : /\ MarkOK(RecordPosition(marks, e)[p], rows, A, B \cup {e.key}, p)
                               /\ RecordPosition(marks, e)[p].contiguous = marks[p].contiguous
<1> DEFINE after == RecordPosition(marks, e)
<1>1. \A p \in Sources : marks[p] \in [contiguous : Nat, seen : Nat]
  BY DEF Marks
<1>2. e.source \in Sources /\ e.seq \in Nat
  BY EnvelopeFields
<1>3. CASE e.seq = 0
  <2>1. after = marks
    BY <1>3 DEF RecordPosition
  <2>2. QED
    BY <1>1, <1>3, <2>1 DEF MarkOK, Reached
<1>4. CASE e.seq # 0
  <2> DEFINE s == Max({marks[e.source].seen, e.seq})
  <2>1. /\ s \in Nat /\ s \in {marks[e.source].seen, e.seq}
        /\ marks[e.source].seen <= s /\ e.seq <= s
    BY <1>1, <1>2, MaxOfTwo
  <2>2. after = [marks EXCEPT ![e.source].seen = s]
    BY <1>4 DEF RecordPosition
  <2> HIDE DEF s, after
  <2>3. after \in Marks
    BY <2>1, <2>2 DEF Marks
  <2>4. \A p \in Sources : p # e.source => after[p] = marks[p]
    BY <2>2 DEF Marks
  <2>5. after[e.source].seen = s /\ after[e.source].contiguous = marks[e.source].contiguous
    BY <1>1, <1>2, <2>2 DEF Marks
  <2>6. MarkOK(after[e.source], rows, A, B \cup {e.key}, e.source)
    <3>1. /\ marks[e.source].contiguous <= marks[e.source].seen
          /\ \A n \in 1..marks[e.source].contiguous : Reached(rows, A, e.source, n)
          /\ ~Reached(rows, A, e.source, marks[e.source].contiguous + 1)
          /\ \A k \in B : rows[k].envelope.source = e.source
                            => rows[k].envelope.seq <= marks[e.source].seen
          /\ marks[e.source].seen # 0 => Reached(rows, B, e.source, marks[e.source].seen)
      BY <1>2 DEF MarkOK
    <3>2. after[e.source].contiguous <= s
      BY <1>1, <1>2, <2>1, <2>5, <3>1
    <3>3. \A k \in B \cup {e.key} : rows[k].envelope.source = e.source
                                      => rows[k].envelope.seq <= s
      <4> TAKE k \in B \cup {e.key}
      <4>1. CASE k = e.key
        BY <2>1, <4>1
      <4>2. CASE k \in B
        <5>0. rows \in [DOMAIN rows -> Row]
          BY TableIs
        <5>1. rows[k].envelope \in Envelopes
          BY <4>2, <5>0 DEF Row
        <5>2. rows[k].envelope.seq \in Nat
          BY <5>1, EnvelopeFields
        <5>3. QED
          BY <1>1, <1>2, <2>1, <3>1, <4>2, <5>2
      <4>3. QED
        BY <4>1, <4>2
    <3>4. s # 0 => Reached(rows, B \cup {e.key}, e.source, s)
      BY <2>1, <3>1 DEF Reached
    <3>5. QED
      BY <2>5, <3>1, <3>2, <3>3, <3>4 DEF MarkOK
  <2>7. \A p \in Sources : p # e.source => MarkOK(after[p], rows, A, B \cup {e.key}, p)
    BY <2>4 DEF MarkOK, Reached
  <2>8. QED
    BY <2>3, <2>4, <2>5, <2>6, <2>7 DEF after
<1>5. QED
  BY <1>3, <1>4

LEMMA MarksAdvance ==
  ASSUME NEW marks \in Marks, NEW rows \in Tables(Row), NEW e \in Envelopes,
         NEW A \in SUBSET DOMAIN rows, NEW B \in SUBSET DOMAIN rows, A \subseteq B,
         e.key \in DOMAIN rows, rows[e.key].envelope = e,
         A \cup {e.key} = {k \in DOMAIN rows : rows[k].status = "accepted"},
         \A p \in Sources : MarkOK(marks[p], rows, A, B, p)
  PROVE  /\ AdvanceWatermark(marks, rows, e) \in Marks
         /\ \A p \in Sources : MarkOK(AdvanceWatermark(marks, rows, e)[p], rows,
                                      A \cup {e.key}, B \cup {e.key}, p)
<1> DEFINE recorded == RecordPosition(marks, e)
           after    == AdvanceWatermark(marks, rows, e)
           AA == A \cup {e.key}
           BB == B \cup {e.key}
<1>1. recorded \in Marks /\ \A p \in Sources : MarkOK(recorded[p], rows, A, BB, p)
  BY MarksRecord
<1>2. e.source \in Sources /\ e.seq \in Nat
  BY EnvelopeFields
<1>3. \A p, n : AcceptedAt(rows, p, n) <=> Reached(rows, AA, p, n)
  BY DEF AcceptedAt, Reached
<1>4. \A p \in Sources : recorded[p] \in [contiguous : Nat, seen : Nat]
  BY <1>1 DEF Marks
<1> HIDE DEF recorded
<1>5. CASE e.seq = 0
  <2>1. after = recorded
    BY <1>5 DEF AdvanceWatermark, recorded
  <2>2. \A p, n : n # 0 => (Reached(rows, AA, p, n) <=> Reached(rows, A, p, n))
    BY <1>5 DEF Reached
  <2>3. \A p \in Sources : /\ recorded[p].contiguous + 1 # 0
                           /\ \A n \in 1..recorded[p].contiguous : n # 0
    BY <1>4
  <2>4. QED
    BY <1>1, <2>1, <2>2, <2>3 DEF MarkOK
<1>6. CASE e.seq # 0
  <2> DEFINE c == recorded[e.source].contiguous
             s == recorded[e.source].seen
             run == {n \in c..s : \A m \in (c + 1)..n : AcceptedAt(rows, e.source, m)}
             top == Max(run)
  <2>1. c \in Nat /\ s \in Nat /\ c <= s
    BY <1>1, <1>2, <1>4 DEF MarkOK
  <2>2. after = [recorded EXCEPT ![e.source].contiguous = top]
    BY <1>6 DEF AdvanceWatermark, RunOfAccepted, recorded
  <2> HIDE DEF after
  <2>3. PICK m \in run : \A n \in run : n <= m
    <3>1. c \in run /\ run \in SUBSET Nat /\ \A n \in run : n <= s
      BY <2>1
    <3> HIDE DEF run
    <3>2. QED
      BY <2>1, <3>1, Greatest
  <2>4. top = m
    <3>1. run \in SUBSET Nat
      BY <2>1
    <3> HIDE DEF run
    <3>2. QED
      BY <2>3, <3>1, MaxIs
  <2>5. m \in c..s /\ \A n \in (c + 1)..m : AcceptedAt(rows, e.source, n)
    OBVIOUS
  <2>6. \A n \in 1..m : Reached(rows, AA, e.source, n)
    <3>1. \A n \in 1..c : Reached(rows, A, e.source, n)
      BY <1>1, <1>2 DEF MarkOK
    <3>2. \A n \in 1..c : Reached(rows, AA, e.source, n)
      BY <3>1 DEF Reached
    <3>3. \A n \in 1..m : n \in 1..c \/ n \in (c + 1)..m
      BY <2>1, <2>5
    <3>4. QED
      BY <1>3, <2>5, <3>2, <3>3
  <2>7. ~Reached(rows, AA, e.source, m + 1)
    <3> SUFFICES ASSUME Reached(rows, AA, e.source, m + 1) PROVE FALSE
      OBVIOUS
    <3>1. PICK k \in AA : rows[k].envelope.source = e.source /\ rows[k].envelope.seq = m + 1
      BY DEF Reached
    <3>2. k \in BB
      OBVIOUS
    <3>3. m + 1 <= s
      BY <1>1, <1>2, <3>1, <3>2 DEF MarkOK
    <3>4. m + 1 \in c..s
      BY <2>1, <2>5, <3>3
    <3>5. \A n \in (c + 1)..(m + 1) : n \in (c + 1)..m \/ n = m + 1
      BY <2>1, <2>5
    <3>6. \A n \in (c + 1)..(m + 1) : AcceptedAt(rows, e.source, n)
      BY <1>3, <2>5, <3>5
    <3>7. m + 1 \in run
      BY <3>4, <3>6
    <3>8. QED
      BY <2>1, <2>3, <2>5, <3>7
  <2> HIDE DEF run, top
  <2>8. after \in Marks
    BY <1>1, <1>2, <2>1, <2>2, <2>4, <2>5 DEF Marks
  <2>9. \A p \in Sources : p # e.source => after[p] = recorded[p]
    BY <1>1, <2>2 DEF Marks
  <2>10. after[e.source].contiguous = m /\ after[e.source].seen = s
    BY <1>1, <1>2, <1>4, <2>2, <2>4 DEF Marks
  <2>11. MarkOK(after[e.source], rows, AA, BB, e.source)
    <3>1. m <= s
      BY <2>1, <2>5
    <3>2. /\ \A k \in BB : rows[k].envelope.source = e.source => rows[k].envelope.seq <= s
          /\ s # 0 => Reached(rows, BB, e.source, s)
      BY <1>1, <1>2 DEF MarkOK
    <3>3. QED
      BY <2>6, <2>7, <2>10, <3>1, <3>2 DEF MarkOK
  <2>12. \A p \in Sources : p # e.source => MarkOK(after[p], rows, AA, BB, p)
    <3>1. \A p, n : p # e.source => (Reached(rows, AA, p, n) <=> Reached(rows, A, p, n))
      BY DEF Reached
    <3>2. QED
      BY <1>1, <2>9, <3>1 DEF MarkOK
  <2>13. QED
    BY <2>8, <2>11, <2>12 DEF after
<1>7. QED
  BY <1>5, <1>6

-------------------------------------------------------------------------------
(* What holds of the rows of a subject.  In the middle of a transaction a  *)
(* row can be accepted already while the projection does not show it, so A *)
(* and B say what the projection stands for: the accepted facts, and those *)
(* whose position is recorded.                                             *)

KeysAgree(l) == \A k \in Stored(l) : Envelope(l, k).key = k

(* Accepted facts have versions, later ones than what they supersede.      *)
InOrder(l, A) ==
  /\ A \subseteq Stored(l)
  /\ \A k \in A : l.rows[k].status = "accepted" /\ l.rows[k].accepted \in 1..l.version
  /\ \A k \in A : LET p == Envelope(l, k).supersedes
                  IN  p # None => p \in A /\ l.rows[p].accepted < l.rows[k].accepted

Tips(l, A) ==
  l.active = {k \in A : /\ Envelope(l, k).action # "retract"
                        /\ \A j \in A : Envelope(l, j).supersedes # k}

LinksLead(l) ==
  /\ DOMAIN l.links \subseteq Stored(l)
  /\ \A b \in DOMAIN l.links :
       l.links[b].revoked = None =>
         \E k \in l.active : /\ Envelope(l, k).kind = "impression"
                             /\ Envelope(l, k).impression = l.links[b].display[1]

Shows(l, A, o) ==
  \/ o.type = "fact.accepted" /\ o.key \in A
  \/ o.type = "attribution.linked" /\ o.key \in DOMAIN l.links

(* One announcement for each version and one for each change.              *)
OutboxOK(l, A) ==
  /\ \A o \in l.outbox : o.version \in 1..l.version /\ Shows(l, A, o)
  /\ \A v \in 1..l.version : \E o \in l.outbox : o.version = v
  /\ \A o, q \in l.outbox : o.version = q.version => o = q
  /\ \A o, q \in l.outbox : o.type = q.type /\ o.key = q.key => o = q
  /\ \A k \in A : \E o \in l.outbox : o.type = "fact.accepted" /\ o.key = k
  /\ \A b \in DOMAIN l.links : \E o \in l.outbox : o.type = "attribution.linked" /\ o.key = b

MarksOK(l, A, B) == \A p \in Sources : MarkOK(l.marks[p], l.rows, A, B, p)

Good(l, A, B) ==
  /\ l \in Ledgers
  /\ A \subseteq B /\ B \subseteq Stored(l)
  /\ KeysAgree(l) /\ InOrder(l, A) /\ Tips(l, A) /\ LinksLead(l) /\ OutboxOK(l, A)
  /\ MarksOK(l, A, B)

(* What no step takes back.                                                *)
Kept(l, m) ==
  /\ l.version <= m.version
  /\ Stored(l) \subseteq Stored(m)
  /\ \A k \in Stored(l) : /\ m.rows[k].envelope = l.rows[k].envelope
                          /\ m.rows[k].initial = l.rows[k].initial
                          /\ m.rows[k].initialVersion = l.rows[k].initialVersion
                          /\ l.rows[k].status = "accepted" => m.rows[k] = l.rows[k]
  /\ l.outbox \subseteq m.outbox
  /\ \A o \in m.outbox : o.version <= l.version => o \in l.outbox

LEMMA KeptIsTransitive ==
  ASSUME NEW k \in Ledgers, NEW l \in Ledgers, NEW m \in Ledgers, Kept(k, l), Kept(l, m)
  PROVE  Kept(k, m)
<1>1. k.version \in Nat /\ l.version \in Nat /\ m.version \in Nat
  BY DEF Ledgers
<1>2. \A o \in m.outbox : o.version \in Nat
  BY DEF Ledgers, Announcements
<1>3. k.version <= m.version /\ k.outbox \subseteq m.outbox /\ Stored(k) \subseteq Stored(m)
  BY <1>1 DEF Kept
<1>4. \A o \in m.outbox : o.version <= k.version => o \in k.outbox
  BY <1>1, <1>2 DEF Kept
<1>5. QED
  BY <1>3, <1>4 DEF Kept

LEMMA KeptIsReflexive ==
  ASSUME NEW l \in Ledgers
  PROVE  Kept(l, l)
BY DEF Kept, Ledgers

-------------------------------------------------------------------------------
(* Accepting a stored envelope.                                            *)

LEMMA ApplyFields ==
  ASSUME NEW l \in Ledgers, NEW e, NEW v, NEW promoted,
         NEW m, m = ApplyAccepted(l, e, v, promoted)
  PROVE  /\ m.version = v
         /\ m.rows = Promote(l.rows, e, v, promoted)
         /\ m.active = ActiveAfter(l, e)
         /\ m.links = RevokeLinks(l, e, v)
         /\ m.marks = AdvanceWatermark(l.marks, m.rows, e)
         /\ m.outbox = l.outbox \cup {[version |-> v, type |-> "fact.accepted", key |-> e.key]}
         /\ m.clash \in BOOLEAN /\ (l.clash => m.clash)
         /\ m = [version |-> m.version, rows |-> m.rows, active |-> m.active, links |-> m.links,
                 marks |-> m.marks, outbox |-> m.outbox, clash |-> m.clash]
<1> DEFINE rows  == Promote(l.rows, e, v, promoted)
           clash == l.clash \/ ImpressionTaken(l, e)
           n == [l EXCEPT !.version = v, !.rows = rows, !.active = ActiveAfter(l, e),
                          !.links = RevokeLinks(l, e, v),
                          !.marks = AdvanceWatermark(@, rows, e), !.clash = clash]
           again == clash \/ \E o \in n.outbox : o.version = v
<1>1. l = [version |-> l.version, rows |-> l.rows, active |-> l.active, links |-> l.links,
           marks |-> l.marks, outbox |-> l.outbox, clash |-> l.clash]
  BY DEF Ledgers
<1>2. m = Announce(n, v, "fact.accepted", e.key)
  BY DEF ApplyAccepted
<1> HIDE DEF rows, clash
<1>3. n = [version |-> v, rows |-> rows, active |-> ActiveAfter(l, e),
           links |-> RevokeLinks(l, e, v), marks |-> AdvanceWatermark(l.marks, rows, e),
           outbox |-> l.outbox, clash |-> clash]
  <2> DEFINE active == ActiveAfter(l, e)
             links  == RevokeLinks(l, e, v)
             marks  == AdvanceWatermark(l.marks, rows, e)
  <2>1. n = [l EXCEPT !.version = v, !.rows = rows, !.active = active,
                      !.links = links, !.marks = marks, !.clash = clash]
    OBVIOUS
  <2> HIDE DEF n, active, links, marks
  <2>2. n = [version |-> v, rows |-> rows, active |-> active, links |-> links,
             marks |-> marks, outbox |-> l.outbox, clash |-> clash]
    BY <1>1, <2>1
  <2>3. QED
    BY <2>2 DEF active, links, marks
<1> HIDE DEF n
<1>4. m = [n EXCEPT !.outbox = @ \cup {[version |-> v, type |-> "fact.accepted", key |-> e.key]},
                    !.clash = @ \/ \E o \in n.outbox : o.version = v]
  BY <1>2 DEF Announce
<1>5. clash \in BOOLEAN /\ (l.clash => clash)
  BY DEF clash
<1>6. QED
  BY <1>3, <1>4, <1>5 DEF rows

LEMMA PromotedRows ==
  ASSUME NEW l \in Ledgers, NEW e \in Envelopes, NEW v \in Nat, NEW promoted \in BOOLEAN,
         e.key \in Stored(l), NEW rows, rows = Promote(l.rows, e, v, promoted),
         ~promoted => l.rows[e.key].status = "accepted" /\ l.rows[e.key].accepted = v
  PROVE  /\ rows \in Tables(Row) /\ DOMAIN rows = Stored(l)
         /\ \A k \in Stored(l) \ {e.key} : rows[k] = l.rows[k]
         /\ rows[e.key].status = "accepted" /\ rows[e.key].accepted = v
         /\ \A k \in Stored(l) : /\ rows[k].envelope = l.rows[k].envelope
                                 /\ rows[k].initial = l.rows[k].initial
                                 /\ rows[k].initialVersion = l.rows[k].initialVersion
         /\ ~promoted => rows = l.rows
<1>1. /\ l.rows \in Tables(Row) /\ Stored(l) \subseteq Keys
      /\ l.rows \in [Stored(l) -> Row]
  BY TableIs DEF Ledgers, Stored
<1>2. CASE ~promoted
  BY <1>1, <1>2 DEF Promote, Stored
<1>3. CASE promoted
  <2> DEFINE new == [l.rows[e.key] EXCEPT !.status = "accepted", !.accepted = v]
  <2>1. rows = [l.rows EXCEPT ![e.key] = new]
    BY <1>1, <1>3 DEF Promote
  <2>2. l.rows[e.key] \in Row
    BY <1>1
  <2>3. /\ new \in Row
        /\ new.status = "accepted" /\ new.accepted = v
        /\ new.envelope = l.rows[e.key].envelope
        /\ new.initial = l.rows[e.key].initial
        /\ new.initialVersion = l.rows[e.key].initialVersion
    BY <2>2 DEF Row, Statuses
  <2> HIDE DEF new
  <2>4. rows \in [Stored(l) -> Row] /\ rows[e.key] = new
        /\ \A k \in Stored(l) \ {e.key} : rows[k] = l.rows[k]
    BY <1>1, <2>1, <2>3
  <2>5. DOMAIN rows = Stored(l) /\ rows \in Tables(Row)
    BY <1>1, <2>4, TableIs
  <2>6. \A k \in Stored(l) : k = e.key \/ k \in Stored(l) \ {e.key}
    OBVIOUS
  <2>7. QED
    BY <1>3, <2>3, <2>4, <2>5, <2>6
<1>4. QED
  BY <1>2, <1>3

(* Attributions to the superseded impression end, and no others.           *)
LEMMA RevokedLinks ==
  ASSUME NEW l \in Ledgers, NEW e \in Envelopes, NEW v \in Nat,
         NEW links, links = RevokeLinks(l, e, v)
  PROVE  /\ links \in Tables(Link) /\ DOMAIN links = DOMAIN l.links
         /\ \A b \in DOMAIN links :
              /\ links[b].display = l.links[b].display
              /\ links[b].revoked = None =>
                   /\ l.links[b].revoked = None
                   /\ \/ e.supersedes = None
                      \/ Envelope(l, e.supersedes).kind # "impression"
                      \/ l.links[b].display[1] # Envelope(l, e.supersedes).impression
<1>1. DOMAIN l.links \subseteq Keys /\ l.links \in [DOMAIN l.links -> Link]
  BY TableIs DEF Ledgers
<1>2. CASE e.supersedes = None \/ Envelope(l, e.supersedes).kind # "impression"
  BY <1>1, <1>2, TableIs DEF RevokeLinks
<1>3. CASE ~(e.supersedes = None \/ Envelope(l, e.supersedes).kind # "impression")
  <2> DEFINE ends(b) == /\ l.links[b].display[1] = Envelope(l, e.supersedes).impression
                        /\ l.links[b].revoked = None
             ended(b) == [l.links[b] EXCEPT !.revoked = v]
  <2>1. links = [b \in DOMAIN l.links |-> IF ends(b) THEN ended(b) ELSE l.links[b]]
    BY <1>3 DEF RevokeLinks
  <2>2. \A b \in DOMAIN l.links : /\ ended(b) \in Link
                                  /\ ended(b).revoked = v /\ ended(b).display = l.links[b].display
    BY <1>1 DEF Link
  <2>3. v # None
    BY NullAssumption
  <2> HIDE DEF ended
  <2>4. DOMAIN links = DOMAIN l.links /\ links \in [DOMAIN l.links -> Link]
    BY <1>1, <2>1, <2>2
  <2>5. \A b \in DOMAIN links :
          /\ links[b].display = l.links[b].display
          /\ links[b].revoked = None => links[b] = l.links[b] /\ ~ends(b)
    BY <2>1, <2>2, <2>3
  <2>6. links \in Tables(Link)
    BY <1>1, <2>4, TableIs
  <2>7. QED
    BY <2>4, <2>5, <2>6
<1>4. QED
  BY <1>2, <1>3

(* A row is promoted that waits; one that is not was stored as accepted.   *)
Fits(l, e, v, promoted) ==
  IF promoted THEN l.rows[e.key].status # "accepted"
  ELSE l.rows[e.key].status = "accepted" /\ l.rows[e.key].accepted = v

(* An accepting step from l to m: e is all that A misses of the accepted   *)
(* rows and B of the stored ones.                                          *)
Accepts(l, A, B, e, v, m) ==
  /\ Good(l, A, B)
  /\ e \in Envelopes /\ e.key \in Stored(l) \ A /\ Envelope(l, e.key) = e
  /\ Accepted(l) \subseteq A \cup {e.key}
  /\ B \cup {e.key} = Stored(l)
  /\ e.supersedes = None \/ e.supersedes \in A
  /\ v = l.version + 1
  /\ \E promoted \in BOOLEAN : Fits(l, e, v, promoted) /\ m = ApplyAccepted(l, e, v, promoted)

(* An envelope is accepted whose predecessor is.                           *)
LEMMA AcceptKeeps ==
  ASSUME NEW l, NEW A, NEW B, NEW e, NEW v, NEW m, Accepts(l, A, B, e, v, m)
  PROVE  /\ Good(m, Accepted(m), Stored(m)) /\ Kept(l, m)
         /\ m.version = v /\ Accepted(m) = A \cup {e.key} /\ Stored(m) = Stored(l)
         /\ l.clash => m.clash
<1> DEFINE k == e.key
           AA == A \cup {k}
<1> USE DEF Accepts
<1>0. PICK promoted \in BOOLEAN : Fits(l, e, v, promoted) /\ m = ApplyAccepted(l, e, v, promoted)
  OBVIOUS
<1>1. /\ l \in Ledgers /\ A \subseteq B /\ B \subseteq Stored(l)
      /\ KeysAgree(l) /\ InOrder(l, A) /\ Tips(l, A) /\ LinksLead(l) /\ OutboxOK(l, A)
      /\ MarksOK(l, A, B)
  BY DEF Good
<1>2. l.version \in Nat /\ v \in Nat /\ v > l.version /\ v \in 1..v
  BY <1>1 DEF Ledgers
<1>3. /\ m.version = v
      /\ m.rows = Promote(l.rows, e, v, promoted)
      /\ m.active = ActiveAfter(l, e)
      /\ m.links = RevokeLinks(l, e, v)
      /\ m.marks = AdvanceWatermark(l.marks, m.rows, e)
      /\ m.outbox = l.outbox \cup {[version |-> v, type |-> "fact.accepted", key |-> k]}
      /\ m.clash \in BOOLEAN /\ (l.clash => m.clash)
      /\ m = [version |-> m.version, rows |-> m.rows, active |-> m.active, links |-> m.links,
              marks |-> m.marks, outbox |-> m.outbox, clash |-> m.clash]
  BY <1>0, <1>1, ApplyFields
<1>4. /\ m.rows \in Tables(Row) /\ Stored(m) = Stored(l)
      /\ \A j \in Stored(l) \ {k} : m.rows[j] = l.rows[j]
      /\ m.rows[k].status = "accepted" /\ m.rows[k].accepted = v
      /\ \A j \in Stored(l) : /\ m.rows[j].envelope = l.rows[j].envelope
                              /\ m.rows[j].initial = l.rows[j].initial
                              /\ m.rows[j].initialVersion = l.rows[j].initialVersion
      /\ ~promoted => m.rows = l.rows
  <2>1. ~promoted => l.rows[e.key].status = "accepted" /\ l.rows[e.key].accepted = v
    BY <1>0 DEF Fits
  <2>2. QED
    BY <1>1, <1>2, <1>3, <2>1, PromotedRows DEF Stored
<1>5. \A j \in Stored(l) : Envelope(m, j) = Envelope(l, j)
  BY <1>4 DEF Envelope
<1>6. Accepted(m) = AA
  <2>1. \A j \in A : m.rows[j].status = "accepted" /\ j \in Stored(m)
    BY <1>1, <1>4 DEF InOrder
  <2>2. \A j \in Accepted(m) : j = k \/ j \in Accepted(l)
    BY <1>4 DEF Accepted
  <2>3. QED
    BY <1>4, <2>1, <2>2 DEF Accepted
<1>7. AA \subseteq Stored(m)
  BY <1>1, <1>4
<1>8. KeysAgree(m)
  BY <1>1, <1>4, <1>5 DEF KeysAgree
<1>9. InOrder(m, AA)
  <2>1. \A j \in A : m.rows[j] = l.rows[j]
    BY <1>1, <1>4
  <2>2. \A j \in AA : m.rows[j].status = "accepted" /\ m.rows[j].accepted \in 1..v
    BY <1>1, <1>2, <1>4, <2>1 DEF InOrder
  <2>3. \A j \in A : m.rows[j].accepted <= l.version /\ m.rows[j].accepted < v
    BY <1>1, <1>2, <2>1 DEF InOrder
  <2>4. ASSUME NEW j \in AA, Envelope(m, j).supersedes # None
        PROVE  /\ Envelope(m, j).supersedes \in AA
               /\ m.rows[Envelope(m, j).supersedes].accepted < m.rows[j].accepted
    <3>1. CASE j = k
      <4>1. Envelope(m, j) = e
        BY <1>5, <3>1
      <4>2. e.supersedes \in A
        BY <2>4, <4>1
      <4>3. QED
        BY <1>4, <2>3, <3>1, <4>1, <4>2
    <3>2. CASE j \in A
      <4>1. Envelope(m, j) = Envelope(l, j)
        BY <1>1, <1>5, <3>2
      <4>2. QED
        BY <1>1, <2>1, <2>4, <3>2, <4>1 DEF InOrder
    <3>3. QED
      BY <3>1, <3>2
  <2>5. QED
    BY <1>3, <1>7, <2>2, <2>4 DEF InOrder
<1>10. Tips(m, AA)
  <2>1. \A j \in AA : Envelope(m, j) = Envelope(l, j)
    BY <1>1, <1>5
  <2>2. Envelope(m, k) = e
    BY <1>5
  <2>3. e.supersedes # k /\ k # None
    BY EnvelopeFields
  <2>4. \A j \in A : Envelope(l, j).supersedes # k
    BY <1>1, <2>3 DEF InOrder
  <2>5. l.active = {j \in A : /\ Envelope(l, j).action # "retract"
                              /\ \A i \in A : Envelope(l, i).supersedes # j}
    BY <1>1 DEF Tips
  <2>6. m.active = (l.active \ {e.supersedes}) \cup (IF e.action = "retract" THEN {} ELSE {k})
    BY <1>3 DEF ActiveAfter
  <2>7. \A j : j \in m.active <=> /\ j \in AA
                                  /\ Envelope(m, j).action # "retract"
                                  /\ \A i \in AA : Envelope(m, i).supersedes # j
    <3> TAKE j
    <3>1. CASE j = k
      <4>1. \A i \in AA : Envelope(m, i).supersedes # k
        BY <2>1, <2>2, <2>3, <2>4
      <4>2. k \notin l.active
        BY <2>5
      <4>3. QED
        BY <2>2, <2>6, <3>1, <4>1, <4>2
    <3>2. CASE j # k
      <4>1. j \in m.active <=> j \in l.active /\ j # e.supersedes
        BY <2>6, <3>2
      <4>2. (\A i \in AA : Envelope(m, i).supersedes # j)
              <=> e.supersedes # j /\ \A i \in A : Envelope(l, i).supersedes # j
        BY <2>1, <2>2
      <4>3. QED
        BY <2>1, <2>5, <3>2, <4>1, <4>2
    <3>3. QED
      BY <3>1, <3>2
  <2>8. QED
    BY <2>7 DEF Tips
<1>11. /\ m.links \in Tables(Link) /\ DOMAIN m.links = DOMAIN l.links
       /\ LinksLead(m)
  <2>1. /\ m.links \in Tables(Link) /\ DOMAIN m.links = DOMAIN l.links
        /\ \A b \in DOMAIN m.links :
             /\ m.links[b].display = l.links[b].display
             /\ m.links[b].revoked = None =>
                  /\ l.links[b].revoked = None
                  /\ \/ e.supersedes = None
                     \/ Envelope(l, e.supersedes).kind # "impression"
                     \/ l.links[b].display[1] # Envelope(l, e.supersedes).impression
    BY <1>1, <1>2, <1>3, RevokedLinks
  <2>2. ASSUME NEW b \in DOMAIN m.links, m.links[b].revoked = None
        PROVE  \E j \in m.active : /\ Envelope(m, j).kind = "impression"
                                   /\ Envelope(m, j).impression = m.links[b].display[1]
    <3>1. PICK j \in l.active : /\ Envelope(l, j).kind = "impression"
                                /\ Envelope(l, j).impression = l.links[b].display[1]
      BY <1>1, <2>1, <2>2 DEF LinksLead
    <3>2. j \in A /\ j \in Stored(l) /\ j # None
      <4>1. j \in A /\ j \in Stored(l)
        BY <1>1 DEF Tips
      <4>2. QED
        BY <1>1, <4>1, RowFields, NullAssumption
    <3>3. j # e.supersedes
      BY <2>1, <2>2, <3>1, <3>2
    <3>4. j \in m.active
      BY <1>3, <3>3 DEF ActiveAfter
    <3>5. QED
      BY <1>5, <2>1, <3>1, <3>2, <3>4
  <2>3. QED
    BY <1>1, <1>4, <2>1, <2>2 DEF LinksLead
<1>12. OutboxOK(m, AA)
  <2> DEFINE new == [version |-> v, type |-> "fact.accepted", key |-> k]
  <2>1. m.outbox = l.outbox \cup {new}
    BY <1>3
  <2>2. new.version = v /\ new.type = "fact.accepted" /\ new.key = k
    OBVIOUS
  <2> HIDE DEF new
  <2>3. \A o \in l.outbox : o.version \in 1..l.version /\ Shows(l, A, o)
    BY <1>1 DEF OutboxOK
  <2>4. \A o \in l.outbox : o.version # v /\ o.version \in 1..v
    BY <1>2, <2>3
  <2>5. \A o \in l.outbox : ~(o.type = "fact.accepted" /\ o.key = k)
    BY <2>3 DEF Shows
  <2>6. \A o \in m.outbox : o.version \in 1..v /\ Shows(m, AA, o)
    BY <1>2, <1>11, <2>1, <2>2, <2>3, <2>4 DEF Shows
  <2>7. \A u \in 1..v : \E o \in m.outbox : o.version = u
    <3>1. \A u \in 1..v : u = v \/ u \in 1..l.version
      BY <1>2
    <3>2. QED
      BY <1>1, <2>1, <2>2, <3>1 DEF OutboxOK
  <2>8. \A o, q \in m.outbox : o.version = q.version => o = q
    BY <1>1, <2>1, <2>2, <2>4 DEF OutboxOK
  <2>9. \A o, q \in m.outbox : o.type = q.type /\ o.key = q.key => o = q
    BY <1>1, <2>1, <2>2, <2>5 DEF OutboxOK
  <2>10. \A j \in AA : \E o \in m.outbox : o.type = "fact.accepted" /\ o.key = j
    BY <1>1, <2>1, <2>2 DEF OutboxOK
  <2>11. \A b \in DOMAIN m.links : \E o \in m.outbox : o.type = "attribution.linked" /\ o.key = b
    BY <1>1, <1>11, <2>1 DEF OutboxOK
  <2>12. QED
    <3>1. m.version = v
      BY <1>3
    <3> HIDE DEF AA
    <3>2. QED
      BY <2>6, <2>7, <2>8, <2>9, <2>10, <2>11, <3>1 DEF OutboxOK
<1>13. m.marks \in Marks /\ MarksOK(m, AA, B \cup {k})
  <2>1. l.marks \in Marks
    BY <1>1 DEF Ledgers
  <2>2. \A p \in Sources : MarkOK(l.marks[p], m.rows, A, B, p)
    <3>1. \A j \in B : m.rows[j].envelope = l.rows[j].envelope
      BY <1>1, <1>4
    <3>2. \A j \in A : m.rows[j].envelope = l.rows[j].envelope
      BY <1>1, <1>4
    <3>3. QED
      BY <1>1, <3>1, <3>2 DEF MarksOK, MarkOK, Reached
  <2>3. /\ A \in SUBSET DOMAIN m.rows /\ B \in SUBSET DOMAIN m.rows /\ A \subseteq B
        /\ k \in DOMAIN m.rows /\ m.rows[k].envelope = e
    BY <1>1, <1>4, <1>5 DEF Stored, Envelope
  <2>4. AA = {j \in DOMAIN m.rows : m.rows[j].status = "accepted"}
    BY <1>6 DEF Accepted, Stored
  <2>5. QED
    <3>1. m.marks = AdvanceWatermark(l.marks, m.rows, e) /\ m.rows \in Tables(Row)
      BY <1>3, <1>4
    <3>2. /\ AdvanceWatermark(l.marks, m.rows, e) \in Marks
          /\ \A p \in Sources : MarkOK(AdvanceWatermark(l.marks, m.rows, e)[p], m.rows,
                                       AA, B \cup {k}, p)
      BY <2>1, <2>2, <2>3, <2>4, <3>1, MarksAdvance
    <3>3. QED
      BY <3>1, <3>2 DEF MarksOK
<1>14. m \in Ledgers
  <2>1. m.active \in SUBSET Keys
    BY <1>1, <1>3, EnvelopeFields DEF ActiveAfter, Ledgers
  <2>2. m.outbox \in SUBSET Announcements
    BY <1>1, <1>2, <1>3, EnvelopeFields DEF Announcements, Ledgers
  <2>3. QED
    BY <1>2, <1>3, <1>4, <1>11, <1>13, <2>1, <2>2 DEF Ledgers
<1>15. Kept(l, m)
  <2>1. \A j \in Stored(l) : l.rows[j].status = "accepted" => m.rows[j] = l.rows[j]
    BY <1>0, <1>4 DEF Fits
  <2>2. l.version <= m.version
    BY <1>2, <1>3
  <2>3. \A o \in m.outbox : o.version <= l.version => o \in l.outbox
    BY <1>2, <1>3
  <2>4. QED
    BY <1>3, <1>4, <2>1, <2>2, <2>3 DEF Kept
<1>16. QED
  BY <1>1, <1>3, <1>4, <1>6, <1>7, <1>8, <1>9, <1>10, <1>11, <1>12, <1>13, <1>14, <1>15 DEF Good

-------------------------------------------------------------------------------
(* The loops of a transaction.                                             *)

Sound(l) == Good(l, Accepted(l), Stored(l))

LEMMA KeptStaysAccepted ==
  ASSUME NEW l, NEW m, Kept(l, m)
  PROVE  Accepted(l) \subseteq Accepted(m)
BY DEF Kept, Accepted, Stored

Promoted(l, k) == ApplyAccepted(l, Envelope(l, k), l.version + 1, TRUE)

(* A waiting fact is promoted whose predecessor is accepted.               *)
LEMMA PromotionKeeps ==
  ASSUME NEW l, Sound(l), NEW k \in Stored(l), l.rows[k].status = "pending_dependency",
         Envelope(l, k).supersedes \in Accepted(l),
         NEW m, m = Promoted(l, k)
  PROVE  /\ Sound(m) /\ Kept(l, m) /\ Stored(m) = Stored(l)
         /\ m.version = l.version + 1 /\ Accepted(m) = Accepted(l) \cup {k}
         /\ l.clash => m.clash
<1>1. l \in Ledgers /\ KeysAgree(l)
  BY DEF Sound, Good
<1>2. PICK e \in Envelopes : e = Envelope(l, k) /\ e.key = k
  BY <1>1, RowFields DEF KeysAgree
<1>3. k \notin Accepted(l) /\ l.rows[k].status # "accepted"
  BY DEF Accepted
<1>4. Accepts(l, Accepted(l), Stored(l), e, l.version + 1, m)
  <2>1. Good(l, Accepted(l), Stored(l))
    BY DEF Sound
  <2>2. QED
    BY <1>2, <1>3, <2>1 DEF Accepts, Fits, Promoted
<1>5. /\ Good(m, Accepted(m), Stored(m)) /\ Kept(l, m)
      /\ m.version = l.version + 1 /\ Accepted(m) = Accepted(l) \cup {k} /\ Stored(m) = Stored(l)
      /\ l.clash => m.clash
  <2>1. /\ Good(m, Accepted(m), Stored(m)) /\ Kept(l, m)
        /\ m.version = l.version + 1
        /\ Accepted(m) = Accepted(l) \cup {e.key} /\ Stored(m) = Stored(l)
        /\ l.clash => m.clash
    BY <1>4, AcceptKeeps
  <2>2. QED
    BY <1>2, <2>1
<1>6. QED
  BY <1>5 DEF Sound

(* What the loop of resolveDependents passes from turn to turn.            *)
Turns(l) ==
  {t \in [ledger : Ledgers, key : Keys, version : Nat] :
     /\ Sound(t.ledger) /\ Kept(l, t.ledger) /\ Stored(t.ledger) = Stored(l)
     /\ t.key \in Accepted(t.ledger) /\ t.version = t.ledger.version}

LEMMA TurnKeeps ==
  ASSUME NEW l \in Ledgers, NEW t \in Turns(l)
  PROVE  ResolveNext(t) \in Turns(l)
<1> DEFINE g == t.ledger
<1>1. /\ g \in Ledgers /\ Sound(g) /\ Kept(l, g) /\ Stored(g) = Stored(l)
      /\ t.key \in Accepted(g) /\ t.version = g.version /\ g.version \in Nat
  BY DEF Turns
<1>2. CASE Dependents(g, t.key) = {}
  BY <1>2 DEF ResolveNext
<1>3. CASE Dependents(g, t.key) # {}
  <2> DEFINE k == CHOOSE k \in Dependents(g, t.key) : TRUE
             m == Promoted(g, k)
  <2>1. k \in Dependents(g, t.key)
    BY <1>3
  <2>2. ResolveNext(t) = [ledger |-> m, key |-> k, version |-> g.version + 1]
    BY <1>1, <1>3 DEF ResolveNext, Promoted
  <2> HIDE DEF g, k
  <2>3. /\ k \in Stored(g) /\ g.rows[k].status = "pending_dependency"
        /\ Envelope(g, k).supersedes = t.key
    BY <2>1 DEF Dependents, Successors
  <2>4. /\ Sound(m) /\ Kept(g, m) /\ Stored(m) = Stored(g)
        /\ m.version = g.version + 1 /\ k \in Accepted(m)
    BY <1>1, <2>3, PromotionKeeps
  <2> HIDE DEF m
  <2>5. m \in Ledgers /\ k \in Keys
    BY <1>1, <2>3, <2>4, RowFields DEF Sound, Good
  <2>6. Kept(l, m)
    BY <1>1, <2>4, <2>5, KeptIsTransitive
  <2>7. QED
    BY <1>1, <2>2, <2>4, <2>5, <2>6 DEF Turns
<1>4. QED
  BY <1>2, <1>3

(* The turns of the loop from an accepted fact k on.                        *)
Resolves(f, l, k) ==
  /\ f \in [0..ChainLimit -> Turns(l)]
  /\ f[0] = [ledger |-> l, key |-> k, version |-> l.version]
  /\ \A n \in 1..ChainLimit : f[n] = ResolveNext(f[n - 1])

LEMMA ResolveRuns ==
  ASSUME NEW l, Sound(l), NEW k \in Accepted(l),
         NEW m, m = ResolveDependents(l, k, l.version)
  PROVE  \E f : Resolves(f, l, k) /\ m = f[ChainLimit].ledger
<1> DEFINE x == [ledger |-> l, key |-> k, version |-> l.version]
           L == ChainLimit
           loop(f) == f = [n \in 0..L |-> IF n = 0 THEN x ELSE ResolveNext(f[n - 1])]
           turn == CHOOSE f : loop(f)
           F == [t \in Turns(l) |-> ResolveNext(t)]
<1>1. m = turn[L].ledger
  BY DEF ResolveDependents
<1>2. l \in Ledgers /\ L \in Nat
  BY LimitAssumption DEF Sound, Good
<1>3. x \in Turns(l)
  <2>1. k \in Stored(l) /\ k \in Keys /\ l.version \in Nat
    BY <1>2, RowFields DEF Accepted, Ledgers
  <2>2. QED
    BY <1>2, <2>1, KeptIsReflexive DEF Turns
<1>4. F \in [Turns(l) -> Turns(l)]
  BY <1>2, TurnKeeps
<1> HIDE DEF x, F
<1>5. PICK f \in [0..L -> Turns(l)] : f[0] = x /\ \A n \in 1..L : f[n] = F[f[n - 1]]
  <2>1. PICK f : IsLoop(f, Turns(l), L, x, F)
    <3> HIDE DEF L
    <3>1. L \in Nat
      BY <1>2
    <3>2. QED
      BY <1>3, <1>4, <3>1, Iterates
  <2>2. QED
    BY <2>1 DEF IsLoop
<1>6. loop(f)
  <2>1. \A n \in 0..L : f[n] = IF n = 0 THEN x ELSE ResolveNext(f[n - 1])
    <3> TAKE n \in 0..L
    <3>1. n # 0 => n \in 1..L /\ n - 1 \in 0..L
      BY <1>2
    <3>2. n # 0 => F[f[n - 1]] = ResolveNext(f[n - 1])
      BY <1>5, <3>1 DEF F
    <3>3. QED
      BY <1>5, <3>1, <3>2
  <2>2. QED
    BY <1>5, <2>1
<1>7. loop(turn)
  BY <1>6
<1>8. turn[0] = x
  <2>1. 0 \in 0..L
    BY <1>2
  <2> HIDE DEF turn, L
  <2>2. QED
    BY <1>7, <2>1
<1>9. \A n \in 1..L : turn[n] = ResolveNext(turn[n - 1])
  <2> TAKE n \in 1..L
  <2>1. n \in 0..L /\ n # 0
    BY <1>2
  <2>2. QED
    BY <1>7, <2>1
<1>10. turn = [n \in 0..L |-> turn[n]]
  BY <1>7
<1> HIDE DEF turn, L
<1>11. \A n \in 0..L : turn[n] \in Turns(l)
  <2>1. turn[0] \in Turns(l)
    BY <1>3, <1>8
  <2>2. \A n \in 1..L : turn[n - 1] \in Turns(l) => turn[n] \in Turns(l)
    BY <1>2, <1>9, TurnKeeps
  <2>3. QED
    BY <1>2, <2>1, <2>2, Stays
<1>12. turn \in [0..L -> Turns(l)]
  BY <1>10, <1>11
<1>13. QED
  BY <1>1, <1>8, <1>9, <1>12 DEF x, L, Resolves

LEMMA ResolveKeeps ==
  ASSUME NEW l, Sound(l), NEW k \in Accepted(l),
         NEW m, m = ResolveDependents(l, k, l.version)
  PROVE  Sound(m) /\ Kept(l, m) /\ Stored(m) = Stored(l)
<1>1. PICK f : Resolves(f, l, k) /\ m = f[ChainLimit].ledger
  BY ResolveRuns
<1>2. ChainLimit \in 0..ChainLimit
  BY LimitAssumption
<1>3. f[ChainLimit] \in Turns(l)
  BY <1>1, <1>2 DEF Resolves
<1>4. QED
  BY <1>1, <1>3 DEF Turns

-------------------------------------------------------------------------------
(* The transaction of an envelope.                                         *)

(* A new row, which nothing of the projection stands for yet.              *)
NewRow(e, status, version) ==
  [envelope |-> e, status |-> status, initial |-> status, initialVersion |-> version,
   accepted |-> IF status = "accepted" THEN version ELSE None]

LEMMA InsertKeeps ==
  ASSUME NEW l, Sound(l), NEW e \in Envelopes, e.key \notin Stored(l),
         NEW status \in Statuses, NEW v \in Nat, NEW m, m = InsertEvent(l, e, status, v)
  PROVE  /\ Good(m, Accepted(l), Stored(l)) /\ Kept(l, m)
         /\ Stored(m) = Stored(l) \cup {e.key} /\ m.rows[e.key] = NewRow(e, status, v)
         /\ \A k \in Stored(l) : m.rows[k] = l.rows[k]
         /\ m.version = l.version /\ m.marks = l.marks
         /\ PositionOrSuccessorTaken(l, e) => m.clash
         /\ m = [version |-> m.version, rows |-> m.rows, active |-> m.active, links |-> m.links,
                 marks |-> m.marks, outbox |-> m.outbox, clash |-> m.clash]
<1> DEFINE k == e.key
           A == Accepted(l)
           clash == l.clash \/ PositionOrSuccessorTaken(l, e)
           rows == [j \in Stored(l) \cup {k} |-> IF j # k THEN l.rows[j]
                                                 ELSE NewRow(e, status, v)]
<1>1. /\ l \in Ledgers /\ A \subseteq Stored(l)
      /\ KeysAgree(l) /\ InOrder(l, A) /\ Tips(l, A) /\ LinksLead(l) /\ OutboxOK(l, A)
      /\ MarksOK(l, A, Stored(l))
  BY DEF Sound, Good
<1>2. m = [l EXCEPT !.rows = rows, !.clash = clash]
  BY DEF InsertEvent, NewRow
<1>3. clash \in BOOLEAN /\ (PositionOrSuccessorTaken(l, e) => clash)
  OBVIOUS
<1>4. NewRow(e, status, v) \in Row
  BY DEF NewRow, Row
<1>5. /\ rows \in Tables(Row) /\ DOMAIN rows = Stored(l) \cup {k}
      /\ rows[k] = NewRow(e, status, v) /\ \A j \in Stored(l) : rows[j] = l.rows[j]
  <2>1. /\ DOMAIN l.rows \subseteq Keys /\ l.rows \in [Stored(l) -> Row]
    BY <1>1, TableIs DEF Ledgers, Stored
  <2>2. k \in Keys
    BY EnvelopeFields
  <2>3. rows \in [Stored(l) \cup {k} -> Row] /\ DOMAIN rows \subseteq Keys
    BY <1>4, <2>1, <2>2 DEF Stored
  <2>4. rows \in Tables(Row)
    <3> HIDE DEF rows
    <3>1. QED
      BY <2>3, TableIs
  <2>5. QED
    BY <2>4
<1> HIDE DEF rows, clash
<1>6. /\ m.rows = rows /\ m.version = l.version /\ m.active = l.active /\ m.links = l.links
      /\ m.marks = l.marks /\ m.outbox = l.outbox /\ m.clash = clash
      /\ m = [version |-> m.version, rows |-> m.rows, active |-> m.active, links |-> m.links,
              marks |-> m.marks, outbox |-> m.outbox, clash |-> m.clash]
  BY <1>1, <1>2 DEF Ledgers
<1>7. m \in Ledgers
  BY <1>1, <1>3, <1>5, <1>6 DEF Ledgers
<1>8. Stored(m) = Stored(l) \cup {k}
  BY <1>5, <1>6 DEF Stored
<1>9. /\ \A j \in Stored(l) : m.rows[j] = l.rows[j] /\ Envelope(m, j) = Envelope(l, j)
      /\ Envelope(m, k) = e
  BY <1>5, <1>6 DEF Envelope, NewRow
<1>10. KeysAgree(m)
  BY <1>1, <1>8, <1>9 DEF KeysAgree
<1>11. InOrder(m, A)
  BY <1>1, <1>6, <1>8, <1>9 DEF InOrder
<1>12. Tips(m, A)
  BY <1>1, <1>6, <1>9 DEF Tips
<1>13. LinksLead(m)
  <2>1. l.active \subseteq Stored(l)
    BY <1>1 DEF Tips
  <2>2. QED
    BY <1>1, <1>6, <1>8, <1>9, <2>1 DEF LinksLead
<1>14. OutboxOK(m, A)
  BY <1>1, <1>6 DEF OutboxOK, Shows
<1>15. MarksOK(m, A, Stored(l))
  <2>1. \A p, n : Reached(m.rows, A, p, n) <=> Reached(l.rows, A, p, n)
    BY <1>1, <1>9 DEF Reached
  <2>2. \A p, n : Reached(m.rows, Stored(l), p, n) <=> Reached(l.rows, Stored(l), p, n)
    BY <1>9 DEF Reached
  <2>3. QED
    BY <1>1, <1>6, <1>9, <2>1, <2>2 DEF MarksOK, MarkOK
<1>16. Kept(l, m)
  BY <1>1, <1>6, <1>8, <1>9 DEF Kept, Ledgers
<1>17. QED
  BY <1>1, <1>3, <1>5, <1>6, <1>7, <1>8, <1>9, <1>10, <1>11, <1>12, <1>13, <1>14, <1>15, <1>16
     DEF Good

Arrived(l, e, v) == ApplyAccepted(l, e, v, FALSE)

(* A new envelope whose predecessor is accepted, or that has none, is      *)
(* accepted under the next version.                                        *)
LEMMA ArriveKeeps ==
  ASSUME NEW l, Sound(l), NEW e \in Envelopes, e.key \notin Stored(l),
         StatusOnArrival(l, e) = "accepted",
         NEW h, h = Arrived(InsertEvent(l, e, "accepted", l.version + 1), e, l.version + 1)
  PROVE  /\ Sound(h) /\ Kept(l, h)
         /\ Stored(h) = Stored(l) \cup {e.key} /\ Envelope(h, e.key) = e
         /\ Accepted(h) = Accepted(l) \cup {e.key} /\ h.rows[e.key].initial = "accepted"
         /\ PositionOrSuccessorTaken(l, e) => h.clash
         /\ Admit(l, e) = ResolveDependents(h, e.key, h.version)
<1> DEFINE v == l.version + 1
           g == InsertEvent(l, e, "accepted", v)
           A == Accepted(l)
<1>1. l \in Ledgers /\ l.version \in Nat /\ v \in Nat /\ A \subseteq Stored(l)
  BY DEF Sound, Good, Ledgers
<1>2. Admit(l, e) = ResolveDependents(h, e.key, v)
  BY DEF Admit, Arrived
<1>3. e.supersedes = None \/ e.supersedes \in A
  BY DEF StatusOnArrival
<1>4. h = Arrived(g, e, v) /\ "accepted" \in Statuses
  BY DEF Statuses
<1> HIDE DEF v
<1>5. /\ Good(g, A, Stored(l)) /\ Kept(l, g)
      /\ Stored(g) = Stored(l) \cup {e.key} /\ g.rows[e.key] = NewRow(e, "accepted", v)
      /\ \A j \in Stored(l) : g.rows[j] = l.rows[j]
      /\ g.version = l.version
      /\ PositionOrSuccessorTaken(l, e) => g.clash
  BY <1>1, <1>4, InsertKeeps
<1> HIDE DEF g
<1>6. /\ g \in Ledgers /\ Envelope(g, e.key) = e /\ g.rows[e.key].initial = "accepted"
      /\ g.rows[e.key].status = "accepted" /\ g.rows[e.key].accepted = v
  BY <1>5 DEF Good, NewRow, Envelope
<1>7. Accepts(g, A, Stored(l), e, v, h)
  <2>1. Accepted(g) \subseteq A \cup {e.key}
    BY <1>5 DEF Accepted, Stored
  <2>2. Fits(g, e, v, FALSE)
    BY <1>6 DEF Fits
  <2>3. e.key \in Stored(g) \ A
    BY <1>1, <1>5
  <2>4. v = g.version + 1
    BY <1>5 DEF v
  <2>5. QED
    BY <1>3, <1>4, <1>5, <1>6, <2>1, <2>2, <2>3, <2>4 DEF Accepts, Arrived
<1>8. /\ Good(h, Accepted(h), Stored(h)) /\ Kept(g, h) /\ (g.clash => h.clash)
      /\ h.version = v /\ Accepted(h) = A \cup {e.key} /\ Stored(h) = Stored(g)
  BY <1>7, AcceptKeeps
<1>9. Sound(h) /\ h \in Ledgers
  BY <1>8 DEF Sound, Good
<1>10. Kept(l, h)
  BY <1>1, <1>5, <1>6, <1>8, <1>9, KeptIsTransitive
<1>11. Envelope(h, e.key) = e /\ h.rows[e.key].initial = "accepted"
  BY <1>5, <1>6, <1>8 DEF Kept, Envelope
<1>12. QED
  BY <1>2, <1>5, <1>8, <1>9, <1>10, <1>11

(* One whose predecessor is missing or waits is stored and waits.          *)
LEMMA WaitKeeps ==
  ASSUME NEW l, Sound(l), NEW e \in Envelopes, e.key \notin Stored(l),
         StatusOnArrival(l, e) # "accepted", NEW m, m = Admit(l, e)
  PROVE  /\ Sound(m) /\ Kept(l, m)
         /\ Stored(m) = Stored(l) \cup {e.key} /\ Envelope(m, e.key) = e
         /\ Accepted(m) = Accepted(l) /\ m.rows[e.key].initial = "pending_dependency"
         /\ PositionOrSuccessorTaken(l, e) => m.clash
<1> DEFINE waits == "pending_dependency"
           g == InsertEvent(l, e, waits, l.version)
           A == Accepted(l)
<1>1. l \in Ledgers /\ l.version \in Nat /\ A \subseteq Stored(l) /\ waits \in Statuses
  BY DEF Sound, Good, Ledgers, Statuses
<1>2. m = [g EXCEPT !.marks = RecordPosition(@, e)]
  BY DEF Admit, StatusOnArrival
<1>3. /\ Good(g, A, Stored(l)) /\ Kept(l, g)
      /\ Stored(g) = Stored(l) \cup {e.key} /\ g.rows[e.key] = NewRow(e, waits, l.version)
      /\ \A j \in Stored(l) : g.rows[j] = l.rows[j]
      /\ g.version = l.version /\ g.marks = l.marks
      /\ PositionOrSuccessorTaken(l, e) => g.clash
      /\ g = [version |-> g.version, rows |-> g.rows, active |-> g.active, links |-> g.links,
              marks |-> g.marks, outbox |-> g.outbox, clash |-> g.clash]
  BY <1>1, InsertKeeps
<1> HIDE DEF g
<1>4. /\ g \in Ledgers /\ Envelope(g, e.key) = e /\ g.rows[e.key].initial = waits
      /\ g.rows[e.key].status # "accepted"
  BY <1>3 DEF Good, NewRow, Envelope
<1> DEFINE marks == RecordPosition(g.marks, e)
<1>5. m = [g EXCEPT !.marks = marks]
  BY <1>2
<1>6. /\ marks \in Marks
      /\ \A p \in Sources : MarkOK(marks[p], g.rows, A, Stored(l) \cup {e.key}, p)
  <2>1. /\ g.marks \in Marks /\ g.rows \in Tables(Row)
        /\ A \in SUBSET DOMAIN g.rows /\ Stored(l) \in SUBSET DOMAIN g.rows
        /\ e.key \in DOMAIN g.rows /\ g.rows[e.key].envelope = e
        /\ \A p \in Sources : MarkOK(g.marks[p], g.rows, A, Stored(l), p)
    BY <1>1, <1>3, <1>4 DEF Good, Ledgers, MarksOK, Stored, Envelope
  <2>2. QED
    BY <1>1, <2>1, MarksRecord
<1> HIDE DEF marks
<1>7. /\ m.marks = marks /\ m.version = g.version /\ m.rows = g.rows /\ m.active = g.active
      /\ m.links = g.links /\ m.outbox = g.outbox /\ m.clash = g.clash /\ m \in Ledgers
  BY <1>3, <1>4, <1>5, <1>6 DEF Ledgers
<1>8. Accepted(m) = A /\ Stored(m) = Stored(l) \cup {e.key}
  BY <1>3, <1>4, <1>7 DEF Accepted, Stored
<1>9. \A j : Envelope(m, j) = Envelope(g, j)
  BY <1>7 DEF Envelope
<1>10. KeysAgree(m) /\ InOrder(m, A) /\ Tips(m, A) /\ LinksLead(m) /\ OutboxOK(m, A)
  <2>1. KeysAgree(g) /\ InOrder(g, A) /\ Tips(g, A) /\ LinksLead(g) /\ OutboxOK(g, A)
    BY <1>3 DEF Good
  <2>2. Stored(m) = Stored(g)
    BY <1>3, <1>8
  <2>3. KeysAgree(m)
    BY <1>9, <2>1, <2>2 DEF KeysAgree
  <2>4. InOrder(m, A)
    BY <1>7, <1>9, <2>1, <2>2 DEF InOrder
  <2>5. Tips(m, A)
    BY <1>7, <1>9, <2>1 DEF Tips
  <2>6. LinksLead(m)
    BY <1>7, <1>9, <2>1, <2>2 DEF LinksLead
  <2>7. OutboxOK(m, A)
    BY <1>7, <2>1 DEF OutboxOK, Shows
  <2>8. QED
    BY <2>3, <2>4, <2>5, <2>6, <2>7
<1>11. MarksOK(m, A, Stored(m))
  BY <1>6, <1>7, <1>8 DEF MarksOK
<1>12. Sound(m)
  BY <1>1, <1>7, <1>8, <1>10, <1>11 DEF Sound, Good
<1>13. Kept(l, m)
  BY <1>3, <1>7, <1>8 DEF Kept, Stored
<1>14. QED
  BY <1>3, <1>4, <1>7, <1>8, <1>9, <1>12, <1>13

(* Either way it is stored, and all that waited for it is accepted.        *)
LEMMA AdmitKeeps ==
  ASSUME NEW l, Sound(l), NEW e \in Envelopes, e.key \notin Stored(l),
         NEW m, m = Admit(l, e)
  PROVE  /\ Sound(m) /\ Kept(l, m)
         /\ Stored(m) = Stored(l) \cup {e.key} /\ Envelope(m, e.key) = e
<1>1. CASE StatusOnArrival(l, e) # "accepted"
  BY <1>1, WaitKeeps
<1>2. CASE StatusOnArrival(l, e) = "accepted"
  <2> DEFINE h == Arrived(InsertEvent(l, e, "accepted", l.version + 1), e, l.version + 1)
  <2>1. /\ Sound(h) /\ Kept(l, h) /\ e.key \in Accepted(h)
        /\ Stored(h) = Stored(l) \cup {e.key} /\ Envelope(h, e.key) = e
        /\ m = ResolveDependents(h, e.key, h.version)
    BY <1>2, ArriveKeeps
  <2> HIDE DEF h
  <2>2. Sound(m) /\ Kept(h, m) /\ Stored(m) = Stored(h)
    BY <2>1, ResolveKeeps
  <2>3. l \in Ledgers /\ h \in Ledgers /\ m \in Ledgers
    BY <2>1, <2>2 DEF Sound, Good
  <2>4. Kept(l, m)
    BY <2>1, <2>2, <2>3, KeptIsTransitive
  <2>5. Envelope(m, e.key) = e
    BY <2>1, <2>2 DEF Kept, Envelope
  <2>6. QED
    BY <2>1, <2>2, <2>4, <2>5
<1>3. QED
  BY <1>1, <1>2

Receipts ==
  [status : Statuses \cup {"conflict", "pending_subject"}, version : Nat, replay : BOOLEAN]

LEMMA ConflictIsReceipt == Conflict \in Receipts /\ Unbound \in Receipts
BY DEF Conflict, Unbound, Receipts

(* What commits is sound and keeps what was there; a receipt that is not a *)
(* conflict is that of the stored envelope.                                *)
LEMMA AppendKeeps ==
  ASSUME NEW l, Sound(l), ~l.clash, NEW e \in Envelopes, NEW tx, tx = AppendTx(l, e)
  PROVE  /\ Sound(tx.ledger) /\ Kept(l, tx.ledger) /\ ~tx.ledger.clash
         /\ tx.receipt \in Receipts
         /\ tx.receipt # Conflict =>
              /\ e.key \in Stored(tx.ledger) /\ Envelope(tx.ledger, e.key) = e
              /\ tx.receipt.status = tx.ledger.rows[e.key].initial
              /\ tx.receipt.version = tx.ledger.rows[e.key].initialVersion
<1>1. l \in Ledgers
  BY DEF Sound, Good
<1>2. Kept(l, l)
  BY <1>1, KeptIsReflexive
<1>3. CASE e.key \in Stored(l)
  <2>1. Receipt(l, e.key, TRUE) \in Receipts
    BY <1>1, <1>3, RowFields DEF Receipt, Receipts, Row
  <2>2. QED
    BY <1>2, <1>3, <2>1, ConflictIsReceipt DEF AppendTx, Receipt
<1>4. CASE e.key \notin Stored(l)
  <2> DEFINE after == Admit(l, e)
  <2>1. /\ Sound(after) /\ Kept(l, after)
        /\ Stored(after) = Stored(l) \cup {e.key} /\ Envelope(after, e.key) = e
    BY <1>4, AdmitKeeps
  <2>2. tx = IF WouldCreateDependencyCycle(l, e) \/ after.clash
             THEN [ledger |-> l, receipt |-> Conflict]
             ELSE [ledger |-> after, receipt |-> Receipt(after, e.key, FALSE)]
    BY <1>4 DEF AppendTx
  <2> HIDE DEF after
  <2>3. Receipt(after, e.key, FALSE) \in Receipts
    BY <2>1, RowFields DEF Receipt, Receipts, Row, Sound, Good
  <2>4. QED
    BY <1>2, <2>1, <2>2, <2>3, ConflictIsReceipt DEF Receipt
<1>5. QED
  BY <1>3, <1>4

-------------------------------------------------------------------------------
(* The transaction of ReconcilePending.                                    *)

LEMMA EarliestIsOne ==
  ASSUME NEW l \in Ledgers, NEW keys \in SUBSET Stored(l), keys # {}
  PROVE  Earliest(l, keys) \in keys
<1> DEFINE T == {Envelope(l, k).at : k \in keys}
<1>1. \A k \in keys : Envelope(l, k).at \in Nat
  BY RowFields, EnvelopeAssumption
<1>2. T \in SUBSET Nat /\ T # {}
  BY <1>1
<1>3. /\ \A k \in keys : Envelope(l, k).at \in T
      /\ \A t \in T : \E k \in keys : t = Envelope(l, k).at
  OBVIOUS
<1> HIDE DEF T
<1>4. PICK t \in T : \A u \in T : t <= u
  BY <1>2, Least
<1>5. PICK k \in keys : t = Envelope(l, k).at
  BY <1>3
<1>6. \A j \in keys : Envelope(l, k).at <= Envelope(l, j).at
  BY <1>3, <1>4, <1>5
<1>7. QED
  BY <1>6 DEF Earliest

LEMMA ReconcileOneKeeps ==
  ASSUME NEW l, Sound(l), NEW k \in Stored(l), Envelope(l, k).supersedes \in Accepted(l),
         NEW m, m = ReconcileOne(l, k)
  PROVE  Sound(m) /\ Kept(l, m) /\ Stored(m) = Stored(l)
<1>1. l \in Ledgers
  BY DEF Sound, Good
<1>2. CASE l.rows[k].status = "accepted"
  BY <1>1, <1>2, KeptIsReflexive DEF ReconcileOne
<1>3. CASE l.rows[k].status # "accepted"
  <2> DEFINE g == Promoted(l, k)
  <2>1. m = ResolveDependents(g, k, l.version + 1)
    BY <1>3 DEF ReconcileOne, Promoted
  <2> HIDE DEF g
  <2>2. l.rows[k].status = "pending_dependency"
    BY <1>1, <1>3, RowFields DEF Statuses
  <2>3. /\ Sound(g) /\ Kept(l, g) /\ Stored(g) = Stored(l)
        /\ g.version = l.version + 1 /\ k \in Accepted(g)
    BY <2>2, PromotionKeeps DEF g
  <2>4. m = ResolveDependents(g, k, g.version)
    BY <2>1, <2>3
  <2>5. Sound(m) /\ Kept(g, m) /\ Stored(m) = Stored(g)
    BY <2>3, <2>4, ResolveKeeps
  <2>6. g \in Ledgers /\ m \in Ledgers
    BY <2>3, <2>5 DEF Sound, Good
  <2>7. Kept(l, m)
    BY <1>1, <2>3, <2>5, <2>6, KeptIsTransitive
  <2>8. QED
    BY <2>3, <2>5, <2>7
<1>4. QED
  BY <1>2, <1>3

(* What the loop of ReconcilePending passes from turn to turn: the facts   *)
(* it took up have accepted predecessors, and keep them.                   *)
Passes(l) ==
  {p \in [ledger : Ledgers, rest : SUBSET Keys] :
     /\ Sound(p.ledger) /\ Kept(l, p.ledger) /\ Stored(p.ledger) = Stored(l)
     /\ p.rest \subseteq Stored(l)
     /\ \A k \in p.rest : Envelope(p.ledger, k).supersedes \in Accepted(p.ledger)}

LEMMA PassKeeps ==
  ASSUME NEW l \in Ledgers, NEW p \in Passes(l)
  PROVE  ReconcileNext(p) \in Passes(l)
<1> DEFINE g == p.ledger
           k == Earliest(g, p.rest)
           m == ReconcileOne(g, k)
<1>1. /\ g \in Ledgers /\ Sound(g) /\ Kept(l, g) /\ Stored(g) = Stored(l)
      /\ p.rest \in SUBSET Keys /\ p.rest \in SUBSET Stored(g)
      /\ \A j \in p.rest : Envelope(g, j).supersedes \in Accepted(g)
  BY DEF Passes
<1>2. CASE p.rest = {}
  BY <1>2 DEF ReconcileNext
<1>3. CASE p.rest # {}
  <2>1. ReconcileNext(p) = [ledger |-> m, rest |-> p.rest \ {k}]
    BY <1>3 DEF ReconcileNext
  <2> HIDE DEF g
  <2>2. k \in p.rest
    BY <1>1, <1>3, EarliestIsOne
  <2> HIDE DEF k
  <2>3. Sound(m) /\ Kept(g, m) /\ Stored(m) = Stored(g)
    BY <1>1, <2>2, ReconcileOneKeeps
  <2> HIDE DEF m
  <2>4. m \in Ledgers
    BY <2>3 DEF Sound, Good
  <2>5. Kept(l, m)
    BY <1>1, <2>3, <2>4, KeptIsTransitive
  <2>6. \A j \in p.rest : Envelope(m, j).supersedes \in Accepted(m)
    <3>1. Accepted(g) \subseteq Accepted(m)
      BY <2>3, KeptStaysAccepted
    <3>2. \A j \in p.rest : Envelope(m, j) = Envelope(g, j)
      BY <1>1, <2>3 DEF Kept, Envelope
    <3>3. QED
      BY <1>1, <3>1, <3>2
  <2>7. QED
    BY <1>1, <2>1, <2>3, <2>4, <2>5, <2>6 DEF Passes
<1>4. QED
  BY <1>2, <1>3

(* The turns of the loop over the facts that are ready.                    *)
Reconciles(f, l) ==
  /\ f \in [0..ReadyLimit -> Passes(l)]
  /\ f[0] = [ledger |-> l, rest |-> Ready(l)]
  /\ \A n \in 1..ReadyLimit : f[n] = ReconcileNext(f[n - 1])

LEMMA ReconcileRuns ==
  ASSUME NEW l, Sound(l), NEW m, m = ReconcileTx(l)
  PROVE  \E f : Reconciles(f, l) /\ m = f[ReadyLimit].ledger
<1> DEFINE x == [ledger |-> l, rest |-> Ready(l)]
           L == ReadyLimit
           loop(f) == f = [n \in 0..L |-> IF n = 0 THEN x ELSE ReconcileNext(f[n - 1])]
           pass == CHOOSE f : loop(f)
           F == [p \in Passes(l) |-> ReconcileNext(p)]
<1>1. m = pass[L].ledger
  BY DEF ReconcileTx
<1>2. l \in Ledgers /\ L \in Nat
  BY LimitAssumption DEF Sound, Good
<1>3. x \in Passes(l)
  <2>1. Ready(l) \subseteq Stored(l) /\ Stored(l) \subseteq Keys
    BY <1>2, RowFields DEF Ready
  <2>2. \A k \in Ready(l) : Envelope(l, k).supersedes \in Accepted(l)
    BY DEF Ready
  <2>3. QED
    BY <1>2, <2>1, <2>2, KeptIsReflexive DEF Passes
<1>4. F \in [Passes(l) -> Passes(l)]
  BY <1>2, PassKeeps
<1> HIDE DEF x, F
<1>5. PICK f \in [0..L -> Passes(l)] : f[0] = x /\ \A n \in 1..L : f[n] = F[f[n - 1]]
  <2>1. PICK f : IsLoop(f, Passes(l), L, x, F)
    <3> HIDE DEF L
    <3>1. L \in Nat
      BY <1>2
    <3>2. QED
      BY <1>3, <1>4, <3>1, Iterates
  <2>2. QED
    BY <2>1 DEF IsLoop
<1>6. loop(f)
  <2>1. \A n \in 0..L : f[n] = IF n = 0 THEN x ELSE ReconcileNext(f[n - 1])
    <3> TAKE n \in 0..L
    <3>1. n # 0 => n \in 1..L /\ n - 1 \in 0..L
      BY <1>2
    <3>2. n # 0 => F[f[n - 1]] = ReconcileNext(f[n - 1])
      BY <1>5, <3>1 DEF F
    <3>3. QED
      BY <1>5, <3>1, <3>2
  <2>2. QED
    BY <1>5, <2>1
<1>7. loop(pass)
  BY <1>6
<1>8. pass[0] = x
  <2>1. 0 \in 0..L
    BY <1>2
  <2> HIDE DEF pass, L
  <2>2. QED
    BY <1>7, <2>1
<1>9. \A n \in 1..L : pass[n] = ReconcileNext(pass[n - 1])
  <2> TAKE n \in 1..L
  <2>1. n \in 0..L /\ n # 0
    BY <1>2
  <2>2. QED
    BY <1>7, <2>1
<1>10. pass = [n \in 0..L |-> pass[n]]
  BY <1>7
<1> HIDE DEF pass, L
<1>11. \A n \in 0..L : pass[n] \in Passes(l)
  <2>1. pass[0] \in Passes(l)
    BY <1>3, <1>8
  <2>2. \A n \in 1..L : pass[n - 1] \in Passes(l) => pass[n] \in Passes(l)
    BY <1>2, <1>9, PassKeeps
  <2>3. QED
    BY <1>2, <2>1, <2>2, Stays
<1>12. pass \in [0..L -> Passes(l)]
  BY <1>10, <1>11
<1>13. QED
  BY <1>1, <1>8, <1>9, <1>12 DEF x, L, Reconciles

LEMMA ReconcileKeeps ==
  ASSUME NEW l, Sound(l), NEW m, m = ReconcileTx(l)
  PROVE  Sound(m) /\ Kept(l, m) /\ Stored(m) = Stored(l)
<1>1. PICK f : Reconciles(f, l) /\ m = f[ReadyLimit].ledger
  BY ReconcileRuns
<1>2. ReadyLimit \in 0..ReadyLimit
  BY LimitAssumption
<1>3. f[ReadyLimit] \in Passes(l)
  BY <1>1, <1>2 DEF Reconciles
<1>4. QED
  BY <1>1, <1>3 DEF Passes

-------------------------------------------------------------------------------
(* The transaction of LinkImpression.                                      *)

LEMMA LinkKeeps ==
  ASSUME NEW l, Sound(l), ~l.clash, NEW d \in Displays,
         NEW k \in l.active \ DOMAIN l.links, Explaining(l, Envelope(l, k), d) # {},
         NEW m, m = AddLink(l, k, d, l.version + 1)
  PROVE  Sound(m) /\ Kept(l, m) /\ ~m.clash
<1> DEFINE A == Accepted(l)
           v == l.version + 1
           link == [display |-> d, linked |-> v, revoked |-> None]
           links == [b \in DOMAIN l.links \cup {k} |-> IF b # k THEN l.links[b] ELSE link]
           new == [version |-> v, type |-> "attribution.linked", key |-> k]
           taken == \E o \in l.outbox : o.version = v
<1>1. /\ l \in Ledgers /\ A \subseteq Stored(l)
      /\ KeysAgree(l) /\ InOrder(l, A) /\ Tips(l, A) /\ LinksLead(l) /\ OutboxOK(l, A)
      /\ MarksOK(l, A, Stored(l))
  BY DEF Sound, Good
<1>2. l.version \in Nat /\ v \in Nat /\ v > l.version /\ v \in 1..v
  BY <1>1 DEF Ledgers
<1>3. k \in Stored(l) /\ k \in Keys
  BY <1>1, RowFields DEF Tips
<1>4. m = Announce([l EXCEPT !.version = v, !.links = links], v, "attribution.linked", k)
  BY <1>1 DEF AddLink, Ledgers
<1>5. /\ DOMAIN l.links \subseteq Keys /\ l.links \in [DOMAIN l.links -> Link]
  BY <1>1, TableIs DEF Ledgers
<1>6. link \in Link
  BY <1>2 DEF Link
<1>7. link.display = d
  OBVIOUS
<1> HIDE DEF link
<1>8. /\ links \in Tables(Link) /\ DOMAIN links = DOMAIN l.links \cup {k}
      /\ links[k] = link /\ \A b \in DOMAIN l.links : links[b] = l.links[b]
  <2>1. links \in [DOMAIN l.links \cup {k} -> Link]
    BY <1>5, <1>6
  <2>2. DOMAIN links \subseteq Keys
    BY <1>3, <1>5
  <2>3. links \in Tables(Link)
    <3> HIDE DEF links
    <3>1. QED
      BY <2>1, <2>2, TableIs
  <2>4. QED
    BY <2>3
<1>9. new \in Announcements /\ new.version = v /\ new.type = "attribution.linked" /\ new.key = k
  BY <1>2, <1>3 DEF Announcements
<1> HIDE DEF links
<1>10. /\ m.version = v /\ m.rows = l.rows /\ m.active = l.active /\ m.links = links
       /\ m.marks = l.marks /\ m.outbox = l.outbox \cup {new} /\ m.clash = (l.clash \/ taken)
       /\ m = [version |-> m.version, rows |-> m.rows, active |-> m.active, links |-> m.links,
               marks |-> m.marks, outbox |-> m.outbox, clash |-> m.clash]
  <2> DEFINE n == [l EXCEPT !.version = v, !.links = links]
  <2>1. n = [version |-> v, rows |-> l.rows, active |-> l.active, links |-> links,
             marks |-> l.marks, outbox |-> l.outbox, clash |-> l.clash]
    <3>1. l = [version |-> l.version, rows |-> l.rows, active |-> l.active,
               links |-> l.links, marks |-> l.marks, outbox |-> l.outbox, clash |-> l.clash]
      BY <1>1 DEF Ledgers
    <3>2. n = [l EXCEPT !.version = v, !.links = links]
      OBVIOUS
    <3> HIDE DEF v, n
    <3>3. QED
      BY <3>1, <3>2
  <2>2. m = [n EXCEPT !.outbox = @ \cup {new},
                      !.clash = @ \/ \E o \in n.outbox : o.version = v]
    BY <1>4 DEF Announce
  <2> HIDE DEF n, new
  <2>3. QED
    BY <2>1, <2>2
<1> HIDE DEF new
<1>11. \A o \in l.outbox : o.version \in 1..l.version /\ Shows(l, A, o)
  BY <1>1 DEF OutboxOK
<1>12. ~taken
  BY <1>2, <1>11
<1>13. ~m.clash
  BY <1>10, <1>12
<1>14. m \in Ledgers
  BY <1>1, <1>2, <1>8, <1>9, <1>10, <1>12 DEF Ledgers
<1>15. Stored(m) = Stored(l) /\ Accepted(m) = A /\ \A j : Envelope(m, j) = Envelope(l, j)
  BY <1>10 DEF Stored, Accepted, Envelope
<1>16. KeysAgree(m) /\ Tips(m, A) /\ MarksOK(m, A, Stored(m))
  BY <1>1, <1>10, <1>15 DEF KeysAgree, Tips, MarksOK
<1>17. InOrder(m, A)
  BY <1>1, <1>2, <1>10, <1>15 DEF InOrder
<1>18. LinksLead(m)
  <2>1. PICK j \in l.active : /\ Envelope(l, j).kind = "impression"
                              /\ Envelope(l, j).impression = d[1]
    BY DEF Explaining
  <2>2. \E i \in m.active : /\ Envelope(m, i).kind = "impression"
                            /\ Envelope(m, i).impression = links[k].display[1]
    BY <1>7, <1>8, <1>10, <1>15, <2>1
  <2>3. QED
    BY <1>1, <1>3, <1>8, <1>10, <1>15, <2>2 DEF LinksLead
<1>19. OutboxOK(m, A)
  <2>1. \A o \in l.outbox : o.version # v /\ o.version \in 1..v
    BY <1>2, <1>11
  <2>2. \A o \in l.outbox : ~(o.type = "attribution.linked" /\ o.key = k)
    BY <1>11 DEF Shows
  <2>3. \A o \in m.outbox : o.version \in 1..v /\ Shows(m, A, o)
    BY <1>2, <1>8, <1>9, <1>10, <1>11, <2>1 DEF Shows
  <2>4. \A u \in 1..v : \E o \in m.outbox : o.version = u
    <3>1. \A u \in 1..v : u = v \/ u \in 1..l.version
      BY <1>2
    <3>2. QED
      BY <1>1, <1>9, <1>10, <3>1 DEF OutboxOK
  <2>5. \A o, q \in m.outbox : o.version = q.version => o = q
    BY <1>1, <1>9, <1>10, <2>1 DEF OutboxOK
  <2>6. \A o, q \in m.outbox : o.type = q.type /\ o.key = q.key => o = q
    BY <1>1, <1>9, <1>10, <2>2 DEF OutboxOK
  <2>7. \A j \in A : \E o \in m.outbox : o.type = "fact.accepted" /\ o.key = j
    BY <1>1, <1>10 DEF OutboxOK
  <2>8. \A b \in DOMAIN m.links : \E o \in m.outbox : o.type = "attribution.linked" /\ o.key = b
    BY <1>1, <1>8, <1>9, <1>10 DEF OutboxOK
  <2>9. m.version = v
    BY <1>10
  <2> HIDE DEF A
  <2>10. QED
    BY <2>3, <2>4, <2>5, <2>6, <2>7, <2>8, <2>9 DEF OutboxOK
<1>20. Sound(m)
  BY <1>1, <1>14, <1>15, <1>16, <1>17, <1>18, <1>19 DEF Sound, Good
<1>21. Kept(l, m)
  <2>1. l.version <= m.version /\ \A o \in m.outbox : o.version <= l.version => o \in l.outbox
    BY <1>2, <1>9, <1>10
  <2>2. QED
    BY <1>10, <1>15, <2>1 DEF Kept
<1>22. QED
  BY <1>13, <1>20, <1>21

-------------------------------------------------------------------------------
(* The inductive invariant.                                                *)

Parking == [envelope : Envelopes, subject : Subjects \cup {None}, receipt : Receipts]

LedgersOK ==
  /\ ledger \in [Subjects -> Ledgers]
  /\ \A s \in Subjects : Sound(ledger[s]) /\ ~ledger[s].clash

ParkedOK ==
  /\ DOMAIN parked \subseteq Aliases \X Keys
  /\ parked \in [DOMAIN parked -> Parking]
  /\ \A p \in DOMAIN parked : parked[p].envelope.key = p[2]

BindingOK ==
  /\ DOMAIN binding \subseteq Aliases
  /\ \A a \in DOMAIN binding : binding[a] \in Subjects

Inv == LedgersOK /\ ParkedOK /\ BindingOK /\ BoundWhereItsAliasIs

LEMMA EmptyTable ==
  ASSUME NEW X
  PROVE  <<>> \in Tables(X) /\ DOMAIN <<>> = {}
<1>1. <<>> \in [{} -> X] /\ DOMAIN <<>> = {}
  OBVIOUS
<1>2. QED
  BY <1>1 DEF Tables

LEMMA EmptyIsSound == EmptyLedger \in Ledgers /\ Sound(EmptyLedger) /\ ~EmptyLedger.clash
<1> DEFINE l == EmptyLedger
           zero == [contiguous |-> 0, seen |-> 0]
<1>1. /\ l.version = 0 /\ l.rows = <<>> /\ l.active = {} /\ l.links = <<>>
      /\ l.marks = [p \in Sources |-> zero] /\ l.outbox = {} /\ l.clash = FALSE
  BY DEF EmptyLedger
<1>2. l \in Ledgers
  <2>1. l.marks \in Marks
    BY <1>1 DEF Marks
  <2>2. <<>> \in Tables(Row) /\ <<>> \in Tables(Link)
    BY EmptyTable
  <2>3. QED
    BY <2>1, <2>2 DEF EmptyLedger, Ledgers
<1>3. Stored(l) = {} /\ DOMAIN l.links = {}
  BY <1>1, EmptyTable DEF Stored
<1>4. Accepted(l) = {}
  BY <1>3 DEF Accepted
<1>5. \A p \in Sources : l.marks[p].contiguous = 0 /\ l.marks[p].seen = 0
  BY <1>1
<1> HIDE DEF l
<1>6. KeysAgree(l) /\ InOrder(l, {}) /\ Tips(l, {}) /\ LinksLead(l)
  BY <1>1, <1>3 DEF KeysAgree, InOrder, Tips, LinksLead
<1>7. OutboxOK(l, {})
  BY <1>1, <1>3 DEF OutboxOK
<1>8. MarksOK(l, {}, {})
  BY <1>5 DEF MarksOK, MarkOK, Reached
<1>9. Sound(l)
  BY <1>2, <1>3, <1>4, <1>6, <1>7, <1>8 DEF Sound, Good
<1>10. QED
  BY <1>1, <1>2, <1>9 DEF l

LEMMA InitHasInv == Init => Inv
<1> SUFFICES ASSUME Init PROVE Inv
  OBVIOUS
<1>1. LedgersOK
  BY EmptyIsSound DEF Init, LedgersOK
<1>2. DOMAIN parked = {} /\ DOMAIN binding = {} /\ parked \in [DOMAIN parked -> Parking]
  BY DEF Init
<1>3. QED
  BY <1>1, <1>2 DEF Inv, ParkedOK, BindingOK, BoundWhereItsAliasIs

(* One subject moves at a time, and what it had is kept.                   *)
MovesTo(s, m) ==
  /\ Sound(m) /\ ~m.clash /\ Kept(ledger[s], m)
  /\ ledger' = [ledger EXCEPT ![s] = m]

LEMMA LedgersMove ==
  ASSUME LedgersOK, NEW s \in Subjects, NEW m, MovesTo(s, m)
  PROVE  /\ LedgersOK' /\ ledger'[s] = m
         /\ \A r \in Subjects : Kept(ledger[r], ledger'[r])
         /\ \A r \in Subjects \ {s} : ledger'[r] = ledger[r]
<1>1. m \in Ledgers
  BY DEF MovesTo, Sound, Good
<1>2. ledger'[s] = m /\ \A r \in Subjects \ {s} : ledger'[r] = ledger[r]
  BY DEF MovesTo, LedgersOK
<1>3. ledger' \in [Subjects -> Ledgers]
  BY <1>1 DEF MovesTo, LedgersOK
<1>4. \A r \in Subjects : r = s \/ r \in Subjects \ {s}
  OBVIOUS
<1>5. LedgersOK'
  BY <1>2, <1>3, <1>4 DEF MovesTo, LedgersOK
<1>6. \A r \in Subjects : Kept(ledger[r], ledger'[r])
  BY <1>2, <1>4, KeptIsReflexive DEF MovesTo, LedgersOK
<1>7. QED
  BY <1>2, <1>5, <1>6

LEMMA NextMoves ==
  ASSUME Inv, Next
  PROVE  (\E s \in Subjects : \E m : MovesTo(s, m)) \/ ledger' = ledger
<1>0. LedgersOK /\ ParkedOK
  BY DEF Inv
<1>1. \A s \in Subjects : Sound(ledger[s]) /\ ~ledger[s].clash
  BY <1>0 DEF LedgersOK
<1>2. CASE \E s \in Subjects, e \in Envelopes : AppendFact(s, e)
  <2>1. PICK s \in Subjects, e \in Envelopes : AppendFact(s, e)
    BY <1>2
  <2>2. MovesTo(s, AppendTx(ledger[s], e).ledger)
    BY <1>1, <2>1, AppendKeeps DEF AppendFact, MovesTo
  <2>3. QED
    BY <2>2
<1>3. CASE \E a \in Aliases, e \in Envelopes : ParkUnmapped(a, e)
  BY <1>3 DEF ParkUnmapped
<1>4. CASE \E a \in Aliases, k \in Keys, s \in Subjects : BindUnmapped(a, k, s)
  <2>1. PICK a \in Aliases, k \in Keys, s \in Subjects : BindUnmapped(a, k, s)
    BY <1>4
  <2>2. PICK e \in Envelopes : e = parked[<<a, k>>].envelope
    BY <1>0, <2>1 DEF BindUnmapped, ParkedOK, Parking
  <2>3. ledger' = [ledger EXCEPT ![s] = AppendTx(ledger[s], e).ledger]
    BY <2>1, <2>2 DEF BindUnmapped
  <2>4. MovesTo(s, AppendTx(ledger[s], e).ledger)
    BY <1>1, <2>3, AppendKeeps DEF MovesTo
  <2>5. QED
    BY <2>4
<1>5. CASE \E s \in Subjects, k \in Keys, d \in Displays : LinkImpression(s, k, d)
  <2>1. PICK s \in Subjects, k \in Keys, d \in Displays : LinkImpression(s, k, d)
    BY <1>5
  <2> DEFINE l == ledger[s]
             m == AddLink(l, k, d, l.version + 1)
  <2>2. /\ k \in l.active \ DOMAIN l.links
        /\ Cardinality(Explaining(l, Envelope(l, k), d)) = 1
        /\ ledger' = [ledger EXCEPT ![s] = m]
    BY <2>1 DEF LinkImpression
  <2>3. Explaining(l, Envelope(l, k), d) # {}
    BY <2>2, FS_EmptySet
  <2>4. MovesTo(s, m)
    BY <1>1, <2>2, <2>3, LinkKeeps DEF MovesTo
  <2>5. QED
    BY <2>4
<1>6. CASE \E s \in Subjects : ReconcilePending(s)
  <2>1. PICK s \in Subjects : ReconcilePending(s)
    BY <1>6
  <2>2. MovesTo(s, ReconcileTx(ledger[s]))
    BY <1>1, <2>1, ReconcileKeeps DEF ReconcilePending, MovesTo
  <2>3. QED
    BY <2>2
<1>7. QED
  BY <1>2, <1>3, <1>4, <1>5, <1>6 DEF Next

LEMMA LedgersStay ==
  ASSUME Inv, [Next]_vars
  PROVE  LedgersOK' /\ \A r \in Subjects : Kept(ledger[r], ledger'[r])
<1>1. LedgersOK
  BY DEF Inv
<1>2. CASE \E s \in Subjects : \E m : MovesTo(s, m)
  BY <1>1, <1>2, LedgersMove
<1>3. CASE ledger' = ledger
  BY <1>1, <1>3, KeptIsReflexive DEF LedgersOK
<1>4. QED
  BY <1>2, <1>3, NextMoves DEF vars

HasReceipt(l, k, row) ==
  /\ k \in Stored(l) /\ Envelope(l, k) = row.envelope
  /\ row.receipt.status = l.rows[k].initial /\ row.receipt.version = l.rows[k].initialVersion

LEMMA ReceiptStays ==
  ASSUME NEW l, NEW m, Kept(l, m), NEW k, NEW row, HasReceipt(l, k, row)
  PROVE  HasReceipt(m, k, row)
BY DEF Kept, HasReceipt, Envelope

LEMMA NextKeepsInv == Inv /\ [Next]_vars => Inv'
<1> SUFFICES ASSUME Inv, [Next]_vars PROVE Inv'
  OBVIOUS
<1>1. LedgersOK /\ ParkedOK /\ BindingOK
  BY DEF Inv
<1>2. \A p \in DOMAIN parked :
        parked[p].subject # None =>
          /\ p[1] \in DOMAIN binding /\ binding[p[1]] = parked[p].subject
          /\ HasReceipt(ledger[parked[p].subject], p[2], parked[p])
  BY DEF Inv, BoundWhereItsAliasIs, HasReceipt
<1>3. LedgersOK' /\ \A r \in Subjects : Kept(ledger[r], ledger'[r])
  BY LedgersStay
<1>4. \A p \in DOMAIN parked : parked[p] \in Parking
  BY <1>1 DEF ParkedOK
<1>5. \A p \in DOMAIN parked :
        parked[p].subject # None => HasReceipt(ledger'[parked[p].subject], p[2], parked[p])
  BY <1>2, <1>3, <1>4, ReceiptStays DEF Parking
<1>6. CASE UNCHANGED <<parked, binding>>
  <2>1. ParkedOK' /\ BindingOK'
    BY <1>1, <1>6 DEF ParkedOK, BindingOK
  <2>2. BoundWhereItsAliasIs'
    BY <1>2, <1>5, <1>6 DEF BoundWhereItsAliasIs, HasReceipt
  <2>3. QED
    BY <1>3, <2>1, <2>2 DEF Inv
<1>7. CASE \E a \in Aliases, e \in Envelopes : ParkUnmapped(a, e)
  <2>1. PICK a \in Aliases, e \in Envelopes : ParkUnmapped(a, e)
    BY <1>7
  <2> DEFINE q == <<a, e.key>>
             row == [envelope |-> e, subject |-> None, receipt |-> Unbound]
  <2>2. row \in Parking /\ row.subject = None /\ row.envelope = e
    BY ConflictIsReceipt DEF Parking
  <2>3. parked' = [p \in DOMAIN parked \cup {q} |-> IF p \in DOMAIN parked THEN parked[p] ELSE row]
    BY <2>1 DEF ParkUnmapped
  <2>4. binding' = binding /\ q \notin DOMAIN parked
    BY <2>1 DEF ParkUnmapped
  <2>5. q \in Aliases \X Keys /\ q[2] = e.key
    BY EnvelopeFields
  <2> HIDE DEF row, q
  <2>6. /\ DOMAIN parked' = DOMAIN parked \cup {q} /\ parked'[q] = row
        /\ \A p \in DOMAIN parked : parked'[p] = parked[p]
    BY <2>3, <2>4
  <2>7. ParkedOK'
    BY <1>1, <2>2, <2>3, <2>5, <2>6 DEF ParkedOK
  <2>8. BindingOK'
    BY <1>1, <2>4 DEF BindingOK
  <2>9. BoundWhereItsAliasIs'
    BY <1>2, <1>5, <2>2, <2>4, <2>6 DEF BoundWhereItsAliasIs, HasReceipt
  <2>10. QED
    BY <1>3, <2>7, <2>8, <2>9 DEF Inv
<1>8. CASE \E a \in Aliases, k \in Keys, s \in Subjects : BindUnmapped(a, k, s)
  <2>1. PICK a \in Aliases, k \in Keys, s \in Subjects : BindUnmapped(a, k, s)
    BY <1>8
  <2> DEFINE q  == <<a, k>>
             tx == AppendTx(ledger[s], parked[q].envelope)
             row == [parked[q] EXCEPT !.subject = s, !.receipt = tx.receipt]
  <2>2. /\ q \in DOMAIN parked /\ MappedSubject(a, s) = s /\ tx.receipt # Conflict
        /\ ledger' = [ledger EXCEPT ![s] = tx.ledger]
        /\ binding' = [x \in DOMAIN binding \cup {a} |-> MappedSubject(x, s)]
        /\ parked' = [parked EXCEPT ![q].subject = s, ![q].receipt = tx.receipt]
    BY <2>1 DEF BindUnmapped
  <2>3. PICK e \in Envelopes : e = parked[q].envelope /\ e.key = k
    BY <1>1, <1>4, <2>2 DEF Parking, ParkedOK
  <2>4. tx = AppendTx(ledger[s], e)
    BY <2>3
  <2> HIDE DEF tx
  <2>5. /\ tx.receipt \in Receipts
        /\ k \in Stored(tx.ledger) /\ Envelope(tx.ledger, k) = e
        /\ tx.receipt.status = tx.ledger.rows[k].initial
        /\ tx.receipt.version = tx.ledger.rows[k].initialVersion
    BY <1>1, <2>2, <2>3, <2>4, AppendKeeps DEF LedgersOK
  <2>6. ledger'[s] = tx.ledger
    BY <1>1, <2>2 DEF LedgersOK
  <2>7. /\ row \in Parking /\ row.envelope = e /\ row.subject = s /\ row.receipt = tx.receipt
    BY <1>4, <2>2, <2>3, <2>5 DEF Parking
  <2>8. parked' = [parked EXCEPT ![q] = row]
    BY <1>4, <2>2 DEF Parking
  <2>9. q[1] = a /\ q[2] = k
    OBVIOUS
  <2> HIDE DEF row, q
  <2>10. /\ DOMAIN parked' = DOMAIN parked /\ parked'[q] = row
         /\ \A p \in DOMAIN parked \ {q} : parked'[p] = parked[p]
    BY <1>1, <2>2, <2>8 DEF ParkedOK
  <2>11. /\ DOMAIN binding' = DOMAIN binding \cup {a}
         /\ \A x \in DOMAIN binding : binding'[x] = binding[x]
         /\ binding'[a] = s
    BY <2>2 DEF MappedSubject
  <2>12. ParkedOK'
    <3>1. parked' \in [DOMAIN parked -> Parking]
      BY <1>1, <2>7, <2>8 DEF ParkedOK
    <3>2. \A p \in DOMAIN parked : p = q \/ p \in DOMAIN parked \ {q}
      OBVIOUS
    <3>3. QED
      BY <1>1, <2>3, <2>7, <2>9, <2>10, <3>1, <3>2 DEF ParkedOK
  <2>13. BindingOK'
    BY <1>1, <2>11 DEF BindingOK
  <2>14. HasReceipt(ledger'[s], k, row)
    BY <2>5, <2>6, <2>7 DEF HasReceipt
  <2>15. ASSUME NEW p \in DOMAIN parked', parked'[p].subject # None
         PROVE  /\ p[1] \in DOMAIN binding' /\ binding'[p[1]] = parked'[p].subject
                /\ HasReceipt(ledger'[parked'[p].subject], p[2], parked'[p])
    <3>1. CASE p = q
      BY <2>7, <2>9, <2>10, <2>11, <2>14, <3>1
    <3>2. CASE p # q
      <4>1. p \in DOMAIN parked /\ parked'[p] = parked[p]
        BY <2>10, <3>2
      <4>2. QED
        BY <1>2, <1>5, <2>11, <2>15, <4>1
    <3>3. QED
      BY <3>1, <3>2
  <2>16. BoundWhereItsAliasIs'
    BY <2>15 DEF BoundWhereItsAliasIs, HasReceipt
  <2>17. QED
    BY <1>3, <2>12, <2>13, <2>16 DEF Inv
<1>9. QED
  <2>1. CASE UNCHANGED vars
    BY <1>6, <2>1 DEF vars
  <2>2. CASE \E s \in Subjects, e \in Envelopes : AppendFact(s, e)
    BY <1>6, <2>2 DEF AppendFact
  <2>3. CASE \E s \in Subjects, k \in Keys, d \in Displays : LinkImpression(s, k, d)
    BY <1>6, <2>3 DEF LinkImpression
  <2>4. CASE \E s \in Subjects : ReconcilePending(s)
    BY <1>6, <2>4 DEF ReconcilePending
  <2>5. QED
    BY <1>7, <1>8, <2>1, <2>2, <2>3, <2>4 DEF Next

THEOREM Invariant == Spec => []Inv
<1>1. Init => Inv
  BY InitHasInv
<1>2. Inv /\ [Next]_vars => Inv'
  BY NextKeepsInv
<1>3. QED
  BY <1>1, <1>2, PTL DEF Spec

-------------------------------------------------------------------------------
(* The theorems.                                                           *)

(* Every table of the ledger, the parked envelopes and the bindings keep   *)
(* the types of the schema, and no transaction commits what breaks a       *)
(* unique index.                                                           *)
THEOREM TypeCorrect == Spec => []TypeOK
<1>1. Inv => TypeOK
  <2> SUFFICES ASSUME Inv PROVE TypeOK
    OBVIOUS
  <2>1. ASSUME NEW s \in Subjects
        PROVE  LET l == ledger[s]
               IN  /\ l.version \in Nat
                   /\ Stored(l) \subseteq Keys
                   /\ \A k \in Stored(l) : l.rows[k] \in Row /\ Envelope(l, k).key = k
                   /\ l.active \subseteq Stored(l)
                   /\ DOMAIN l.links \subseteq Stored(l)
                   /\ \A k \in DOMAIN l.links : l.links[k] \in Link
                   /\ l.marks \in [Sources -> [contiguous : Nat, seen : Nat]]
                   /\ ~l.clash
    <3> DEFINE l == ledger[s]
    <3>1. /\ l \in Ledgers /\ ~l.clash /\ Accepted(l) \subseteq Stored(l)
          /\ KeysAgree(l) /\ Tips(l, Accepted(l)) /\ LinksLead(l)
      BY DEF Inv, LedgersOK, Sound, Good
    <3>2. l.version \in Nat /\ l.marks \in Marks /\ l.links \in Tables(Link)
      BY <3>1 DEF Ledgers
    <3>3. \A k \in DOMAIN l.links : l.links[k] \in Link
      BY <3>2, TableIs
    <3>4. l.active \subseteq Stored(l) /\ DOMAIN l.links \subseteq Stored(l)
      BY <3>1 DEF Tips, LinksLead
    <3>5. Stored(l) \subseteq Keys /\ \A k \in Stored(l) : l.rows[k] \in Row
      BY <3>1, RowFields
    <3> HIDE DEF l
    <3>6. /\ l.version \in Nat
          /\ Stored(l) \subseteq Keys
          /\ \A k \in Stored(l) : l.rows[k] \in Row /\ Envelope(l, k).key = k
          /\ l.active \subseteq Stored(l)
          /\ DOMAIN l.links \subseteq Stored(l)
          /\ \A k \in DOMAIN l.links : l.links[k] \in Link
          /\ l.marks \in [Sources -> [contiguous : Nat, seen : Nat]]
          /\ ~l.clash
      BY <3>1, <3>2, <3>3, <3>4, <3>5 DEF KeysAgree, Marks
    <3>7. QED
      BY <3>6 DEF l
  <2>2. \A p \in DOMAIN parked : /\ parked[p].envelope \in Envelopes
                                 /\ parked[p].subject \in Subjects \cup {None}
    BY DEF Inv, ParkedOK, Parking
  <2>3. QED
    BY <2>1, <2>2, Zenon DEF TypeOK, Inv, ParkedOK, BindingOK
<1>2. QED
  BY <1>1, Invariant, PTL

(* Whatever order facts, corrections and retractions arrive in, the active *)
(* facts are the ends of the accepted chains that are no retractions.      *)
THEOREM ActiveIsAlwaysTheTip == Spec => []ActiveIsTheTip
<1>1. Inv => ActiveIsTheTip
  <2> SUFFICES ASSUME Inv, NEW s \in Subjects
               PROVE  LET l == ledger[s]
                      IN  l.active = {k \in Accepted(l) :
                                        /\ Envelope(l, k).action # "retract"
                                        /\ Successors(l, k) \cap Accepted(l) = {}}
    BY Zenon DEF ActiveIsTheTip
  <2> DEFINE l == ledger[s]
  <2>1. Tips(l, Accepted(l))
    BY DEF Inv, LedgersOK, Sound, Good
  <2> HIDE DEF l
  <2>2. \A k : Successors(l, k) \cap Accepted(l) = {}
                <=> \A j \in Accepted(l) : Envelope(l, j).supersedes # k
    BY DEF Successors, Accepted
  <2>3. l.active = {k \in Accepted(l) : /\ Envelope(l, k).action # "retract"
                                        /\ Successors(l, k) \cap Accepted(l) = {}}
    BY <2>1, <2>2 DEF Tips
  <2>4. QED
    BY <2>3 DEF l
<1>2. QED
  BY <1>1, Invariant, PTL

(* The marks of a source are exact: the accepted prefix of its positions   *)
(* and the highest position stored, also after late and promoted facts.    *)
THEOREM WatermarkIsAlwaysExact == Spec => []WatermarkIsExact
<1>1. Inv => WatermarkIsExact
  <2> SUFFICES ASSUME Inv, NEW s \in Subjects, NEW p \in Sources
               PROVE  LET l      == ledger[s]
                          stored == {Envelope(l, k).seq :
                                       k \in {j \in Stored(l) : Envelope(l, j).source = p}}
                          prefix == {n \in 0..Max(stored \cup {0}) :
                                       \A m \in 1..n : AcceptedAt(l.rows, p, m)}
                      IN  /\ l.marks[p].contiguous = Max(prefix)
                          /\ l.marks[p].seen = Max(stored \cup {0})
    BY DEF WatermarkIsExact
  <2> DEFINE l      == ledger[s]
             stored == {Envelope(l, k).seq : k \in {j \in Stored(l) : Envelope(l, j).source = p}}
             c      == l.marks[p].contiguous
             h      == l.marks[p].seen
             prefix == {n \in 0..h : \A m \in 1..n : AcceptedAt(l.rows, p, m)}
  <2>1. l \in Ledgers /\ MarkOK(l.marks[p], l.rows, Accepted(l), Stored(l), p)
    BY DEF Inv, LedgersOK, Sound, Good, MarksOK
  <2>2. c \in Nat /\ h \in Nat
    BY <2>1 DEF Ledgers, Marks
  <2> HIDE DEF l
  <2>3. \A n : AcceptedAt(l.rows, p, n) <=> Reached(l.rows, Accepted(l), p, n)
    BY DEF AcceptedAt, Reached, Accepted, Stored
  <2>4. /\ c <= h /\ \A n \in 1..c : AcceptedAt(l.rows, p, n)
        /\ ~AcceptedAt(l.rows, p, c + 1)
    BY <2>1, <2>3 DEF MarkOK
  <2>5. \A k \in Stored(l) : Envelope(l, k).seq \in Nat
    BY <2>1, RowFields, EnvelopeFields
  <2>6. Max(stored \cup {0}) = h
    <3>1. stored \cup {0} \in SUBSET Nat
      BY <2>5
    <3>2. \A n \in stored \cup {0} : n <= h
      BY <2>1, <2>2 DEF MarkOK, Envelope
    <3>3. h \in stored \cup {0}
      BY <2>1 DEF MarkOK, Reached, Envelope
    <3> HIDE DEF stored, h
    <3>4. QED
      BY <3>1, <3>2, <3>3, MaxIs
  <2>7. Max(prefix) = c
    <3>1. prefix \in SUBSET Nat
      BY <2>2
    <3>2. c \in prefix
      BY <2>2, <2>4
    <3>3. \A n \in prefix : n <= c
      <4> SUFFICES ASSUME NEW n \in prefix, ~(n <= c) PROVE FALSE
        OBVIOUS
      <4>1. n \in 0..h /\ \A m \in 1..n : AcceptedAt(l.rows, p, m)
        OBVIOUS
      <4>2. c + 1 \in 1..n
        BY <2>2, <4>1
      <4>3. QED
        BY <2>4, <4>1, <4>2
    <3> HIDE DEF prefix, c
    <3>4. QED
      BY <3>1, <3>2, <3>3, MaxIs
  <2>8. QED
    BY <2>6, <2>7 DEF l
<1>2. QED
  BY <1>1, Invariant, PTL

(* No attribution that is not revoked leads to an impression that is no    *)
(* longer active.                                                          *)
THEOREM LinksAlwaysLead == Spec => []LinksLeadToActiveImpressions
<1>1. Inv => LinksLeadToActiveImpressions
  <2>1. ASSUME Inv PROVE \A s \in Subjects : LinksLead(ledger[s])
    BY <2>1 DEF Inv, LedgersOK, Sound, Good
  <2>2. QED
    BY <2>1 DEF LinksLeadToActiveImpressions, LinksLead
<1>2. QED
  BY <1>1, Invariant, PTL

(* A bound envelope stays in the ledger of the subject of its alias, with  *)
(* the receipt it was given.                                               *)
THEOREM BoundStaysBound == Spec => []BoundWhereItsAliasIs
<1>1. Inv => BoundWhereItsAliasIs
  BY DEF Inv
<1>2. QED
  BY <1>1, Invariant, PTL

-------------------------------------------------------------------------------
(* Chains of supersedes.  The lineage of a key is the least set of stored  *)
(* rows that holds it and is closed under following supersedes: the loop   *)
(* runs once for each stored row, and every turn that is not the last to   *)
(* find something finds a row.                                             *)

Parent(l, k) == Envelope(l, k).supersedes

Above(l, R) == R \cup ({Envelope(l, j).supersedes : j \in R} \cap Stored(l))

Closed(l, R) == \A j \in R : Parent(l, j) \in Stored(l) => Parent(l, j) \in R

(* The turns of the loop.                                                  *)
Climbs(f, l, k) ==
  /\ f \in [0..Cardinality(Stored(l)) -> SUBSET Stored(l)]
  /\ f[0] = {k} \cap Stored(l)
  /\ \A n \in 1..Cardinality(Stored(l)) : f[n] = Above(l, f[n - 1])

LEMMA LineageRuns ==
  ASSUME NEW l, IsFiniteSet(Stored(l)), NEW k
  PROVE  \E f : Climbs(f, l, k) /\ Lineage(l, k) = f[Cardinality(Stored(l))]
<1> DEFINE S == SUBSET Stored(l)
           L == Cardinality(Stored(l))
           x == {k} \cap Stored(l)
           loop(f) == f = [n \in 0..L |-> IF n = 0 THEN x ELSE Above(l, f[n - 1])]
           reach == CHOOSE f : loop(f)
           F == [R \in S |-> Above(l, R)]
<1>1. Lineage(l, k) = reach[L]
  BY DEF Lineage, Above
<1>2. L \in Nat
  BY FS_CardinalityType
<1>3. x \in S /\ F \in [S -> S]
  BY DEF Above
<1> HIDE DEF x, F, S
<1>4. PICK f \in [0..L -> S] : f[0] = x /\ \A n \in 1..L : f[n] = F[f[n - 1]]
  <2>1. PICK f : IsLoop(f, S, L, x, F)
    <3> HIDE DEF L
    <3>1. QED
      BY <1>2, <1>3, Iterates
  <2>2. QED
    BY <2>1 DEF IsLoop
<1>5. \A n \in 1..L : f[n] = Above(l, f[n - 1])
  <2> TAKE n \in 1..L
  <2>1. n - 1 \in 0..L
    BY <1>2
  <2>2. QED
    BY <1>4, <2>1 DEF F
<1>6. loop(f)
  <2>1. \A n \in 0..L : f[n] = IF n = 0 THEN x ELSE Above(l, f[n - 1])
    <3> TAKE n \in 0..L
    <3>1. n # 0 => n \in 1..L
      BY <1>2
    <3>2. QED
      BY <1>4, <1>5, <3>1
  <2>2. QED
    BY <1>4, <2>1
<1>7. loop(reach)
  BY <1>6
<1>8. reach[0] = x
  <2>1. 0 \in 0..L
    BY <1>2
  <2> HIDE DEF reach, L
  <2>2. QED
    BY <1>7, <2>1
<1>9. \A n \in 1..L : reach[n] = Above(l, reach[n - 1])
  <2> TAKE n \in 1..L
  <2>1. n \in 0..L /\ n # 0
    BY <1>2
  <2>2. QED
    BY <1>7, <2>1
<1>10. reach = [n \in 0..L |-> reach[n]]
  BY <1>7
<1> HIDE DEF reach, L
<1>11. \A n \in 0..L : reach[n] \in S
  <2>1. reach[0] \in S
    BY <1>3, <1>8
  <2>2. \A n \in 1..L : reach[n - 1] \in S => reach[n] \in S
    BY <1>9 DEF Above, S
  <2>3. QED
    BY <1>2, <2>1, <2>2, Stays
<1>12. reach \in [0..L -> S]
  BY <1>10, <1>11
<1>13. Climbs(reach, l, k)
  BY <1>8, <1>9, <1>12 DEF Climbs, x, L, S
<1>14. QED
  BY <1>1, <1>13 DEF L

LEMMA LineageIs ==
  ASSUME NEW l, IsFiniteSet(Stored(l)), NEW k
  PROVE  /\ Lineage(l, k) \subseteq Stored(l)
         /\ k \in Stored(l) => k \in Lineage(l, k)
         /\ Closed(l, Lineage(l, k))
         /\ \A T \in SUBSET Stored(l) :
              Closed(l, T) /\ {k} \cap Stored(l) \subseteq T => Lineage(l, k) \subseteq T
<1> DEFINE L == Cardinality(Stored(l))
           x == {k} \cap Stored(l)
<1>1. PICK f : Climbs(f, l, k) /\ Lineage(l, k) = f[L]
  BY LineageRuns
<1>2. L \in Nat /\ 0 \in 0..L /\ L \in 0..L
  BY FS_CardinalityType
<1>3. /\ \A n \in 0..L : f[n] \in SUBSET Stored(l)
      /\ f[0] = x /\ \A n \in 1..L : f[n] = Above(l, f[n - 1])
  BY <1>1 DEF Climbs
<1>4. Lineage(l, k) \subseteq Stored(l)
  BY <1>1, <1>2, <1>3
<1>5. ASSUME NEW T \in SUBSET Stored(l), Closed(l, T), x \subseteq T
      PROVE  Lineage(l, k) \subseteq T
  <2> DEFINE S == SUBSET T
  <2>1. f[0] \in S
    BY <1>3, <1>5
  <2>2. \A n \in 1..L : f[n - 1] \in S => f[n] \in S
    BY <1>3, <1>5 DEF Above, Closed, Parent
  <2> HIDE DEF S, L
  <2>3. \A n \in 0..L : f[n] \in S
    BY <1>2, <2>1, <2>2, Stays
  <2>4. QED
    BY <1>1, <1>2, <2>3 DEF S
<1>6. k \in Stored(l) => k \in Lineage(l, k)
  <2> SUFFICES ASSUME k \in Stored(l) PROVE k \in Lineage(l, k)
    OBVIOUS
  <2> DEFINE S == {R \in SUBSET Stored(l) : k \in R}
  <2>1. f[0] \in S
    BY <1>3
  <2>2. \A n \in 1..L : f[n - 1] \in S => f[n] \in S
    BY <1>3 DEF Above
  <2> HIDE DEF S, L
  <2>3. \A n \in 0..L : f[n] \in S
    BY <1>2, <2>1, <2>2, Stays
  <2>4. QED
    BY <1>1, <1>2, <2>3 DEF S
<1>7. Closed(l, Lineage(l, k))
  <2>1. CASE k \notin Stored(l)
    <3>1. x \subseteq {} /\ Closed(l, {})
      BY <2>1 DEF Closed
    <3> HIDE DEF x
    <3>2. Lineage(l, k) \subseteq {}
      BY <1>5, <3>1
    <3>3. QED
      BY <3>2 DEF Closed
  <2>2. CASE k \in Stored(l)
    <3> DEFINE found(n) == Closed(l, f[n]) \/ Cardinality(f[n]) >= n + 1
               T == {n \in 0..L : ~found(n)}
    <3>1. \A n \in 0..L : IsFiniteSet(f[n]) /\ Cardinality(f[n]) \in Nat
      BY <1>3, FS_Subset, FS_CardinalityType
    <3>2. found(0)
      <4>1. f[0] = {k}
        BY <1>3, <2>2
      <4>2. Cardinality({k}) = 1
        BY FS_Singleton
      <4>3. QED
        BY <4>1, <4>2
    <3>3. ASSUME NEW n \in 1..L, found(n - 1) PROVE found(n)
      <4>1. n - 1 \in 0..L /\ n \in 0..L /\ f[n] = Above(l, f[n - 1])
        BY <1>2, <1>3
      <4>2. CASE Closed(l, f[n - 1])
        <5>1. f[n] = f[n - 1]
          BY <4>1, <4>2 DEF Closed, Above, Parent
        <5>2. QED
          BY <4>2, <5>1
      <4>3. CASE ~Closed(l, f[n - 1])
        <5>1. PICK j \in f[n - 1] : Parent(l, j) \in Stored(l) \ f[n - 1]
          BY <4>3 DEF Closed
        <5>2. f[n - 1] \cup {Parent(l, j)} \subseteq f[n]
          BY <4>1, <5>1 DEF Above, Parent
        <5>3. Cardinality(f[n - 1] \cup {Parent(l, j)}) = Cardinality(f[n - 1]) + 1
          BY <3>1, <4>1, <5>1, FS_AddElement
        <5>4. Cardinality(f[n - 1] \cup {Parent(l, j)}) <= Cardinality(f[n])
          BY <3>1, <4>1, <5>2, FS_Subset
        <5>5. Cardinality(f[n - 1]) >= n
          BY <1>2, <3>3, <4>3
        <5>6. QED
          BY <3>1, <4>1, <5>3, <5>4, <5>5
      <4>4. QED
        BY <4>2, <4>3
    <3> HIDE DEF found
    <3>4. \A n : n \in T <=> n \in 0..L /\ ~found(n)
      OBVIOUS
    <3>5. T \in SUBSET Nat
      OBVIOUS
    <3> HIDE DEF T
    <3>6. T = {}
      <4> SUFFICES ASSUME T # {} PROVE FALSE
        OBVIOUS
      <4>1. PICK m \in T : \A n \in T : m <= n
        BY <3>5, Least
      <4>2. m \in 1..L /\ m - 1 \in 0..L
        BY <1>2, <3>2, <3>4
      <4>3. m - 1 \notin T
        BY <4>1, <4>2
      <4>4. QED
        BY <3>3, <3>4, <4>2, <4>3
    <3>7. found(L)
      BY <1>2, <3>4, <3>6
    <3>8. Cardinality(f[L]) <= L
      BY <1>2, <1>3, FS_Subset
    <3>9. Closed(l, f[L])
      BY <1>2, <3>1, <3>7, <3>8 DEF found
    <3>10. QED
      BY <1>1, <3>9
  <2>3. QED
    BY <2>1, <2>2
<1>8. QED
  BY <1>4, <1>5, <1>6, <1>7

(* A key has no rows above it that are not its own or its parent's.        *)
LEMMA LineageUnfolds ==
  ASSUME NEW l, IsFiniteSet(Stored(l)), NEW k \in Stored(l)
  PROVE  Lineage(l, k) = {k} \cup Lineage(l, Parent(l, k))
<1> DEFINE p == Parent(l, k)
           T == {k} \cup Lineage(l, p)
<1>1. /\ Lineage(l, k) \subseteq Stored(l) /\ k \in Lineage(l, k)
      /\ Closed(l, Lineage(l, k))
      /\ \A R \in SUBSET Stored(l) :
           Closed(l, R) /\ {k} \cap Stored(l) \subseteq R => Lineage(l, k) \subseteq R
  BY LineageIs
<1>2. /\ Lineage(l, p) \subseteq Stored(l) /\ (p \in Stored(l) => p \in Lineage(l, p))
      /\ Closed(l, Lineage(l, p))
      /\ \A R \in SUBSET Stored(l) :
           Closed(l, R) /\ {p} \cap Stored(l) \subseteq R => Lineage(l, p) \subseteq R
  BY LineageIs
<1>3. Lineage(l, k) \subseteq T
  <2>1. T \in SUBSET Stored(l) /\ {k} \cap Stored(l) \subseteq T
    BY <1>2
  <2>2. Closed(l, T)
    BY <1>2 DEF Closed
  <2> HIDE DEF T
  <2>3. QED
    BY <1>1, <2>1, <2>2
<1>4. Lineage(l, p) \subseteq Lineage(l, k)
  <2>1. {p} \cap Stored(l) \subseteq Lineage(l, k)
    BY <1>1 DEF Closed
  <2>2. QED
    BY <1>1, <1>2, <2>1
<1>5. QED
  BY <1>1, <1>3, <1>4

(* Rows are added above nothing that is stored, so lineages only grow.     *)
LEMMA LineageGrows ==
  ASSUME NEW l, NEW m, Kept(l, m), IsFiniteSet(Stored(l)), IsFiniteSet(Stored(m)), NEW k
  PROVE  Lineage(l, k) \subseteq Lineage(m, k)
<1> DEFINE T == Lineage(m, k) \cap Stored(l)
<1>1. Stored(l) \subseteq Stored(m) /\ \A j \in Stored(l) : Parent(m, j) = Parent(l, j)
  BY DEF Kept, Parent, Envelope
<1>2. /\ k \in Stored(m) => k \in Lineage(m, k)
      /\ Closed(m, Lineage(m, k))
  BY LineageIs
<1>3. T \in SUBSET Stored(l) /\ {k} \cap Stored(l) \subseteq T /\ Closed(l, T)
  BY <1>1, <1>2 DEF Closed
<1> HIDE DEF T
<1>4. Lineage(l, k) \subseteq T
  BY <1>3, LineageIs
<1>5. QED
  BY <1>4 DEF T

(* No set of facts supersedes only one another, and no two facts supersede *)
(* one; what waits has waited since it arrived.                            *)
NoCircle(l) ==
  \A T \in SUBSET Stored(l) : T # {} => \E k \in T : Parent(l, k) \notin T

OneSuccessor(l) ==
  \A j, k \in Stored(l) : Parent(l, j) = Parent(l, k) => j = k \/ Parent(l, j) = None

WaitsSinceArrival(l) ==
  \A k \in Stored(l) : l.rows[k].initial = "accepted" => l.rows[k].status = "accepted"

Chained(l) ==
  IsFiniteSet(Stored(l)) /\ NoCircle(l) /\ OneSuccessor(l) /\ WaitsSinceArrival(l)

LEMMA OffItsLineage ==
  ASSUME NEW l, Chained(l), NEW k \in Stored(l)
  PROVE  k \notin Lineage(l, Parent(l, k))
<1> SUFFICES ASSUME k \in Lineage(l, Parent(l, k)) PROVE FALSE
  OBVIOUS
<1> DEFINE p == Parent(l, k)
           T == {y \in Lineage(l, p) : p \in Lineage(l, y)}
<1>1. IsFiniteSet(Stored(l)) /\ NoCircle(l)
  BY DEF Chained
<1>2. /\ Lineage(l, p) \subseteq Stored(l) /\ Closed(l, Lineage(l, p))
      /\ k \in Lineage(l, p)
      /\ \A R \in SUBSET Stored(l) :
           Closed(l, R) /\ {p} \cap Stored(l) \subseteq R => Lineage(l, p) \subseteq R
  BY <1>1, LineageIs
<1>3. p \in Stored(l) /\ p \in Lineage(l, p)
  <2>1. p \in Stored(l)
    <3>1. Closed(l, {}) /\ {} \in SUBSET Stored(l)
      BY DEF Closed
    <3>2. p \notin Stored(l) => {p} \cap Stored(l) \subseteq {}
      OBVIOUS
    <3>3. p \notin Stored(l) => Lineage(l, p) \subseteq {}
      BY <1>2, <3>1, <3>2
    <3>4. QED
      BY <1>2, <3>3
  <2>2. QED
    BY <1>1, <2>1, LineageIs
<1>4. k # p
  <2>1. {k} \in SUBSET Stored(l) /\ {k} # {}
    OBVIOUS
  <2>2. \E j \in {k} : Parent(l, j) \notin {k}
    BY <1>1, <2>1 DEF NoCircle
  <2>3. QED
    BY <2>2
<1>5. T \in SUBSET Stored(l) /\ p \in T
  BY <1>2, <1>3
<1>6. PICK y \in T : Parent(l, y) \notin T
  <2> HIDE DEF T
  <2>1. QED
    BY <1>1, <1>5 DEF NoCircle
<1> DEFINE q == Parent(l, y)
<1>7. y \in Stored(l) /\ p \in Lineage(l, y) /\ Lineage(l, y) = {y} \cup Lineage(l, q)
  BY <1>1, <1>5, <1>6, LineageUnfolds
<1>8. Lineage(l, q) \subseteq Stored(l) /\ Closed(l, Lineage(l, q))
  BY <1>1, LineageIs
<1>9. p \in Lineage(l, q)
  <2>1. CASE p # y
    BY <1>7, <2>1
  <2>2. CASE p = y
    <3>1. k \in Lineage(l, q)
      BY <1>2, <1>4, <1>7, <2>2
    <3>2. QED
      BY <1>3, <1>8, <3>1 DEF Closed
  <2>3. QED
    BY <2>1, <2>2
<1>10. q \in Stored(l)
  <2>1. Closed(l, {}) /\ {} \in SUBSET Stored(l)
    BY DEF Closed
  <2>2. q \notin Stored(l) => {q} \cap Stored(l) \subseteq {}
    OBVIOUS
  <2>3. q \notin Stored(l) => Lineage(l, q) \subseteq {}
    BY <1>1, <2>1, <2>2, LineageIs
  <2>4. QED
    BY <1>9, <2>3
<1>11. q \in Lineage(l, p)
  BY <1>2, <1>6, <1>10 DEF Closed
<1>12. QED
  BY <1>6, <1>9, <1>11

(* What stores nothing changes no chain.                                   *)
LEMMA ChainedStays ==
  ASSUME NEW l, NEW m, Chained(l), Kept(l, m), Stored(m) = Stored(l)
  PROVE  Chained(m)
<1>1. \A k \in Stored(l) : Parent(m, k) = Parent(l, k)
  BY DEF Kept, Parent, Envelope
<1>2. IsFiniteSet(Stored(m))
  BY DEF Chained
<1>3. NoCircle(m)
  BY <1>1 DEF Chained, NoCircle
<1>4. OneSuccessor(m)
  BY <1>1 DEF Chained, OneSuccessor
<1>5. WaitsSinceArrival(m)
  BY DEF Chained, Kept, WaitsSinceArrival
<1>6. QED
  BY <1>2, <1>3, <1>4, <1>5 DEF Chained

(* The check of appendTx is enough: a circle through a new fact would lead *)
(* from its predecessor up to a fact that supersedes it.                   *)
LEMMA ChainedGrows ==
  ASSUME NEW l, Sound(l), Chained(l), NEW m, Kept(l, m),
         NEW e \in Envelopes, e.key \notin Stored(l), Stored(m) = Stored(l) \cup {e.key},
         Envelope(m, e.key) = e,
         m.rows[e.key].initial = "accepted" => m.rows[e.key].status = "accepted",
         ~WouldCreateDependencyCycle(l, e), ~PositionOrSuccessorTaken(l, e)
  PROVE  Chained(m)
<1> DEFINE q == e.supersedes
<1>1. /\ IsFiniteSet(Stored(l)) /\ NoCircle(l) /\ OneSuccessor(l) /\ WaitsSinceArrival(l)
      /\ l \in Ledgers
  BY DEF Chained, Sound, Good
<1>2. (\A k \in Stored(l) : Parent(m, k) = Parent(l, k)) /\ Parent(m, e.key) = q
  BY DEF Kept, Parent, Envelope
<1>3. q # e.key /\ None \notin Stored(m)
  <2>1. Stored(m) \subseteq Keys
    BY <1>1, RowFields, EnvelopeFields
  <2>2. QED
    BY <2>1, EnvelopeFields, NullAssumption
<1>4. IsFiniteSet(Stored(m))
  BY <1>1, FS_AddElement
<1>5. OneSuccessor(m)
  <2>1. \A k \in Stored(l) : Parent(l, k) = q => q = None
    BY DEF PositionOrSuccessorTaken, Successors, Parent
  <2>2. QED
    BY <1>1, <1>2, <2>1 DEF OneSuccessor
<1>6. WaitsSinceArrival(m)
  BY <1>1 DEF WaitsSinceArrival, Kept
<1>7. NoCircle(m)
  <2> SUFFICES ASSUME NEW T \in SUBSET Stored(m), T # {}, \A k \in T : Parent(m, k) \in T
               PROVE  FALSE
    BY DEF NoCircle
  <2>1. e.key \in T
    <3> SUFFICES ASSUME e.key \notin T PROVE FALSE
      OBVIOUS
    <3>1. T \in SUBSET Stored(l)
      OBVIOUS
    <3>2. QED
      BY <1>1, <1>2, <3>1 DEF NoCircle
  <2>2. q \in T /\ q \in Stored(l) /\ q # None
    BY <1>2, <1>3, <2>1
  <2> DEFINE R == Lineage(l, q)
             U == T \cap Stored(l)
  <2>3. /\ R \subseteq Stored(l) /\ q \in R /\ Closed(l, R)
        /\ \A S \in SUBSET Stored(l) :
             Closed(l, S) /\ {q} \cap Stored(l) \subseteq S => R \subseteq S
    BY <1>1, <2>2, LineageIs
  <2>4. R \subseteq U
    <3>1. U \in SUBSET Stored(l) /\ {q} \cap Stored(l) \subseteq U /\ Closed(l, U)
      BY <1>2, <2>2 DEF Closed
    <3> HIDE DEF U
    <3>2. QED
      BY <2>3, <3>1
  <2> HIDE DEF R
  <2>5. PICK k \in R : Parent(l, k) \notin R
    BY <1>1, <2>3 DEF NoCircle
  <2>6. Parent(l, k) \notin Stored(l) /\ Parent(l, k) \in T
    BY <1>2, <2>3, <2>4, <2>5 DEF Closed
  <2>7. Parent(l, k) = e.key
    BY <2>6
  <2>8. QED
    BY <2>2, <2>5, <2>7 DEF WouldCreateDependencyCycle, R, Parent
<1>8. QED
  BY <1>4, <1>5, <1>6, <1>7 DEF Chained

-------------------------------------------------------------------------------
(* Facts that wait although their predecessor is accepted.                 *)

Promotions(l, k) == {j \in Lineage(l, k) : l.rows[j].initial = "pending_dependency"}

Enough(l, k) == Cardinality(PromotedBefore(l, k)) >= ChainLimit

(* Only what waits for key may be waiting after less than a whole chain.   *)
PatientBut(l, key) == \A k \in Ready(l) : Parent(l, k) = key \/ Enough(l, k)

Patient(l) == \A k \in Ready(l) : Enough(l, k)

LEMMA PromotionsGrow ==
  ASSUME NEW l, NEW m, Kept(l, m), IsFiniteSet(Stored(l)), IsFiniteSet(Stored(m)), NEW k
  PROVE  /\ Promotions(l, k) \subseteq Promotions(m, k)
         /\ IsFiniteSet(Promotions(m, k)) /\ Cardinality(Promotions(m, k)) \in Nat
         /\ Cardinality(Promotions(l, k)) \in Nat
         /\ Cardinality(Promotions(l, k)) <= Cardinality(Promotions(m, k))
<1>1. Lineage(l, k) \subseteq Lineage(m, k)
  BY LineageGrows
<1>2. Lineage(l, k) \subseteq Stored(l) /\ Lineage(m, k) \subseteq Stored(m)
  BY LineageIs
<1>3. Promotions(l, k) \subseteq Promotions(m, k)
  BY <1>1, <1>2 DEF Promotions, Kept
<1>4. IsFiniteSet(Promotions(m, k)) /\ IsFiniteSet(Promotions(l, k))
  BY <1>2, FS_Subset DEF Promotions
<1>5. QED
  BY <1>3, <1>4, FS_Subset, FS_CardinalityType

LEMMA EnoughStays ==
  ASSUME NEW l, NEW m, Kept(l, m), IsFiniteSet(Stored(l)), IsFiniteSet(Stored(m)),
         NEW k \in Stored(l), Enough(l, k)
  PROVE  Enough(m, k)
<1> DEFINE p == Parent(l, k)
<1>1. Parent(m, k) = p
  BY DEF Kept, Parent, Envelope
<1>2. PromotedBefore(l, k) = Promotions(l, p) /\ PromotedBefore(m, k) = Promotions(m, p)
  BY <1>1 DEF PromotedBefore, Promotions, Parent
<1>3. /\ Cardinality(Promotions(m, p)) \in Nat /\ Cardinality(Promotions(l, p)) \in Nat
      /\ Cardinality(Promotions(l, p)) <= Cardinality(Promotions(m, p))
  BY PromotionsGrow
<1>4. ChainLimit \in Nat
  BY LimitAssumption
<1>5. QED
  BY <1>2, <1>3, <1>4 DEF Enough

(* When key is accepted, only what waits for it becomes ready.             *)
LEMMA AcceptedMakesReady ==
  ASSUME NEW l, Sound(l), NEW m, Sound(m), Kept(l, m), Chained(l), Chained(m), NEW key,
         Accepted(m) \subseteq Accepted(l) \cup {key}, Stored(m) \subseteq Stored(l) \cup {key},
         key \notin Ready(m), \A k \in Ready(l) : Enough(l, k) \/ k \in Accepted(m)
  PROVE  PatientBut(m, key)
<1> SUFFICES ASSUME NEW k \in Ready(m), Parent(m, k) # key PROVE Enough(m, k)
  BY DEF PatientBut
<1>1. /\ k \in Stored(m) /\ m.rows[k].status = "pending_dependency"
      /\ Parent(m, k) \in Accepted(m)
  BY DEF Ready, Parent
<1>2. k \notin Accepted(m)
  BY <1>1 DEF Accepted
<1>3. k \in Stored(l) /\ Parent(m, k) \in Accepted(l)
  BY <1>1, <1>2
<1>4. Parent(m, k) = Parent(l, k)
  BY <1>3 DEF Kept, Parent, Envelope
<1>5. l.rows[k].status = "pending_dependency"
  <2>1. l.rows[k].status \in Statuses
    BY <1>3, RowFields DEF Sound, Good
  <2>2. l.rows[k].status # "accepted"
    BY <1>1, <1>3 DEF Kept
  <2>3. QED
    BY <2>1, <2>2 DEF Statuses
<1>6. k \in Ready(l)
  BY <1>3, <1>4, <1>5 DEF Ready, Parent
<1>7. Enough(l, k)
  BY <1>2, <1>6
<1>8. QED
  BY <1>3, <1>7, EnoughStays DEF Chained

(* The length of the chain that the loop has promoted, as far as it went.  *)
Counted(t, n) ==
  /\ PatientBut(t.ledger, t.key)
  /\ \/ Dependents(t.ledger, t.key) = {}
     \/ Cardinality(Promotions(t.ledger, t.key)) >= n

LEMMA TurnCounts ==
  ASSUME NEW l \in Ledgers, Chained(l), NEW t \in Turns(l), NEW n \in Nat, Counted(t, n)
  PROVE  Counted(ResolveNext(t), n + 1)
<1> DEFINE g == t.ledger
           x == t.key
<1>1. /\ g \in Ledgers /\ Sound(g) /\ Kept(l, g) /\ Stored(g) = Stored(l)
      /\ x \in Accepted(g) /\ t.version = g.version
  BY DEF Turns
<1>2. Chained(g) /\ IsFiniteSet(Stored(g))
  BY <1>1, ChainedStays DEF Chained
<1>3. PatientBut(g, x) /\ (Dependents(g, x) = {} \/ Cardinality(Promotions(g, x)) >= n)
  BY DEF Counted
<1>4. CASE Dependents(g, x) = {}
  BY <1>3, <1>4 DEF ResolveNext, Counted
<1>5. CASE Dependents(g, x) # {}
  <2> DEFINE k == CHOOSE k \in Dependents(g, x) : TRUE
             m == Promoted(g, k)
  <2>1. k \in Dependents(g, x)
    BY <1>5
  <2>2. ResolveNext(t) = [ledger |-> m, key |-> k, version |-> g.version + 1]
    BY <1>1, <1>5 DEF ResolveNext, Promoted
  <2> HIDE DEF g, k, x
  <2>3. /\ k \in Stored(g) /\ g.rows[k].status = "pending_dependency"
        /\ Envelope(g, k).supersedes = x /\ Parent(g, k) = x
    BY <2>1 DEF Dependents, Successors, Parent
  <2>4. /\ Sound(m) /\ Kept(g, m) /\ Stored(m) = Stored(g)
        /\ Accepted(m) = Accepted(g) \cup {k}
    BY <1>1, <2>3, PromotionKeeps
  <2> HIDE DEF m
  <2>5. Chained(m) /\ IsFiniteSet(Stored(m))
    BY <1>2, <2>4, ChainedStays DEF Chained
  <2>6. \A j \in Ready(g) : Enough(g, j) \/ j \in Accepted(m)
    <3> TAKE j \in Ready(g)
    <3>1. CASE Parent(g, j) # x
      BY <1>3, <3>1 DEF PatientBut
    <3>2. CASE Parent(g, j) = x
      <4>1. x # None
        BY <1>1, RowFields, NullAssumption DEF Accepted
      <4>2. j \in Stored(g)
        BY DEF Ready
      <4>3. j = k
        BY <1>2, <2>3, <3>2, <4>1, <4>2 DEF Chained, OneSuccessor
      <4>4. QED
        BY <2>4, <4>3
    <3>3. QED
      BY <3>1, <3>2
  <2>7. PatientBut(m, k)
    <3>1. k \notin Ready(m)
      BY <2>4 DEF Accepted, Ready
    <3>2. QED
      BY <1>1, <1>2, <2>4, <2>5, <2>6, <3>1, AcceptedMakesReady
  <2>8. Cardinality(Promotions(m, k)) >= n + 1
    <3>1. Parent(m, k) = x
      BY <2>3, <2>4 DEF Kept, Parent, Envelope
    <3>2. /\ IsFiniteSet(Promotions(m, x)) /\ Cardinality(Promotions(m, x)) \in Nat
          /\ Cardinality(Promotions(g, x)) \in Nat
          /\ Cardinality(Promotions(g, x)) <= Cardinality(Promotions(m, x))
      BY <1>2, <2>4, <2>5, PromotionsGrow
    <3>3. m.rows[k].initial = "pending_dependency"
      <4>1. g.rows[k].initial # "accepted"
        BY <1>2, <2>3 DEF Chained, WaitsSinceArrival
      <4>2. g.rows[k].initial \in Statuses
        BY <1>1, <2>3, RowFields DEF Row
      <4>3. QED
        BY <2>3, <2>4, <4>1, <4>2 DEF Kept, Statuses
    <3>4. Lineage(m, k) = {k} \cup Lineage(m, x) /\ k \notin Lineage(m, x)
      BY <2>3, <2>4, <2>5, <3>1, LineageUnfolds, OffItsLineage
    <3>5. Promotions(m, k) = Promotions(m, x) \cup {k} /\ k \notin Promotions(m, x)
      BY <3>3, <3>4 DEF Promotions
    <3>6. Cardinality(Promotions(m, k)) = Cardinality(Promotions(m, x)) + 1
      BY <3>2, <3>5, FS_AddElement
    <3>7. Cardinality(Promotions(g, x)) >= n
      BY <1>3, <1>5 DEF g, x
    <3>8. QED
      BY <3>2, <3>6, <3>7
  <2>9. QED
    BY <2>2, <2>7, <2>8 DEF Counted
<1>6. QED
  BY <1>4, <1>5

LEMMA TurnKeepsClash ==
  ASSUME NEW l \in Ledgers, NEW t \in Turns(l), t.ledger.clash
  PROVE  ResolveNext(t).ledger.clash
<1> DEFINE g == t.ledger
           k == CHOOSE k \in Dependents(g, t.key) : TRUE
<1>1. g \in Ledgers
  BY DEF Turns
<1>2. CASE Dependents(g, t.key) = {}
  BY <1>2 DEF ResolveNext
<1>3. CASE Dependents(g, t.key) # {}
  <2> DEFINE m == ApplyAccepted(g, Envelope(g, k), t.version + 1, TRUE)
  <2>1. ResolveNext(t).ledger = m
    BY <1>3 DEF ResolveNext
  <2> HIDE DEF g, k
  <2>2. PICK e, v : m = ApplyAccepted(g, e, v, TRUE)
    OBVIOUS
  <2> HIDE DEF m
  <2>3. g.clash
    BY DEF g
  <2>4. m.clash
    BY <1>1, <2>2, <2>3, ApplyFields
  <2>5. QED
    BY <2>1, <2>4
<1>4. QED
  BY <1>2, <1>3

(* A broken unique index is not forgotten on the way.                      *)
LEMMA ResolveKeepsClash ==
  ASSUME NEW l, Sound(l), l.clash, NEW k \in Accepted(l),
         NEW m, m = ResolveDependents(l, k, l.version)
  PROVE  m.clash
<1> DEFINE L == ChainLimit
           S == {t \in Turns(l) : t.ledger.clash}
<1>1. PICK f : Resolves(f, l, k) /\ m = f[L].ledger
  BY ResolveRuns
<1>2. L \in Nat /\ 0 \in 0..L /\ L \in 0..L /\ l \in Ledgers
  BY LimitAssumption DEF Sound, Good
<1>3. /\ \A n \in 0..L : f[n] \in Turns(l)
      /\ f[0].ledger = l /\ \A n \in 1..L : f[n] = ResolveNext(f[n - 1])
  BY <1>1 DEF Resolves
<1>4. f[0] \in S
  BY <1>2, <1>3
<1>5. \A n \in 1..L : f[n - 1] \in S => f[n] \in S
  <2> TAKE n \in 1..L
  <2>1. n \in 0..L
    BY <1>2
  <2>2. QED
    BY <1>2, <1>3, <2>1, TurnKeepsClash
<1> HIDE DEF S, L
<1>6. \A n \in 0..L : f[n] \in S
  BY <1>2, <1>4, <1>5, Stays
<1>7. QED
  BY <1>1, <1>2, <1>6 DEF S

(* The loop leaves behind only what comes after a whole chain of facts it  *)
(* promoted.                                                               *)
LEMMA ResolveWaits ==
  ASSUME NEW l, Sound(l), Chained(l), NEW k \in Accepted(l), PatientBut(l, k),
         NEW m, m = ResolveDependents(l, k, l.version)
  PROVE  Patient(m) /\ Chained(m)
<1> DEFINE L == ChainLimit
<1>1. PICK f : Resolves(f, l, k) /\ m = f[L].ledger
  BY ResolveRuns
<1>2. L \in Nat /\ 0 \in 0..L /\ L \in 0..L /\ l \in Ledgers
  BY LimitAssumption DEF Sound, Good
<1>3. /\ \A n \in 0..L : f[n] \in Turns(l)
      /\ f[0].ledger = l /\ f[0].key = k /\ \A n \in 1..L : f[n] = ResolveNext(f[n - 1])
  BY <1>1 DEF Resolves
<1>4. Counted(f[L], L)
  <2> DEFINE T == {n \in 0..L : ~Counted(f[n], n)}
  <2>1. Counted(f[0], 0)
    <3>1. Cardinality(Promotions(l, k)) \in Nat
      BY <1>2, PromotionsGrow, KeptIsReflexive DEF Chained
    <3>2. QED
      BY <1>3, <3>1 DEF Counted
  <2>2. ASSUME NEW n \in 1..L, Counted(f[n - 1], n - 1) PROVE Counted(f[n], n)
    <3>1. n - 1 \in Nat /\ n - 1 \in 0..L /\ (n - 1) + 1 = n
      BY <1>2
    <3>2. f[n - 1] \in Turns(l) /\ f[n] = ResolveNext(f[n - 1])
      BY <1>3, <3>1
    <3>3. Counted(ResolveNext(f[n - 1]), (n - 1) + 1)
      BY <1>2, <2>2, <3>1, <3>2, TurnCounts
    <3>4. QED
      BY <3>1, <3>2, <3>3
  <2>3. (\A n : n \in T <=> n \in 0..L /\ ~Counted(f[n], n)) /\ T \in SUBSET Nat
    OBVIOUS
  <2> HIDE DEF T, L
  <2>4. T = {}
    <3> SUFFICES ASSUME T # {} PROVE FALSE
      OBVIOUS
    <3>1. PICK n \in T : \A i \in T : n <= i
      BY <2>3, Least
    <3>2. n \in 1..L /\ n - 1 \in 0..L
      BY <1>2, <2>1, <2>3
    <3>3. n - 1 \notin T
      BY <3>1, <3>2
    <3>4. QED
      BY <2>2, <2>3, <3>2, <3>3
  <2>5. QED
    BY <1>2, <2>3, <2>4
<1>5. /\ m \in Ledgers /\ Sound(m) /\ Kept(l, m) /\ Stored(m) = Stored(l)
      /\ f[L] \in Turns(l)
  BY <1>1, <1>2, <1>3 DEF Turns
<1>6. Chained(m)
  BY <1>5, ChainedStays
<1>7. Patient(m)
  <2> SUFFICES ASSUME NEW j \in Ready(m) PROVE Enough(m, j)
    BY DEF Patient
  <2> DEFINE x == f[L].key
  <2>1. /\ PatientBut(m, x)
        /\ Dependents(m, x) = {} \/ Cardinality(Promotions(m, x)) >= L
    BY <1>1, <1>4 DEF Counted
  <2> HIDE DEF x
  <2>2. CASE Parent(m, j) # x
    BY <2>1, <2>2 DEF PatientBut
  <2>3. CASE Parent(m, j) = x
    <3>1. j \in Dependents(m, x)
      BY <2>3 DEF Ready, Dependents, Successors, Parent
    <3>2. PromotedBefore(m, j) = Promotions(m, x)
      BY <2>3 DEF PromotedBefore, Promotions, Parent
    <3>3. QED
      BY <2>1, <3>1, <3>2 DEF Enough
  <2>4. QED
    BY <2>2, <2>3
<1>8. QED
  BY <1>6, <1>7

-------------------------------------------------------------------------------
(* The transactions keep the chains.                                       *)

LEMMA AdmitWaits ==
  ASSUME NEW l, Sound(l), Chained(l), Patient(l), NEW e \in Envelopes, e.key \notin Stored(l),
         ~WouldCreateDependencyCycle(l, e), NEW m, m = Admit(l, e), ~m.clash
  PROVE  Chained(m) /\ Patient(m)
<1>0. \A k \in Ready(l) : Enough(l, k)
  BY DEF Patient
<1>1. CASE StatusOnArrival(l, e) # "accepted"
  <2>1. /\ Sound(m) /\ Kept(l, m)
        /\ Stored(m) = Stored(l) \cup {e.key} /\ Envelope(m, e.key) = e
        /\ Accepted(m) = Accepted(l) /\ m.rows[e.key].initial = "pending_dependency"
        /\ ~PositionOrSuccessorTaken(l, e)
    BY <1>1, WaitKeeps
  <2>2. Chained(m)
    BY <2>1, ChainedGrows
  <2>3. e.key \notin Accepted(m)
    BY <2>1 DEF Accepted
  <2>4. e.key \notin Ready(m)
    BY <1>1, <2>1 DEF Ready, StatusOnArrival
  <2>5. PatientBut(m, e.key)
    BY <1>0, <2>1, <2>2, <2>4, AcceptedMakesReady
  <2>6. \A k \in Ready(m) : Parent(m, k) # e.key
    BY <2>3 DEF Ready, Parent
  <2>7. QED
    BY <2>2, <2>5, <2>6 DEF PatientBut, Patient
<1>2. CASE StatusOnArrival(l, e) = "accepted"
  <2> DEFINE h == Arrived(InsertEvent(l, e, "accepted", l.version + 1), e, l.version + 1)
  <2>1. /\ Sound(h) /\ Kept(l, h)
        /\ Stored(h) = Stored(l) \cup {e.key} /\ Envelope(h, e.key) = e
        /\ Accepted(h) = Accepted(l) \cup {e.key} /\ h.rows[e.key].initial = "accepted"
        /\ PositionOrSuccessorTaken(l, e) => h.clash
        /\ m = ResolveDependents(h, e.key, h.version)
    BY <1>2, ArriveKeeps
  <2> HIDE DEF h
  <2>2. e.key \in Accepted(h) /\ h.rows[e.key].status = "accepted" /\ e.key \notin Ready(h)
    BY <2>1 DEF Accepted, Ready
  <2>3. h.clash => m.clash
    BY <2>1, <2>2, ResolveKeepsClash
  <2>4. Chained(h)
    BY <2>1, <2>2, <2>3, ChainedGrows
  <2>5. PatientBut(h, e.key)
    BY <1>0, <2>1, <2>2, <2>4, AcceptedMakesReady
  <2>6. QED
    BY <2>1, <2>2, <2>4, <2>5, ResolveWaits
<1>3. QED
  BY <1>1, <1>2

LEMMA AppendWaits ==
  ASSUME NEW l, Sound(l), Chained(l), Patient(l), NEW e \in Envelopes,
         NEW tx, tx = AppendTx(l, e)
  PROVE  Chained(tx.ledger) /\ Patient(tx.ledger)
<1>1. CASE e.key \in Stored(l)
  BY <1>1 DEF AppendTx
<1>2. CASE e.key \notin Stored(l)
  <2> DEFINE m == Admit(l, e)
  <2>1. tx = IF WouldCreateDependencyCycle(l, e) \/ m.clash
             THEN [ledger |-> l, receipt |-> Conflict]
             ELSE [ledger |-> m, receipt |-> Receipt(m, e.key, FALSE)]
    BY <1>2 DEF AppendTx
  <2>2. ~WouldCreateDependencyCycle(l, e) /\ ~m.clash => Chained(m) /\ Patient(m)
    BY <1>2, AdmitWaits
  <2> HIDE DEF m
  <2>3. QED
    BY <2>1, <2>2
<1>3. QED
  BY <1>1, <1>2

LEMMA ReconcileOneWaits ==
  ASSUME NEW l, Sound(l), Chained(l), Patient(l),
         NEW k \in Stored(l), Envelope(l, k).supersedes \in Accepted(l),
         NEW m, m = ReconcileOne(l, k)
  PROVE  Patient(m)
<1>1. CASE l.rows[k].status = "accepted"
  BY <1>1 DEF ReconcileOne
<1>2. CASE l.rows[k].status # "accepted"
  <2> DEFINE g == Promoted(l, k)
  <2>1. m = ResolveDependents(g, k, l.version + 1)
    BY <1>2 DEF ReconcileOne, Promoted
  <2> HIDE DEF g
  <2>2. l.rows[k].status = "pending_dependency"
    BY <1>2, RowFields DEF Statuses, Sound, Good
  <2>3. /\ Sound(g) /\ Kept(l, g) /\ Stored(g) = Stored(l)
        /\ g.version = l.version + 1 /\ Accepted(g) = Accepted(l) \cup {k}
    BY <2>2, PromotionKeeps DEF g
  <2>4. Chained(g) /\ k \in Accepted(g) /\ k \notin Ready(g)
    BY <2>3, ChainedStays DEF Accepted, Ready
  <2>5. PatientBut(g, k)
    BY <2>3, <2>4, AcceptedMakesReady DEF Patient
  <2>6. QED
    BY <2>1, <2>3, <2>4, <2>5, ResolveWaits
<1>3. QED
  BY <1>1, <1>2

LEMMA ReconcileWaits ==
  ASSUME NEW l, Sound(l), Chained(l), Patient(l), NEW m, m = ReconcileTx(l)
  PROVE  Chained(m) /\ Patient(m)
<1> DEFINE L == ReadyLimit
           S == {p \in Passes(l) : Patient(p.ledger)}
<1>1. PICK f : Reconciles(f, l) /\ m = f[L].ledger
  BY ReconcileRuns
<1>2. L \in Nat /\ 0 \in 0..L /\ L \in 0..L /\ l \in Ledgers
  BY LimitAssumption DEF Sound, Good
<1>3. /\ \A n \in 0..L : f[n] \in Passes(l)
      /\ f[0].ledger = l /\ \A n \in 1..L : f[n] = ReconcileNext(f[n - 1])
  BY <1>1 DEF Reconciles
<1>4. f[0] \in S
  BY <1>2, <1>3
<1>5. ASSUME NEW n \in 1..L, f[n - 1] \in S PROVE f[n] \in S
  <2> DEFINE p == f[n - 1]
             g == p.ledger
             k == Earliest(g, p.rest)
  <2>1. n - 1 \in 0..L /\ n \in 0..L
    BY <1>2
  <2>2. /\ g \in Ledgers /\ Sound(g) /\ Kept(l, g) /\ Stored(g) = Stored(l) /\ Patient(g)
        /\ p.rest \in SUBSET Stored(g)
        /\ \A j \in p.rest : Envelope(g, j).supersedes \in Accepted(g)
    BY <1>5 DEF Passes
  <2>3. f[n] = ReconcileNext(p) /\ f[n] \in Passes(l)
    BY <1>3, <2>1
  <2>4. Chained(g)
    BY <2>2, ChainedStays
  <2>5. CASE p.rest = {}
    BY <1>5, <2>3, <2>5 DEF ReconcileNext
  <2>6. CASE p.rest # {}
    <3>1. f[n].ledger = ReconcileOne(g, k)
      BY <2>3, <2>6 DEF ReconcileNext
    <3>2. k \in p.rest
      BY <2>2, <2>6, EarliestIsOne
    <3> HIDE DEF k, p
    <3>3. Patient(f[n].ledger)
      BY <2>2, <2>4, <3>1, <3>2, ReconcileOneWaits
    <3>4. QED
      BY <2>3, <3>3
  <2>7. QED
    BY <2>5, <2>6
<1> HIDE DEF S, L
<1>6. \A n \in 0..L : f[n] \in S
  BY <1>2, <1>4, <1>5, Stays
<1>7. Patient(m)
  BY <1>1, <1>2, <1>6 DEF S
<1>8. Chained(m)
  BY <1>1, <1>2, <1>3, ChainedStays DEF Passes
<1>9. QED
  BY <1>7, <1>8

LEMMA LinkWaits ==
  ASSUME NEW l, Sound(l), ~l.clash, Chained(l), Patient(l), NEW d \in Displays,
         NEW k \in l.active \ DOMAIN l.links, Explaining(l, Envelope(l, k), d) # {},
         NEW m, m = AddLink(l, k, d, l.version + 1)
  PROVE  Chained(m) /\ Patient(m)
<1>1. Kept(l, m)
  BY LinkKeeps
<1>2. m.rows = l.rows
  BY DEF AddLink, Announce, Sound, Good, Ledgers
<1>3. Stored(m) = Stored(l) /\ Ready(m) = Ready(l)
  BY <1>2 DEF Stored, Ready, Accepted, Envelope
<1>4. Chained(m)
  BY <1>1, <1>3, ChainedStays
<1>5. \A j \in Ready(l) : j \in Stored(l) /\ Enough(l, j)
  BY DEF Ready, Patient
<1>6. QED
  BY <1>1, <1>3, <1>4, <1>5, EnoughStays DEF Chained, Patient

-------------------------------------------------------------------------------
(* Chains and waiting facts, of all subjects.                              *)

ChainsOK == \A s \in Subjects : Chained(ledger[s]) /\ Patient(ledger[s])

LEMMA InitHasChains == Init => ChainsOK
<1>1. Stored(EmptyLedger) = {}
  BY EmptyTable DEF EmptyLedger, Stored
<1>2. Chained(EmptyLedger)
  BY <1>1, FS_EmptySet DEF Chained, NoCircle, OneSuccessor, WaitsSinceArrival
<1>3. Patient(EmptyLedger)
  BY <1>1 DEF Patient, Ready
<1>4. QED
  BY <1>2, <1>3 DEF Init, ChainsOK

LEMMA ChainsMove ==
  ASSUME LedgersOK, ChainsOK, NEW s \in Subjects, NEW m, Chained(m), Patient(m),
         ledger' = [ledger EXCEPT ![s] = m]
  PROVE  ChainsOK'
<1>1. \A r \in Subjects : ledger'[r] = m \/ ledger'[r] = ledger[r]
  BY DEF LedgersOK
<1>2. QED
  BY <1>1 DEF ChainsOK

LEMMA NextKeepsChains == Inv /\ ChainsOK /\ [Next]_vars => ChainsOK'
<1> SUFFICES ASSUME Inv, ChainsOK, [Next]_vars PROVE ChainsOK'
  OBVIOUS
<1>1. LedgersOK /\ ParkedOK
  BY DEF Inv
<1>2. \A s \in Subjects : /\ Sound(ledger[s]) /\ ~ledger[s].clash
                          /\ Chained(ledger[s]) /\ Patient(ledger[s])
  BY <1>1 DEF LedgersOK, ChainsOK
<1>3. ASSUME NEW s \in Subjects, NEW e \in Envelopes, AppendFact(s, e) PROVE ChainsOK'
  <2>1. ledger' = [ledger EXCEPT ![s] = AppendTx(ledger[s], e).ledger]
    BY <1>3 DEF AppendFact
  <2>2. QED
    BY <1>1, <1>2, <2>1, AppendWaits, ChainsMove
<1>4. ASSUME NEW a \in Aliases, NEW e \in Envelopes, ParkUnmapped(a, e) PROVE ChainsOK'
  BY <1>4 DEF ParkUnmapped, ChainsOK
<1>5. ASSUME NEW a \in Aliases, NEW k \in Keys, NEW s \in Subjects, BindUnmapped(a, k, s)
      PROVE  ChainsOK'
  <2>1. PICK e \in Envelopes : e = parked[<<a, k>>].envelope
    BY <1>1, <1>5 DEF BindUnmapped, ParkedOK, Parking
  <2>2. ledger' = [ledger EXCEPT ![s] = AppendTx(ledger[s], e).ledger]
    BY <1>5, <2>1 DEF BindUnmapped
  <2>3. QED
    BY <1>1, <1>2, <2>2, AppendWaits, ChainsMove
<1>6. ASSUME NEW s \in Subjects, NEW k \in Keys, NEW d \in Displays, LinkImpression(s, k, d)
      PROVE  ChainsOK'
  <2> DEFINE l == ledger[s]
             m == AddLink(l, k, d, l.version + 1)
  <2>1. /\ k \in l.active \ DOMAIN l.links
        /\ Cardinality(Explaining(l, Envelope(l, k), d)) = 1
        /\ ledger' = [ledger EXCEPT ![s] = m]
    BY <1>6 DEF LinkImpression
  <2>2. Explaining(l, Envelope(l, k), d) # {}
    BY <2>1, FS_EmptySet
  <2>3. Chained(m) /\ Patient(m)
    BY <1>2, <2>1, <2>2, LinkWaits
  <2> HIDE DEF m
  <2>4. QED
    BY <1>1, <2>1, <2>3, ChainsMove
<1>7. ASSUME NEW s \in Subjects, ReconcilePending(s) PROVE ChainsOK'
  <2>1. ledger' = [ledger EXCEPT ![s] = ReconcileTx(ledger[s])]
    BY <1>7 DEF ReconcilePending
  <2>2. QED
    BY <1>1, <1>2, <2>1, ReconcileWaits, ChainsMove
<1>8. CASE UNCHANGED vars
  BY <1>8 DEF vars, ChainsOK
<1>9. QED
  BY <1>3, <1>4, <1>5, <1>6, <1>7, <1>8 DEF Next

THEOREM ChainsInvariant == Spec => []ChainsOK
<1>1. QED
  BY InitHasChains, NextKeepsChains, Invariant, PTL DEF Spec

(* No fact is among those it supersedes, however many links up, and what a *)
(* correction or retraction supersedes was accepted under an earlier       *)
(* version.                                                                *)
THEOREM ChainsAreAlwaysAccepted == Spec => []ChainsAreAccepted
<1>1. Inv /\ ChainsOK => ChainsAreAccepted
  <2> SUFFICES ASSUME Inv, ChainsOK, NEW s \in Subjects
               PROVE  LET l == ledger[s]
                      IN  /\ \A k \in Stored(l) : k \notin Lineage(l, Envelope(l, k).supersedes)
                          /\ \A k \in Accepted(l) :
                               LET p == Envelope(l, k).supersedes
                               IN  p # None => /\ p \in Accepted(l)
                                               /\ l.rows[p].accepted < l.rows[k].accepted
    BY Zenon DEF ChainsAreAccepted
  <2> DEFINE l == ledger[s]
  <2>1. Chained(l) /\ InOrder(l, Accepted(l))
    BY DEF ChainsOK, Inv, LedgersOK, Sound, Good
  <2> HIDE DEF l
  <2>2. \A k \in Stored(l) : k \notin Lineage(l, Envelope(l, k).supersedes)
    BY <2>1, OffItsLineage DEF Parent
  <2>3. QED
    BY <2>1, <2>2 DEF InOrder, l
<1>2. QED
  BY <1>1, Invariant, ChainsInvariant, PTL

(* A fact that waits although its predecessor is accepted comes after at   *)
(* least ChainLimit facts that had to wait themselves.                     *)
THEOREM NoneIsLeftBehind == Spec => []WaitsOnlyForMissing
<1>1. ChainsOK => WaitsOnlyForMissing
  BY DEF ChainsOK, Patient, Enough, WaitsOnlyForMissing
<1>2. QED
  BY <1>1, ChainsInvariant, PTL

-------------------------------------------------------------------------------
(* The refinement of Timeline.                                             *)

LEMMA BijectionExists ==
  ASSUME NEW S, NEW T, NEW f \in [S -> T], \A x, y \in S : f[x] = f[y] => x = y,
         \A t \in T : \E x \in S : f[x] = t
  PROVE  ExistsBijection(S, T)
BY DEF ExistsBijection, Bijection, Injection, Surjection, IsInjective

ChangeOf(o) == <<o.type, o.key>>

(* As many announcements as versions, and as many as changes.              *)
LEMMA OutboxCounts ==
  ASSUME NEW l, Sound(l)
  PROVE  /\ l.version \in Nat /\ Cardinality(l.outbox) = l.version
         /\ Changes(l) = {ChangeOf(o) : o \in l.outbox}
         /\ Cardinality(Changes(l)) = l.version
<1> DEFINE O == l.outbox
           V == 1..l.version
<1>1. l \in Ledgers /\ OutboxOK(l, Accepted(l))
  BY DEF Sound, Good
<1>2. l.version \in Nat
  BY <1>1 DEF Ledgers
<1>3. IsFiniteSet(V) /\ Cardinality(V) = l.version
  <2>1. IsFiniteSet(V) /\ Cardinality(V) = IF 1 > l.version THEN 0 ELSE l.version - 1 + 1
    BY <1>2, FS_Interval
  <2>2. QED
    BY <1>2, <2>1
<1>4. IsFiniteSet(O) /\ Cardinality(O) = l.version
  <2> DEFINE f == [u \in V |-> CHOOSE o \in O : o.version = u]
  <2>1. \A u \in V : f[u] \in O /\ f[u].version = u
    BY <1>1 DEF OutboxOK
  <2>2. \A o \in O : o.version \in V /\ f[o.version] = o
    BY <1>1, <2>1 DEF OutboxOK
  <2>3. f \in [V -> O]
    BY <2>1
  <2> HIDE DEF f, V
  <2>4. ExistsBijection(V, O)
    BY <2>1, <2>2, <2>3, BijectionExists
  <2>5. QED
    BY <1>3, <2>4, FS_Bijection
<1>5. Changes(l) = {ChangeOf(o) : o \in O}
  <2>1. \A o \in O : Shows(l, Accepted(l), o)
    BY <1>1 DEF OutboxOK
  <2>2. \A o \in O : ChangeOf(o) \in Changes(l)
    BY <2>1 DEF Shows, ChangeOf, Changes
  <2>3. \A c \in Changes(l) : \E o \in O : c = ChangeOf(o)
    BY <1>1 DEF OutboxOK, ChangeOf, Changes
  <2>4. QED
    BY <2>2, <2>3
<1>6. Cardinality(Changes(l)) = l.version
  <2> DEFINE C == Changes(l)
             f == [o \in O |-> ChangeOf(o)]
  <2>1. f \in [O -> C] /\ \A c \in C : \E o \in O : f[o] = c
    BY <1>5
  <2>2. \A o, q \in O : f[o] = f[q] => o = q
    BY <1>1 DEF OutboxOK, ChangeOf
  <2> HIDE DEF f, C
  <2>3. ExistsBijection(O, C)
    BY <2>1, <2>2, BijectionExists
  <2>4. QED
    BY <1>4, <2>3, FS_Bijection DEF C
<1>7. QED
  BY <1>2, <1>4, <1>5, <1>6

LEMMA AnnouncedIs ==
  ASSUME NEW l, Sound(l)
  PROVE  /\ Announced(l) = [v \in 1..l.version |->
                             {ChangeOf(o) : o \in {x \in l.outbox : x.version = v}}]
         /\ Announced(l) \in Seq(SUBSET Changes(l)) /\ Len(Announced(l)) = l.version
         /\ UNION {Announced(l)[v] : v \in DOMAIN Announced(l)} = Changes(l)
<1>1. /\ l.version \in Nat /\ Cardinality(l.outbox) = l.version
      /\ Changes(l) = {ChangeOf(o) : o \in l.outbox}
  BY OutboxCounts
<1>2. Announced(l) = [v \in 1..l.version |->
                        {ChangeOf(o) : o \in {x \in l.outbox : x.version = v}}]
  BY <1>1 DEF Announced, ChangeOf
<1>3. Announced(l) \in [1..l.version -> SUBSET Changes(l)]
  BY <1>1, <1>2
<1>4. Announced(l) \in Seq(SUBSET Changes(l)) /\ Len(Announced(l)) = l.version
  BY <1>1, <1>3
<1>5. \A o \in l.outbox : o.version \in 1..l.version
  BY DEF Sound, Good, OutboxOK
<1>6. UNION {Announced(l)[v] : v \in DOMAIN Announced(l)} = Changes(l)
  <2>1. \A v \in 1..l.version : Announced(l)[v] \subseteq Changes(l)
    BY <1>3
  <2>2. \A o \in l.outbox : ChangeOf(o) \in Announced(l)[o.version]
    BY <1>2, <1>5
  <2>3. DOMAIN Announced(l) = 1..l.version
    BY <1>2
  <2>4. QED
    BY <1>1, <1>5, <2>1, <2>2, <2>3
<1>7. QED
  BY <1>2, <1>4, <1>6

(* What is kept of the outbox is a prefix of the timeline.                 *)
LEMMA KeptIsPrefix ==
  ASSUME NEW l, NEW m, Sound(l), Sound(m), Kept(l, m)
  PROVE  SubSeq(Announced(m), 1, Len(Announced(l))) = Announced(l)
<1> DEFINE a == Announced(l)
           b == Announced(m)
           t == SubSeq(b, 1, l.version)
           S == SUBSET (Changes(l) \cup Changes(m))
<1>1. /\ l.version \in Nat /\ m.version \in Nat /\ l.version <= m.version
      /\ Len(a) = l.version /\ Len(b) = m.version
      /\ a \in Seq(SUBSET Changes(l)) /\ b \in Seq(SUBSET Changes(m))
  BY AnnouncedIs, OutboxCounts DEF Kept
<1>2. \A v \in 1..l.version : a[v] = b[v]
  <2> TAKE v \in 1..l.version
  <2>1. v \in 1..m.version /\ v <= l.version
    BY <1>1
  <2>2. {x \in l.outbox : x.version = v} = {x \in m.outbox : x.version = v}
    BY <2>1 DEF Kept
  <2>3. {ChangeOf(o) : o \in {x \in l.outbox : x.version = v}}
          = {ChangeOf(o) : o \in {x \in m.outbox : x.version = v}}
    BY <2>2
  <2>4. a[v] = {ChangeOf(o) : o \in {x \in l.outbox : x.version = v}}
    <3>1. a = [u \in 1..l.version |-> {ChangeOf(o) : o \in {x \in l.outbox : x.version = u}}]
      BY AnnouncedIs
    <3> HIDE DEF a
    <3>2. QED
      BY <3>1
  <2>5. b[v] = {ChangeOf(o) : o \in {x \in m.outbox : x.version = v}}
    <3>1. b = [u \in 1..m.version |-> {ChangeOf(o) : o \in {x \in m.outbox : x.version = u}}]
      BY AnnouncedIs
    <3> HIDE DEF b
    <3>2. QED
      BY <2>1, <3>1
  <2>6. QED
    BY <2>3, <2>4, <2>5
<1>3. a \in [1..l.version -> SUBSET Changes(l)] /\ b \in [1..m.version -> SUBSET Changes(m)]
  BY <1>1, LenProperties
<1> HIDE DEF a, b
<1>4. \A v \in 1..l.version : b[v] \in S
  BY <1>1, <1>3
<1>5. /\ t \in Seq(S) /\ Len(t) = IF 1 <= l.version THEN l.version - 1 + 1 ELSE 0
      /\ \A v \in 1..(l.version - 1 + 1) : t[v] = b[1 + v - 1]
  <2> HIDE DEF S
  <2>1. QED
    BY <1>1, <1>4, SubSeqProperties
<1>6. Len(t) = l.version /\ \A v \in 1..l.version : t[v] = b[v]
  BY <1>1, <1>5
<1>7. a \in Seq(S)
  BY <1>1, SeqMonotonic
<1> HIDE DEF S, t
<1>8. t = a
  BY <1>1, <1>2, <1>5, <1>6, <1>7, SeqEqual
<1>9. QED
  BY <1>1, <1>8 DEF t, a, b

(* What announces nothing changes nothing the readers of the outbox see.   *)
LEMMA SameVersionSameOutbox ==
  ASSUME NEW l, NEW m, Sound(l), Sound(m), Kept(l, m), m.version = l.version
  PROVE  Announced(m) = Announced(l) /\ Changes(m) = Changes(l)
<1>1. m.outbox = l.outbox
  <2>1. \A o \in m.outbox : o.version \in 1..m.version
    BY DEF Sound, Good, OutboxOK
  <2>2. m.version \in Nat
    BY OutboxCounts
  <2>3. \A o \in m.outbox : o.version <= l.version
    BY <2>1, <2>2
  <2>4. QED
    BY <2>3 DEF Kept
<1>2. Announced(m) = Announced(l)
  BY <1>1 DEF Announced
<1>3. Changes(m) = Changes(l)
  BY <1>1, OutboxCounts
<1>4. QED
  BY <1>2, <1>3

LEMMA FaithfulToAll == LedgersOK => \A s \in Subjects : Promise!Faithful(s)
<1> SUFFICES ASSUME LedgersOK, NEW s \in Subjects PROVE Promise!Faithful(s)
  OBVIOUS
<1> DEFINE l == ledger[s]
<1>1. Sound(l)
  BY DEF LedgersOK
<1>2. /\ l.version = Len(Announced(l)) /\ Cardinality(Changes(l)) = l.version
      /\ Changes(l) = Promise!Entries(Announced(l))
  BY <1>1, AnnouncedIs, OutboxCounts DEF Promise!Entries
<1>3. Promise!Cardinality(Changes(l)) = Cardinality(Changes(l))
  BY DEF Cardinality, Promise!Cardinality
<1>4. QED
  BY <1>2, <1>3 DEF Promise!Faithful

(* Readers of the outbox find the changes of each subject in version       *)
(* order, without a gap, each exactly once, and never other than they read *)
(* them before: the ledger implements Timeline.                            *)
THEOREM ImplementsItsTimeline == Spec => ImplementsTimeline
<1>1. Init => Promise!Init
  <2> SUFFICES ASSUME Init PROVE Promise!Init
    OBVIOUS
  <2>1. LedgersOK
    BY InitHasInv DEF Inv
  <2>2. \A s \in Subjects : ledger[s] = EmptyLedger
    BY DEF Init
  <2>3. EmptyLedger.version = 0
    BY DEF EmptyLedger
  <2>4. Sound(EmptyLedger)
    BY EmptyIsSound
  <2>5. Announced(EmptyLedger) = <<>>
    BY <2>3, <2>4, AnnouncedIs, EmptySeq
  <2>6. Changes(EmptyLedger) = {}
    <3>1. EmptyLedger.outbox = {}
      BY DEF EmptyLedger
    <3>2. QED
      BY <2>4, <3>1, OutboxCounts
  <2>7. QED
    BY <2>2, <2>3, <2>5, <2>6 DEF Promise!Init
<1>2. LedgersOK' => (\A s \in Subjects : Promise!Faithful(s))'
  BY FaithfulToAll, PTL
<1>3. Inv /\ Inv' /\ [Next]_vars => [Promise!Next]_(Promise!vars)
  <2> SUFFICES ASSUME Inv, Inv', [Next]_vars PROVE [Promise!Next]_(Promise!vars)
    OBVIOUS
  <2>1. LedgersOK /\ LedgersOK'
    BY DEF Inv
  <2>2. \A s \in Subjects : Sound(ledger[s]) /\ Sound(ledger'[s])
    BY <2>1 DEF LedgersOK
  <2>3. CASE ledger' = ledger
    BY <2>3 DEF Promise!vars
  <2>4. CASE \E s \in Subjects : \E m : MovesTo(s, m)
    <3>1. PICK s \in Subjects : \E m : MovesTo(s, m)
      BY <2>4
    <3>2. /\ Kept(ledger[s], ledger'[s])
          /\ \A r \in Subjects \ {s} : ledger'[r] = ledger[r]
      BY <2>1, <3>1, LedgersMove
    <3> DEFINE l == ledger[s]
               m2 == ledger'[s]
    <3>3. /\ l.version \in Nat /\ m2.version \in Nat /\ l.version <= m2.version
          /\ Len(Announced(l)) = l.version /\ Len(Announced(m2)) = m2.version
      BY <2>2, <3>2, OutboxCounts, AnnouncedIs DEF Kept
    <3>4. CASE m2.version = l.version
      <4>1. Announced(m2) = Announced(l) /\ Changes(m2) = Changes(l)
        BY <2>2, <3>2, <3>4, SameVersionSameOutbox
      <4>2. \A r \in Subjects : /\ Announced(ledger'[r]) = Announced(ledger[r])
                                /\ Changes(ledger'[r]) = Changes(ledger[r])
                                /\ ledger'[r].version = ledger[r].version
        BY <3>2, <3>4, <4>1
      <4>3. QED
        BY <4>2 DEF Promise!vars
    <3>5. CASE m2.version # l.version
      <4>1. Len(Announced(m2)) > Len(Announced(l))
        BY <3>3, <3>5
      <4>2. SubSeq(Announced(m2), 1, Len(Announced(l))) = Announced(l)
        BY <2>2, <3>2, KeptIsPrefix
      <4>3. \A r \in Subjects \ {s} : Announced(ledger'[r]) = Announced(ledger[r])
        BY <3>2
      <4>4. (\A r \in Subjects : Promise!Faithful(r))'
        BY <1>2, <2>1
      <4>5. Promise!Extend(s)
        BY <4>1, <4>2, <4>3, <4>4 DEF Promise!Extend
      <4>6. QED
        BY <4>5 DEF Promise!Next
    <3>6. QED
      BY <3>4, <3>5
  <2>5. QED
    BY <2>3, <2>4, NextMoves DEF vars
<1>4. QED
  BY <1>1, <1>3, Invariant, PTL DEF Spec, ImplementsTimeline, Promise!Spec

-------------------------------------------------------------------------------
(* The fact worker over the ledger.                                        *)

LEMMA StreamIs ==
  /\ Len(Stream) \in Nat
  /\ \A o \in 1..Len(Stream) : Stream[o].subject \in Subjects /\ Stream[o].envelope \in Envelopes
<1>1. Stream \in [1..Len(Stream) -> [subject : Subjects, envelope : Envelopes]]
      /\ Len(Stream) \in Nat
  BY DeliveryAssumption, LenProperties
<1>2. QED
  BY <1>1

LEMMA MinOfTwo ==
  ASSUME NEW a \in Nat, NEW b \in Nat
  PROVE  Min({a, b}) \in {a, b} /\ Min({a, b}) <= a /\ Min({a, b}) <= b
<1> DEFINE S == {a, b}
<1>1. \E x \in S : \A y \in S : x <= y
  OBVIOUS
<1>2. Min(S) \in S /\ \A y \in S : Min(S) <= y
  BY <1>1 DEF Min
<1>3. QED
  BY <1>2

-------------------------------------------------------------------------------
(* The fact at an offset is accepted in the ledger of its subject.         *)

HasRow(l, e) == e.key \in Stored(l) /\ Envelope(l, e.key) = e

IsAccepted(l, e) == HasRow(l, e) /\ CurrentReceipt(l, e.key).status = "accepted"

Done(o) == IsAccepted(ledger[Stream[o].subject], Stream[o].envelope)

LEMMA AcceptedStays ==
  ASSUME NEW l, NEW m, NEW e, Kept(l, m)
  PROVE  /\ HasRow(l, e) => HasRow(m, e)
         /\ IsAccepted(l, e) => IsAccepted(m, e)
<1>1. HasRow(l, e) => HasRow(m, e)
  BY DEF HasRow, Kept, Envelope
<1>2. ASSUME IsAccepted(l, e) PROVE IsAccepted(m, e)
  <2> DEFINE k == e.key
  <2>1. /\ k \in Stored(l)
        /\ l.rows[k].status = "accepted" /\ l.rows[k].accepted # None /\ AnnouncedAt(l, k)
    BY <1>2 DEF IsAccepted, HasRow, CurrentReceipt
  <2>2. m.rows[k] = l.rows[k] /\ l.outbox \subseteq m.outbox
    BY <2>1 DEF Kept
  <2>3. AnnouncedAt(m, k)
    BY <2>1, <2>2 DEF AnnouncedAt
  <2>4. CurrentReceipt(m, k).status = "accepted"
    BY <2>1, <2>2, <2>3 DEF CurrentReceipt
  <2>5. QED
    BY <1>1, <1>2, <2>4 DEF IsAccepted
<1>3. QED
  BY <1>1, <1>2

-------------------------------------------------------------------------------
(* The inductive invariant: what a worker has behind it in its batch is    *)
(* accepted, and what it committed last is stored.                         *)

WorkerType ==
  [pc : {"idle", "commit", "receipt", "ack"}, from : Nat, to : Nat, next : Nat,
   receipt : Receipts \cup {NoReceipt}]

Offsets == cursor \in Nat /\ published \in Nat /\ cursor <= published /\ published <= Len(Stream)

Carries(w) ==
  LET at == worker[w]
  IN  /\ at.pc # "idle" =>
           /\ 1 <= at.from /\ at.from <= at.next /\ at.next <= at.to /\ at.to <= published
           /\ \A o \in at.from..(at.next - 1) : Done(o)
      /\ at.pc = "receipt" => HasRow(LedgerOf(w), Due(w).envelope)
      /\ at.pc = "ack" => at.next = at.to /\ Done(at.next)

DeliveryInv ==
  /\ worker \in [Workers -> WorkerType]
  /\ Offsets
  /\ \A w \in Workers : Carries(w)
  /\ \A o \in 1..cursor : Done(o)

(* A worker in a batch is at an offset of the stream.                      *)
LEMMA AtOffset ==
  ASSUME DeliveryInv, NEW w \in Workers, worker[w].pc # "idle"
  PROVE  /\ worker[w] \in WorkerType
         /\ worker[w].next \in 1..Len(Stream)
         /\ Due(w).subject \in Subjects /\ Due(w).envelope \in Envelopes
<1>1. worker[w] \in WorkerType /\ Carries(w) /\ Offsets
  BY DEF DeliveryInv
<1>2. worker[w].next \in 1..Len(Stream)
  BY <1>1, StreamIs DEF WorkerType, Carries, Offsets
<1>3. QED
  BY <1>1, <1>2, StreamIs DEF Due

(* A worker and the other routes do to the ledger what its own             *)
(* specification allows, so that what is proved of it holds here.          *)
LEMMA LedgerStep ==
  ASSUME DeliveryInv, [DeliveryNext]_allVars
  PROVE  [Next]_vars
<1>1. CASE UNCHANGED allVars
  BY <1>1 DEF allVars
<1>2. CASE Publish
  BY <1>2 DEF Publish
<1>3. CASE OtherRoute
  <2>1. PICK f \in OtherFacts : AppendFact(f[1], f[2])
    BY <1>3 DEF OtherRoute
  <2>2. f[1] \in Subjects /\ f[2] \in Envelopes
    BY DeliveryAssumption
  <2>3. QED
    BY <2>1, <2>2 DEF Next
<1>4. ASSUME NEW w \in Workers, Step(w) PROVE [Next]_vars
  <2>1. CASE CommitFact(w)
    <3>1. AppendFact(Due(w).subject, Due(w).envelope)
      BY <2>1 DEF CommitFact, AppendFact, LedgerOf
    <3>2. Due(w).subject \in Subjects /\ Due(w).envelope \in Envelopes
      BY <2>1, AtOffset DEF CommitFact
    <3>3. QED
      BY <3>1, <3>2 DEF Next
  <2>2. CASE ReadEvents(w) \/ CheckReceipt(w) \/ AcknowledgeEvents(w)
    BY <2>2 DEF ReadEvents, CheckReceipt, AcknowledgeEvents
  <2>3. QED
    BY <1>4, <2>1, <2>2 DEF Step
<1>5. ASSUME NEW w \in Workers, Fail(w) PROVE [Next]_vars
  BY <1>5 DEF Fail
<1>6. QED
  BY <1>1, <1>2, <1>3, <1>4, <1>5 DEF DeliveryNext

(* What a step leaves to show: its own worker and the cursor.              *)
LEMMA OthersCarry ==
  ASSUME Inv, DeliveryInv, [DeliveryNext]_allVars,
         cursor' \in Nat, published' \in Nat, cursor' <= published', published' <= Len(Stream),
         published <= published'
  PROVE  /\ \A o \in 1..Len(Stream) : Done(o) => Done(o)'
         /\ \A w \in Workers : worker'[w] = worker[w] => Carries(w)'
<1>1. \A r \in Subjects : Kept(ledger[r], ledger'[r])
  BY LedgerStep, LedgersStay
<1>2. \A o \in 1..Len(Stream) : Done(o) => Done(o)'
  BY <1>1, StreamIs, AcceptedStays DEF Done
<1>3. ASSUME NEW w \in Workers, worker'[w] = worker[w] PROVE Carries(w)'
  <2> DEFINE at == worker[w]
  <2>1. Carries(w) /\ Offsets
    BY DEF DeliveryInv
  <2>2. CASE at.pc = "idle"
    BY <1>3, <2>2 DEF Carries
  <2>3. CASE at.pc # "idle"
    <3>1. /\ at.from \in Nat /\ at.next \in Nat /\ at.to \in Nat
          /\ at.next \in 1..Len(Stream)
          /\ Due(w).subject \in Subjects
      BY <2>3, AtOffset DEF WorkerType
    <3>2. /\ 1 <= at.from /\ at.from <= at.next /\ at.next <= at.to /\ at.to <= published'
          /\ \A o \in at.from..(at.next - 1) : Done(o)
      BY <2>1, <2>3, <3>1 DEF Carries, Offsets
    <3>3. \A o \in at.from..(at.next - 1) : o \in 1..Len(Stream)
      BY <3>1, <3>2, StreamIs
    <3>4. \A o \in at.from..(at.next - 1) : Done(o)'
      BY <1>2, <3>2, <3>3
    <3>5. at.pc = "receipt" => HasRow(LedgerOf(w), Due(w).envelope)'
      <4>1. at.pc = "receipt" => HasRow(LedgerOf(w), Due(w).envelope)
        BY <2>1 DEF Carries
      <4>2. HasRow(LedgerOf(w), Due(w).envelope) => HasRow(ledger'[Due(w).subject], Due(w).envelope)
        BY <1>1, <3>1, AcceptedStays DEF LedgerOf
      <4>3. QED
        BY <1>3, <4>1, <4>2 DEF LedgerOf, Due
    <3>6. at.pc = "ack" => at.next = at.to /\ Done(at.next)'
      BY <1>2, <1>3, <2>1, <3>1 DEF Carries
    <3>7. QED
      BY <1>3, <3>2, <3>4, <3>5, <3>6 DEF Carries
  <2>4. QED
    BY <2>2, <2>3
<1>4. QED
  BY <1>2, <1>3

LEMMA InitHasDeliveryInv == DeliveryInit => DeliveryInv
<1> SUFFICES ASSUME DeliveryInit PROVE DeliveryInv
  OBVIOUS
<1>1. Idle \in WorkerType /\ Idle.pc = "idle"
  BY DEF Idle, WorkerType
<1>2. worker \in [Workers -> WorkerType] /\ \A w \in Workers : worker[w].pc = "idle"
  BY <1>1 DEF DeliveryInit
<1>3. Offsets
  BY StreamIs DEF DeliveryInit, Offsets
<1>4. \A w \in Workers : Carries(w)
  BY <1>2 DEF Carries
<1>5. \A o \in 1..cursor : Done(o)
  BY DEF DeliveryInit
<1>6. QED
  BY <1>2, <1>3, <1>4, <1>5 DEF DeliveryInv

LEMMA NextKeepsDeliveryInv == Inv /\ DeliveryInv /\ [DeliveryNext]_allVars => DeliveryInv'
<1> SUFFICES ASSUME Inv, DeliveryInv, [DeliveryNext]_allVars PROVE DeliveryInv'
  OBVIOUS
<1>1. /\ worker \in [Workers -> WorkerType] /\ Offsets
      /\ \A w \in Workers : Carries(w)
      /\ \A o \in 1..cursor : Done(o)
  BY DEF DeliveryInv
<1>2. /\ cursor \in Nat /\ published \in Nat /\ cursor <= published
      /\ published <= Len(Stream) /\ Len(Stream) \in Nat
  BY <1>1, StreamIs DEF Offsets
<1>3. Idle \in WorkerType /\ Idle.pc = "idle"
  BY DEF Idle, WorkerType
(* Steps that leave cursor and workers alone.                              *)
<1>4. ASSUME cursor' = cursor, worker' = worker, published' \in published..Len(Stream)
      PROVE  DeliveryInv'
  <2>1. /\ \A o \in 1..Len(Stream) : Done(o) => Done(o)'
        /\ \A w \in Workers : Carries(w)'
    BY <1>2, <1>4, OthersCarry
  <2>2. Offsets'
    BY <1>2, <1>4 DEF Offsets
  <2>3. \A o \in 1..cursor : Done(o)'
    BY <1>1, <1>2, <2>1
  <2>4. QED
    BY <1>1, <1>4, <2>1, <2>2, <2>3 DEF DeliveryInv
(* Steps of one worker that leave the cursor alone.                        *)
<1>5. ASSUME NEW w \in Workers, NEW at \in WorkerType, worker' = [worker EXCEPT ![w] = at],
             cursor' = cursor, published' = published,
             (\A o \in 1..Len(Stream) : Done(o) => Done(o)') => Carries(w)'
      PROVE  DeliveryInv'
  <2>1. \A v \in Workers : v # w => worker'[v] = worker[v]
    BY <1>1, <1>5
  <2>2. /\ \A o \in 1..Len(Stream) : Done(o) => Done(o)'
        /\ \A v \in Workers : worker'[v] = worker[v] => Carries(v)'
    BY <1>2, <1>5, OthersCarry
  <2>3. \A v \in Workers : Carries(v)'
    BY <1>5, <2>1, <2>2
  <2>4. worker' \in [Workers -> WorkerType]
    BY <1>1, <1>5
  <2>5. Offsets'
    BY <1>1, <1>5 DEF Offsets
  <2>6. \A o \in 1..cursor : Done(o)'
    BY <1>1, <1>2, <2>2
  <2>7. QED
    BY <1>5, <2>3, <2>4, <2>5, <2>6 DEF DeliveryInv
<1>6. ASSUME NEW w \in Workers, Stop(w), cursor' = cursor, published' = published
      PROVE  DeliveryInv'
  <2>1. worker' = [worker EXCEPT ![w] = Idle] /\ worker'[w].pc = "idle"
    BY <1>1, <1>3, <1>6 DEF Stop
  <2>2. Carries(w)'
    BY <2>1 DEF Carries
  <2>3. QED
    BY <1>3, <1>5, <1>6, <2>1, <2>2
<1>7. CASE UNCHANGED allVars
  BY <1>2, <1>4, <1>7 DEF allVars, deliveryVars
<1>8. CASE Publish
  BY <1>2, <1>4, <1>8 DEF Publish
<1>9. CASE OtherRoute
  BY <1>2, <1>4, <1>9 DEF OtherRoute, deliveryVars
<1>10. ASSUME NEW w \in Workers, ReadEvents(w) PROVE DeliveryInv'
  <2> DEFINE top == Min({cursor + BatchLimit, published})
             at  == [Idle EXCEPT !.pc = "commit",
                      !.from = cursor + 1, !.next = cursor + 1, !.to = top]
  <2>1. /\ cursor < published /\ worker' = [worker EXCEPT ![w] = at]
        /\ cursor' = cursor /\ published' = published
    BY <1>10 DEF ReadEvents
  <2>2. top \in Nat /\ cursor + 1 <= top /\ top <= published
    <3>1. /\ cursor + BatchLimit \in Nat /\ cursor + 1 <= cursor + BatchLimit
          /\ cursor + 1 <= published
      <4>1. BatchLimit \in 1..128
        BY DeliveryAssumption
      <4>2. cursor < published
        BY <2>1
      <4>3. cursor \in Nat /\ published \in Nat
        BY <1>2
      <4>4. QED
        BY <4>1, <4>2, <4>3
    <3>2. top \in {cursor + BatchLimit, published}
      BY <1>2, <3>1, MinOfTwo
    <3>3. top <= published
      BY <1>2, <3>1, MinOfTwo
    <3> HIDE DEF top
    <3>4. QED
      BY <1>2, <3>1, <3>2, <3>3
  <2> HIDE DEF top
  <2>3. /\ at \in WorkerType /\ at.pc = "commit" /\ at.from = cursor + 1
        /\ at.next = cursor + 1 /\ at.to = top
    <3>1. at = [pc |-> "commit", from |-> cursor + 1, to |-> top, next |-> cursor + 1,
                receipt |-> NoReceipt]
      <4>1. Idle = [pc |-> "idle", from |-> 0, to |-> 0, next |-> 0, receipt |-> NoReceipt]
        BY DEF Idle
      <4> DEFINE c == cursor + 1
      <4>2. at = [Idle EXCEPT !.pc = "commit", !.from = c, !.next = c, !.to = top]
        BY DEF at
      <4> HIDE DEF c, at
      <4>3. at = [pc |-> "commit", from |-> c, to |-> top, next |-> c, receipt |-> NoReceipt]
        BY <4>1, <4>2
      <4>4. QED
        BY <4>3 DEF c
    <3> HIDE DEF at
    <3>2. QED
      BY <1>2, <2>2, <3>1 DEF WorkerType
  <2> HIDE DEF at
  <2>4. worker'[w] = at
    BY <1>1, <2>1
  <2>5. Carries(w)'
    BY <1>2, <2>1, <2>2, <2>3, <2>4 DEF Carries
  <2>6. QED
    BY <1>5, <2>1, <2>3, <2>5
<1>11. ASSUME NEW w \in Workers, CommitFact(w) PROVE DeliveryInv'
  <2> DEFINE s  == Due(w).subject
             e  == Due(w).envelope
             tx == AppendTx(LedgerOf(w), e)
             at == [worker[w] EXCEPT !.pc = "receipt", !.receipt = tx.receipt]
  <2>1. /\ worker[w].pc = "commit" /\ ledger' = [ledger EXCEPT ![s] = tx.ledger]
        /\ cursor' = cursor /\ published' = published
        /\ \/ Stop(w)
           \/ /\ tx.receipt # Conflict
              /\ worker' = [worker EXCEPT ![w].pc = "receipt", ![w].receipt = tx.receipt]
    BY <1>11 DEF CommitFact
  <2>2. /\ worker[w] \in WorkerType /\ worker[w].next \in 1..Len(Stream)
        /\ s \in Subjects /\ e \in Envelopes
    BY <2>1, AtOffset
  <2>3. LedgersOK
    BY DEF Inv
  <2>4. Sound(LedgerOf(w)) /\ ~LedgerOf(w).clash
    BY <2>2, <2>3 DEF LedgersOK, LedgerOf
  <2> HIDE DEF e
  <2>5. /\ tx.receipt \in Receipts
        /\ tx.receipt # Conflict => HasRow(tx.ledger, e)
    BY <2>2, <2>4, AppendKeeps DEF HasRow
  <2> HIDE DEF s, tx
  <2>6. ledger'[s] = tx.ledger
    BY <2>1, <2>2, <2>3 DEF LedgersOK
  <2>7. CASE tx.receipt # Conflict
             /\ worker' = [worker EXCEPT ![w].pc = "receipt", ![w].receipt = tx.receipt]
    <3>1. worker' = [worker EXCEPT ![w] = at]
      BY <1>1, <2>7
    <3>2. /\ at \in WorkerType /\ at.pc = "receipt" /\ at.from = worker[w].from
          /\ at.next = worker[w].next /\ at.to = worker[w].to
      BY <2>2, <2>5 DEF WorkerType
    <3> HIDE DEF at
    <3>3. worker'[w] = at
      BY <1>1, <3>1
    <3>4. HasRow(LedgerOf(w), Due(w).envelope)'
      <4>1. Stream[worker'[w].next] = Due(w)
        BY <3>2, <3>3 DEF Due
      <4>2. QED
        BY <2>5, <2>6, <2>7, <4>1 DEF LedgerOf, Due, s, e
    <3>5. ASSUME \A o \in 1..Len(Stream) : Done(o) => Done(o)' PROVE Carries(w)'
      <4>1. /\ 1 <= at.from /\ at.from <= at.next /\ at.next <= at.to /\ at.to <= published
            /\ \A o \in at.from..(at.next - 1) : Done(o)
        BY <1>1, <2>1, <3>2 DEF Carries
      <4>2. \A o \in at.from..(at.next - 1) : o \in 1..Len(Stream)
        BY <1>2, <2>2, <3>2, <4>1 DEF WorkerType
      <4>3. QED
        BY <2>1, <3>2, <3>3, <3>4, <3>5, <4>1, <4>2 DEF Carries
    <3>6. QED
      BY <1>5, <2>1, <3>1, <3>2, <3>5
  <2>8. QED
    BY <1>6, <2>1, <2>7
<1>12. ASSUME NEW w \in Workers, CheckReceipt(w) PROVE DeliveryInv'
  <2> DEFINE last == worker[w].next = worker[w].to
             at == [worker[w] EXCEPT !.pc = IF last THEN "ack" ELSE "commit",
                                     !.next = IF last THEN @ ELSE @ + 1, !.receipt = NoReceipt]
             current == CurrentReceipt(LedgerOf(w), KeyOf(w))
  <2>1. /\ worker[w].pc = "receipt" /\ cursor' = cursor /\ published' = published
        /\ \/ Stop(w)
           \/ /\ Proves(worker[w].receipt, current)
              /\ worker' = [worker EXCEPT
                               ![w].pc = IF worker[w].next = worker[w].to THEN "ack" ELSE "commit",
                               ![w].next = IF @ = worker[w].to THEN @ ELSE @ + 1,
                               ![w].receipt = NoReceipt]
    BY <1>12 DEF CheckReceipt
  <2>2. /\ worker[w] \in WorkerType /\ worker[w].next \in 1..Len(Stream)
    BY <2>1, AtOffset
  <2>3. CASE /\ Proves(worker[w].receipt, current)
             /\ worker' = [worker EXCEPT
                              ![w].pc = IF worker[w].next = worker[w].to THEN "ack" ELSE "commit",
                              ![w].next = IF @ = worker[w].to THEN @ ELSE @ + 1,
                              ![w].receipt = NoReceipt]
    <3>1. worker' = [worker EXCEPT ![w] = at]
      BY <1>1, <2>3
    <3>2. /\ at \in WorkerType /\ at.from = worker[w].from /\ at.to = worker[w].to
          /\ at.pc = IF last THEN "ack" ELSE "commit"
          /\ at.next = IF last THEN worker[w].next ELSE worker[w].next + 1
      <4> DEFINE pc == IF last THEN "ack" ELSE "commit"
                 n  == IF last THEN worker[w].next ELSE worker[w].next + 1
      <4>1. pc \in {"ack", "commit"}
        OBVIOUS
      <4>2. n \in Nat
        BY <2>2
      <4>3. at = [worker[w] EXCEPT !.pc = pc, !.next = n, !.receipt = NoReceipt]
        BY <2>2 DEF WorkerType
      <4> HIDE DEF pc, n, at
      <4>4. /\ at \in WorkerType /\ at.from = worker[w].from /\ at.to = worker[w].to
            /\ at.pc = pc /\ at.next = n
        BY <2>2, <4>1, <4>2, <4>3 DEF WorkerType
      <4>5. QED
        BY <4>4 DEF pc, n
    <3> HIDE DEF at
    <3>3. worker'[w] = at
      BY <1>1, <3>1
    <3>4. Done(worker[w].next)
      <4>1. HasRow(LedgerOf(w), Due(w).envelope)
        BY <1>1, <2>1 DEF Carries
      <4>2. current.status = "accepted"
        BY <2>3 DEF Proves
      <4>3. QED
        BY <4>1, <4>2 DEF Done, IsAccepted, LedgerOf, KeyOf, Due
    <3>5. ASSUME \A o \in 1..Len(Stream) : Done(o) => Done(o)' PROVE Carries(w)'
      <4> DEFINE n == worker[w].next
                 f == worker[w].from
      <4>1. /\ 1 <= f /\ f <= n /\ n <= at.to /\ at.to <= published
            /\ \A o \in f..(n - 1) : Done(o)
            /\ f \in Nat /\ n \in Nat /\ at.to \in Nat
        BY <1>1, <2>1, <2>2, <3>2 DEF Carries, WorkerType
      <4>2. Done(n)
        BY <3>4
      <4> HIDE DEF n, f
      <4>3. \A o \in f..n : Done(o)
        BY <4>1, <4>2
      <4>4. \A o \in f..n : o \in 1..Len(Stream)
        BY <1>2, <4>1
      <4>5. \A o \in f..n : Done(o)'
        BY <3>5, <4>3, <4>4
      <4>6. CASE last
        <5>1. at.pc = "ack" /\ at.next = n /\ at.to = n /\ at.from = f
          BY <3>2, <4>6 DEF n, f
        <5>2. \A o \in at.from..(at.next - 1) : Done(o)'
          BY <4>1, <4>5, <5>1
        <5>3. Done(worker[w].next)'
          <6>1. n \in f..n /\ worker'[w].next = n
            BY <3>3, <4>1, <5>1
          <6>2. ledger'[Stream[n].subject] = ledger'[Stream[worker'[w].next].subject]
            BY <6>1
          <6>3. QED
            BY <4>5, <6>1 DEF Done
        <5>4. QED
          BY <2>1, <3>3, <4>1, <5>1, <5>2, <5>3 DEF Carries
      <4>7. CASE ~last
        <5>1. at.pc = "commit" /\ at.next = n + 1 /\ at.from = f /\ n # at.to
          BY <3>2, <4>7 DEF n, f
        <5>2. \A o \in at.from..(at.next - 1) : Done(o)'
          BY <4>1, <4>5, <5>1
        <5>3. n + 1 <= at.to
          BY <4>1, <5>1
        <5>4. QED
          BY <2>1, <3>3, <4>1, <5>1, <5>2, <5>3 DEF Carries
      <4>8. QED
        BY <4>6, <4>7
    <3>6. QED
      BY <1>5, <2>1, <3>1, <3>2, <3>5
  <2>4. QED
    BY <1>6, <2>1, <2>3
<1>13. ASSUME NEW w \in Workers, AcknowledgeEvents(w) PROVE DeliveryInv'
  <2> DEFINE at == worker[w]
  <2>1. /\ at.pc = "ack" /\ published' = published
        /\ cursor' = IF at.from = cursor + 1 THEN at.to ELSE cursor
        /\ worker' = [worker EXCEPT ![w] = Idle]
    BY <1>13 DEF AcknowledgeEvents, Stop
  <2>2. /\ at \in WorkerType /\ at.from \in Nat /\ at.next \in Nat /\ at.to \in Nat
    BY <2>1, AtOffset DEF WorkerType
  <2>3. /\ 1 <= at.from /\ at.from <= at.next /\ at.next = at.to /\ at.to <= published
        /\ \A o \in at.from..(at.next - 1) : Done(o)
        /\ Done(at.next)
    BY <1>1, <2>1 DEF Carries
  <2> HIDE DEF at
  <2>4. \A o \in at.from..at.to : Done(o)
    BY <2>2, <2>3
  <2>5. cursor' \in Nat /\ cursor' <= published /\ \A o \in 1..cursor' : Done(o)
    BY <1>1, <1>2, <2>1, <2>2, <2>3, <2>4
  <2>6. /\ \A o \in 1..Len(Stream) : Done(o) => Done(o)'
        /\ \A v \in Workers : worker'[v] = worker[v] => Carries(v)'
    BY <1>2, <2>1, <2>5, OthersCarry
  <2>7. \A o \in 1..cursor' : Done(o)'
    <3>1. \A o \in 1..cursor' : o \in 1..Len(Stream)
      BY <1>2, <2>5
    <3>2. QED
      BY <2>5, <2>6, <3>1
  <2>8. \A v \in Workers : Carries(v)'
    <3>1. worker'[w].pc = "idle" /\ \A v \in Workers : v # w => worker'[v] = worker[v]
      BY <1>1, <1>3, <2>1
    <3>2. Carries(w)'
      BY <3>1 DEF Carries
    <3>3. QED
      BY <2>6, <3>1, <3>2
  <2>9. worker' \in [Workers -> WorkerType]
    BY <1>1, <1>3, <2>1
  <2>10. Offsets'
    BY <1>2, <2>1, <2>5 DEF Offsets
  <2>11. QED
    BY <2>7, <2>8, <2>9, <2>10 DEF DeliveryInv
<1>14. ASSUME NEW w \in Workers, Fail(w) PROVE DeliveryInv'
  BY <1>6, <1>14 DEF Fail
<1>15. QED
  BY <1>7, <1>8, <1>9, <1>10, <1>11, <1>12, <1>13, <1>14 DEF DeliveryNext, Step

-------------------------------------------------------------------------------
(* The theorems.                                                           *)

THEOREM DeliveryInvariant == DeliverySpec => [](Inv /\ DeliveryInv)
<1>1. DeliveryInit => Inv /\ DeliveryInv
  BY InitHasInv, InitHasDeliveryInv DEF DeliveryInit
<1>2. Inv /\ DeliveryInv /\ [DeliveryNext]_allVars => (Inv /\ DeliveryInv)'
  BY LedgerStep, NextKeepsInv, NextKeepsDeliveryInv
<1>3. QED
  BY <1>1, <1>2, PTL DEF DeliverySpec

(* The worker and the other routes use the ledger as its specification     *)
(* allows: what is proved of the ledger holds below the worker as well.    *)
THEOREM DeliveryUsesTheLedger == DeliverySpec => Spec
<1>1. DeliveryInit => Init
  BY DEF DeliveryInit
<1>2. DeliveryInv /\ [DeliveryNext]_allVars => [Next]_vars
  BY LedgerStep
<1>3. QED
  BY <1>1, <1>2, DeliveryInvariant, PTL DEF DeliverySpec, Spec

(* Whatever crashes, calls are lost, workers share a consumer and facts    *)
(* wait in the middle of a batch: what is acknowledged is accepted.        *)
THEOREM AcknowledgedIsAlwaysAccepted == DeliverySpec => []AcknowledgedIsAccepted
<1>1. DeliveryInv => AcknowledgedIsAccepted
  BY DEF DeliveryInv, AcknowledgedIsAccepted, Done, IsAccepted, HasRow
<1>2. QED
  BY <1>1, DeliveryInvariant, PTL

===============================================================================
