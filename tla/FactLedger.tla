------------------------------ MODULE FactLedger ------------------------------
(***************************************************************************)
(* The ledger of user facts of the async domain, package usermodel         *)
(* (facts.go, projection.go, schema.go).                                   *)
(*                                                                         *)
(* A fact arrives as an immutable envelope.  It asserts something, or it   *)
(* corrects or retracts one earlier fact; facts arrive late, repeated and  *)
(* in any order.  Every operation is one PostgreSQL transaction that first *)
(* locks the row of its subject (SELECT ... FOR UPDATE on                  *)
(* usermodel_subject_state), so the transactions of one subject happen one *)
(* after the other and each is one action here.  A unique index a          *)
(* transaction runs into aborts all of it.                                 *)
(*                                                                         *)
(* The tables of a subject are one record, ledger[s].  An envelope stands  *)
(* for its normalized payload: two envelopes have the same hash when they  *)
(* are equal.                                                              *)
(***************************************************************************)
EXTENDS Naturals, Sequences, FiniteSetsExt

CONSTANTS
  Subjects,    \* the SubjectRefs RTW has issued
  Aliases,     \* external subjects RTW has not resolved yet
  Envelopes,   \* the normalized events that can arrive
  Displays,    \* pairs (impression ID, evidence reference) LinkImpression is called with
  ChainLimit,  \* predecessor links one transaction resolves (128)
  ReadyLimit,  \* facts one ReconcilePending takes up (128)
  None         \* the SQL NULL

Keys    == {e.key : e \in Envelopes}
Sources == {e.source : e \in Envelopes}
Statuses == {"accepted", "pending_dependency"}

(* What normalized lets through.                                           *)
ASSUME EnvelopeAssumption ==
  \A e \in Envelopes :
    /\ e.action \in {"assert", "correct", "retract"}
    /\ e.kind \in {"product_action", "reading", "impression", "self_report"}
    /\ (e.action = "assert") <=> (e.supersedes = None)
    /\ e.supersedes # e.key
    /\ e.kind # "impression" => e.impression = None
    /\ e.kind = "impression" /\ e.action # "retract" => e.impression # None
    /\ e.seq \in Nat
    /\ e.at \in Nat

ASSUME LimitAssumption == ChainLimit \in Nat \ {0} /\ ReadyLimit \in Nat \ {0}

(* A NULL is neither a version nor the key of an event.                    *)
ASSUME NullAssumption == None \notin Nat \cup Keys

VARIABLES
  ledger,    \* subject -> the rows of that subject
  parked,    \* <<alias, key>> -> usermodel_unmapped_events
  binding    \* alias -> usermodel_subject_bindings

vars == <<ledger, parked, binding>>

-------------------------------------------------------------------------------
(* The rows of one subject.                                                *)

Row == [envelope : Envelopes, status : Statuses, initial : Statuses,
        initialVersion : Nat, accepted : Nat \cup {None}]

Link == [display : Displays, linked : Nat, revoked : Nat \cup {None}]

EmptyLedger ==
  [version |-> 0,                                   \* usermodel_subject_state
   rows    |-> <<>>,                                \* usermodel_events, by key
   active  |-> {},                                  \* usermodel_active_facts
   links   |-> <<>>,                                \* usermodel_attributions
   marks   |-> [p \in Sources |-> [contiguous |-> 0, seen |-> 0]],
   outbox  |-> {},                                  \* usermodel_outbox
   clash   |-> FALSE]      \* a statement of this transaction broke a unique index

Stored(l)      == DOMAIN l.rows
Envelope(l, k) == l.rows[k].envelope
Accepted(l)    == {k \in Stored(l) : l.rows[k].status = "accepted"}

(* usermodel_successor_uq: at most one row supersedes k.                   *)
Successors(l, k) == {j \in Stored(l) : Envelope(l, j).supersedes = k}

(* usermodel_event_position_uq: the rows at the source position of e.      *)
AtPosition(l, e) ==
  {k \in Stored(l) : /\ e.seq # 0
                     /\ Envelope(l, k).source = e.source
                     /\ Envelope(l, k).seq = e.seq}

-------------------------------------------------------------------------------
(* The watermark of a source.                                              *)

RecordPosition(marks, e) ==
  IF e.seq = 0 THEN marks
  ELSE [marks EXCEPT ![e.source].seen = Max({@, e.seq})]

AcceptedAt(rows, source, n) ==
  \E k \in DOMAIN rows : /\ rows[k].envelope.source = source
                         /\ rows[k].envelope.seq = n
                         /\ rows[k].status = "accepted"

(* Bugs of the definitions below, which only show that the properties can  *)
(* fail: one position at a time, revocation by the new fact, retractions   *)
(* that stay active, promotions that are not announced, a predecessor that *)
(* need only be stored, an alias that can be bound anew.                   *)
OneMoreAccepted(rows, source, mark) ==
  IF AcceptedAt(rows, source, mark.contiguous + 1) THEN mark.contiguous + 1
  ELSE mark.contiguous
RevokeByNewFact(l, e, version) ==
  [b \in DOMAIN l.links |->
     IF l.links[b].display[1] = e.impression /\ l.links[b].revoked = None
     THEN [l.links[b] EXCEPT !.revoked = version] ELSE l.links[b]]
RetractionsStay(l, e) == (l.active \ {e.supersedes}) \cup {e.key}
SilentWhenPromoted(l, version, type, key) ==
  IF l.rows[key].initial = "pending_dependency" THEN l
  ELSE [l EXCEPT !.outbox = @ \cup {[version |-> version, type |-> type, key |-> key]}]
AcceptsWhatIsStored(l, e) ==
  IF e.supersedes = None \/ e.supersedes \in Stored(l)
  THEN "accepted" ELSE "pending_dependency"
RemapsAlias(a, s) == s

(* The loop runs on from the stored mark while the next position is there. *)
RunOfAccepted(rows, source, mark) ==
  Max({n \in mark.contiguous..mark.seen :
         \A m \in (mark.contiguous + 1)..n : AcceptedAt(rows, source, m)})

AdvanceWatermark(marks, rows, e) ==
  LET recorded == RecordPosition(marks, e)
  IN  IF e.seq = 0 THEN recorded
      ELSE [recorded EXCEPT ![e.source].contiguous =
              RunOfAccepted(rows, e.source, recorded[e.source])]

-------------------------------------------------------------------------------
(* Accepting one stored envelope under a version.                          *)

(* Superseding an impression takes back every attribution to it.           *)
RevokeLinks(l, e, version) ==
  IF e.supersedes = None \/ Envelope(l, e.supersedes).kind # "impression"
  THEN l.links
  ELSE [b \in DOMAIN l.links |->
          IF /\ l.links[b].display[1] = Envelope(l, e.supersedes).impression
             /\ l.links[b].revoked = None
          THEN [l.links[b] EXCEPT !.revoked = version]
          ELSE l.links[b]]

(* The predecessor leaves; a retraction puts nothing in its place.         *)
ActiveAfter(l, e) ==
  (l.active \ {e.supersedes}) \cup (IF e.action = "retract" THEN {} ELSE {e.key})

(* usermodel_active_impression_uq among the facts that stay active.        *)
ImpressionTaken(l, e) ==
  /\ e.action # "retract"
  /\ e.kind = "impression"
  /\ \E k \in l.active \ {e.supersedes} : Envelope(l, k).impression = e.impression

Promote(rows, e, version, promoted) ==
  IF promoted
  THEN [rows EXCEPT ![e.key].status = "accepted", ![e.key].accepted = version]
  ELSE rows

(* usermodel_outbox_version_uq: one announcement for each version.         *)
Announce(l, version, type, key) ==
  [l EXCEPT !.outbox = @ \cup {[version |-> version, type |-> type, key |-> key]},
            !.clash  = @ \/ \E o \in l.outbox : o.version = version]

ApplyAccepted(l, e, version, promoted) ==
  LET rows == Promote(l.rows, e, version, promoted)
  IN  Announce(
        [l EXCEPT
           !.version = version,
           !.rows    = rows,
           !.active  = ActiveAfter(l, e),
           !.links   = RevokeLinks(l, e, version),
           !.marks   = AdvanceWatermark(@, rows, e),
           !.clash   = @ \/ ImpressionTaken(l, e)],
        version, "fact.accepted", e.key)

Dependents(l, k) ==
  {j \in Successors(l, k) : l.rows[j].status = "pending_dependency"}

(* Bug: the fact that waited for the promoted one is left behind.          *)
ResolvesOne(l, key, version) ==
  IF Dependents(l, key) = {} THEN l
  ELSE ApplyAccepted(l, Envelope(l, CHOOSE k \in Dependents(l, key) : TRUE),
                     version + 1, TRUE)

(* A turn of the loop accepts the one fact that waited for the last key.   *)
ResolveNext(t) ==
  IF Dependents(t.ledger, t.key) = {} THEN t
  ELSE LET k == CHOOSE k \in Dependents(t.ledger, t.key) : TRUE
           v == t.version + 1
       IN  [ledger |-> ApplyAccepted(t.ledger, Envelope(t.ledger, k), v, TRUE),
            key |-> k, version |-> v]

ResolveDependents(l, key, version) ==
  LET turn[n \in 0..ChainLimit] ==
        IF n = 0 THEN [ledger |-> l, key |-> key, version |-> version]
        ELSE ResolveNext(turn[n - 1])
  IN  turn[ChainLimit].ledger

-------------------------------------------------------------------------------
(* appendTx: what one envelope does to the ledger of a subject.            *)

(* The stored rows reached from k by following supersedes.                 *)
Lineage(l, k) ==
  LET reach[n \in 0..Cardinality(Stored(l))] ==
        IF n = 0 THEN {k} \cap Stored(l)
        ELSE reach[n - 1] \cup
               ({Envelope(l, j).supersedes : j \in reach[n - 1]} \cap Stored(l))
  IN  reach[Cardinality(Stored(l))]

WouldCreateDependencyCycle(l, e) ==
  /\ e.supersedes # None
  /\ \E k \in Lineage(l, e.supersedes) :
        k = e.key \/ Envelope(l, k).supersedes = e.key

StatusOnArrival(l, e) ==
  IF e.supersedes = None \/ e.supersedes \in Accepted(l)
  THEN "accepted" ELSE "pending_dependency"

PositionOrSuccessorTaken(l, e) ==
  \/ AtPosition(l, e) # {}
  \/ e.supersedes # None /\ Successors(l, e.supersedes) # {}

InsertEvent(l, e, status, version) ==
  [l EXCEPT
     !.rows = [k \in Stored(l) \cup {e.key} |->
                 IF k # e.key THEN l.rows[k]
                 ELSE [envelope |-> e, status |-> status, initial |-> status,
                       initialVersion |-> version,
                       accepted |-> IF status = "accepted" THEN version ELSE None]],
     !.clash = @ \/ PositionOrSuccessorTaken(l, e)]

Admit(l, e) ==
  LET status   == StatusOnArrival(l, e)
      version  == IF status = "accepted" THEN l.version + 1 ELSE l.version
      inserted == InsertEvent(l, e, status, version)
  IN  IF status = "accepted"
      THEN ResolveDependents(ApplyAccepted(inserted, e, version, FALSE), e.key, version)
      ELSE [inserted EXCEPT !.marks = RecordPosition(@, e)]

Receipt(l, k, replay) ==
  [status |-> l.rows[k].initial, version |-> l.rows[k].initialVersion, replay |-> replay]

Conflict == [status |-> "conflict", version |-> 0, replay |-> FALSE]
Unbound  == [status |-> "pending_subject", version |-> 0, replay |-> FALSE]

(* Bug: a broken unique index does not roll the transaction back.          *)
CommitsDespiteClash(l, e) ==
  IF e.key \in Stored(l) THEN [ledger |-> l, receipt |-> Receipt(l, e.key, TRUE)]
  ELSE LET after == Admit(l, e)
       IN  [ledger |-> after, receipt |-> Receipt(after, e.key, FALSE)]

(* The ledger after the transaction and the receipt it returns; a conflict *)
(* or a unique index rolls all of it back.                                 *)
AppendTx(l, e) ==
  IF e.key \in Stored(l)
  THEN [ledger  |-> l,
        receipt |-> IF Envelope(l, e.key) = e THEN Receipt(l, e.key, TRUE) ELSE Conflict]
  ELSE LET after == Admit(l, e)
       IN  IF WouldCreateDependencyCycle(l, e) \/ after.clash
           THEN [ledger |-> l, receipt |-> Conflict]
           ELSE [ledger |-> after, receipt |-> Receipt(after, e.key, FALSE)]

AppendFact(s, e) ==
  LET tx == AppendTx(ledger[s], e)
  IN  /\ ledger' = [ledger EXCEPT ![s] = tx.ledger]
      /\ UNCHANGED <<parked, binding>>

(* CurrentReceipt (receipt.go): accepted only together with its outbox     *)
(* row; rows that contradict each other are a conflict.                    *)
AnnouncedAt(l, k) ==
  \E o \in l.outbox :
    o = [version |-> l.rows[k].accepted, type |-> "fact.accepted", key |-> k]

CurrentReceipt(l, k) ==
  LET row == l.rows[k]
  IN  IF row.status = "accepted" /\ row.accepted # None /\ AnnouncedAt(l, k)
      THEN [status |-> "accepted", version |-> row.accepted]
      ELSE IF row.status = "pending_dependency" /\ row.accepted = None
      THEN [status |-> "pending_dependency", version |-> row.initialVersion]
      ELSE [status |-> "conflict", version |-> 0]

-------------------------------------------------------------------------------
(* Envelopes whose subject is not resolved yet.                            *)

(* ParkUnmapped: a repeated call finds the first envelope.                 *)
ParkUnmapped(a, e) ==
  /\ <<a, e.key>> \notin DOMAIN parked
  /\ parked' = [p \in DOMAIN parked \cup {<<a, e.key>>} |->
                  IF p \in DOMAIN parked THEN parked[p]
                  ELSE [envelope |-> e, subject |-> None, receipt |-> Unbound]]
  /\ UNCHANGED <<ledger, binding>>

(* BindUnmapped: RTW has resolved alias a to subject s.  The envelope is   *)
(* appended in the transaction that marks it bound; another subject for    *)
(* the alias is refused.                                                   *)
MappedSubject(a, s) == IF a \in DOMAIN binding THEN binding[a] ELSE s

BindUnmapped(a, k, s) ==
  /\ <<a, k>> \in DOMAIN parked
  /\ MappedSubject(a, s) = s
  /\ parked[<<a, k>>].subject = None
  /\ LET tx == AppendTx(ledger[s], parked[<<a, k>>].envelope)
     IN  /\ tx.receipt # Conflict
         /\ ledger' = [ledger EXCEPT ![s] = tx.ledger]
         /\ binding' = [x \in DOMAIN binding \cup {a} |-> MappedSubject(x, s)]
         /\ parked' = [parked EXCEPT ![<<a, k>>].subject = s,
                                     ![<<a, k>>].receipt = tx.receipt]

-------------------------------------------------------------------------------
(* Attributing a reading or an action to the impression it followed.       *)

Attributable(e) ==
  /\ e.kind \in {"reading", "product_action"}
  /\ e.action # "retract"
  /\ e.context # None

(* The active impressions that explain behaviour e under display d.        *)
Explaining(l, e, d) ==
  {k \in l.active : /\ Envelope(l, k).kind = "impression"
                    /\ Envelope(l, k).impression = d[1]
                    /\ Envelope(l, k).evidence = d[2]
                    /\ Envelope(l, k).context = e.context
                    /\ Envelope(l, k).at <= e.at}

AddLink(l, k, d, version) ==
  Announce([l EXCEPT
              !.version = version,
              !.links   = [b \in DOMAIN @ \cup {k} |->
                             IF b # k THEN l.links[b]
                             ELSE [display |-> d, linked |-> version, revoked |-> None]]],
           version, "attribution.linked", k)

(* A behaviour is linked once; a revoked link is not renewed.              *)
LinkImpression(s, k, d) ==
  LET l == ledger[s]
  IN  /\ k \in l.active \ DOMAIN l.links
      /\ Attributable(Envelope(l, k))
      /\ Cardinality(Explaining(l, Envelope(l, k), d)) = 1
      /\ ledger' = [ledger EXCEPT ![s] = AddLink(l, k, d, l.version + 1)]
      /\ UNCHANGED <<parked, binding>>

-------------------------------------------------------------------------------
(* ReconcilePending: bounded recovery of facts that wait although their    *)
(* predecessor is accepted.                                                *)

Ready(l) ==
  {k \in Stored(l) : /\ l.rows[k].status = "pending_dependency"
                     /\ Envelope(l, k).supersedes \in Accepted(l)}

(* The version is read again after each chain it resolved.                 *)
ReconcileOne(l, k) ==
  IF l.rows[k].status = "accepted" THEN l
  ELSE ResolveDependents(ApplyAccepted(l, Envelope(l, k), l.version + 1, TRUE),
                         k, l.version + 1)

(* What is ready at the start is taken up by time, ReadyLimit facts at most*)
(* (the catalogue gives no two facts one time).                            *)
Earliest(l, keys) ==
  CHOOSE k \in keys : \A j \in keys : Envelope(l, k).at <= Envelope(l, j).at

ReconcileNext(p) ==
  IF p.rest = {} THEN p
  ELSE LET k == Earliest(p.ledger, p.rest)
       IN  [ledger |-> ReconcileOne(p.ledger, k), rest |-> p.rest \ {k}]

ReconcileTx(l) ==
  LET pass[n \in 0..ReadyLimit] ==
        IF n = 0 THEN [ledger |-> l, rest |-> Ready(l)]
        ELSE ReconcileNext(pass[n - 1])
  IN  pass[ReadyLimit].ledger

ReconcilePending(s) ==
  LET after == ReconcileTx(ledger[s])
  IN  /\ Ready(ledger[s]) # {}
      /\ ~after.clash
      /\ ledger' = [ledger EXCEPT ![s] = after]
      /\ UNCHANGED <<parked, binding>>

-------------------------------------------------------------------------------

Init ==
  /\ ledger  = [s \in Subjects |-> EmptyLedger]
  /\ parked  = <<>>
  /\ binding = <<>>

Next ==
  \/ \E s \in Subjects, e \in Envelopes : AppendFact(s, e)
  \/ \E a \in Aliases, e \in Envelopes : ParkUnmapped(a, e)
  \/ \E a \in Aliases, k \in Keys, s \in Subjects : BindUnmapped(a, k, s)
  \/ \E s \in Subjects, k \in Keys, d \in Displays : LinkImpression(s, k, d)
  \/ \E s \in Subjects : ReconcilePending(s)

Spec == Init /\ [][Next]_vars

-------------------------------------------------------------------------------
(* Properties.                                                             *)

TypeOK ==
  /\ \A s \in Subjects :
       LET l == ledger[s]
       IN  /\ l.version \in Nat
           /\ Stored(l) \subseteq Keys
           /\ \A k \in Stored(l) : l.rows[k] \in Row /\ Envelope(l, k).key = k
           /\ l.active \subseteq Stored(l)
           /\ DOMAIN l.links \subseteq Stored(l)
           /\ \A k \in DOMAIN l.links : l.links[k] \in Link
           /\ l.marks \in [Sources -> [contiguous : Nat, seen : Nat]]
           /\ ~l.clash
  /\ DOMAIN parked \subseteq Aliases \X Keys
  /\ \A p \in DOMAIN parked : /\ parked[p].envelope \in Envelopes
                              /\ parked[p].subject \in Subjects \cup {None}
  /\ DOMAIN binding \subseteq Aliases
  /\ \A a \in DOMAIN binding : binding[a] \in Subjects

(* The active facts are exactly the ends of the accepted chains: whatever  *)
(* order facts, corrections and retractions arrived in, an accepted fact   *)
(* is active until an accepted one supersedes it, and a retraction never   *)
(* is (applyAccepted).                                                     *)
ActiveIsTheTip ==
  \A s \in Subjects :
    LET l == ledger[s]
    IN  l.active = {k \in Accepted(l) :
                      /\ Envelope(l, k).action # "retract"
                      /\ Successors(l, k) \cap Accepted(l) = {}}

(* Chains: a correction or retraction is accepted under a later version    *)
(* than what it supersedes, however early it arrived, and no set of waiting*)
(* facts waits only for itself: followed far enough, every chain leaves    *)
(* the stored facts or reaches an assertion (the check of appendTx).       *)
ChainsAreAccepted ==
  \A s \in Subjects :
    LET l == ledger[s]
    IN  /\ \A k \in Stored(l) : k \notin Lineage(l, Envelope(l, k).supersedes)
        /\ \A k \in Accepted(l) :
             LET p == Envelope(l, k).supersedes
             IN  p # None => /\ p \in Accepted(l)
                             /\ l.rows[p].accepted < l.rows[k].accepted

(* The contiguous mark of a source is the length of the prefix of its      *)
(* positions that is accepted, and the other one the highest position ever *)
(* stored, also after late facts, promotions and refused ones.             *)
WatermarkIsExact ==
  \A s \in Subjects, p \in Sources :
    LET l      == ledger[s]
        stored == {Envelope(l, k).seq : k \in {j \in Stored(l) : Envelope(l, j).source = p}}
        prefix == {n \in 0..Max(stored \cup {0}) :
                     \A m \in 1..n : AcceptedAt(l.rows, p, m)}
    IN  /\ l.marks[p].contiguous = Max(prefix)
        /\ l.marks[p].seen = Max(stored \cup {0})

(* An attribution that is not revoked leads to an impression that is still *)
(* active: superseding the impression revokes it in the same transaction.  *)
LinksLeadToActiveImpressions ==
  \A s \in Subjects :
    LET l == ledger[s]
    IN  \A b \in DOMAIN l.links :
          l.links[b].revoked = None =>
            \E k \in l.active : /\ Envelope(l, k).kind = "impression"
                                /\ Envelope(l, k).impression = l.links[b].display[1]

(* A fact waits only for a predecessor that is missing or waits itself:    *)
(* resolveDependents leaves no one behind, but after a chain of ChainLimit *)
(* facts that were promoted before it.                                     *)
PromotedBefore(l, k) ==
  {j \in Lineage(l, Envelope(l, k).supersedes) : l.rows[j].initial = "pending_dependency"}
WaitsOnlyForMissing ==
  \A s \in Subjects : \A k \in Ready(ledger[s]) :
    Cardinality(PromotedBefore(ledger[s], k)) >= ChainLimit

(* A bound envelope is in the ledger of the subject its alias is bound to, *)
(* with the receipt that was returned then.                                *)
BoundWhereItsAliasIs ==
  \A p \in DOMAIN parked :
    LET s == parked[p].subject
    IN  s # None =>
          /\ p[1] \in DOMAIN binding /\ binding[p[1]] = s
          /\ p[2] \in Stored(ledger[s])
          /\ Envelope(ledger[s], p[2]) = parked[p].envelope
          /\ parked[p].receipt.status = ledger[s].rows[p[2]].initial
          /\ parked[p].receipt.version = ledger[s].rows[p[2]].initialVersion

(* README.md:8 of the package: a fact without its predecessor waits, "前驱 *)
(* 到达后自动提升": when the predecessor arrives, it is promoted.  So an   *)
(* assertion whose own key, position and impression are free is taken in   *)
(* whenever it arrives, and with it the fact that waits for it.            *)
ArrivalPromotes ==
  \A s \in Subjects, e \in Envelopes :
    LET l == ledger[s]
    IN  /\ e.key \notin Stored(l)
        /\ e.action = "assert"
        /\ AtPosition(l, e) = {}
        /\ ~ImpressionTaken(l, e)
        => {e.key} \cup Dependents(l, e.key) \subseteq Accepted(AppendTx(l, e).ledger)

-------------------------------------------------------------------------------
(* What the outbox promises its readers: OutboxAfter delivers the changes  *)
(* of a subject in version order, without a gap, without a change of what  *)
(* was delivered, and each accepted fact once.                             *)
Announced(l) ==
  [v \in 1..Cardinality(l.outbox) |->
     {<<o.type, o.key>> : o \in {x \in l.outbox : x.version = v}}]

Changes(l) ==
  {<<"fact.accepted", k>> : k \in Accepted(l)} \cup
  {<<"attribution.linked", b>> : b \in DOMAIN l.links}

Promise == INSTANCE Timeline WITH
  timeline <- [s \in Subjects |-> Announced(ledger[s])],
  known    <- [s \in Subjects |-> Changes(ledger[s])],
  version  <- [s \in Subjects |-> ledger[s].version]

ImplementsTimeline == Promise!Spec
===============================================================================
