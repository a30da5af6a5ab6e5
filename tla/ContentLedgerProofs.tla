------------------------ MODULE ContentLedgerProofs ------------------------
(***************************************************************************)
(* Proofs about ContentLedger for every set of builds, attempts and        *)
(* references and every value of the bounds.                               *)
(***************************************************************************)
EXTENDS TLAPS, ContentLedger

(* A row exists with all its columns or not at all.                        *)
RowIsWhole ==
  \A b \in Builds :
    IF state[b] = "ABSENT" THEN fence[b] = NoFence /\ input[b] = None
                           ELSE fence[b] \in Fences /\ input[b] \in Inputs

IInv ==
  /\ TypeOK
  /\ RowIsWhole
  /\ OutboxMatchesReady
  /\ ReadyIsComplete
  /\ ReadyIsCommittedByHolder

LEMMA TokenOfFence == \A f \in Fences : Token(f) \in Tokens
  BY DEF Fences, Tokens, Token

LEMMA NoFenceIsNoFence == NoFence.epoch = 0 /\ NoFence.cancel = 0 /\ NoFence \notin Fences
  BY BoundsAssumption DEF NoFence, Fences

LEMMA InitInv == Init => IInv
<1> SUFFICES ASSUME Init PROVE IInv
  OBVIOUS
<1>1. TypeOK
  BY BoundsAssumption DEF Init, TypeOK, States, Events
<1>2. RowIsWhole
  BY DEF Init, RowIsWhole
<1>3. OutboxMatchesReady
  BY DEF Init, OutboxMatchesReady
<1>4. ReadyIsComplete
  BY DEF Init, ReadyIsComplete
<1>5. ReadyIsCommittedByHolder
  <2>1. \A b \in Builds : /\ writer[b] = NoToken /\ fence[b] = NoFence
                          /\ state[b] # "READY"
    BY DEF Init
  <2>2. NoToken.epoch = 0 /\ NoFence.epoch = 0
    BY DEF NoToken, NoFence
  <2>3. \A b \in Builds : writer[b].epoch = 0 /\ fence[b].epoch = 0
    BY <2>1, <2>2
  <2>4. \A b \in Builds : writer[b].epoch <= fence[b].epoch
    BY <2>3
  <2>5. QED
    BY <2>1, <2>4 DEF ReadyIsCommittedByHolder
<1>6. QED
  BY <1>1, <1>2, <1>3, <1>4, <1>5 DEF IInv

LEMMA TypeStep == IInv /\ [Next]_vars => TypeOK' /\ RowIsWhole'
<1> SUFFICES ASSUME IInv, [Next]_vars PROVE TypeOK' /\ RowIsWhole'
  OBVIOUS
<1> USE DEF IInv, TypeOK, RowIsWhole, row, evidence, States
<1>1. ASSUME NEW b \in Builds, NEW i \in Inputs, NEW f \in Fences, InsertBuild(b, i, f)
      PROVE  TypeOK' /\ RowIsWhole'
  BY <1>1 DEF InsertBuild
<1>2. ASSUME NEW b \in Builds, NEW i \in Inputs, NEW f \in Fences, ReclaimBuild(b, i, f)
      PROVE  TypeOK' /\ RowIsWhole'
  BY <1>2 DEF ReclaimBuild
<1>3. ASSUME NEW b \in Builds, NEW f \in Fences, NEW r \in Refs, RecordChunks(b, f, r)
      PROVE  TypeOK' /\ RowIsWhole'
  BY <1>3, TokenOfFence DEF RecordChunks
<1>4. ASSUME NEW b \in Builds, NEW f \in Fences, NEW r \in Refs, NEW l \in Lanes,
             RecordLane(b, f, l, r)
      PROVE  TypeOK' /\ RowIsWhole'
  BY <1>4, TokenOfFence DEF RecordLane
<1>5. ASSUME NEW b \in Builds, NEW f \in Fences, NEW r \in Refs, CommitReady(b, f, r)
      PROVE  TypeOK' /\ RowIsWhole'
  <2>1. [build |-> b, input |-> input[b], fence |-> fence[b], result |-> r] \in Events
    BY <1>5 DEF CommitReady, Writable, Events
  <2>2. outbox' \subseteq Events
    BY <1>5, <2>1 DEF CommitReady
  <2>3. state'[b] = "READY" /\ state[b] = "BUILDING"
    BY <1>5 DEF CommitReady, Writable
  <2>4. TypeOK'
    BY <1>5, <2>2, TokenOfFence DEF CommitReady
  <2>5. RowIsWhole'
    BY <1>5, <2>3 DEF CommitReady
  <2>6. QED
    BY <2>4, <2>5
<1>6. ASSUME NEW b \in Builds, NEW v \in 1..MaxCancel, Cancel(b, v)
      PROVE  TypeOK' /\ RowIsWhole'
  <2>1. fence[b] \in Fences /\ v \in 0..MaxCancel
    BY <1>6, BoundsAssumption DEF Cancel
  <2>2. [fence[b] EXCEPT !.cancel = v] \in Fences
    BY <2>1 DEF Fences
  <2>3. fence' = [fence EXCEPT ![b] = [fence[b] EXCEPT !.cancel = v]]
    BY <1>6 DEF Cancel
  <2>4. QED
    BY <1>6, <2>2, <2>3 DEF Cancel
<1>7. ASSUME NEW r \in Revisions, NEW v \in 1..MaxVersion, NEW h \in Hashes, Tombstone(r, v, h)
      PROVE  TypeOK' /\ RowIsWhole'
  BY <1>7 DEF Tombstone, Marks
<1>8. ASSUME NEW p \in Profiles, NEW h \in Hashes, BindProfile(p, h)
      PROVE  TypeOK' /\ RowIsWhole'
  BY <1>8 DEF BindProfile
<1>9. CASE Tick
  BY <1>9, BoundsAssumption DEF Tick
<1>10. CASE UNCHANGED vars
  BY <1>10 DEF vars
<1>11. QED
  BY <1>1, <1>2, <1>3, <1>4, <1>5, <1>6, <1>7, <1>8, <1>9, <1>10
     DEF Next, BuildOp, Claim

(* The announcements of the other builds are those of before.              *)
LEMMA SameRowSameAnnouncement ==
  ASSUME IInv,
         state' = state, result' = result, outbox' = outbox,
         \A b \in Builds : state[b] = "READY" => input'[b] = input[b] /\ fence'[b] = fence[b]
  PROVE  OutboxMatchesReady'
  BY DEF IInv, OutboxMatchesReady, Announcement

LEMMA OutboxStep == IInv /\ [Next]_vars => OutboxMatchesReady'
<1> SUFFICES ASSUME IInv, [Next]_vars PROVE OutboxMatchesReady'
  OBVIOUS
<1> USE DEF row, evidence
<1>1. ASSUME NEW b \in Builds, NEW i \in Inputs, NEW f \in Fences, InsertBuild(b, i, f)
      PROVE  OutboxMatchesReady'
  <2>1. \A c \in Builds : (state'[c] = "READY") <=> (state[c] = "READY")
    BY <1>1 DEF InsertBuild, IInv, TypeOK
  <2>2. \A c \in Builds : state[c] = "READY" =>
          input'[c] = input[c] /\ fence'[c] = fence[c] /\ result'[c] = result[c]
    BY <1>1 DEF InsertBuild, IInv, TypeOK
  <2>3. outbox' = outbox
    BY <1>1 DEF InsertBuild
  <2>4. QED
    BY <2>1, <2>2, <2>3 DEF OutboxMatchesReady, Announcement, IInv
<1>2. ASSUME NEW b \in Builds, NEW i \in Inputs, NEW f \in Fences, ReclaimBuild(b, i, f)
      PROVE  OutboxMatchesReady'
  <2>1. \A c \in Builds : state[c] = "READY" => input'[c] = input[c] /\ fence'[c] = fence[c]
    BY <1>2 DEF ReclaimBuild, IInv, TypeOK
  <2>2. QED
    BY <1>2, <2>1, SameRowSameAnnouncement DEF ReclaimBuild
<1>3. ASSUME NEW b \in Builds, NEW f \in Fences, NEW r \in Refs, RecordChunks(b, f, r)
      PROVE  OutboxMatchesReady'
  BY <1>3, SameRowSameAnnouncement DEF RecordChunks
<1>4. ASSUME NEW b \in Builds, NEW f \in Fences, NEW r \in Refs, NEW l \in Lanes,
             RecordLane(b, f, l, r)
      PROVE  OutboxMatchesReady'
  BY <1>4, SameRowSameAnnouncement DEF RecordLane
<1>5. ASSUME NEW b \in Builds, NEW f \in Fences, NEW r \in Refs, CommitReady(b, f, r)
      PROVE  OutboxMatchesReady'
  <2>1. \A c \in Builds : (state'[c] = "READY") <=> (state[c] = "READY" \/ c = b)
    BY <1>5 DEF CommitReady, IInv, TypeOK
  <2>2. \A c \in Builds : state[c] = "READY" => Announcement(c)' = Announcement(c)
    BY <1>5 DEF CommitReady, Writable, Announcement, IInv, TypeOK
  <2>3. outbox' = outbox \cup {Announcement(b)'}
    BY <1>5 DEF CommitReady, Announcement, IInv, TypeOK
  <2>4. QED
    BY <2>1, <2>2, <2>3 DEF OutboxMatchesReady, IInv
<1>6. ASSUME NEW b \in Builds, NEW v \in 1..MaxCancel, Cancel(b, v)
      PROVE  OutboxMatchesReady'
  <2>1. \A c \in Builds : (state'[c] = "READY") <=> (state[c] = "READY")
    BY <1>6 DEF Cancel, IInv, TypeOK
  <2>2. \A c \in Builds : state[c] = "READY" =>
          input'[c] = input[c] /\ fence'[c] = fence[c] /\ result'[c] = result[c]
    BY <1>6 DEF Cancel, IInv, TypeOK
  <2>3. outbox' = outbox
    BY <1>6 DEF Cancel
  <2>4. QED
    BY <2>1, <2>2, <2>3 DEF OutboxMatchesReady, Announcement, IInv
<1>7. ASSUME NEW r \in Revisions, NEW v \in 1..MaxVersion, NEW h \in Hashes, Tombstone(r, v, h)
      PROVE  OutboxMatchesReady'
  BY <1>7, SameRowSameAnnouncement DEF Tombstone
<1>8. ASSUME NEW p \in Profiles, NEW h \in Hashes, BindProfile(p, h)
      PROVE  OutboxMatchesReady'
  BY <1>8, SameRowSameAnnouncement DEF BindProfile
<1>9. CASE Tick
  BY <1>9, SameRowSameAnnouncement DEF Tick
<1>10. CASE UNCHANGED vars
  BY <1>10, SameRowSameAnnouncement DEF vars
<1>11. QED
  BY <1>1, <1>2, <1>3, <1>4, <1>5, <1>6, <1>7, <1>8, <1>9, <1>10
     DEF Next, BuildOp, Claim

LEMMA CompleteStep == IInv /\ [Next]_vars => ReadyIsComplete'
<1> SUFFICES ASSUME IInv, [Next]_vars PROVE ReadyIsComplete'
  OBVIOUS
<1> USE DEF IInv, TypeOK, ReadyIsComplete, row, evidence
<1>1. ASSUME NEW b \in Builds, NEW i \in Inputs, NEW f \in Fences, InsertBuild(b, i, f)
      PROVE  ReadyIsComplete'
  BY <1>1 DEF InsertBuild
<1>2. ASSUME NEW b \in Builds, NEW i \in Inputs, NEW f \in Fences, ReclaimBuild(b, i, f)
      PROVE  ReadyIsComplete'
  BY <1>2 DEF ReclaimBuild
<1>3. ASSUME NEW b \in Builds, NEW f \in Fences, NEW r \in Refs, RecordChunks(b, f, r)
      PROVE  ReadyIsComplete'
  BY <1>3, NoneAssumption DEF RecordChunks
<1>4. ASSUME NEW b \in Builds, NEW f \in Fences, NEW r \in Refs, NEW l \in Lanes,
             RecordLane(b, f, l, r)
      PROVE  ReadyIsComplete'
  BY <1>4, NoneAssumption DEF RecordLane
<1>5. ASSUME NEW b \in Builds, NEW f \in Fences, NEW r \in Refs, CommitReady(b, f, r)
      PROVE  ReadyIsComplete'
  BY <1>5, NoneAssumption DEF CommitReady
<1>6. ASSUME NEW b \in Builds, NEW v \in 1..MaxCancel, Cancel(b, v)
      PROVE  ReadyIsComplete'
  BY <1>6 DEF Cancel
<1>7. ASSUME NEW r \in Revisions, NEW v \in 1..MaxVersion, NEW h \in Hashes, Tombstone(r, v, h)
      PROVE  ReadyIsComplete'
  BY <1>7 DEF Tombstone
<1>8. ASSUME NEW p \in Profiles, NEW h \in Hashes, BindProfile(p, h)
      PROVE  ReadyIsComplete'
  BY <1>8 DEF BindProfile
<1>9. CASE Tick
  BY <1>9 DEF Tick
<1>10. CASE UNCHANGED vars
  BY <1>10 DEF vars
<1>11. QED
  BY <1>1, <1>2, <1>3, <1>4, <1>5, <1>6, <1>7, <1>8, <1>9, <1>10
     DEF Next, BuildOp, Claim

(* A fence that replaces another, or the first one, fences off every       *)
(* earlier writer: a first claim because no epoch is below 1, a later one  *)
(* because it keeps the attempt when it keeps the epoch.                   *)
LEMMA NewFenceCoversWriter ==
  ASSUME IInv, NEW b \in Builds, NEW f \in Fences,
         state[b] # "READY", state[b] = "ABSENT" \/ Supersedes(f, fence[b])
  PROVE  /\ writer[b].epoch <= f.epoch
         /\ writer[b] # NoToken /\ writer[b].epoch = f.epoch => writer[b].attempt = f.attempt
<1>1. /\ writer[b] \in Tokens \cup {NoToken}
      /\ f.epoch \in Nat /\ f.epoch >= 1
  BY BoundsAssumption DEF IInv, TypeOK, Fences
<1>2. CASE writer[b] = NoToken
  BY <1>1, <1>2 DEF NoToken
<1>3. CASE writer[b] # NoToken
  <2>1. writer[b].epoch \in Nat /\ writer[b].epoch >= 1
    BY <1>1, <1>3, BoundsAssumption DEF Tokens
  <2>2. state[b] # "ABSENT"
    BY <2>1, NoFenceIsNoFence DEF IInv, RowIsWhole, ReadyIsCommittedByHolder
  <2>3. fence[b].epoch \in Nat
    BY <2>2, BoundsAssumption DEF IInv, RowIsWhole, Fences
  <2>4. QED
    BY <1>1, <1>3, <2>1, <2>2, <2>3 DEF IInv, ReadyIsCommittedByHolder, Supersedes
<1>4. QED
  BY <1>2, <1>3

LEMMA HolderStep == IInv /\ [Next]_vars => ReadyIsCommittedByHolder'
<1> SUFFICES ASSUME IInv, [Next]_vars PROVE ReadyIsCommittedByHolder'
  OBVIOUS
<1> USE DEF row, evidence
<1>1. ASSUME NEW b \in Builds, NEW i \in Inputs, NEW f \in Fences, Claim(b, i, f)
      PROVE  ReadyIsCommittedByHolder'
  <2>1. /\ state[b] # "READY"
        /\ state[b] = "ABSENT" \/ Supersedes(f, fence[b])
        /\ writer' = writer /\ fence' = [fence EXCEPT ![b] = f]
        /\ \A c \in Builds : state'[c] = "READY" => state[c] = "READY" /\ c # b
    BY <1>1 DEF Claim, InsertBuild, ReclaimBuild, IInv, TypeOK
  <2>2. fence'[b] = f /\ \A c \in Builds \ {b} : fence'[c] = fence[c]
    BY <2>1 DEF IInv, TypeOK
  <2>3. /\ writer[b].epoch <= f.epoch
        /\ writer[b] # NoToken /\ writer[b].epoch = f.epoch => writer[b].attempt = f.attempt
    BY <2>1, NewFenceCoversWriter
  <2>4. QED
    BY <2>1, <2>2, <2>3 DEF ReadyIsCommittedByHolder, IInv
<1>2. ASSUME NEW b \in Builds, NEW f \in Fences, Held(b, f),
             fence' = fence, writer' = [writer EXCEPT ![b] = Token(f)],
             \A c \in Builds \ {b} : state'[c] = state[c]
      PROVE  ReadyIsCommittedByHolder'
  <2>1. Token(fence[b]) = Token(f) /\ fence[b] \in Fences
    BY <1>2 DEF Held, IInv, RowIsWhole
  <2>2. writer'[b] = Token(fence[b]) /\ \A c \in Builds \ {b} : writer'[c] = writer[c]
    BY <1>2, <2>1 DEF IInv, TypeOK
  <2>3. fence[b].epoch \in Nat
    BY <2>1, BoundsAssumption DEF Fences
  <2>4. Token(fence[b]).epoch = fence[b].epoch /\ Token(fence[b]).attempt = fence[b].attempt
    BY DEF Token
  <2>5. QED
    BY <1>2, <2>2, <2>3, <2>4 DEF ReadyIsCommittedByHolder, IInv
<1>3. ASSUME NEW b \in Builds, NEW f \in Fences, NEW r \in Refs, RecordChunks(b, f, r)
      PROVE  ReadyIsCommittedByHolder'
  BY <1>2, <1>3 DEF RecordChunks
<1>4. ASSUME NEW b \in Builds, NEW f \in Fences, NEW r \in Refs, NEW l \in Lanes,
             RecordLane(b, f, l, r)
      PROVE  ReadyIsCommittedByHolder'
  BY <1>2, <1>4 DEF RecordLane
<1>5. ASSUME NEW b \in Builds, NEW f \in Fences, NEW r \in Refs, CommitReady(b, f, r)
      PROVE  ReadyIsCommittedByHolder'
  BY <1>2, <1>5 DEF CommitReady, IInv, TypeOK
<1>6. ASSUME NEW b \in Builds, NEW v \in 1..MaxCancel, Cancel(b, v)
      PROVE  ReadyIsCommittedByHolder'
  <2>1. /\ \A c \in Builds : /\ fence'[c].epoch = fence[c].epoch
                             /\ fence'[c].attempt = fence[c].attempt
        /\ \A c \in Builds \ {b} : fence'[c] = fence[c] /\ state'[c] = state[c]
        /\ state'[b] = "CANCELLED" /\ writer' = writer
    <3>1. fence[b] \in Fences
      BY <1>6 DEF Cancel, IInv, RowIsWhole
    <3>2. fence' = [fence EXCEPT ![b] = [fence[b] EXCEPT !.cancel = v]]
      BY <1>6 DEF Cancel
    <3>3. QED
      BY <1>6, <3>1, <3>2 DEF Cancel, IInv, TypeOK, Fences
  <2>2. QED
    BY <2>1 DEF ReadyIsCommittedByHolder, IInv
<1>7. ASSUME state' = state, fence' = fence, writer' = writer
      PROVE  ReadyIsCommittedByHolder'
  BY <1>7 DEF ReadyIsCommittedByHolder, IInv
<1>8. QED
  BY <1>1, <1>3, <1>4, <1>5, <1>6, <1>7
     DEF Next, BuildOp, Tombstone, BindProfile, Tick, vars

LEMMA InvStep == IInv /\ [Next]_vars => IInv'
  BY TypeStep, OutboxStep, CompleteStep, HolderStep DEF IInv

(* Every reachable state of the ledger satisfies the inductive invariant.  *)
THEOREM LedgerInvariant == Spec => []IInv
  BY InitInv, InvStep, PTL DEF Spec

(* Every column keeps its type, whatever calls are made (store.go).        *)
THEOREM TypeCorrect == Spec => []TypeOK
  BY LedgerInvariant, PTL DEF IInv

(* The outbox is at all times the set of announcements of the READY rows:  *)
(* commitReady is the only writer of either.                               *)
THEOREM AnnouncesWhatItDecided == Spec => []OutboxMatchesReady
  BY LedgerInvariant, PTL DEF IInv

(* READY only with the chunk manifest and all three lanes (commitReady).   *)
THEOREM ReadyHasEverything == Spec => []ReadyIsComplete
  BY LedgerInvariant, PTL DEF IInv

(* The fence a READY row shows is the one of the attempt that committed it,*)
(* and no earlier writer has a newer epoch (Claim, mutate).                *)
THEOREM ReadyByHolder == Spec => []ReadyIsCommittedByHolder
  BY LedgerInvariant, PTL DEF IInv

-----------------------------------------------------------------------------
(* Action properties.  Each is a consequence of the invariant in the state *)
(* a step starts from.                                                     *)

(* What a stored value is, a later call under any attempt leaves it        *)
(* (bindProfile, Claim, recordChunks, RecordLane, commitReady).            *)
THEOREM EvidenceIsWrittenOnce == Spec => WrittenOnce
<1> DEFINE P ==
      /\ \A b \in Builds :
           /\ input[b]  # None => input'[b]  = input[b]
           /\ chunks[b] # None => chunks'[b] = chunks[b]
           /\ result[b] # None => result'[b] = result[b]
           /\ \A l \in Lanes : lanes[b][l] # None => lanes'[b][l] = lanes[b][l]
      /\ \A p \in Profiles : profile[p] # None => profile'[p] = profile[p]
<1>1. ASSUME IInv, [Next]_vars PROVE P
  <2> USE <1>1 DEF IInv, TypeOK, row, evidence
  <2>1. ASSUME NEW b \in Builds, NEW i \in Inputs, NEW f \in Fences, InsertBuild(b, i, f)
        PROVE  P
    BY <2>1 DEF InsertBuild, RowIsWhole
  <2>2. ASSUME NEW b \in Builds, NEW f \in Fences, NEW r \in Refs, RecordChunks(b, f, r)
        PROVE  P
    BY <2>2 DEF RecordChunks
  <2>3. ASSUME NEW b \in Builds, NEW f \in Fences, NEW r \in Refs, NEW l \in Lanes,
               RecordLane(b, f, l, r)
        PROVE  P
    BY <2>3 DEF RecordLane
  <2>4. ASSUME NEW b \in Builds, NEW f \in Fences, NEW r \in Refs, CommitReady(b, f, r)
        PROVE  P
    BY <2>4 DEF CommitReady, Writable, ReadyIsComplete
  <2>5. ASSUME NEW p \in Profiles, NEW h \in Hashes, BindProfile(p, h)
        PROVE  P
    BY <2>5 DEF BindProfile
  <2>6. ASSUME UNCHANGED <<input, evidence, profile>>
        PROVE  P
    BY <2>6
  <2>7. QED
    BY <2>1, <2>2, <2>3, <2>4, <2>5, <2>6
       DEF Next, BuildOp, Claim, ReclaimBuild, Cancel, Tombstone, Tick, vars
<1>2. QED
  BY <1>1, LedgerInvariant, PTL DEF Spec, WrittenOnce

(* No evidence is written, and no build becomes READY, under a lease that  *)
(* has run out: only a claim with a running lease reopens the build        *)
(* (guardWrite, the last statement of mutate, Claim).                      *)
THEOREM ExpiredLeasesAreFenced == Spec => ExpiredLeaseWritesNothing
<1> DEFINE P == \A b \in Builds : fence[b].expiry <= clock =>
       /\ UNCHANGED <<chunks[b], lanes[b], result[b]>>
       /\ state'[b] = "READY" => state[b] = "READY"
       /\ fence'[b] # fence[b] => state'[b] = "CANCELLED" \/ fence'[b].expiry > clock
<1>1. ASSUME IInv, [Next]_vars PROVE P
  <2> USE <1>1 DEF IInv, TypeOK, row, evidence
  <2>1. ASSUME NEW b \in Builds, NEW i \in Inputs, NEW f \in Fences, Claim(b, i, f)
        PROVE  P
    BY <2>1 DEF Claim, InsertBuild, ReclaimBuild
  <2>2. ASSUME NEW b \in Builds, Writable(b), fence' = fence,
               \A c \in Builds \ {b} : UNCHANGED <<state[c], chunks[c], lanes[c], result[c]>>
        PROVE  P
    <3>1. fence[b].expiry \in Nat /\ fence[b].expiry > clock
      BY <2>2, BoundsAssumption DEF Writable, RowIsWhole, Fences
    <3>2. clock \in Nat
      BY BoundsAssumption
    <3>3. ~(fence[b].expiry <= clock)
      BY <3>1, <3>2
    <3>4. QED
      BY <2>2, <3>3
  <2>3. ASSUME NEW b \in Builds, NEW f \in Fences, NEW r \in Refs,
               \/ RecordChunks(b, f, r)
               \/ \E l \in Lanes : RecordLane(b, f, l, r)
               \/ CommitReady(b, f, r)
        PROVE  P
    BY <2>2, <2>3 DEF RecordChunks, RecordLane, CommitReady
  <2>4. ASSUME NEW b \in Builds, NEW v \in 1..MaxCancel, Cancel(b, v)
        PROVE  P
    BY <2>4 DEF Cancel
  <2>5. ASSUME UNCHANGED <<row, evidence>>
        PROVE  P
    BY <2>5
  <2>6. QED
    BY <2>1, <2>3, <2>4, <2>5 DEF Next, BuildOp, Tombstone, BindProfile, Tick, vars
<1>2. QED
  BY <1>1, LedgerInvariant, PTL DEF Spec, ExpiredLeaseWritesNothing

(* Evidence is recorded by the holder of the newest claim only, and the    *)
(* newest claim never goes back (Claim, mutate).                           *)
THEOREM StaleAttemptsAreFenced == Spec => StaleAttemptsWriteNothing
<1> DEFINE P == \A b \in Builds :
       /\ <<chunks[b], lanes[b], result[b]>>' # <<chunks[b], lanes[b], result[b]>>
            => writer'[b] = Token(fence[b])
       /\ fence'[b].epoch >= fence[b].epoch
       /\ state[b] # "ABSENT" /\ fence'[b].epoch = fence[b].epoch
            => fence'[b].attempt = fence[b].attempt
<1>1. ASSUME IInv, [Next]_vars PROVE P
  <2> USE <1>1 DEF IInv, TypeOK, row, evidence
  <2>1. \A b \in Builds : fence[b].epoch \in Nat
    BY BoundsAssumption, NoFenceIsNoFence DEF Fences
  <2>2. ASSUME NEW b \in Builds, NEW i \in Inputs, NEW f \in Fences, InsertBuild(b, i, f)
        PROVE  P
    <3>1. fence[b].epoch = 0 /\ f.epoch \in Nat
      BY <2>2, BoundsAssumption, NoFenceIsNoFence DEF InsertBuild, RowIsWhole, Fences
    <3>2. QED
      BY <2>1, <2>2, <3>1 DEF InsertBuild
  <2>3. ASSUME NEW b \in Builds, NEW i \in Inputs, NEW f \in Fences, ReclaimBuild(b, i, f)
        PROVE  P
    BY <2>1, <2>3 DEF ReclaimBuild, Supersedes
  <2>4. ASSUME NEW b \in Builds, NEW f \in Fences, Held(b, f), fence' = fence,
               writer' = [writer EXCEPT ![b] = Token(f)],
               \A c \in Builds \ {b} : UNCHANGED <<chunks[c], lanes[c], result[c]>>
        PROVE  P
    BY <2>1, <2>4 DEF Held
  <2>5. ASSUME NEW b \in Builds, NEW f \in Fences, NEW r \in Refs,
               \/ RecordChunks(b, f, r)
               \/ \E l \in Lanes : RecordLane(b, f, l, r)
               \/ CommitReady(b, f, r)
        PROVE  P
    BY <2>4, <2>5 DEF RecordChunks, RecordLane, CommitReady
  <2>6. ASSUME NEW b \in Builds, NEW v \in 1..MaxCancel, Cancel(b, v)
        PROVE  P
    <3>1. fence[b] \in Fences
      BY <2>6 DEF Cancel, RowIsWhole
    <3>2. fence' = [fence EXCEPT ![b] = [fence[b] EXCEPT !.cancel = v]]
      BY <2>6 DEF Cancel
    <3>3. \A c \in Builds : /\ fence'[c].epoch = fence[c].epoch
                            /\ fence'[c].attempt = fence[c].attempt
      BY <3>1, <3>2 DEF Fences
    <3>4. QED
      BY <2>1, <2>6, <3>3 DEF Cancel
  <2>7. ASSUME UNCHANGED <<row, evidence>>
        PROVE  P
    BY <2>1, <2>7
  <2>8. QED
    BY <2>2, <2>3, <2>5, <2>6, <2>7
       DEF Next, BuildOp, Claim, Tombstone, BindProfile, Tick, vars
<1>2. QED
  BY <1>1, LedgerInvariant, PTL DEF Spec, StaleAttemptsWriteNothing

(* A build of an invalidated revision can only be cancelled, and no event  *)
(* takes a tombstone back (checkRevisions in Claim and mutate, Tombstone). *)
THEOREM InvalidationSticks == Spec => InvalidationIsFinal
<1> DEFINE Frozen ==
      \A b \in Builds : state[b] # "ABSENT" /\ Invalidated(input[b]) =>
          \/ UNCHANGED <<state[b], fence[b], chunks[b], lanes[b], result[b]>>
          \/ state'[b] = "CANCELLED" /\ UNCHANGED <<chunks[b], lanes[b], result[b]>>
    Kept ==
      \A r \in Revisions :
          /\ tombstone'[r].version >= tombstone[r].version
          /\ tombstone'[r].version = tombstone[r].version
               => tombstone'[r] = tombstone[r]
<1>1. ASSUME IInv, [Next]_vars PROVE Frozen
  <2> USE <1>1 DEF IInv, TypeOK, row, evidence
  <2>1. ASSUME NEW b \in Builds, ~(state[b] # "ABSENT" /\ Invalidated(input[b])),
               \A c \in Builds \ {b} :
                 UNCHANGED <<state[c], fence[c], chunks[c], lanes[c], result[c]>>
        PROVE  Frozen
    BY <2>1
  <2>2. ASSUME NEW b \in Builds, NEW i \in Inputs, NEW f \in Fences, Claim(b, i, f)
        PROVE  Frozen
    BY <2>1, <2>2 DEF Claim, InsertBuild, ReclaimBuild
  <2>3. ASSUME NEW b \in Builds, NEW f \in Fences, NEW r \in Refs,
               \/ RecordChunks(b, f, r)
               \/ \E l \in Lanes : RecordLane(b, f, l, r)
               \/ CommitReady(b, f, r)
        PROVE  Frozen
    BY <2>1, <2>3 DEF RecordChunks, RecordLane, CommitReady, Held
  <2>4. ASSUME NEW b \in Builds, NEW v \in 1..MaxCancel, Cancel(b, v)
        PROVE  Frozen
    BY <2>4 DEF Cancel
  <2>5. ASSUME UNCHANGED <<row, evidence>>
        PROVE  Frozen
    BY <2>5
  <2>6. QED
    BY <2>2, <2>3, <2>4, <2>5 DEF Next, BuildOp, Tombstone, BindProfile, Tick, vars
<1>2. ASSUME IInv, [Next]_vars PROVE Kept
  <2>1. \A r \in Revisions : tombstone[r].version \in Nat
    BY <1>2, BoundsAssumption DEF IInv, TypeOK, Marks, NoMark
  <2>2. ASSUME NEW r \in Revisions, NEW v \in 1..MaxVersion, NEW h \in Hashes, Tombstone(r, v, h)
        PROVE  Kept
    BY <1>2, <2>1, <2>2, BoundsAssumption DEF Tombstone, IInv, TypeOK
  <2>3. CASE UNCHANGED tombstone
    BY <2>1, <2>3
  <2>4. QED
    BY <1>2, <2>2, <2>3
       DEF Next, BuildOp, Claim, InsertBuild, ReclaimBuild, RecordChunks, RecordLane,
           CommitReady, Cancel, BindProfile, Tick, vars
<1>3. QED
  BY <1>1, <1>2, LedgerInvariant, PTL DEF Spec, InvalidationIsFinal

-----------------------------------------------------------------------------
(* Refinement of BuildOutcome: READY is Accept, CANCELLED is Withdraw, and *)
(* every other step of the ledger is a stutter.                            *)

LEMMA SameDecision ==
  ASSUME IInv, outbox' = outbox,
         \A b \in Builds :
           /\ state'[b] # state[b] => {state[b], state'[b]} \subseteq {"ABSENT", "BUILDING"}
           /\ result'[b] = result[b]
  PROVE  UNCHANGED Outcome!vars
<1>1. ASSUME NEW b \in Builds PROVE Decision(b)' = Decision(b)
  <2>1. CASE state'[b] = state[b]
    <3>1. result'[b] = result[b]
      OBVIOUS
    <3>2. CASE state[b] = "READY"
      BY <2>1, <3>1, <3>2 DEF Decision
    <3>3. CASE state[b] # "READY"
      BY <2>1, <3>3 DEF Decision
    <3>4. QED
      BY <3>2, <3>3
  <2>2. CASE state'[b] # state[b]
    <3>1. state[b] \notin {"READY", "CANCELLED"} /\ state'[b] \notin {"READY", "CANCELLED"}
      BY <2>2
    <3>2. QED
      BY <3>1 DEF Decision
  <2>3. QED
    BY <2>1, <2>2
<1>2. QED
  BY <1>1 DEF Outcome!vars

LEMMA RefinementInit == Init => Outcome!Init
<1> SUFFICES ASSUME Init PROVE Outcome!Init
  OBVIOUS
<1>1. \A b \in Builds : Decision(b) = Outcome!Open
  BY DEF Init, Decision, Outcome!Open
<1>2. {<<e.build, e.result>> : e \in outbox} = {}
  BY DEF Init
<1>3. QED
  BY <1>1, <1>2 DEF Outcome!Init

LEMMA RefinementStep == IInv /\ [Next]_vars => [Outcome!Next]_(Outcome!vars)
<1> SUFFICES ASSUME IInv, [Next]_vars PROVE [Outcome!Next]_(Outcome!vars)
  OBVIOUS
<1> USE DEF IInv, TypeOK, row, evidence
<1>1. ASSUME NEW b \in Builds, NEW i \in Inputs, NEW f \in Fences, Claim(b, i, f)
      PROVE  UNCHANGED Outcome!vars
  BY <1>1, SameDecision DEF Claim, InsertBuild, ReclaimBuild
<1>2. ASSUME NEW b \in Builds, NEW f \in Fences, NEW r \in Refs, CommitReady(b, f, r)
      PROVE  Outcome!Accept(b, r)
  <2> DEFINE e == [build |-> b, input |-> input[b], fence |-> fence[b], result |-> r]
  <2>1. state[b] = "BUILDING" /\ outbox' = outbox \cup {e}
    BY <1>2 DEF CommitReady, Writable
  <2>2. Decision(b) = Outcome!Open
    BY <2>1 DEF Decision, Outcome!Open
  <2>3. state'[b] = "READY" /\ result'[b] = r
    BY <1>2 DEF CommitReady
  <2>4. Decision(b)' = Outcome!Ready(r)
    BY <2>3 DEF Decision, Outcome!Ready
  <2>5. \A c \in Builds \ {b} : Decision(c)' = Decision(c)
    BY <1>2 DEF CommitReady, Decision
  <2>6. {<<x.build, x.result>> : x \in outbox'}
          = {<<x.build, x.result>> : x \in outbox} \cup {<<b, r>>}
    <3>1. e.build = b /\ e.result = r
      OBVIOUS
    <3>2. QED
      BY <2>1, <3>1
  <2>7. QED
    BY <2>2, <2>4, <2>5, <2>6 DEF Outcome!Accept
<1>3. ASSUME NEW b \in Builds, NEW v \in 1..MaxCancel, Cancel(b, v)
      PROVE  Outcome!Withdraw(b)
  <2>1. state[b] = "BUILDING" /\ state'[b] = "CANCELLED" /\ outbox' = outbox
    BY <1>3 DEF Cancel
  <2>2. Decision(b) = Outcome!Open /\ Decision(b)' = Outcome!Cancelled
    BY <2>1 DEF Decision, Outcome!Open, Outcome!Cancelled
  <2>3. \A c \in Builds \ {b} : Decision(c)' = Decision(c)
    BY <1>3 DEF Cancel, Decision
  <2>4. QED
    BY <2>1, <2>2, <2>3 DEF Outcome!Withdraw
<1>4. ASSUME UNCHANGED <<state, result, outbox>>
      PROVE  UNCHANGED Outcome!vars
  BY <1>4, SameDecision
<1>5. QED
  BY <1>1, <1>2, <1>3, <1>4
     DEF Next, BuildOp, RecordChunks, RecordLane, Tombstone, BindProfile, Tick, vars,
         Outcome!Next

(* The ledger implements BuildOutcome for any builds, callers and bounds:  *)
(* at most one decision, announced in the transaction that takes it.       *)
THEOREM LedgerImplementsOutcome == Spec => ImplementsOutcome
  BY RefinementInit, RefinementStep, LedgerInvariant, PTL
     DEF Spec, ImplementsOutcome, Outcome!Spec

=============================================================================
