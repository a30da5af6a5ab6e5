--------------------------- MODULE ContentLedger ---------------------------
(***************************************************************************)
(* The content build ledger of the async domain                            *)
(* (service/async/rpc/internal/content/store.go): the PostgreSQL rows that *)
(* decide, once and for all, what a content build produced.                *)
(*                                                                         *)
(* Every operation of Store runs in one transaction that first takes the   *)
(* advisory lock of the module and re-reads the row FOR UPDATE, so it is   *)
(* one action here.  An operation that fails rolls back: it is the absence *)
(* of a step.  An operation that succeeds without changing a row (a replay *)
(* of what is already stored) is a stuttering step.                        *)
(*                                                                         *)
(* The callers are arbitrary: any fence may be presented at any time, so   *)
(* the model contains every stale, repeated and reordered call a crashed,  *)
(* paused or superseded worker can make.                                   *)
(***************************************************************************)
EXTENDS Naturals

CONSTANTS
  Builds,        \* build ids
  Inputs,        \* immutable build inputs (module, release, generation, ...)
  Revisions,     \* (module, revision) pairs
  RevisionsOf,   \* the revisions an input is built from
  Attempts,      \* attempt ids granted by the Data Center
  Refs,          \* content-addressed object references
  Hashes,        \* payload hashes of tombstones and profile definitions
  Profiles,      \* chunk profile ids
  MaxEpoch,      \* bound: lease epochs are 1..MaxEpoch
  MaxCancel,     \* bound: cancellation versions are 0..MaxCancel
  MaxVersion,    \* bound: tombstone versions are 1..MaxVersion
  MaxTime,       \* bound: the clock stops at MaxTime
  None           \* an SQL NULL or a missing row

ASSUME RevisionsAssumption ==
  RevisionsOf \in [Inputs -> (SUBSET Revisions) \ {{}}]
ASSUME BoundsAssumption ==
  {MaxEpoch, MaxCancel, MaxVersion, MaxTime} \subseteq Nat
ASSUME NoneAssumption ==
  None \notin Inputs \cup Refs \cup Hashes

VARIABLES
  state,      \* content_builds.state, "ABSENT" before the first claim
  input,      \* content_builds: the BuildInput columns
  fence,      \* content_builds: the Fence columns
  chunks,     \* content_builds.chunks
  lanes,      \* content_build_lanes
  result,     \* content_builds.result
  outbox,     \* content_outbox: event_id is the hash of the payload
  tombstone,  \* content_tombstones
  profile,    \* content_chunk_profiles
  clock,      \* clock_timestamp() of the database
  writer      \* history: the fence token under which evidence was last written

row    == <<state, input, fence>>
evidence == <<chunks, lanes, result>>
vars == <<state, input, fence, chunks, lanes, result, outbox, tombstone,
          profile, clock, writer>>

Lanes  == {"dense", "sparse", "multivector"}
States == {"ABSENT", "BUILDING", "READY", "CANCELLED"}
Fences == [attempt : Attempts, epoch : 1..MaxEpoch, cancel : 0..MaxCancel,
           expiry : 1..MaxTime]
Tokens == [attempt : Attempts, epoch : 1..MaxEpoch, cancel : 0..MaxCancel]
Events == [build : Builds, input : Inputs, fence : Fences, result : Refs]
Marks  == [version : 1..MaxVersion, hash : Hashes]
NoMark  == [version |-> 0, hash |-> None]
NoFence == [attempt |-> None, epoch |-> 0, cancel |-> 0, expiry |-> 0]
NoToken == [attempt |-> None, epoch |-> 0, cancel |-> 0]

Token(f) == [attempt |-> f.attempt, epoch |-> f.epoch, cancel |-> f.cancel]

(* checkRevisions: some revision of the input has a tombstone.             *)
Invalidated(i) == \E r \in RevisionsOf[i] : tombstone[r] # NoMark

(* Bugs of the guards below, which only show that the properties can fail. *)
HeldThoughInvalidated(b, f) ==
  /\ state[b] # "ABSENT"
  /\ Token(fence[b]) = Token(f)
WritableThoughExpired(b) == state[b] = "BUILDING"
WritableThoughDecided(b) == state[b] # "ABSENT" /\ fence[b].expiry > clock
SupersedesByEpochOnly(f, g) == f.epoch >= g.epoch /\ f.cancel = g.cancel

(* The caller's fence is the one the row stores; expiry is not compared.   *)
Held(b, f) ==
  /\ state[b] # "ABSENT"
  /\ Token(fence[b]) = Token(f)
  /\ ~Invalidated(input[b])

(* guardWrite and the last statement of mutate: still BUILDING, lease live.*)
Writable(b) == state[b] = "BUILDING" /\ fence[b].expiry > clock

(* A claim replaces the stored fence unless it is older, names another     *)
(* attempt of the same epoch, or carries another cancellation version.     *)
Supersedes(f, g) ==
  /\ f.epoch >= g.epoch
  /\ f.epoch = g.epoch => f.attempt = g.attempt
  /\ f.cancel = g.cancel

-----------------------------------------------------------------------------

Init ==
  /\ state     = [b \in Builds |-> "ABSENT"]
  /\ input     = [b \in Builds |-> None]
  /\ fence     = [b \in Builds |-> NoFence]
  /\ chunks    = [b \in Builds |-> None]
  /\ lanes     = [b \in Builds |-> [l \in Lanes |-> None]]
  /\ result    = [b \in Builds |-> None]
  /\ outbox    = {}
  /\ tombstone = [r \in Revisions |-> NoMark]
  /\ profile   = [p \in Profiles |-> None]
  /\ clock     = 0
  /\ writer    = [b \in Builds |-> NoToken]

(* The first binding of a profile id wins; another definition is refused.  *)
BindProfile(p, h) ==
  /\ profile[p] = None
  /\ profile' = [profile EXCEPT ![p] = h]
  /\ UNCHANGED <<row, evidence, outbox, tombstone, clock, writer>>

(* Claim of a build id never seen before inserts its row.                  *)
InsertBuild(b, i, f) ==
  /\ ~Invalidated(i)
  /\ f.expiry > clock
  /\ state[b] = "ABSENT"
  /\ state' = [state EXCEPT ![b] = "BUILDING"]
  /\ input' = [input EXCEPT ![b] = i]
  /\ fence' = [fence EXCEPT ![b] = f]
  /\ UNCHANGED <<evidence, outbox, tombstone, profile, clock, writer>>

(* Claim of an open build replaces its fence; a closed one is only read.   *)
ReclaimBuild(b, i, f) ==
  /\ ~Invalidated(i)
  /\ f.expiry > clock
  /\ state[b] = "BUILDING"
  /\ input[b] = i
  /\ Supersedes(f, fence[b])
  /\ fence' = [fence EXCEPT ![b] = f]
  /\ UNCHANGED <<state, input, evidence, outbox, tombstone, profile, clock, writer>>

Claim(b, i, f) == InsertBuild(b, i, f) \/ ReclaimBuild(b, i, f)

RecordChunks(b, f, r) ==
  /\ Held(b, f)
  /\ Writable(b)
  /\ chunks[b] = None
  /\ chunks' = [chunks EXCEPT ![b] = r]
  /\ writer' = [writer EXCEPT ![b] = Token(f)]
  /\ UNCHANGED <<row, lanes, result, outbox, tombstone, profile, clock>>

RecordLane(b, f, l, r) ==
  /\ Held(b, f)
  /\ Writable(b)
  /\ chunks[b] # None
  /\ lanes[b][l] = None
  /\ lanes' = [lanes EXCEPT ![b][l] = r]
  /\ writer' = [writer EXCEPT ![b] = Token(f)]
  /\ UNCHANGED <<row, chunks, result, outbox, tombstone, profile, clock>>

CommitReadyWithAnyLane(b, f, r) ==
  /\ Held(b, f)
  /\ Writable(b)
  /\ chunks[b] # None
  /\ \E l \in Lanes : lanes[b][l] # None
  /\ state'  = [state EXCEPT ![b] = "READY"]
  /\ result' = [result EXCEPT ![b] = r]
  /\ outbox' = outbox \cup
       {[build |-> b, input |-> input[b], fence |-> fence[b], result |-> r]}
  /\ writer' = [writer EXCEPT ![b] = Token(f)]
  /\ UNCHANGED <<input, fence, chunks, lanes, tombstone, profile, clock>>
CommitReadyAnnouncingOldRow(b, f, r) ==
  /\ Held(b, f)
  /\ Writable(b)
  /\ chunks[b] # None
  /\ \A l \in Lanes : lanes[b][l] # None
  /\ state'  = [state EXCEPT ![b] = "READY"]
  /\ result' = [result EXCEPT ![b] = r]
  /\ outbox' = outbox \cup
       {[build |-> b, input |-> input[b], fence |-> fence[b], result |-> result[b]]}
  /\ writer' = [writer EXCEPT ![b] = Token(f)]
  /\ UNCHANGED <<input, fence, chunks, lanes, tombstone, profile, clock>>

(* READY and its outbox row are written by the same transaction.           *)
CommitReady(b, f, r) ==
  /\ Held(b, f)
  /\ Writable(b)
  /\ chunks[b] # None
  /\ \A l \in Lanes : lanes[b][l] # None
  /\ state'  = [state EXCEPT ![b] = "READY"]
  /\ result' = [result EXCEPT ![b] = r]
  /\ outbox' = outbox \cup
       {[build |-> b, input |-> input[b], fence |-> fence[b], result |-> r]}
  /\ writer' = [writer EXCEPT ![b] = Token(f)]
  /\ UNCHANGED <<input, fence, chunks, lanes, tombstone, profile, clock>>

CancelDecided(b, v) ==
  /\ state[b] # "ABSENT"
  /\ v > fence[b].cancel
  /\ state' = [state EXCEPT ![b] = "CANCELLED"]
  /\ fence' = [fence EXCEPT ![b].cancel = v]
  /\ UNCHANGED <<input, evidence, outbox, tombstone, profile, clock, writer>>

(* Cancel consumes the authority's cancellation version, fence or not.     *)
Cancel(b, v) ==
  /\ state[b] = "BUILDING"
  /\ v > fence[b].cancel
  /\ state' = [state EXCEPT ![b] = "CANCELLED"]
  /\ fence' = [fence EXCEPT ![b].cancel = v]
  /\ UNCHANGED <<input, evidence, outbox, tombstone, profile, clock, writer>>

Tombstone(r, v, h) ==
  /\ v > tombstone[r].version
  /\ tombstone' = [tombstone EXCEPT ![r] = [version |-> v, hash |-> h]]
  /\ UNCHANGED <<row, evidence, outbox, profile, clock, writer>>

Tick ==
  /\ clock < MaxTime
  /\ clock' = clock + 1
  /\ UNCHANGED <<row, evidence, outbox, tombstone, profile, writer>>

BuildOp(b) ==
  \/ \E i \in Inputs, f \in Fences : Claim(b, i, f)
  \/ \E f \in Fences, r \in Refs :
       \/ RecordChunks(b, f, r)
       \/ \E l \in Lanes : RecordLane(b, f, l, r)
       \/ CommitReady(b, f, r)
  \/ \E v \in 1..MaxCancel : Cancel(b, v)

Next ==
  \/ \E b \in Builds : BuildOp(b)
  \/ \E r \in Revisions, v \in 1..MaxVersion, h \in Hashes : Tombstone(r, v, h)
  \/ \E p \in Profiles, h \in Hashes : BindProfile(p, h)
  \/ Tick

Spec == Init /\ [][Next]_vars

-----------------------------------------------------------------------------

TypeOK ==
  /\ state     \in [Builds -> States]
  /\ input     \in [Builds -> Inputs \cup {None}]
  /\ fence     \in [Builds -> Fences \cup {NoFence}]
  /\ chunks    \in [Builds -> Refs \cup {None}]
  /\ lanes     \in [Builds -> [Lanes -> Refs \cup {None}]]
  /\ result    \in [Builds -> Refs \cup {None}]
  /\ outbox    \subseteq Events
  /\ tombstone \in [Revisions -> Marks \cup {NoMark}]
  /\ profile   \in [Profiles -> Hashes \cup {None}]
  /\ clock     \in 0..MaxTime
  /\ writer    \in [Builds -> Tokens \cup {NoToken}]

(* The outbox holds exactly one event for every READY build and none for   *)
(* any other, and it still names the input, fence and result the row has:  *)
(* neither a replayed commit, a later claim nor a late cancellation can    *)
(* make what was announced differ from what is stored.                     *)
Announcement(b) ==
  [build |-> b, input |-> input[b], fence |-> fence[b], result |-> result[b]]
OutboxMatchesReady ==
  outbox = {Announcement(b) : b \in {c \in Builds : state[c] = "READY"}}

(* A READY build has its chunk manifest and all three lanes; no lane was   *)
(* recorded before the chunks it is built from; only READY has a result.   *)
ReadyIsComplete ==
  \A b \in Builds :
    /\ state[b] = "READY" => chunks[b] # None /\ \A l \in Lanes : lanes[b][l] # None
    /\ result[b] # None <=> state[b] = "READY"
    /\ (\E l \in Lanes : lanes[b][l] # None) => chunks[b] # None

(* Fencing: whoever wrote last wrote under an epoch no newer than the one  *)
(* the row shows, two attempts never share an epoch, and a READY row shows *)
(* the very fence of the caller that committed it.                         *)
ReadyIsCommittedByHolder ==
  \A b \in Builds :
    /\ writer[b].epoch <= fence[b].epoch
    /\ writer[b] # NoToken /\ writer[b].epoch = fence[b].epoch
         => writer[b].attempt = fence[b].attempt
    /\ state[b] = "READY" => writer[b] = Token(fence[b])

(* A step that records evidence is taken by the holder of the newest claim,*)
(* and the newest claim never goes back to an older epoch or to another    *)
(* attempt of the same epoch.                                              *)
StaleAttemptsWriteNothing ==
  [][\A b \in Builds :
       /\ <<chunks[b], lanes[b], result[b]>>' # <<chunks[b], lanes[b], result[b]>>
            => writer'[b] = Token(fence[b])
       /\ fence'[b].epoch >= fence[b].epoch
       /\ state[b] # "ABSENT" /\ fence'[b].epoch = fence[b].epoch
            => fence'[b].attempt = fence[b].attempt]_vars

(* Chunks, lanes, result, input and profile definitions are written once:  *)
(* a retry under any attempt meets what an earlier attempt left.           *)
WrittenOnce ==
  [][/\ \A b \in Builds :
          /\ input[b]  # None => input'[b]  = input[b]
          /\ chunks[b] # None => chunks'[b] = chunks[b]
          /\ result[b] # None => result'[b] = result[b]
          /\ \A l \in Lanes : lanes[b][l] # None => lanes'[b][l] = lanes[b][l]
     /\ \A p \in Profiles : profile[p] # None => profile'[p] = profile[p]]_vars

(* Once a revision of its input has a tombstone, nothing happens to a      *)
(* build any more but its cancellation, and no later or duplicated         *)
(* invalidation event removes the tombstone or takes its version back.     *)
InvalidationIsFinal ==
  [][/\ \A b \in Builds : state[b] # "ABSENT" /\ Invalidated(input[b]) =>
          \/ UNCHANGED <<state[b], fence[b], chunks[b], lanes[b], result[b]>>
          \/ state'[b] = "CANCELLED" /\ UNCHANGED <<chunks[b], lanes[b], result[b]>>
     /\ \A r \in Revisions :
          /\ tombstone'[r].version >= tombstone[r].version
          /\ tombstone'[r].version = tombstone[r].version
               => tombstone'[r] = tombstone[r]]_vars

(* Under an expired lease no evidence and no READY is written; only a new  *)
(* claim, with a lease that is still running, reopens the build.           *)
ExpiredLeaseWritesNothing ==
  [][\A b \in Builds : fence[b].expiry <= clock =>
       /\ UNCHANGED <<chunks[b], lanes[b], result[b]>>
       /\ state'[b] = "READY" => state[b] = "READY"
       /\ fence'[b] # fence[b] => state'[b] = "CANCELLED" \/ fence'[b].expiry > clock]_vars

(* The ledger implements BuildOutcome: a build is decided at most once and *)
(* announced in the deciding step, whatever the callers do.                *)
Decision(b) ==
  CASE state[b] = "READY"     -> [kind |-> "ready", ref |-> result[b]]
    [] state[b] = "CANCELLED" -> [kind |-> "cancelled"]
    [] OTHER                  -> [kind |-> "open"]
Outcome == INSTANCE BuildOutcome WITH
  outcome   <- [b \in Builds |-> Decision(b)],
  announced <- {<<e.build, e.result>> : e \in outbox}
ImplementsOutcome == Outcome!Spec

=============================================================================
