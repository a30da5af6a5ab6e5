----------------------------- MODULE FactDelivery -----------------------------
(***************************************************************************)
(* FactWorker (app/fact_worker.go): workers of one consumer carry the      *)
(* events of one DataCenter producer into the user fact ledger and         *)
(* acknowledge a batch only when every fact of it is accepted.             *)
(*                                                                         *)
(* Between the read of a batch, the commit of each fact, the read of its   *)
(* current receipt and the acknowledgement, other workers and other routes *)
(* into the ledger take steps; a worker can crash or lose a call anywhere. *)
(* DataCenter is not part of the repository; its stream and cursor are     *)
(* modelled from the calls the worker makes.                               *)
(***************************************************************************)
EXTENDS FactLedger

CONSTANTS
  Workers,      \* processes that poll for this consumer
  Stream,       \* offset -> [subject, envelope] the trusted binder makes of it
  BatchLimit,   \* events one read returns at most
  OtherFacts,   \* <<subject, envelope>> that reach the ledger another way
  MaxFaults     \* bound on crashes and lost calls

ASSUME DeliveryAssumption ==
  /\ BatchLimit \in 1..128
  /\ Stream \in Seq([subject : Subjects, envelope : Envelopes])
  /\ \A o \in DOMAIN Stream : Stream[o].envelope.seq = o
  /\ OtherFacts \subseteq Subjects \X Envelopes
  /\ MaxFaults \in Nat

VARIABLES
  published,    \* offsets DataCenter has accepted
  cursor,       \* offset DataCenter has seen acknowledged
  worker,       \* where each worker is in RunOnce
  faults        \* crashes and lost calls so far

deliveryVars == <<published, cursor, worker, faults>>
allVars == <<vars, deliveryVars>>

NoReceipt == [status |-> "none", version |-> 0, replay |-> FALSE]
Idle == [pc |-> "idle", from |-> 0, to |-> 0, next |-> 0, receipt |-> NoReceipt]

Due(w)         == Stream[worker[w].next]
LedgerOf(w)    == ledger[Due(w).subject]
KeyOf(w)       == Due(w).envelope.key
Stop(w)        == worker' = [worker EXCEPT ![w] = Idle]

-------------------------------------------------------------------------------
(* DataCenter, and the other routes into the ledger.                       *)

Publish ==
  /\ published < Len(Stream)
  /\ published' = published + 1
  /\ UNCHANGED <<vars, cursor, worker, faults>>

OtherRoute ==
  /\ \E f \in OtherFacts : AppendFact(f[1], f[2])
  /\ UNCHANGED deliveryVars

-------------------------------------------------------------------------------
(* Bugs of the definitions below, which only show that the properties can  *)
(* fail: a waiting fact that counts as delivered, and a first receipt that *)
(* must still hold.                                                        *)
ProvesWhatIsStored(receipt, current) == current.status # "conflict"
ProvesFirstReceipt(receipt, current) ==
  current.status = "accepted" /\ receipt.status = "accepted"

(* RunOnce.  A read leaves the cursor where it is; an empty batch changes  *)
(* nothing.                                                                *)

ReadEvents(w) ==
  /\ worker[w].pc = "idle"
  /\ cursor < published
  /\ worker' = [worker EXCEPT ![w] =
                  [Idle EXCEPT !.pc = "commit", !.from = cursor + 1, !.next = cursor + 1,
                               !.to = Min({cursor + BatchLimit, published})]]
  /\ UNCHANGED <<vars, published, cursor, faults>>

(* graph.Append: the fact is committed, or found, or refused.              *)
CommitFact(w) ==
  /\ worker[w].pc = "commit"
  /\ LET tx == AppendTx(LedgerOf(w), Due(w).envelope)
     IN  /\ ledger' = [ledger EXCEPT ![Due(w).subject] = tx.ledger]
         /\ \/ /\ tx.receipt = Conflict
               /\ Stop(w)
            \/ /\ tx.receipt # Conflict
               /\ worker' = [worker EXCEPT ![w].pc = "receipt",
                                           ![w].receipt = tx.receipt]
  /\ UNCHANGED <<parked, binding, published, cursor, faults>>

(* The receipt of the append and the current one agree on an accepted      *)
(* fact, or the append found it waiting before it was promoted.  Anything  *)
(* else ends RunOnce with an error.                                        *)
Proves(receipt, current) ==
  /\ current.status = "accepted"
  /\ \/ receipt.status = "pending_dependency"
     \/ receipt.status = "accepted" /\ receipt.version = current.version

CheckReceipt(w) ==
  /\ worker[w].pc = "receipt"
  /\ LET current == CurrentReceipt(LedgerOf(w), KeyOf(w))
         receipt == worker[w].receipt
     IN  \/ /\ Proves(receipt, current)
            /\ worker' = [worker EXCEPT
                            ![w].pc = IF worker[w].next = worker[w].to
                                        THEN "ack" ELSE "commit",
                            ![w].next = IF @ = worker[w].to THEN @ ELSE @ + 1,
                            ![w].receipt = NoReceipt]
         \/ /\ ~Proves(receipt, current)
            /\ Stop(w)
  /\ UNCHANGED <<vars, published, cursor, faults>>

(* DataCenter takes an acknowledgement that starts where its cursor is.    *)
AcknowledgeEvents(w) ==
  /\ worker[w].pc = "ack"
  /\ cursor' = IF worker[w].from = cursor + 1 THEN worker[w].to ELSE cursor
  /\ Stop(w)
  /\ UNCHANGED <<vars, published, faults>>

(* A crash, a cancelled context, a call that fails or a binder that finds  *)
(* no trusted source; RunOnce starts anew.  A lost reply is the same after *)
(* the step it answers.                                                    *)
Fail(w) ==
  /\ worker[w].pc # "idle"
  /\ faults < MaxFaults
  /\ faults' = faults + 1
  /\ Stop(w)
  /\ UNCHANGED <<vars, published, cursor>>

-------------------------------------------------------------------------------

DeliveryInit ==
  /\ Init
  /\ published = 0
  /\ cursor = 0
  /\ worker = [w \in Workers |-> Idle]
  /\ faults = 0

Step(w) == ReadEvents(w) \/ CommitFact(w) \/ CheckReceipt(w) \/ AcknowledgeEvents(w)

DeliveryNext ==
  \/ Publish
  \/ OtherRoute
  \/ \E w \in Workers : Step(w) \/ Fail(w)

DeliverySpec == DeliveryInit /\ [][DeliveryNext]_allVars

(* poll runs RunOnce again and again whatever it returned, and every call  *)
(* of it ends: a worker that can go on does (weak fairness of Step(w),     *)
(* spelled out; it can go on unless it is idle and all is acknowledged).   *)
(* The source publishes what it holds, and a fact of another route that one*)
(* of the stream waits for arrives.                                        *)
CanStep(w) == worker[w].pc = "idle" => cursor < published

Awaited(e) == \E o \in DOMAIN Stream : Stream[o].envelope.supersedes = e.key

Fairness ==
  /\ \A w \in Workers : []<>(~CanStep(w)) \/ []<><<worker[w]' # worker[w]>>_allVars
  /\ WF_allVars(Publish)
  /\ \A f \in OtherFacts :
       Awaited(f[2]) => <>(f[2].key \in Stored(ledger[f[1]]))

FairDeliverySpec == DeliverySpec /\ Fairness

-------------------------------------------------------------------------------
(* Properties.                                                             *)

(* What DataCenter has seen acknowledged is in the ledger of its subject,  *)
(* accepted and announced in the outbox: neither a crash, a lost call, a   *)
(* second worker nor a waiting fact in the middle of a batch lets the      *)
(* cursor pass a fact that was not accepted (RunOnce).                     *)
AcknowledgedIsAccepted ==
  \A o \in 1..cursor :
    LET l == ledger[Stream[o].subject]
        e == Stream[o].envelope
    IN  /\ e.key \in Stored(l) /\ Envelope(l, e.key) = e
        /\ CurrentReceipt(l, e.key).status = "accepted"

(* A second payload came under the key of a fact of the stream first.      *)
Contested ==
  \E o \in DOMAIN Stream :
    LET l == ledger[Stream[o].subject]
        e == Stream[o].envelope
    IN  e.key \in Stored(l) /\ Envelope(l, e.key) # e

(* Once every predecessor has come, the whole stream is acknowledged; only *)
(* a second payload under a key of the stream stops it, and then for good. *)
EverythingIsDelivered == <>[](cursor = Len(Stream)) \/ <>Contested
===============================================================================
