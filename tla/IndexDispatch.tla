--------------------------- MODULE IndexDispatch ---------------------------
(***************************************************************************)
(* From one locally committed index generation to both remote authorities: *)
(* the index workers of the async domain (app/index_worker.go,             *)
(* app/index_worker_dispatch.go, app/build_fence.go), the dispatch row     *)
(* they share (content/index_dispatch.go), and the two services they talk  *)
(* to.  RTW (RideTheWind) owns the build: it grants build-wide fences and  *)
(* accepts one READY artifact.  DC (DataCenter) owns the technical job: it *)
(* leases attempts and takes their result.  Both are modelled only as far  *)
(* as the code relies on them.                                             *)
(*                                                                         *)
(* A worker repeats RunOnce: first it tries to deliver a pending READY     *)
(* (the scanner), otherwise it leases a DC attempt and processes it, which *)
(* ends in a scan of its own build.  A step is one database statement, one *)
(* transaction or one remote call; a worker may crash between any two and  *)
(* starts again with RunOnce.  A request that got no answer stays in       *)
(* flight and may take effect later, or never.                             *)
(*                                                                         *)
(* The BTW fence of an attempt has the expiry of its DC lease, in DC, in   *)
(* RTW and in the ledger, so a lease is one flag per attempt.  The epoch   *)
(* counter claim_epoch of the dispatch row is compared for equality only,  *)
(* so the row names the worker whose claim is the newest one.              *)
(***************************************************************************)
EXTENDS Naturals, FiniteSets

CONSTANTS
  Workers,      \* index worker processes
  Jobs,         \* DC technical jobs that name this build
  MaxAttempts,  \* Request.MaxAttempts of a job
  Withdraws,    \* bound: the authorities ("rtw", "dc") that may withdraw their part
  ClockMargin,  \* whether workers may count a lease as over before the services do
  None          \* an SQL NULL or a missing row

Attempts == [job : Jobs, n : 1..MaxAttempts]
MaxEpoch == Cardinality(Jobs) * MaxAttempts
Fences   == [attempt : Attempts \cup {None}, epoch : 0..MaxEpoch]

ASSUME AttemptsAssumption ==
  /\ MaxAttempts \in Nat /\ IsFiniteSet(Jobs) /\ ClockMargin \in BOOLEAN
  /\ None \notin Workers \cup Attempts

VARIABLES
  ledger,     \* content_builds: ready, its fence and its result
  delivered,  \* content_outbox.delivered_at IS NOT NULL
  row,        \* content_index_dispatch: fence, dc, accepted, stage, holder
  rtw,        \* the build as RTW stores it
  dc,         \* the jobs as DC stores them
  live,       \* the attempts whose lease has not run out
  ending,     \* those of them a worker already counts as run out
  claimed,    \* the workers whose last dispatch claim has not run out
  wire,       \* requests sent whose effect is still open
  loc         \* program counter and local variables of each worker

vars == <<ledger, delivered, row, rtw, dc, live, ending, claimed, wire, loc>>
remote == <<rtw, dc>>
store  == <<ledger, delivered, row>>
env    == <<live, ending, claimed>>
lease  == <<live, ending>>

(* A result reference is named by the attempt that built the artifact.     *)
Refs == Attempts
NoFence == [attempt |-> None, epoch |-> 0]
Idle == [pc |-> "idle", att |-> None, fixed |-> None, fence |-> NoFence,
         receipt |-> None, claim |-> None, plan |-> None]

At(w, label) == loc[w].pc = label
Goto(w, label) == loc' = [loc EXCEPT ![w].pc = label]
Stop(w) == loc' = [loc EXCEPT ![w] = Idle]

-----------------------------------------------------------------------------
(* RTW and DC.                                                             *)

(* ClaimBuild with lease_epoch 0: RTW allocates the next build-wide epoch, *)
(* and repeats the grant of the attempt that already holds the build.      *)
Granted(a) ==
  [rtw EXCEPT !.fence = IF rtw.fence.attempt = a THEN @
                        ELSE [attempt |-> a, epoch |-> @.epoch + 1]]
Grantable(a) == rtw.state = "BUILDING" /\ a \in live

RTWClaim(m) ==
  /\ m.to = "claim"
  /\ wire' = wire \ {m}
  /\ rtw' = IF Grantable(m.att) THEN Granted(m.att) ELSE rtw
  /\ UNCHANGED <<store, dc, env, loc>>

(* AcceptBuild: the first READY under the current fence, with a live lease.*)
RTWAccept(m) ==
  /\ m.to = "accept"
  /\ wire' = wire \ {m}
  /\ rtw' = IF /\ rtw.state = "BUILDING"
               /\ rtw.fence = m.fence
               /\ m.fence.attempt \in live
            THEN [rtw EXCEPT !.state = "READY", !.ref = m.ref]
            ELSE rtw
  /\ UNCHANGED <<store, dc, env, loc>>

(* The product withdraws the build.                                        *)
RTWCancel ==
  /\ "rtw" \in Withdraws
  /\ rtw.state = "BUILDING"
  /\ rtw' = [rtw EXCEPT !.state = "CANCELLED"]
  /\ UNCHANGED <<store, dc, env, wire, loc>>

Running(a) == dc[a.job].state = "running" /\ dc[a.job].n = a.n

(* CompleteJob is taken from the running attempt under its own live lease. *)
DCComplete(m) ==
  /\ m.to = "complete"
  /\ wire' = wire \ {m}
  /\ dc' = IF Running(m.att) /\ m.att \in live
           THEN [dc EXCEPT ![m.att.job].state = "succeeded", ![m.att.job].ref = m.ref]
           ELSE dc
  /\ UNCHANGED <<store, rtw, env, loc>>

DCFail(m) ==
  /\ m.to = "fail"
  /\ wire' = wire \ {m}
  /\ dc' = IF Running(m.att) /\ m.att \in live
           THEN [dc EXCEPT ![m.att.job].state =
                   IF m.retryable /\ m.att.n < MaxAttempts THEN "queued" ELSE "failed"]
           ELSE dc
  /\ UNCHANGED <<store, rtw, env, loc>>

(* A running job whose last attempt let its lease run out has failed.      *)
DCExhaust(j) ==
  /\ dc[j].state = "running" /\ dc[j].n = MaxAttempts
  /\ [job |-> j, n |-> dc[j].n] \notin live
  /\ dc' = [dc EXCEPT ![j].state = "failed"]
  /\ UNCHANGED <<store, rtw, env, wire, loc>>

DCCancel(j) ==
  /\ "dc" \in Withdraws
  /\ dc[j].state \in {"queued", "running"}
  /\ dc' = [dc EXCEPT ![j].state = "cancelled"]
  /\ UNCHANGED <<store, rtw, env, wire, loc>>

(* Workers keep a margin before the expiry, and clocks differ.             *)
LeaseEnds(a) ==
  /\ ClockMargin
  /\ a \in live
  /\ ending' = ending \cup {a}
  /\ UNCHANGED <<store, remote, live, claimed, wire, loc>>

LeaseExpires(a) ==
  /\ a \in live
  /\ live' = live \ {a}
  /\ ending' = ending \ {a}
  /\ UNCHANGED <<store, remote, claimed, wire, loc>>

(* The lease as a worker sees it.                                          *)
Alive(a) == a \in live /\ a \notin ending

ClaimExpires(w) ==
  /\ w \in claimed
  /\ claimed' = claimed \ {w}
  /\ UNCHANGED <<store, remote, lease, wire, loc>>

-----------------------------------------------------------------------------
(* The scanner: DispatchReadyOnce.                                         *)

(* ClaimIndexDispatch finds an undelivered READY no running claim covers.  *)
Claimable ==
  /\ ledger.ready /\ ~delivered
  /\ row # None
  /\ row.stage = "pending"
  /\ row.holder = None \/ row.holder \notin claimed

TakeClaim(w) ==
  /\ row' = [row EXCEPT !.holder = w]
  /\ claimed' = claimed \cup {w}
  /\ loc' = [loc EXCEPT ![w] = [Idle EXCEPT !.pc = "check",
               !.claim = [fence |-> row.fence, dc |-> row.dc,
                          accepted |-> row.accepted, ref |-> ledger.ref]]]
  /\ UNCHANGED <<ledger, delivered, remote, lease, wire>>

Scan(w) ==
  /\ At(w, "idle")
  /\ \/ Claimable /\ TakeClaim(w)
     \/ ~Claimable /\ Goto(w, "poll") /\ UNCHANGED <<store, remote, env, wire>>

HoldsAnyClaim(w) ==
  /\ row.stage = "pending"
  /\ row.fence = loc[w].claim.fence
(* The WHERE clause of every write under a claim (indexDispatchUpdate).    *)
Holds(w) ==
  /\ row.holder = w
  /\ row.fence = loc[w].claim.fence
  /\ row.dc = loc[w].claim.dc
  /\ row.stage = "pending"
  /\ w \in claimed

Accepts(ref) == rtw.state = "READY" /\ rtw.ref = ref
GrantedTo(f) == rtw.state = "BUILDING" /\ rtw.fence = f

LaterAgain(w, plan) == loc' = [loc EXCEPT ![w].pc = "defer", ![w].plan = "pending"]
Later(w, plan) == loc' = [loc EXCEPT ![w].pc = "defer", ![w].plan = plan]

AskWithoutReading(w) ==
  LET c == loc[w].claim IN
  /\ At(w, "check") /\ w \in claimed
  /\ wire' = wire \cup {[to |-> "accept", fence |-> c.fence, ref |-> c.ref]}
  /\ Goto(w, "ack")
  /\ UNCHANGED <<store, remote, env>>

(* Read the RTW build; ask it to accept when the claim still is its fence. *)
CheckRTW(w) ==
  LET c == loc[w].claim IN
  /\ At(w, "check") /\ w \in claimed
  /\ \/ /\ GrantedTo(c.fence) /\ Alive(c.fence.attempt)
        /\ wire' = wire \cup {[to |-> "accept", fence |-> c.fence, ref |-> c.ref]}
        /\ Goto(w, "accept")
     \/ /\ rtw.state = "BUILDING" /\ ~(GrantedTo(c.fence) /\ Alive(c.fence.attempt))
        /\ Later(w, "needs_new_attempt")
        /\ UNCHANGED wire
     \/ Accepts(c.ref) /\ Goto(w, "note") /\ UNCHANGED wire
     \/ /\ rtw.state # "BUILDING" /\ ~Accepts(c.ref)
        /\ Later(w, "manual")
        /\ UNCHANGED wire
  /\ UNCHANGED <<store, remote, env>>

(* The answer of AcceptBuild, or GetBuild when it got lost.                *)
ReadAccept(w) ==
  LET c == loc[w].claim IN
  /\ At(w, "accept") /\ w \in claimed
  /\ \/ Accepts(c.ref) /\ Goto(w, "note")
     \/ rtw.state = "BUILDING" /\ Later(w, "pending")
     \/ rtw.state # "BUILDING" /\ ~Accepts(c.ref) /\ Later(w, "manual")
  /\ UNCHANGED <<store, remote, env, wire>>

(* NoteIndexRTWAccepted, unless the claim already carries the note.        *)
Note(w) ==
  /\ At(w, "note") /\ w \in claimed
  /\ \/ loc[w].claim.accepted /\ UNCHANGED row
     \/ ~loc[w].claim.accepted /\ Holds(w) /\ row' = [row EXCEPT !.accepted = TRUE]
  /\ Goto(w, "ack")
  /\ UNCHANGED <<ledger, delivered, remote, env, wire>>

Succeeded(c) ==
  /\ dc[c.dc.job].state = "succeeded"
  /\ dc[c.dc.job].n = c.dc.n
  /\ dc[c.dc.job].ref = c.ref

(* Nothing but an operator can continue with this job.                     *)
OutOfAttempts(job) ==
  \/ job.state \in {"failed", "cancelled", "succeeded"}
  \/ job.n >= MaxAttempts /\ job.state # "queued"

(* Read the DC job; report success when it still runs the claimed attempt. *)
Ack(w) ==
  LET c == loc[w].claim IN
  /\ At(w, "ack") /\ w \in claimed
  /\ \/ Succeeded(c) /\ Goto(w, "deliver") /\ UNCHANGED wire
     \/ /\ Running(c.dc) /\ Alive(c.dc)
        /\ wire' = wire \cup {[to |-> "complete", att |-> c.dc, ref |-> c.ref]}
        /\ Goto(w, "acked")
     \/ /\ ~Succeeded(c) /\ ~(Running(c.dc) /\ Alive(c.dc))
        /\ Later(w, IF OutOfAttempts(dc[c.dc.job]) THEN "manual" ELSE "needs_new_attempt")
        /\ UNCHANGED wire
  /\ UNCHANGED <<store, remote, env>>

(* The answer of CompleteJob, or GetJob when it got lost.                  *)
ReadAck(w) ==
  /\ At(w, "acked") /\ w \in claimed
  /\ \/ Succeeded(loc[w].claim) /\ Goto(w, "deliver")
     \/ ~Succeeded(loc[w].claim) /\ Later(w, "pending")
  /\ UNCHANGED <<store, remote, env, wire>>

DeliverRowOnly(w) ==
  /\ At(w, "deliver")
  /\ Holds(w) /\ row.accepted /\ ~delivered
  /\ row' = [row EXCEPT !.stage = "complete"]
  /\ Stop(w)
  /\ UNCHANGED <<ledger, delivered, remote, env, wire>>
(* DeliverIndexDispatch: dispatch row and outbox row in one transaction.   *)
Deliver(w) ==
  /\ At(w, "deliver")
  /\ Holds(w) /\ row.accepted /\ ~delivered
  /\ row' = [row EXCEPT !.stage = "complete"]
  /\ delivered' = TRUE
  /\ Stop(w)
  /\ UNCHANGED <<ledger, remote, env, wire>>

(* DeferIndexDispatch; a "pending" row stays claimed for five seconds.     *)
Defer(w) ==
  /\ At(w, "defer")
  /\ Holds(w)
  /\ row' = [row EXCEPT !.stage = loc[w].plan,
                        !.holder = IF loc[w].plan = "pending" THEN @ ELSE None]
  /\ Stop(w)
  /\ UNCHANGED <<ledger, delivered, remote, env, wire>>

ScanLabels == {"check", "accept", "note", "ack", "acked", "deliver"}

(* A failed call ends the scan with a plain retry.                         *)
ScanFails(w) ==
  /\ loc[w].pc \in ScanLabels
  /\ Later(w, "pending")
  /\ UNCHANGED <<store, remote, env, wire>>

(* The deadline of a scan lies inside its claim; a write that finds the    *)
(* claim gone changes nothing, and neither does the retry it asks for.     *)
ScanEnds(w) ==
  /\ \/ loc[w].pc \in ScanLabels /\ w \notin claimed
     \/ loc[w].pc \in {"deliver", "defer"} /\ ~Holds(w)
     \/ At(w, "note") /\ ~loc[w].claim.accepted /\ ~Holds(w)
  /\ Stop(w)
  /\ UNCHANGED <<store, remote, env, wire>>

ScanStep(w) ==
  \/ Scan(w) \/ CheckRTW(w) \/ ReadAccept(w) \/ Note(w) \/ Ack(w) \/ ReadAck(w)
  \/ Deliver(w) \/ Defer(w) \/ ScanFails(w) \/ ScanEnds(w)

-----------------------------------------------------------------------------
(* The processor: ClaimJob and ProcessClaim.                               *)

PollBeyondAttempts(w) ==
  /\ At(w, "poll")
  /\ \E j \in Jobs :
       LET a == [job |-> j, n |-> dc[j].n + 1] IN
       /\ \/ dc[j].state = "queued"
          \/ dc[j].state = "running" /\ [job |-> j, n |-> dc[j].n] \notin live
       /\ dc[j].n <= MaxAttempts
       /\ dc' = [dc EXCEPT ![j].state = "running", ![j].n = a.n]
       /\ live' = live \cup {a}
       /\ loc' = [loc EXCEPT ![w] = [Idle EXCEPT !.pc = "local", !.att = a]]
  /\ UNCHANGED <<store, rtw, ending, claimed, wire>>
(* DC leases a queued job, or a running one whose lease has run out.       *)
Poll(w) ==
  /\ At(w, "poll")
  /\ \E j \in Jobs :
       LET a == [job |-> j, n |-> dc[j].n + 1] IN
       /\ \/ dc[j].state = "queued"
          \/ dc[j].state = "running" /\ [job |-> j, n |-> dc[j].n] \notin live
       /\ dc[j].n < MaxAttempts
       /\ dc' = [dc EXCEPT ![j].state = "running", ![j].n = a.n]
       /\ live' = live \cup {a}
       /\ loc' = [loc EXCEPT ![w] = [Idle EXCEPT !.pc = "local", !.att = a]]
  /\ UNCHANGED <<store, rtw, ending, claimed, wire>>

NoWork(w) ==
  /\ At(w, "poll")
  /\ Stop(w)
  /\ UNCHANGED <<store, remote, env, wire>>

(* The context of ProcessClaim ends with the lease of its attempt.         *)
In(w, label) == At(w, label) /\ Alive(loc[w].att)

ReadLocal(w) ==
  /\ In(w, "local")
  /\ loc' = [loc EXCEPT ![w].pc = "remote", ![w].fixed = ledger]
  /\ UNCHANGED <<store, remote, env, wire>>

(* Either RTW already accepted the local READY, whose fence is kept, or a  *)
(* fence is asked for; fence holds the prior one until it is granted.      *)
ReadRemote(w) ==
  LET fixed == loc[w].fixed
      next(label) == loc' = [loc EXCEPT ![w].pc = label, ![w].fence = rtw.fence,
                               ![w].receipt = IF label = "attach" THEN fixed.ref ELSE None]
  IN
  /\ In(w, "remote")
  /\ \/ fixed.ready /\ Accepts(fixed.ref) /\ next("attach")
     \/ rtw.state = "BUILDING" /\ next("grant")
  /\ UNCHANGED <<store, remote, env, wire>>

(* claimAllocatedRTWBuildFence takes only the epoch that follows the fence *)
(* it read before, or that very fence if it already was its own.           *)
Expected(w) ==
  [attempt |-> loc[w].att,
   epoch |-> IF loc[w].fence.attempt = loc[w].att THEN loc[w].fence.epoch
             ELSE loc[w].fence.epoch + 1]

Grant(w) ==
  /\ In(w, "grant")
  /\ Grantable(loc[w].att)
  /\ rtw' = Granted(loc[w].att)
  /\ \/ rtw'.fence = Expected(w)
        /\ loc' = [loc EXCEPT ![w].pc = "attach", ![w].fence = rtw'.fence]
     \/ rtw'.fence # Expected(w) /\ Goto(w, "failed")
  /\ UNCHANGED <<store, dc, env, wire>>

GrantUnanswered(w) ==
  /\ In(w, "grant")
  /\ wire' = wire \cup {[to |-> "claim", att |-> loc[w].att]}
  /\ Goto(w, "regrant")
  /\ UNCHANGED <<store, remote, env>>

ReadGrant(w) ==
  /\ In(w, "regrant")
  /\ GrantedTo(Expected(w))
  /\ loc' = [loc EXCEPT ![w].pc = "attach", ![w].fence = Expected(w)]
  /\ UNCHANGED <<store, remote, env, wire>>

AttachableByAttempt(f, a) ==
  /\ ledger.ready \/ f.attempt \in live
  /\ row # None /\ a.job = row.dc.job => a.n >= row.dc.n
(* AttachIndexDispatch refuses to go back to an older fence or attempt,    *)
(* and to give an unfinished build to another attempt under the same fence.*)
Attachable(f, a) ==
  /\ ledger.ready \/ f.attempt \in live
  /\ row # None =>
       /\ f.epoch >= row.fence.epoch
       /\ f.epoch = row.fence.epoch => f.attempt = row.fence.attempt
       /\ a.job = row.dc.job => a.n >= row.dc.n
       /\ f.epoch = row.fence.epoch /\ ~ledger.ready => a = row.dc

AttachForgettingReceipt(w) ==
  LET f == loc[w].fence
      a == loc[w].att
      attached == [fence |-> f, dc |-> a, accepted |-> FALSE, stage |-> "pending", holder |-> None]
  IN
  /\ In(w, "attach")
  /\ Attachable(f, a)
  /\ row' = attached
  /\ delivered' = FALSE
  /\ Goto(w, IF loc[w].receipt = None THEN "index" ELSE "post")
  /\ UNCHANGED <<ledger, remote, env, wire>>
(* A new fence or attempt reopens the row, voids every running claim and   *)
(* the RTW note of an older fence, and withdraws the delivery.             *)
Attach(w) ==
  LET f == loc[w].fence
      a == loc[w].att
      attached(accepted) == [fence |-> f, dc |-> a, accepted |-> accepted,
                             stage |-> "pending", holder |-> None]
  IN
  /\ In(w, "attach")
  /\ Attachable(f, a)
  /\ \/ row = None /\ row' = attached(FALSE) /\ UNCHANGED delivered
     \/ row # None /\ row.fence = f /\ row.dc = a /\ UNCHANGED <<row, delivered>>
     \/ /\ row # None /\ <<row.fence, row.dc>> # <<f, a>>
        /\ row' = attached(row.accepted /\ f.epoch = row.fence.epoch)
        /\ delivered' = FALSE
  /\ Goto(w, IF loc[w].receipt = None THEN "index" ELSE "post")
  /\ UNCHANGED <<ledger, remote, env, wire>>

(* IndexCoordinator.Index: a committed build is only read again.           *)
Index(w) ==
  /\ In(w, "index")
  /\ \/ ledger.ready /\ Goto(w, "recover")
     \/ ~ledger.ready /\ GrantedTo(loc[w].fence) /\ Goto(w, "claim")
  /\ UNCHANGED <<store, remote, env, wire>>

(* Store.Claim (module ContentLedger) moves the open row to the new fence. *)
ClaimBuild(w) ==
  LET f == loc[w].fence IN
  /\ In(w, "claim")
  /\ \/ ledger.ready /\ Goto(w, "recover") /\ UNCHANGED ledger
     \/ /\ ~ledger.ready
        /\ f.epoch >= ledger.fence.epoch
        /\ f.epoch = ledger.fence.epoch => f.attempt = ledger.fence.attempt
        /\ ledger' = [ledger EXCEPT !.fence = f]
        /\ Goto(w, "lanes")
  /\ UNCHANGED <<row, delivered, remote, env, wire>>

(* The lanes are built and recorded; then the RTW fence is checked again.  *)
CheckFence(w) ==
  /\ In(w, "lanes")
  /\ GrantedTo(loc[w].fence)
  /\ Goto(w, "commit")
  /\ UNCHANGED <<store, remote, env, wire>>

(* Reconciler.Ready commits the manifest this attempt assembled.           *)
Commit(w) ==
  /\ In(w, "commit")
  /\ ~ledger.ready /\ ledger.fence = loc[w].fence
  /\ ledger' = [ledger EXCEPT !.ready = TRUE, !.ref = loc[w].att]
  /\ loc' = [loc EXCEPT ![w].pc = "post", ![w].receipt = loc[w].att]
  /\ UNCHANGED <<row, delivered, remote, env, wire>>

(* recoverReady: the committed artifact under a fence RTW still confirms.  *)
Recover(w) ==
  /\ In(w, "recover")
  /\ rtw.fence = loc[w].fence
  /\ rtw.state = "BUILDING" \/ Accepts(ledger.ref)
  /\ loc' = [loc EXCEPT ![w].pc = "post", ![w].receipt = ledger.ref]
  /\ UNCHANGED <<store, remote, env, wire>>

(* ProcessClaim compares its receipt with what the ledger now shows.       *)
PostCheck(w) ==
  /\ In(w, "post")
  /\ ledger.ready /\ ledger.ref = loc[w].receipt
  /\ IF loc[w].fixed.ready THEN loc[w].fixed = ledger ELSE ledger.fence = loc[w].fence
  /\ Goto(w, "recheck")
  /\ UNCHANGED <<store, remote, env, wire>>

Recheck(w) ==
  /\ In(w, "recheck")
  /\ GrantedTo(loc[w].fence) \/ Accepts(loc[w].receipt)
  /\ Goto(w, "own")
  /\ UNCHANGED <<store, remote, env, wire>>

(* From here a failure is left to the scanner and is not reported.         *)
DispatchOwn(w) ==
  /\ In(w, "own")
  /\ \/ Claimable /\ TakeClaim(w)
     \/ ~Claimable /\ Stop(w) /\ UNCHANGED <<store, remote, env, wire>>

WorkLabels == {"local", "remote", "grant", "regrant", "failed", "attach", "index", "claim",
               "lanes", "commit", "recover", "post", "recheck"}

(* Any call may fail, and reportFailure tells DC while the lease lives.    *)
WorkFails(w, retryable) ==
  /\ loc[w].pc \in WorkLabels
  /\ Alive(loc[w].att)
  /\ wire' = wire \cup {[to |-> "fail", att |-> loc[w].att, retryable |-> retryable]}
  /\ Stop(w)
  /\ UNCHANGED <<store, remote, env>>

WorkExpires(w) ==
  /\ loc[w].pc \in WorkLabels \cup {"own"}
  /\ ~Alive(loc[w].att)
  /\ Stop(w)
  /\ UNCHANGED <<store, remote, env, wire>>

WorkStep(w) ==
  \/ Poll(w) \/ NoWork(w) \/ ReadLocal(w) \/ ReadRemote(w)
  \/ Grant(w) \/ GrantUnanswered(w) \/ ReadGrant(w) \/ Attach(w)
  \/ Index(w) \/ ClaimBuild(w) \/ CheckFence(w) \/ Commit(w) \/ Recover(w)
  \/ PostCheck(w) \/ Recheck(w) \/ DispatchOwn(w)
  \/ \E retryable \in BOOLEAN : WorkFails(w, retryable)
  \/ WorkExpires(w)

Crash(w) ==
  /\ loc[w] # Idle
  /\ Stop(w)
  /\ UNCHANGED <<store, remote, env, wire>>

-----------------------------------------------------------------------------

(* The build was prepared: its chunks are recorded under an earlier fence. *)
Init ==
  /\ ledger = [ready |-> FALSE, fence |-> NoFence, ref |-> None]
  /\ delivered = FALSE
  /\ row = None
  /\ rtw = [state |-> "BUILDING", fence |-> NoFence, ref |-> None]
  /\ dc = [j \in Jobs |-> [state |-> "queued", n |-> 0, ref |-> None]]
  /\ live = {}
  /\ ending = {}
  /\ claimed = {}
  /\ wire = {}
  /\ loc = [w \in Workers |-> Idle]

Answer(m) == RTWClaim(m) \/ RTWAccept(m) \/ DCComplete(m) \/ DCFail(m)

Environment ==
  \/ \E m \in wire : Answer(m)
  \/ RTWCancel
  \/ \E j \in Jobs : DCExhaust(j) \/ DCCancel(j)
  \/ \E a \in live : LeaseEnds(a) \/ LeaseExpires(a)
  \/ \E w \in claimed : ClaimExpires(w)

Next ==
  \/ \E w \in Workers : ScanStep(w) \/ WorkStep(w) \/ Crash(w)
  \/ Environment

Spec == Init /\ [][Next]_vars

(* A worker polls forever.  A scan that is tried again and again is not cut*)
(* short at the same call for ever, requests in flight are answered, and   *)
(* leases and claims run out.  Nothing is assumed of the attempts: they    *)
(* may crash or hang until their lease is over.                            *)
WorkerFairness(w) ==
  /\ WF_vars(Scan(w) \/ ScanEnds(w) \/ Poll(w) \/ NoWork(w) \/ WorkExpires(w) \/ DispatchOwn(w))
  /\ SF_vars(CheckRTW(w)) /\ SF_vars(Note(w)) /\ SF_vars(Ack(w))
  /\ SF_vars(ReadAccept(w) \/ ReadAck(w))
  /\ SF_vars(Deliver(w) \/ (loc[w].plan # "pending" /\ Defer(w)))
TimePasses ==
  /\ WF_vars(\E m \in wire : Answer(m))
  /\ WF_vars(\E a \in live : LeaseExpires(a))
  /\ WF_vars(\E w \in claimed : ClaimExpires(w))
FairSpec ==
  Spec /\ TimePasses /\ \A w \in Workers : WorkerFairness(w)

-----------------------------------------------------------------------------

Stages == {"pending", "needs_new_attempt", "manual", "complete"}
Claims == [fence : Fences, dc : Attempts, accepted : BOOLEAN, ref : Refs]
Requests ==
  [to : {"claim"}, att : Attempts] \cup [to : {"accept"}, fence : Fences, ref : Refs]
  \cup [to : {"complete"}, att : Attempts, ref : Refs]
  \cup [to : {"fail"}, att : Attempts, retryable : BOOLEAN]

Labels   == ScanLabels \cup WorkLabels \cup {"idle", "poll", "own", "defer"}
Ledgers  == [ready : BOOLEAN, fence : Fences, ref : Refs \cup {None}]
Rows     == [fence : Fences, dc : Attempts, accepted : BOOLEAN, stage : Stages,
             holder : Workers \cup {None}]
Builds   == [state : {"BUILDING", "READY", "CANCELLED"}, fence : Fences, ref : Refs \cup {None}]
JobRows  == [state : {"queued", "running", "succeeded", "failed", "cancelled"},
             n : 0..MaxAttempts, ref : Refs \cup {None}]
Locals   == [pc : Labels, att : Attempts \cup {None}, fixed : Ledgers \cup {None}, fence : Fences,
             receipt : Refs \cup {None}, claim : Claims \cup {None}, plan : Stages \cup {None}]

(* A missing row is none of these.                                         *)
ASSUME RowAssumption == None \notin Rows

(* Types; in particular RTW never grants more fences than there are        *)
(* attempts, however requests are repeated.                                *)
TypeOK ==
  /\ ledger \in Ledgers /\ delivered \in BOOLEAN /\ row \in Rows \cup {None}
  /\ rtw \in Builds /\ dc \in [Jobs -> JobRows]
  /\ live \subseteq Attempts /\ ending \subseteq live
  /\ claimed \subseteq Workers
  /\ wire \subseteq Requests
  /\ loc \in [Workers -> Locals]

(* No false technical success: DC holds a success only for a result that   *)
(* is committed locally and accepted by RTW, the very same one in all      *)
(* three, however requests are delayed and attempts overlap.               *)
SuccessIsAccepted ==
  /\ rtw.state = "READY" => ledger.ready /\ rtw.ref = ledger.ref
  /\ \A j \in Jobs : dc[j].state = "succeeded" => rtw.state = "READY" /\ dc[j].ref = rtw.ref

(* What the dispatch row says has happened: an acceptance it notes is      *)
(* RTW's, of the very fence it names; the outbox row is delivered exactly  *)
(* when the dispatch row is complete, and then RTW has accepted the result *)
(* and DC has taken the success of the attempt the row names.              *)
DeliveredIsConfirmed ==
  /\ row # None /\ row.accepted => rtw.state = "READY" /\ rtw.fence = row.fence
  /\ delivered <=> row # None /\ row.stage = "complete"
  /\ delivered => /\ rtw.state = "READY" /\ rtw.ref = ledger.ref
                  /\ dc[row.dc.job].state = "succeeded"
                  /\ dc[row.dc.job].n = row.dc.n

(* A committed build can always be found by the scanner's join: the row of *)
(* the committing attempt, or of a later one, precedes the commit.  The    *)
(* three records of the fence never overtake the authority that grants it. *)
RowPrecedesReady ==
  /\ ledger.ready => row # None
  /\ row # None => ledger.fence.epoch <= row.fence.epoch /\ row.fence.epoch <= rtw.fence.epoch
  /\ row = None => ledger.fence = NoFence

(* An acceptance once noted stays noted, and a delivery is withdrawn only  *)
(* for another job, whatever attempts attach to the row later; a READY     *)
(* ledger changes no more, and the fences of the row never go back.        *)
ReceiptsAreKept ==
  [][/\ ledger.ready => ledger' = ledger
     /\ row # None =>
          /\ row.accepted => row'.accepted
          /\ delivered /\ ~delivered' => row'.dc.job # row.dc.job
          /\ row'.fence.epoch >= row.fence.epoch
          /\ row'.dc.job = row.dc.job => row'.dc.n >= row.dc.n]_vars

(* A committed READY does not stay pending for ever: it is delivered, or   *)
(* handed to a new attempt or to the operator.                             *)
Staged(stages) == row # None /\ row.stage \in stages
PendingIsSettled ==
  ledger.ready /\ Staged({"pending"}) ~> Staged(Stages \ {"pending"})

(* What the acceptance document says of crashes (an event that is not      *)
(* delivered can still be scanned): once both authorities have confirmed,  *)
(* the outbox row is marked delivered.  It is not, when a scan counts the  *)
(* lease as over while CompleteJob is still in flight (Ack).               *)
SuccessIsDelivered ==
  \A j \in Jobs : dc[j].state = "succeeded" ~> delivered

=============================================================================
