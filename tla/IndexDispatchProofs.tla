-------------------------- MODULE IndexDispatchProofs --------------------------
(***************************************************************************)
(* Proofs about IndexDispatch, for all sets of workers and jobs, every     *)
(* number of attempts and both values of ClockMargin.                      *)
(***************************************************************************)
EXTENDS IndexDispatch, FiniteSetTheorems, TLAPS

(* A fence that is not newer than the one RTW granted last.                *)
Known(f) == f = rtw.fence \/ f.epoch < rtw.fence.epoch

(* A fence that the dispatch row has carried.                              *)
Attached(f) == row # None /\ f.epoch <= row.fence.epoch

Confirmed == {"note", "ack", "acked", "deliver"}
AttachedLabels == {"index", "claim", "lanes", "commit", "recover", "post", "recheck", "own"}

(* What a worker in a scan knows of the services still holds.              *)
Scanned(w) ==
  /\ loc[w].pc \in ScanLabels \cup {"defer"} =>
       loc[w].claim \in Claims /\ Attached(loc[w].claim.fence)
  /\ loc[w].pc \in ScanLabels => ledger.ready /\ loc[w].claim.ref = ledger.ref
  /\ loc[w].pc \in Confirmed => rtw.state = "READY"
  /\ loc[w].pc = "deliver" => Succeeded(loc[w].claim)
  /\ loc[w].pc = "defer" => loc[w].plan \in Stages \ {"complete"}

(* Likewise of a worker that processes an attempt.                         *)
Worked(w) ==
  /\ loc[w].pc \in WorkLabels \cup {"own"} =>
       loc[w].att \in Attempts /\ loc[w].att.n <= dc[loc[w].att.job].n
  /\ loc[w].pc = "remote" => loc[w].fixed \in Ledgers
  /\ loc[w].pc \in AttachedLabels \cup {"attach"} => Known(loc[w].fence)
  /\ loc[w].pc \in AttachedLabels => Attached(loc[w].fence)

(* What was true when a request was sent still is.                         *)
Sent(m) ==
  /\ m.to = "claim" => m.att.n <= dc[m.att.job].n
  /\ m.to = "accept" => ledger.ready /\ m.ref = ledger.ref /\ Attached(m.fence)
  /\ m.to = "complete" => rtw.state = "READY" /\ ledger.ready /\ m.ref = ledger.ref

Fenced ==
  /\ ledger.ready => ledger.ref \in Refs
  /\ row # None => Known(row.fence)
  /\ rtw.state = "READY" => row # None /\ row.fence = rtw.fence

(* An attempt asks RTW for a fence once: it has not been leased yet, or    *)
(* one worker is on its way to ask, or the request is in flight.           *)
Asking == {"local", "remote", "grant"}
MayAsk(a) ==
  \/ a.n > dc[a.job].n
  \/ \E w \in Workers : loc[w].att = a /\ loc[w].pc \in Asking
  \/ [to |-> "claim", att |-> a] \in wire
Alone ==
  \A w \in Workers : loc[w].pc \in Asking =>
    /\ \A v \in Workers \ {w} : loc[v].pc \in Asking => loc[v].att # loc[w].att
    /\ [to |-> "claim", att |-> loc[w].att] \notin wire
Spent == {a \in Attempts : ~MayAsk(a)}
Counted == rtw.fence.epoch <= Cardinality(Spent)

Locally == \A w \in Workers : Scanned(w) /\ Worked(w)
InFlight == \A m \in wire : Sent(m)
IInv ==
  /\ TypeOK /\ Locally /\ InFlight /\ Alone /\ Counted /\ Fenced
  /\ SuccessIsAccepted /\ DeliveredIsConfirmed /\ RowPrecedesReady

-------------------------------------------------------------------------------
LEMMA AttemptsAreFinite == IsFiniteSet(Attempts) /\ Cardinality(Attempts) = MaxEpoch
<1> DEFINE P == Jobs \X (1..MaxAttempts)
           f == [p \in P |-> [job |-> p[1], n |-> p[2]]]
<1>1. IsFiniteSet(1..MaxAttempts) /\ Cardinality(1..MaxAttempts) = MaxAttempts
  <2>1. 1 \in Int /\ MaxAttempts \in Int
    BY AttemptsAssumption
  <2>2. IsFiniteSet(1..MaxAttempts)
        /\ Cardinality(1..MaxAttempts) = IF 1 > MaxAttempts THEN 0 ELSE MaxAttempts - 1 + 1
    BY <2>1, FS_Interval
  <2>3. QED
    BY <2>2, AttemptsAssumption
<1>2. IsFiniteSet(P) /\ Cardinality(P) = MaxEpoch
  BY <1>1, FS_Product, AttemptsAssumption DEF MaxEpoch
<1>3. f \in Bijection(P, Attempts)
  <2>1. f \in [P -> Attempts]
    BY DEF Attempts
  <2>2. \A p, q \in P : f[p] = f[q] => p = q
    OBVIOUS
  <2>3. \A a \in Attempts : \E p \in P : f[p] = a
    <3> SUFFICES ASSUME NEW a \in Attempts PROVE \E p \in P : f[p] = a
      OBVIOUS
    <3>1. <<a.job, a.n>> \in P /\ f[<<a.job, a.n>>] = a
      BY DEF Attempts
    <3>2. QED
      BY <3>1
  <2>4. QED
    BY <2>1, <2>2, <2>3 DEF Bijection, Injection, Surjection, IsInjective
<1>4. ExistsBijection(P, Attempts)
  BY <1>3 DEF ExistsBijection
<1>5. QED
  BY <1>2, <1>4, FS_Bijection

LEMMA EpochType == MaxEpoch \in Nat /\ NoFence \in Fences
<1>1. MaxEpoch \in Nat
  BY AttemptsAreFinite, FS_CardinalityType
<1>2. QED
  BY <1>1 DEF NoFence, Fences

LEMMA SpentIsFinite ==
  /\ IsFiniteSet(Spent) /\ Cardinality(Spent) \in Nat
  /\ IsFiniteSet(Spent') /\ Cardinality(Spent') \in Nat /\ Cardinality(Spent') <= MaxEpoch
<1>1. Spent \in SUBSET Attempts /\ Spent' \in SUBSET Attempts
  BY DEF Spent
<1>2. QED
  BY <1>1, AttemptsAreFinite, FS_Subset, FS_CardinalityType

LEMMA InitInv == Init => IInv
<1> SUFFICES ASSUME Init PROVE IInv
  OBVIOUS
<1>1. Idle \in Locals
  BY EpochType DEF Idle, Locals, Labels
<1>2. TypeOK
  <2>1. ledger \in Ledgers /\ rtw \in Builds
    BY EpochType DEF Init, Ledgers, Builds
  <2>2. 0 \in 0..MaxAttempts
    BY AttemptsAssumption
  <2>3. dc \in [Jobs -> JobRows]
    BY <2>2 DEF Init, JobRows
  <2>4. QED
    BY <1>1, <2>1, <2>3 DEF Init, TypeOK
<1>3. \A w \in Workers : loc[w].pc = "idle"
  BY DEF Init, Idle
<1>4. Locally
  BY <1>3 DEF Locally, Scanned, Worked, ScanLabels, WorkLabels, AttachedLabels, Confirmed
<1>5. Alone /\ InFlight
  BY <1>3 DEF Init, Alone, Asking, InFlight
<1>6. Counted
  BY SpentIsFinite DEF Init, Counted, NoFence
<1>7. Fenced /\ SuccessIsAccepted /\ DeliveredIsConfirmed /\ RowPrecedesReady
  BY DEF Init, Fenced, SuccessIsAccepted, DeliveredIsConfirmed, RowPrecedesReady
<1>8. QED
  BY <1>2, <1>4, <1>5, <1>6, <1>7 DEF IInv

-------------------------------------------------------------------------------
(* The steps of a worker that read the services and write none: they leave *)
(* at most a request.                                                      *)
Reads(w) ==
  \/ CheckRTW(w) \/ ReadAccept(w) \/ Ack(w) \/ ReadAck(w) \/ ScanFails(w) \/ ScanEnds(w)
  \/ NoWork(w) \/ ReadLocal(w) \/ ReadRemote(w) \/ GrantUnanswered(w) \/ ReadGrant(w)
  \/ Index(w) \/ CheckFence(w) \/ Recover(w) \/ PostCheck(w) \/ Recheck(w)
  \/ (\E retryable \in BOOLEAN : WorkFails(w, retryable)) \/ WorkExpires(w) \/ Crash(w)
  \/ At(w, "idle") /\ ~Claimable /\ Goto(w, "poll") /\ UNCHANGED <<store, remote, env, wire>>
  \/ At(w, "own") /\ ~Claimable /\ Stop(w) /\ UNCHANGED <<store, remote, env, wire>>
Takes(w) == (At(w, "idle") \/ In(w, "own")) /\ Claimable /\ TakeClaim(w)
Writes(w) ==
  \/ Takes(w) \/ Note(w) \/ Deliver(w) \/ Defer(w)
  \/ Poll(w) \/ Grant(w) \/ Attach(w) \/ ClaimBuild(w) \/ Commit(w)

Expires ==
  /\ UNCHANGED <<store, remote, wire, loc>>
  /\ live' \subseteq live /\ ending' \subseteq live' /\ claimed' \subseteq claimed

LEMMA StepsAre ==
  ASSUME TypeOK, [Next]_vars
  PROVE  \/ \E w \in Workers : Reads(w)
         \/ \E w \in Workers : Writes(w)
         \/ \E m \in wire : Answer(m)
         \/ RTWCancel
         \/ \E j \in Jobs : DCExhaust(j) \/ DCCancel(j)
         \/ Expires
<1>1. CASE UNCHANGED vars
  BY <1>1 DEF vars, Expires, store, remote, TypeOK
<1>2. ASSUME NEW w \in Workers, ScanStep(w) PROVE Reads(w) \/ Writes(w)
  BY <1>2 DEF ScanStep, Reads, Writes, Scan, Takes
<1>3. ASSUME NEW w \in Workers, WorkStep(w) PROVE Reads(w) \/ Writes(w)
  BY <1>3 DEF WorkStep, Reads, Writes, DispatchOwn, Takes, In
<1>4. ASSUME NEW w \in Workers, Crash(w) PROVE Reads(w)
  BY <1>4 DEF Reads
<1>5. ASSUME NEW a \in live, LeaseEnds(a) \/ LeaseExpires(a) PROVE Expires
  BY <1>5 DEF LeaseEnds, LeaseExpires, Expires, TypeOK, store, remote
<1>6. ASSUME NEW w \in claimed, ClaimExpires(w) PROVE Expires
  BY <1>6 DEF ClaimExpires, Expires, TypeOK, store, remote, lease
<1>7. QED
  BY <1>1, <1>2, <1>3, <1>4, <1>5, <1>6 DEF Next, Environment

-------------------------------------------------------------------------------
(* How the worker that takes a step moves.                                 *)

Others(w) ==
  loc' \in [Workers -> Locals] /\ \A v \in Workers \ {w} : loc'[v] = loc[v]

LEMMA GotoIs ==
  ASSUME TypeOK, NEW w \in Workers, NEW label \in Labels, Goto(w, label)
  PROVE  /\ Others(w) /\ loc'[w].pc = label
         /\ loc'[w].att = loc[w].att /\ loc'[w].fixed = loc[w].fixed
         /\ loc'[w].fence = loc[w].fence /\ loc'[w].receipt = loc[w].receipt
         /\ loc'[w].claim = loc[w].claim /\ loc'[w].plan = loc[w].plan
  BY DEF TypeOK, Goto, Others, Locals

LEMMA LaterIs ==
  ASSUME TypeOK, NEW w \in Workers, NEW plan \in Stages, Later(w, plan)
  PROVE  /\ Others(w) /\ loc'[w].pc = "defer" /\ loc'[w].plan = plan
         /\ loc'[w].claim = loc[w].claim
<1> DEFINE l == [loc[w] EXCEPT !.pc = "defer", !.plan = plan]
<1>1. loc \in [Workers -> Locals] /\ loc[w] \in Locals
  BY DEF TypeOK
<1>2. l \in Locals /\ l.pc = "defer" /\ l.plan = plan /\ l.claim = loc[w].claim
  BY <1>1 DEF Locals, Labels
<1>3. loc' = [loc EXCEPT ![w] = l]
  BY <1>1 DEF Later
<1>4. QED
  BY <1>1, <1>2, <1>3 DEF Others

LEMMA StopIs ==
  ASSUME TypeOK, NEW w \in Workers, Stop(w)
  PROVE  Others(w) /\ loc'[w] = Idle
<1>1. Idle \in Locals
  BY EpochType DEF Idle, Locals, Labels
<1>2. QED
  BY <1>1 DEF TypeOK, Stop, Others

LEMMA AtRest ==
  ASSUME NEW w \in Workers, loc'[w].pc \in {"idle", "poll"}
  PROVE  Scanned(w)' /\ Worked(w)' /\ loc'[w].pc \notin Asking
  BY DEF Scanned, Worked, ScanLabels, Confirmed, WorkLabels, AttachedLabels, Asking

-------------------------------------------------------------------------------
(* Reading steps: the mover knows what it has read.                        *)

Quiet(w) ==
  /\ UNCHANGED <<ledger, delivered, row, rtw, dc, live, ending, claimed>>
  /\ Others(w) /\ Scanned(w)' /\ Worked(w)'
Requested(w) ==
  \A m \in wire' : m \in wire \/ /\ m \in Requests /\ Sent(m)
                                 /\ m.to = "claim" => loc[w].pc = "grant" /\ m.att = loc[w].att
Asks(w) ==
  loc'[w].pc \in Asking => /\ loc[w].pc \in Asking /\ loc'[w].att = loc[w].att
                           /\ UNCHANGED wire
Read(w) == Quiet(w) /\ Requested(w) /\ Asks(w)

LEMMA RestRead ==
  ASSUME TypeOK, NEW w \in Workers, UNCHANGED <<store, remote, env, wire>>,
         Stop(w) \/ Goto(w, "poll")
  PROVE  Read(w)
<1>1. Others(w) /\ loc'[w].pc \in {"idle", "poll"}
  <2>1. "poll" \in Labels
    BY DEF Labels
  <2>2. QED
    BY <2>1, GotoIs, StopIs DEF Idle
<1>2. QED
  BY <1>1, AtRest DEF Read, Quiet, Requested, Asks, store, remote, env

LEMMA LaterRead ==
  ASSUME TypeOK, NEW w \in Workers, UNCHANGED <<store, remote, env, wire>>,
         NEW plan \in Stages \ {"complete"}, Later(w, plan),
         loc[w].claim \in Claims, Attached(loc[w].claim.fence)
  PROVE  Read(w)
<1>1. Others(w) /\ loc'[w].pc = "defer" /\ loc'[w].plan = plan
      /\ loc'[w].claim = loc[w].claim
  BY LaterIs
<1>2. Attached(loc[w].claim.fence)'
  BY <1>1 DEF Attached, store
<1>3. Scanned(w)' /\ Worked(w)' /\ loc'[w].pc \notin Asking
  BY <1>1, <1>2 DEF Scanned, Worked, ScanLabels, Confirmed, WorkLabels, AttachedLabels, Asking
<1>4. QED
  BY <1>1, <1>3 DEF Read, Quiet, Requested, Asks, store, remote, env

LEMMA ScanReads ==
  ASSUME TypeOK, Locally, NEW w \in Workers,
         CheckRTW(w) \/ ReadAccept(w) \/ Ack(w) \/ ReadAck(w) \/ ScanFails(w)
  PROVE  Read(w)
<1> DEFINE c == loc[w].claim
<1>1. loc[w].pc \in ScanLabels
  BY DEF CheckRTW, ReadAccept, Ack, ReadAck, ScanFails, At, ScanLabels
<1>2. /\ c \in Claims /\ Attached(c.fence) /\ ledger.ready /\ c.ref = ledger.ref
      /\ loc[w].pc \in Confirmed => rtw.state = "READY"
  BY <1>1 DEF Locally, Scanned
<1>3. UNCHANGED <<ledger, delivered, row, rtw, dc, live, ending, claimed>>
  BY DEF CheckRTW, ReadAccept, Ack, ReadAck, ScanFails, store, remote, env
<1>4. ASSUME NEW label \in ScanLabels, Goto(w, label), label \in Confirmed => rtw.state = "READY",
             label = "deliver" => Succeeded(c)
      PROVE  Quiet(w) /\ Asks(w)
  <2>1. label \in Labels
    BY DEF Labels
  <2>2. Others(w) /\ loc'[w].pc = label /\ loc'[w].claim = c
    BY <1>4, <2>1, GotoIs
  <2>3. Attached(c.fence)' /\ (Succeeded(c)' <=> Succeeded(c))
    BY <1>2, <1>3, <2>2 DEF Attached, Succeeded
  <2>4. Scanned(w)'
    BY <1>2, <1>3, <1>4, <2>2, <2>3 DEF Scanned, ScanLabels
  <2>5. Worked(w)' /\ loc'[w].pc \notin Asking
    BY <2>2 DEF Scanned, Worked, ScanLabels, Confirmed, WorkLabels, AttachedLabels, Asking
  <2>6. QED
    BY <1>3, <2>2, <2>4, <2>5 DEF Quiet, Asks
<1>5. UNCHANGED wire => Requested(w)
  BY DEF Requested
<1>6. ASSUME NEW plan \in Stages \ {"complete"}, Later(w, plan), UNCHANGED wire PROVE Read(w)
  BY <1>2, <1>3, <1>6, LaterRead DEF store, remote, env
<1>7. CASE CheckRTW(w)
  <2>1. CASE (Later(w, "needs_new_attempt") \/ Later(w, "manual")) /\ UNCHANGED wire
    BY <1>6, <2>1 DEF Stages
  <2>2. CASE Goto(w, "note") /\ Accepts(c.ref) /\ UNCHANGED wire
    <3>1. rtw.state = "READY"
      BY <2>2 DEF Accepts
    <3>2. QED
      BY <1>4, <1>5, <2>2, <3>1 DEF ScanLabels, Read
  <2>3. CASE wire' = wire \cup {[to |-> "accept", fence |-> c.fence, ref |-> c.ref]}
             /\ Goto(w, "accept")
    <3>1. Quiet(w) /\ Asks(w)
      BY <1>4, <2>3 DEF ScanLabels, Confirmed
    <3> DEFINE m == [to |-> "accept", fence |-> c.fence, ref |-> c.ref]
    <3>2. m \in Requests /\ Sent(m)
      BY <1>2 DEF Requests, Claims, Sent
    <3>3. Requested(w)
      BY <2>3, <3>2 DEF Requested
    <3>4. QED
      BY <3>1, <3>3 DEF Read
  <2>4. QED
    BY <1>7, <2>1, <2>2, <2>3 DEF CheckRTW
<1>8. CASE ReadAccept(w)
  <2>1. CASE Accepts(c.ref) /\ Goto(w, "note")
    BY <1>4, <1>5, <1>8, <2>1 DEF ReadAccept, ScanLabels, Accepts, Read
  <2>2. CASE Later(w, "pending") \/ Later(w, "manual")
    BY <1>6, <1>8, <2>2 DEF ReadAccept, Stages
  <2>3. QED
    BY <1>8, <2>1, <2>2 DEF ReadAccept
<1>9. CASE Ack(w)
  <2>1. rtw.state = "READY"
    BY <1>2, <1>9 DEF Ack, At, Confirmed
  <2>2. CASE Succeeded(c) /\ Goto(w, "deliver") /\ UNCHANGED wire
    BY <1>4, <1>5, <2>1, <2>2 DEF ScanLabels, Read
  <2>3. CASE wire' = wire \cup {[to |-> "complete", att |-> c.dc, ref |-> c.ref]}
             /\ Goto(w, "acked")
    <3>1. Quiet(w) /\ Asks(w)
      BY <1>4, <2>1, <2>3 DEF ScanLabels
    <3> DEFINE m == [to |-> "complete", att |-> c.dc, ref |-> c.ref]
    <3>2. m \in Requests /\ Sent(m)
      BY <1>2, <2>1 DEF Requests, Claims, Sent
    <3>3. Requested(w)
      BY <2>3, <3>2 DEF Requested
    <3>4. QED
      BY <3>1, <3>3 DEF Read
  <2>4. CASE UNCHANGED wire
             /\ Later(w, IF OutOfAttempts(dc[c.dc.job]) THEN "manual" ELSE "needs_new_attempt")
    BY <1>6, <2>4 DEF Stages
  <2>5. QED
    BY <1>9, <2>2, <2>3, <2>4 DEF Ack
<1>10. CASE ReadAck(w)
  <2>1. rtw.state = "READY"
    BY <1>2, <1>10 DEF ReadAck, At, Confirmed
  <2>2. CASE Succeeded(c) /\ Goto(w, "deliver")
    BY <1>4, <1>5, <1>10, <2>1, <2>2 DEF ReadAck, ScanLabels, Read
  <2>3. CASE Later(w, "pending")
    BY <1>6, <1>10, <2>3 DEF ReadAck, Stages
  <2>4. QED
    BY <1>10, <2>2, <2>3 DEF ReadAck
<1>11. CASE ScanFails(w)
  BY <1>6, <1>11 DEF ScanFails, Stages
<1>12. QED
  BY <1>7, <1>8, <1>9, <1>10, <1>11

(* A working step that keeps its fence, or takes one that is known.        *)
LEMMA WorkGoesOn ==
  ASSUME Locally, NEW w \in Workers,
         loc[w].pc \in WorkLabels, loc'[w].pc \in WorkLabels \cup {"own"},
         loc'[w].att = loc[w].att,
         UNCHANGED <<ledger, delivered, row, rtw, dc, live, ending, claimed>>,
         loc'[w].pc = "remote" => loc'[w].fixed \in Ledgers,
         loc'[w].pc \in AttachedLabels \cup {"attach"} =>
           \/ loc'[w].fence = loc[w].fence /\ loc[w].pc \in AttachedLabels \cup {"attach"}
           \/ loc'[w].fence = rtw.fence,
         loc'[w].pc \in AttachedLabels =>
           loc'[w].fence = loc[w].fence /\ loc[w].pc \in AttachedLabels
  PROVE  Scanned(w)' /\ Worked(w)'
<1>1. loc'[w].pc \notin ScanLabels \cup Confirmed \cup {"defer"}
  BY DEF WorkLabels, ScanLabels, Confirmed
<1>2. Scanned(w)'
  BY <1>1 DEF Scanned, Confirmed
<1>3. Worked(w)
  BY DEF Locally
<1>4. Worked(w)'
  BY <1>3 DEF Worked, Known, Attached
<1>5. QED
  BY <1>2, <1>4

LEMMA WorkReads ==
  ASSUME TypeOK, Locally, NEW w \in Workers,
         \/ ReadLocal(w) \/ ReadRemote(w) \/ GrantUnanswered(w) \/ ReadGrant(w)
         \/ Index(w) \/ CheckFence(w) \/ Recover(w) \/ PostCheck(w) \/ Recheck(w)
  PROVE  Read(w)
<1>1. loc[w].pc \in WorkLabels /\ loc[w] \in Locals /\ loc \in [Workers -> Locals] /\ Worked(w)
  BY DEF TypeOK, Locally, ReadLocal, ReadRemote, GrantUnanswered, ReadGrant, Index, CheckFence, Recover,
         PostCheck, Recheck, In, At, WorkLabels
<1>2. UNCHANGED <<ledger, delivered, row, rtw, dc, live, ending, claimed>>
  BY DEF ReadLocal, ReadRemote, GrantUnanswered, ReadGrant, Index, CheckFence, Recover, PostCheck,
         Recheck, store, remote, env
<1>3. UNCHANGED wire => Requested(w)
  BY DEF Requested
<1>4. ASSUME NEW l \in Locals, loc' = [loc EXCEPT ![w] = l]
      PROVE  Others(w) /\ loc'[w] = l
  BY <1>1, <1>4 DEF Others
<1>5. CASE ReadLocal(w)
  <2> DEFINE l == [loc[w] EXCEPT !.pc = "remote", !.fixed = ledger]
  <2>1. l \in Locals /\ l.pc = "remote" /\ l.fixed = ledger /\ l.att = loc[w].att
        /\ ledger \in Ledgers
    BY <1>1 DEF TypeOK, Locals, Labels, WorkLabels
  <2>2. loc' = [loc EXCEPT ![w] = l] /\ UNCHANGED wire /\ loc[w].pc = "local"
    BY <1>1, <1>5 DEF ReadLocal, In, At
  <2>3. Others(w) /\ loc'[w] = l
    BY <1>4, <2>1, <2>2
  <2>4. Scanned(w)' /\ Worked(w)'
    BY <1>1, <1>2, <2>1, <2>3, WorkGoesOn DEF AttachedLabels, WorkLabels
  <2>5. QED
    BY <1>2, <1>3, <2>1, <2>2, <2>3, <2>4 DEF Read, Quiet, Asks, Asking
<1>6. CASE ReadRemote(w)
  <2>1. loc[w].pc = "remote" /\ loc[w].fixed \in Ledgers /\ UNCHANGED wire
    BY <1>1, <1>6 DEF ReadRemote, In, At, Worked
  <2>2. ASSUME NEW label \in {"attach", "grant"}, NEW r \in Refs \cup {None},
               loc' = [loc EXCEPT ![w].pc = label, ![w].fence = rtw.fence, ![w].receipt = r]
        PROVE  Read(w)
    <3> DEFINE l == [loc[w] EXCEPT !.pc = label, !.fence = rtw.fence, !.receipt = r]
    <3>1. rtw.fence \in Fences
      BY DEF TypeOK, Builds
    <3>2. l \in Locals /\ l.pc = label /\ l.fence = rtw.fence /\ l.att = loc[w].att
      BY <1>1, <3>1 DEF Locals, Labels, WorkLabels
    <3>3. loc' = [loc EXCEPT ![w] = l]
      BY <1>1, <2>2
    <3>4. Others(w) /\ loc'[w] = l
      BY <1>4, <3>2, <3>3
    <3>5. Scanned(w)' /\ Worked(w)'
      BY <1>1, <1>2, <3>2, <3>4, WorkGoesOn DEF AttachedLabels, WorkLabels
    <3>6. QED
      BY <1>2, <1>3, <2>1, <3>2, <3>4, <3>5 DEF Read, Quiet, Asks, Asking
  <2>3. loc[w].fixed.ref \in Refs \cup {None}
    BY <2>1 DEF Ledgers
  <2>4. QED
    BY <1>6, <2>2, <2>3 DEF ReadRemote
<1>7. CASE GrantUnanswered(w)
  <2> DEFINE m == [to |-> "claim", att |-> loc[w].att]
  <2>1. loc[w].pc = "grant" /\ Goto(w, "regrant") /\ wire' = wire \cup {m}
    BY <1>7 DEF GrantUnanswered, In, At
  <2>2. "regrant" \in Labels
    BY DEF Labels, WorkLabels
  <2>3. Others(w) /\ loc'[w].pc = "regrant" /\ loc'[w].att = loc[w].att
    BY <2>1, <2>2, GotoIs
  <2>4. Scanned(w)' /\ Worked(w)'
    BY <1>1, <1>2, <2>3, WorkGoesOn DEF AttachedLabels, WorkLabels
  <2>5. m \in Requests /\ Sent(m)
    BY <1>1 DEF Requests, Worked, Sent
  <2>6. Requested(w)
    BY <2>1, <2>5 DEF Requested
  <2>7. QED
    BY <1>2, <2>3, <2>4, <2>6 DEF Read, Quiet, Asks, Asking
<1>8. CASE ReadGrant(w)
  <2> DEFINE l == [loc[w] EXCEPT !.pc = "attach", !.fence = Expected(w)]
  <2>1. Expected(w) = rtw.fence /\ loc[w].pc = "regrant" /\ UNCHANGED wire
    BY <1>8 DEF ReadGrant, In, At, GrantedTo
  <2>2. rtw.fence \in Fences
    BY DEF TypeOK, Builds
  <2>3. l \in Locals /\ l.pc = "attach" /\ l.fence = rtw.fence /\ l.att = loc[w].att
    BY <1>1, <2>1, <2>2 DEF Locals, Labels, WorkLabels
  <2>4. loc' = [loc EXCEPT ![w] = l]
    BY <1>1, <1>8 DEF ReadGrant
  <2>5. Others(w) /\ loc'[w] = l
    BY <1>4, <2>3, <2>4
  <2>6. Scanned(w)' /\ Worked(w)'
    BY <1>1, <1>2, <2>3, <2>5, WorkGoesOn DEF AttachedLabels, WorkLabels
  <2>7. QED
    BY <1>2, <1>3, <2>1, <2>3, <2>5, <2>6 DEF Read, Quiet, Asks, Asking
<1>9. CASE Recover(w)
  <2> DEFINE l == [loc[w] EXCEPT !.pc = "post", !.receipt = ledger.ref]
  <2>1. loc[w].pc = "recover" /\ UNCHANGED wire /\ ledger.ref \in Refs \cup {None}
    BY <1>9 DEF Recover, In, At, TypeOK, Ledgers
  <2>2. l \in Locals /\ l.pc = "post" /\ l.fence = loc[w].fence /\ l.att = loc[w].att
    BY <1>1, <2>1 DEF Locals, Labels, WorkLabels
  <2>3. loc' = [loc EXCEPT ![w] = l]
    BY <1>1, <1>9 DEF Recover
  <2>4. Others(w) /\ loc'[w] = l
    BY <1>4, <2>2, <2>3
  <2>5. Scanned(w)' /\ Worked(w)'
    BY <1>1, <1>2, <2>1, <2>2, <2>4, WorkGoesOn DEF AttachedLabels, WorkLabels
  <2>6. QED
    BY <1>2, <1>3, <2>1, <2>2, <2>4, <2>5 DEF Read, Quiet, Asks, Asking
<1>10. CASE Index(w) \/ CheckFence(w) \/ PostCheck(w) \/ Recheck(w)
  <2>1. /\ loc[w].pc \in AttachedLabels /\ UNCHANGED wire
        /\ \E label \in AttachedLabels : Goto(w, label)
    BY <1>10 DEF Index, CheckFence, PostCheck, Recheck, In, At, AttachedLabels
  <2>2. PICK label \in AttachedLabels : Goto(w, label)
    BY <2>1
  <2>3. label \in Labels \cap (WorkLabels \cup {"own"})
    BY DEF AttachedLabels, Labels, WorkLabels
  <2>4. /\ Others(w) /\ loc'[w].pc = label /\ loc'[w].fence = loc[w].fence
        /\ loc'[w].att = loc[w].att
    BY <2>2, <2>3, GotoIs
  <2>5. Scanned(w)' /\ Worked(w)'
    BY <1>1, <1>2, <2>1, <2>3, <2>4, WorkGoesOn DEF AttachedLabels
  <2>6. QED
    BY <1>2, <1>3, <2>1, <2>4, <2>5 DEF Read, Quiet, Asks, Asking, AttachedLabels
<1>11. QED
  BY <1>5, <1>6, <1>7, <1>8, <1>9, <1>10

LEMMA ReadsKeep == ASSUME TypeOK, Locally, NEW w \in Workers, Reads(w) PROVE Read(w)
<1>1. CASE \/ ScanEnds(w) \/ NoWork(w) \/ WorkExpires(w) \/ Crash(w)
           \/ At(w, "idle") /\ ~Claimable /\ Goto(w, "poll") /\ UNCHANGED <<store, remote, env, wire>>
           \/ At(w, "own") /\ ~Claimable /\ Stop(w) /\ UNCHANGED <<store, remote, env, wire>>
  BY <1>1, RestRead DEF ScanEnds, NoWork, WorkExpires, Crash
<1>2. ASSUME NEW retryable \in BOOLEAN, WorkFails(w, retryable) PROVE Read(w)
  <2> DEFINE m == [to |-> "fail", att |-> loc[w].att, retryable |-> retryable]
  <2>1. loc[w].pc \in WorkLabels /\ Stop(w) /\ wire' = wire \cup {m}
        /\ UNCHANGED <<ledger, delivered, row, rtw, dc, live, ending, claimed>>
    BY <1>2 DEF WorkFails, store, remote, env
  <2>2. m \in Requests /\ Sent(m)
    BY <2>1 DEF Locally, Worked, Requests, Sent
  <2>3. Others(w) /\ loc'[w].pc = "idle"
    BY <2>1, StopIs DEF Idle
  <2>4. QED
    BY <2>1, <2>2, <2>3, AtRest DEF Read, Quiet, Requested, Asks
<1>3. QED
  BY <1>1, <1>2, ScanReads, WorkReads DEF Reads

-------------------------------------------------------------------------------
(* What no step takes back, and what stays because of it.                  *)

Services == Fenced /\ SuccessIsAccepted /\ DeliveredIsConfirmed /\ RowPrecedesReady
ServicesOK ==
  /\ ledger \in Ledgers /\ delivered \in BOOLEAN /\ row \in Rows \cup {None}
  /\ rtw \in Builds /\ dc \in [Jobs -> JobRows]

Keeps ==
  /\ ledger.ready => ledger' = ledger
  /\ row # None => row' # None /\ row'.fence.epoch >= row.fence.epoch
  /\ rtw.state # "BUILDING" => rtw' = rtw
  /\ rtw'.fence = rtw.fence \/ rtw'.fence.epoch = rtw.fence.epoch + 1
  /\ \A j \in Jobs :
       /\ dc'[j].n >= dc[j].n
       /\ dc[j].state = "succeeded" => dc'[j] = dc[j]

LEMMA FenceTypes ==
  ASSUME TypeOK
  PROVE  /\ rtw.fence \in Fences /\ rtw.fence.epoch \in Nat /\ ledger.fence.epoch \in Nat
         /\ row # None => row.fence \in Fences /\ row.fence.epoch \in Nat
         /\ \A w \in Workers : loc[w].fence \in Fences /\ loc[w].fence.epoch \in Nat
         /\ \A c \in Claims : c.fence \in Fences /\ c.fence.epoch \in Nat /\ c.dc \in Attempts
         /\ \A m \in wire :
              m.to = "accept" => m.fence \in Fences /\ m.fence.epoch \in Nat /\ m.ref \in Refs
         /\ \A m \in wire : m.to # "accept" => m.att \in Attempts
         /\ \A m \in wire : m.to = "complete" => m.ref \in Refs
         /\ \A j \in Jobs : dc[j].n \in Nat
<1>1. \A f \in Fences : f.epoch \in Nat
  BY EpochType DEF Fences
<1>2. rtw.fence \in Fences /\ ledger.fence \in Fences /\ (row # None => row.fence \in Fences)
  BY DEF TypeOK, Builds, Ledgers, Rows
<1>3. \A w \in Workers : loc[w].fence \in Fences
  BY DEF TypeOK, Locals
<1>4. \A c \in Claims : c.fence \in Fences /\ c.dc \in Attempts
  BY DEF Claims
<1>5. \A m \in wire : /\ m.to = "accept" => m.fence \in Fences /\ m.ref \in Refs
                      /\ m.to # "accept" => m.att \in Attempts
                      /\ m.to = "complete" => m.ref \in Refs
  BY DEF TypeOK, Requests
<1>6. \A j \in Jobs : dc[j].n \in Nat
  BY AttemptsAssumption DEF TypeOK, JobRows
<1>7. QED
  BY <1>1, <1>2, <1>3, <1>4, <1>5, <1>6

LEMMA JobsGoOn ==
  ASSUME TypeOK, ServicesOK', Keeps, NEW j \in Jobs
  PROVE  /\ dc[j].n \in Nat /\ dc'[j].n \in Nat /\ dc'[j].n >= dc[j].n
         /\ dc[j].state = "succeeded" => dc'[j] = dc[j]
<1>1. dc'[j] \in JobRows
  BY DEF ServicesOK
<1>2. dc'[j].n \in 0..MaxAttempts
  BY <1>1 DEF JobRows
<1>3. dc'[j].n >= dc[j].n /\ (dc[j].state = "succeeded" => dc'[j] = dc[j])
  BY DEF Keeps
<1>4. dc[j].n \in Nat
  BY FenceTypes
<1>5. dc'[j].n \in Nat
  BY <1>2, AttemptsAssumption
<1>6. QED
  BY <1>3, <1>4, <1>5

LEMMA KnownStays ==
  ASSUME TypeOK, Keeps, NEW f, Known(f), f.epoch \in Nat
  PROVE  f = rtw'.fence \/ f.epoch < rtw'.fence.epoch
  BY FenceTypes DEF Known, Keeps

LEMMA AttachedStays ==
  ASSUME TypeOK, ServicesOK', Keeps, NEW f, Attached(f), f.epoch \in Nat
  PROVE  row' # None /\ f.epoch <= row'.fence.epoch
<1>1. row' \in Rows /\ row'.fence.epoch >= row.fence.epoch
  BY DEF ServicesOK, Keeps, Attached
<1>2. row'.fence.epoch \in Nat
  BY <1>1, EpochType DEF Rows, Fences
<1>3. QED
  BY <1>1, <1>2, FenceTypes DEF Attached, Keeps

LEMMA OtherStays ==
  ASSUME TypeOK, Locally, ServicesOK', Keeps, NEW v \in Workers, loc'[v] = loc[v]
  PROVE  Scanned(v)' /\ Worked(v)'
<1>1. Scanned(v) /\ Worked(v)
  BY DEF Locally
<1>2. ASSUME loc[v].pc \in ScanLabels \cup {"defer"}
      PROVE  /\ loc'[v].claim \in Claims /\ Attached(loc[v].claim.fence)'
             /\ loc[v].pc \in ScanLabels => ledger'.ready /\ loc'[v].claim.ref = ledger'.ref
  <2>1. loc[v].claim.fence.epoch \in Nat
    BY <1>1, <1>2, FenceTypes DEF Scanned
  <2>2. row' # None /\ loc[v].claim.fence.epoch <= row'.fence.epoch
    BY <1>1, <1>2, <2>1, AttachedStays DEF Scanned
  <2>3. QED
    BY <1>1, <1>2, <2>2 DEF Scanned, Keeps, Attached
<1>3. loc[v].pc \in Confirmed => rtw'.state = "READY"
  BY <1>1 DEF Scanned, Keeps
<1>4. loc[v].pc = "deliver" => Succeeded(loc[v].claim)'
  <2> HAVE loc[v].pc = "deliver"
  <2>1. loc[v].claim \in Claims /\ Succeeded(loc[v].claim)
    BY <1>1 DEF Scanned, ScanLabels
  <2>2. loc[v].claim.dc.job \in Jobs
    BY <2>1, FenceTypes DEF Attempts
  <2>3. QED
    BY <2>1, <2>2, JobsGoOn DEF Succeeded
<1>5. Scanned(v)'
  BY <1>1, <1>2, <1>3, <1>4 DEF Scanned
<1>6. ASSUME loc[v].pc \in WorkLabels \cup {"own"}
      PROVE  loc'[v].att \in Attempts /\ loc'[v].att.n <= dc'[loc'[v].att.job].n
  <2>1. loc[v].att \in Attempts /\ loc[v].att.n <= dc[loc[v].att.job].n
    BY <1>1, <1>6 DEF Worked
  <2>2. loc[v].att.job \in Jobs /\ loc[v].att.n \in Nat
    BY <2>1, AttemptsAssumption DEF Attempts
  <2>3. QED
    BY <2>1, <2>2, JobsGoOn
<1>7. loc[v].pc \in AttachedLabels \cup {"attach"} => Known(loc[v].fence)'
  BY <1>1, FenceTypes, KnownStays DEF Worked, Known
<1>8. loc[v].pc \in AttachedLabels => Attached(loc[v].fence)'
  BY <1>1, FenceTypes, AttachedStays DEF Worked, Attached
<1>9. Worked(v)'
  BY <1>1, <1>6, <1>7, <1>8 DEF Worked
<1>10. QED
  BY <1>5, <1>9

LEMMA SentStays ==
  ASSUME TypeOK, InFlight, ServicesOK', Keeps, NEW m \in wire
  PROVE  Sent(m)'
<1>1. Sent(m)
  BY DEF InFlight
<1>2. CASE m.to = "claim"
  <2>1. m.att \in Attempts /\ m.att.n <= dc[m.att.job].n
    BY <1>1, <1>2, FenceTypes DEF Sent
  <2>2. m.att.job \in Jobs /\ m.att.n \in Nat
    BY <2>1, AttemptsAssumption DEF Attempts
  <2>3. QED
    BY <1>2, <2>1, <2>2, JobsGoOn DEF Sent
<1>3. CASE m.to = "accept"
  <2>1. Attached(m.fence) /\ m.fence.epoch \in Nat
    BY <1>1, <1>3, FenceTypes DEF Sent
  <2>2. row' # None /\ m.fence.epoch <= row'.fence.epoch
    BY <2>1, AttachedStays
  <2>3. QED
    BY <1>1, <1>3, <2>2 DEF Sent, Keeps, Attached
<1>4. CASE m.to = "complete"
  <2>1. rtw.state = "READY" /\ m.ref = ledger.ref /\ ledger.ready
    BY <1>1, <1>4 DEF Sent
  <2>2. QED
    BY <1>4, <2>1 DEF Sent, Keeps
<1>5. QED
  BY <1>2, <1>3, <1>4 DEF Sent

(* There is a fence left for an attempt that may still ask for one.        *)
LEMMA GrantFits ==
  ASSUME TypeOK, Counted, NEW a \in Attempts, MayAsk(a)
  PROVE  Granted(a) \in Builds
<1>1. a \notin Spent /\ Spent \cup {a} \in SUBSET Attempts
  BY DEF Spent
<1>2. Cardinality(Spent \cup {a}) = Cardinality(Spent) + 1
  BY <1>1, SpentIsFinite, FS_AddElement
<1>3. Cardinality(Spent \cup {a}) <= MaxEpoch
  BY <1>1, AttemptsAreFinite, FS_Subset
<1>4. rtw.fence.epoch + 1 \in 0..MaxEpoch
  BY <1>2, <1>3, SpentIsFinite, EpochType, FenceTypes DEF Counted
<1>5. [attempt |-> a, epoch |-> rtw.fence.epoch + 1] \in Fences
  BY <1>4 DEF Fences
<1>6. QED
  BY <1>5, FenceTypes DEF TypeOK, Builds, Granted

-------------------------------------------------------------------------------
(* Answers and withdrawals.                                                *)

Served == ServicesOK' /\ Keeps /\ Services'

LEMMA GrantServes ==
  ASSUME TypeOK, Services, NEW a \in Attempts, Grantable(a), Granted(a) \in Builds,
         rtw' = Granted(a), UNCHANGED <<store, dc>>
  PROVE  Served /\ rtw'.fence = [attempt |-> a, epoch |-> rtw'.fence.epoch]
<1>1. UNCHANGED <<ledger, delivered, row, dc>>
  BY DEF store
<1>2. ServicesOK'
  BY <1>1 DEF ServicesOK, TypeOK
<1>3. rtw.state = "BUILDING" /\ rtw'.state = "BUILDING" /\ rtw'.ref = rtw.ref
  BY DEF Grantable, Granted, TypeOK, Builds
<1>4. \/ rtw.fence.attempt = a /\ rtw'.fence = rtw.fence
      \/ rtw'.fence = [attempt |-> a, epoch |-> rtw.fence.epoch + 1]
  BY DEF Granted, TypeOK, Builds
<1>5. Keeps
  BY <1>1, <1>3, <1>4, FenceTypes DEF Keeps
<1>6. Fenced'
  <2>1. row # None => Known(row.fence)'
    BY <1>1, <1>5, FenceTypes, KnownStays DEF Services, Fenced, Known
  <2>2. QED
    BY <1>1, <1>3, <2>1 DEF Services, Fenced
<1>7. SuccessIsAccepted'
  BY <1>1, <1>3 DEF Services, SuccessIsAccepted
<1>8. DeliveredIsConfirmed'
  BY <1>1, <1>3 DEF Services, DeliveredIsConfirmed
<1>9. RowPrecedesReady'
  BY <1>1, <1>4, FenceTypes DEF Services, RowPrecedesReady
<1>10. rtw'.fence = [attempt |-> a, epoch |-> rtw'.fence.epoch]
  BY <1>4, FenceTypes DEF Fences
<1>11. QED
  BY <1>2, <1>5, <1>6, <1>7, <1>8, <1>9, <1>10 DEF Served, Services

LEMMA NothingServes ==
  ASSUME TypeOK, Services, UNCHANGED <<ledger, delivered, row, rtw, dc>>
  PROVE  Served
<1>1. ServicesOK' /\ Keeps
  BY FenceTypes DEF ServicesOK, TypeOK, Keeps
<1>2. Services'
  BY DEF Services, Fenced, Known, SuccessIsAccepted, DeliveredIsConfirmed, RowPrecedesReady
<1>3. QED
  BY <1>1, <1>2 DEF Served

LEMMA AcceptServes ==
  ASSUME TypeOK, Services, InFlight, NEW m \in wire, RTWAccept(m)
  PROVE  Served
<1>1. UNCHANGED <<ledger, delivered, row, dc>> /\ m.to = "accept"
  BY DEF RTWAccept, store
<1>2. CASE ~(rtw.state = "BUILDING" /\ rtw.fence = m.fence /\ m.fence.attempt \in live)
  BY <1>1, <1>2, NothingServes DEF RTWAccept
<1>3. CASE rtw.state = "BUILDING" /\ rtw.fence = m.fence /\ m.fence.attempt \in live
  <2>1. rtw' = [rtw EXCEPT !.state = "READY", !.ref = m.ref]
    BY <1>3 DEF RTWAccept
  <2>2. /\ rtw' \in Builds /\ rtw'.state = "READY" /\ rtw'.ref = m.ref
        /\ rtw'.fence = rtw.fence
    BY <1>1, <2>1, FenceTypes DEF TypeOK, Builds
  <2>3. Keeps /\ ServicesOK'
    BY <1>1, <1>3, <2>2, FenceTypes DEF Keeps, ServicesOK, TypeOK
  <2>4. ledger.ready /\ m.ref = ledger.ref /\ Attached(m.fence)
    BY <1>1 DEF InFlight, Sent
  <2>5. row # None /\ row.fence = rtw.fence
    BY <1>3, <2>4, FenceTypes DEF Services, Fenced, Known, Attached
  <2>6. Fenced'
    BY <1>1, <2>2, <2>5 DEF Services, Fenced, Known
  <2>7. SuccessIsAccepted'
    BY <1>1, <1>3, <2>2, <2>4 DEF Services, SuccessIsAccepted
  <2>8. DeliveredIsConfirmed'
    BY <1>1, <1>3, <2>2 DEF Services, DeliveredIsConfirmed
  <2>9. RowPrecedesReady'
    BY <1>1, <2>2 DEF Services, RowPrecedesReady
  <2>10. QED
    BY <2>3, <2>6, <2>7, <2>8, <2>9 DEF Served, Services
<1>4. QED
  BY <1>2, <1>3

LEMMA CancelServes == ASSUME TypeOK, Services, RTWCancel PROVE Served
<1>1. UNCHANGED <<ledger, delivered, row, dc>> /\ rtw.state = "BUILDING"
  BY DEF RTWCancel, store
<1>2. rtw' \in Builds /\ rtw'.state = "CANCELLED" /\ rtw'.fence = rtw.fence
  BY DEF RTWCancel, TypeOK, Builds
<1>3. Keeps /\ ServicesOK'
  BY <1>1, <1>2, FenceTypes DEF Keeps, ServicesOK, TypeOK
<1>4. Fenced'
  BY <1>1, <1>2 DEF Services, Fenced, Known
<1>5. SuccessIsAccepted'
  BY <1>1, <1>2 DEF Services, SuccessIsAccepted
<1>6. DeliveredIsConfirmed'
  BY <1>1, <1>2 DEF Services, DeliveredIsConfirmed
<1>7. RowPrecedesReady'
  BY <1>1, <1>2 DEF Services, RowPrecedesReady
<1>8. QED
  BY <1>3, <1>4, <1>5, <1>6, <1>7 DEF Served, Services

(* A job that has not succeeded changes; if it succeeds now, then with     *)
(* what RTW has accepted.                                                  *)
LEMMA JobServes ==
  ASSUME TypeOK, Services, NEW j \in Jobs, NEW new \in JobRows, dc' = [dc EXCEPT ![j] = new],
         dc[j].state # "succeeded", new.n >= dc[j].n,
         new.state = "succeeded" => rtw.state = "READY" /\ new.ref = rtw.ref,
         UNCHANGED <<ledger, delivered, row, rtw>>
  PROVE  Served
<1>1. /\ dc' \in [Jobs -> JobRows] /\ dc'[j] = new
      /\ \A i \in Jobs \ {j} : dc'[i] = dc[i]
  BY DEF TypeOK
<1>2. Keeps /\ ServicesOK'
  <2>1. \A i \in Jobs : dc'[i].n >= dc[i].n /\ (dc[i].state = "succeeded" => dc'[i] = dc[i])
    BY <1>1, FenceTypes
  <2>2. QED
    BY <1>1, <2>1, FenceTypes DEF Keeps, ServicesOK, TypeOK
<1>3. Fenced' /\ RowPrecedesReady'
  BY DEF Services, Fenced, Known, RowPrecedesReady
<1>4. SuccessIsAccepted'
  BY <1>1 DEF Services, SuccessIsAccepted
<1>5. DeliveredIsConfirmed'
  <2>1. row # None => row.dc.job \in Jobs
    BY DEF TypeOK, Rows, Attempts
  <2>2. QED
    BY <1>1, <2>1 DEF Services, DeliveredIsConfirmed
<1>6. QED
  BY <1>2, <1>3, <1>4, <1>5 DEF Served, Services

LEMMA AnswerServes ==
  ASSUME TypeOK, Services, InFlight, Counted, NEW m \in wire, Answer(m)
  PROVE  Served /\ wire' = wire \ {m} /\ UNCHANGED <<live, ending, claimed, loc>>
<1>1. wire' = wire \ {m} /\ UNCHANGED <<live, ending, claimed, loc>>
  BY DEF Answer, RTWClaim, RTWAccept, DCComplete, DCFail, env
<1>2. CASE RTWClaim(m)
  <2>1. m.to = "claim" /\ m.att \in Attempts /\ UNCHANGED <<store, dc>>
    BY <1>2, FenceTypes DEF RTWClaim
  <2>2. m = [to |-> "claim", att |-> m.att]
    BY <2>1 DEF TypeOK, Requests
  <2>3. MayAsk(m.att)
    BY <2>2 DEF MayAsk
  <2>4. Granted(m.att) \in Builds
    BY <2>1, <2>3, GrantFits
  <2>5. CASE Grantable(m.att)
    BY <1>1, <1>2, <2>1, <2>4, <2>5, GrantServes DEF RTWClaim
  <2>6. CASE ~Grantable(m.att)
    BY <1>1, <1>2, <2>1, <2>6, NothingServes DEF RTWClaim, store
  <2>7. QED
    BY <1>1, <2>5, <2>6
<1>3. CASE RTWAccept(m)
  BY <1>1, <1>3, AcceptServes
<1>4. CASE DCComplete(m) \/ DCFail(m)
  <2>1. /\ m.att \in Attempts /\ m.att.job \in Jobs /\ dc[m.att.job] \in JobRows
        /\ UNCHANGED <<ledger, delivered, row, rtw>>
    BY <1>4, FenceTypes DEF DCComplete, DCFail, Attempts, TypeOK, store
  <2>2. CASE UNCHANGED dc
    BY <1>1, <2>1, <2>2, NothingServes
  <2>3. CASE Running(m.att) /\ DCComplete(m) /\ ~UNCHANGED dc
    <3> DEFINE new == [dc[m.att.job] EXCEPT !.state = "succeeded", !.ref = m.ref]
    <3>1. m.to = "complete" /\ m.ref \in Refs /\ Sent(m)
      BY <2>3, FenceTypes DEF DCComplete, InFlight
    <3>2. dc' = [dc EXCEPT ![m.att.job] = new]
      BY <2>1, <2>3 DEF DCComplete, TypeOK
    <3>3. new \in JobRows /\ new.n = dc[m.att.job].n /\ new.ref = m.ref
      BY <2>1, <3>1 DEF JobRows
    <3>4. rtw.state = "READY" /\ m.ref = rtw.ref
      BY <3>1 DEF Sent, Services, SuccessIsAccepted
    <3>5. dc[m.att.job].state # "succeeded" /\ new.n >= dc[m.att.job].n
      BY <2>1, <2>3, <3>3, FenceTypes DEF Running
    <3>6. QED
      BY <1>1, <2>1, <3>2, <3>3, <3>4, <3>5, JobServes
  <2>4. CASE Running(m.att) /\ DCFail(m) /\ ~UNCHANGED dc
    <3> DEFINE new == [dc[m.att.job] EXCEPT !.state =
                         IF m.retryable /\ m.att.n < MaxAttempts THEN "queued" ELSE "failed"]
    <3>1. dc' = [dc EXCEPT ![m.att.job] = new]
      BY <2>1, <2>4 DEF DCFail, TypeOK
    <3>2. new \in JobRows /\ new.n = dc[m.att.job].n /\ new.state # "succeeded"
      BY <2>1 DEF JobRows
    <3>3. dc[m.att.job].state # "succeeded" /\ new.n >= dc[m.att.job].n
      BY <2>1, <2>4, <3>2, FenceTypes DEF Running
    <3>4. QED
      BY <1>1, <2>1, <3>1, <3>2, <3>3, JobServes
  <2>5. QED
    BY <1>4, <2>2, <2>3, <2>4 DEF DCComplete, DCFail
<1>5. QED
  BY <1>2, <1>3, <1>4 DEF Answer

LEMMA JobEnds ==
  ASSUME TypeOK, Services, NEW j \in Jobs, DCExhaust(j) \/ DCCancel(j)
  PROVE  Served /\ UNCHANGED <<live, ending, claimed, wire, loc>>
<1>1. PICK state \in {"failed", "cancelled"} :
        dc' = [dc EXCEPT ![j].state = state] /\ dc[j].state # "succeeded"
        /\ UNCHANGED <<ledger, delivered, row, rtw, live, ending, claimed, wire, loc>>
  BY DEF DCExhaust, DCCancel, store, env
<1> DEFINE new == [dc[j] EXCEPT !.state = state]
<1>2. dc[j] \in JobRows /\ dc' = [dc EXCEPT ![j] = new]
  BY <1>1 DEF TypeOK
<1>3. new \in JobRows /\ new.n = dc[j].n /\ new.state # "succeeded"
  BY <1>2 DEF JobRows
<1>4. new.n >= dc[j].n
  BY <1>3, FenceTypes
<1>5. QED
  BY <1>1, <1>2, <1>3, <1>4, JobServes

-------------------------------------------------------------------------------
(* The writing steps of a worker.                                          *)

LEMMA RowServes ==
  ASSUME TypeOK, Services, row # None, row' \in Rows, row'.fence = row.fence, row'.dc = row.dc,
         UNCHANGED <<ledger, rtw, dc>>,
         row'.accepted => row.accepted \/ rtw.state = "READY",
         delivered' \in BOOLEAN, delivered' <=> row'.stage = "complete",
         delivered' => /\ rtw.state = "READY"
                       /\ dc[row.dc.job].state = "succeeded" /\ dc[row.dc.job].n = row.dc.n
  PROVE  Served
<1>1. row' # None
  BY RowAssumption
<1>2. ServicesOK' /\ Keeps
  BY <1>1, FenceTypes DEF ServicesOK, TypeOK, Keeps
<1>3. Fenced' /\ RowPrecedesReady'
  BY <1>1 DEF Services, Fenced, Known, RowPrecedesReady
<1>4. SuccessIsAccepted'
  BY DEF Services, SuccessIsAccepted
<1>5. DeliveredIsConfirmed'
  BY <1>1 DEF Services, Fenced, DeliveredIsConfirmed, SuccessIsAccepted
<1>6. QED
  BY <1>2, <1>3, <1>4, <1>5 DEF Served, Services

(* A step that writes as it should.                                        *)
Wrote(w) ==
  /\ Served /\ Others(w) /\ Scanned(w)' /\ Worked(w)' /\ UNCHANGED wire
  /\ live' \subseteq Attempts /\ ending' \subseteq live' /\ claimed' \subseteq Workers

LEMMA TakeWrites ==
  ASSUME TypeOK, Services, NEW w \in Workers, Takes(w)
  PROVE  Wrote(w) /\ loc'[w].pc \notin Asking
<1> DEFINE c == [fence |-> row.fence, dc |-> row.dc, accepted |-> row.accepted, ref |-> ledger.ref]
           l == [Idle EXCEPT !.pc = "check", !.claim = c]
<1>1. /\ ledger.ready /\ ~delivered /\ row \in Rows /\ row.stage = "pending" /\ row # None
      /\ row' = [row EXCEPT !.holder = w] /\ claimed' = claimed \cup {w}
      /\ UNCHANGED <<ledger, delivered, rtw, dc, live, ending, wire>>
      /\ loc' = [loc EXCEPT ![w] = l]
  BY DEF Takes, Claimable, TakeClaim, TypeOK, remote, lease
<1>2. /\ row' \in Rows /\ row'.fence = row.fence /\ row'.dc = row.dc
      /\ row'.accepted = row.accepted /\ row'.stage = row.stage
  BY <1>1 DEF Rows
<1>3. Served
  BY <1>1, <1>2, RowServes DEF TypeOK
<1>4. c \in Claims
  BY <1>1 DEF Rows, Services, Fenced, Claims
<1>5. l \in Locals /\ l.pc = "check" /\ l.claim = c
  BY <1>4, EpochType DEF Idle, Locals, Labels, ScanLabels
<1>6. Others(w) /\ loc'[w] = l
  BY <1>1, <1>5 DEF TypeOK, Others
<1>7. /\ loc'[w].pc = "check" /\ loc'[w].claim = c /\ loc'[w].claim.ref = ledger.ref
      /\ Attached(loc[w].claim.fence)'
  <2>1. loc'[w].claim.fence = row'.fence /\ row'.fence.epoch \in Nat /\ row' # None
    <3>1. row.fence.epoch \in Nat
      BY <1>1, FenceTypes
    <3>2. loc'[w].claim.fence = row.fence
      BY <1>5, <1>6
    <3>3. QED
      BY <1>2, <3>1, <3>2, RowAssumption
  <2>2. QED
    BY <1>5, <1>6, <2>1 DEF Attached
<1>8. Scanned(w)' /\ Worked(w)' /\ loc'[w].pc \notin Asking
  BY <1>1, <1>4, <1>7 DEF Scanned, Worked, ScanLabels, Confirmed, WorkLabels, AttachedLabels, Asking
<1>9. QED
  BY <1>1, <1>3, <1>6, <1>8 DEF Wrote, TypeOK

LEMMA ScanWrites ==
  ASSUME TypeOK, Services, Locally, NEW w \in Workers, Note(w) \/ Deliver(w) \/ Defer(w)
  PROVE  Wrote(w) /\ loc'[w].pc \notin Asking
<1> DEFINE c == loc[w].claim
<1>1. UNCHANGED <<ledger, rtw, dc, live, ending, claimed, wire>> /\ Scanned(w)
  BY DEF Note, Deliver, Defer, remote, env, Locally
<1>2. row # None => row \in Rows
  BY DEF TypeOK
<1>3. CASE Note(w)
  <2>1. /\ loc[w].pc = "note" /\ Goto(w, "ack") /\ UNCHANGED delivered
        /\ c \in Claims /\ Attached(c.fence) /\ ledger.ready /\ c.ref = ledger.ref
        /\ rtw.state = "READY"
    BY <1>1, <1>3 DEF Note, At, Scanned, ScanLabels, Confirmed
  <2>2. row # None /\ row \in Rows
    BY <1>2, <2>1 DEF Attached
  <2>3. row' \in Rows /\ row'.fence = row.fence /\ row'.dc = row.dc /\ row'.stage = row.stage
    BY <1>3, <2>2 DEF Note, Rows
  <2>4. delivered' <=> row'.stage = "complete"
    BY <2>1, <2>2, <2>3 DEF Services, DeliveredIsConfirmed
  <2>5. Served
    BY <1>1, <2>1, <2>2, <2>3, <2>4, RowServes DEF TypeOK, Services, DeliveredIsConfirmed
  <2>6. Others(w) /\ loc'[w].pc = "ack" /\ loc'[w].claim = c
    BY <2>1, GotoIs DEF Labels, ScanLabels
  <2>7. Attached(c.fence)'
    BY <2>1, <2>3, <2>6, RowAssumption DEF Attached
  <2>8. Scanned(w)' /\ Worked(w)' /\ loc'[w].pc \notin Asking
    BY <1>1, <2>1, <2>6, <2>7 DEF Scanned, Worked, ScanLabels, Confirmed, WorkLabels, AttachedLabels, Asking
  <2>9. QED
    BY <1>1, <2>5, <2>6, <2>8 DEF Wrote, TypeOK
<1>4. CASE Deliver(w) \/ Defer(w)
  <2>1. Stop(w) /\ Holds(w)
    BY <1>4 DEF Deliver, Defer
  <2>2. Others(w) /\ Scanned(w)' /\ Worked(w)' /\ loc'[w].pc \notin Asking
    BY <2>1, StopIs, AtRest DEF Idle
  <2>3. row # None /\ row \in Rows /\ row.stage = "pending" /\ row.dc = c.dc
    <3>1. row # None
      BY <1>1, <1>4 DEF Deliver, Defer, At, Scanned, Attached, ScanLabels
    <3>2. QED
      BY <1>2, <2>1, <3>1 DEF Holds
  <2>4. ~delivered
    BY <2>3 DEF Services, DeliveredIsConfirmed
  <2>5. CASE Deliver(w)
    <3>1. row' = [row EXCEPT !.stage = "complete"] /\ delivered' = TRUE /\ Succeeded(c)
          /\ rtw.state = "READY"
      BY <1>1, <2>5 DEF Deliver, At, Scanned, Confirmed
    <3>2. row' \in Rows /\ row'.fence = row.fence /\ row'.dc = row.dc
          /\ row'.accepted = row.accepted /\ row'.stage = "complete"
      BY <2>3, <3>1 DEF Rows, Stages
    <3>3. dc[row.dc.job].state = "succeeded" /\ dc[row.dc.job].n = row.dc.n
      BY <2>3, <3>1 DEF Succeeded
    <3>4. QED
      BY <1>1, <2>2, <2>3, <3>1, <3>2, <3>3, RowServes DEF Wrote, TypeOK
  <2>6. CASE Defer(w)
    <3>1. loc[w].plan \in Stages \ {"complete"} /\ UNCHANGED delivered
      BY <1>1, <2>6 DEF Defer, At, Scanned
    <3>2. row' \in Rows /\ row'.fence = row.fence /\ row'.dc = row.dc
          /\ row'.accepted = row.accepted /\ row'.stage = loc[w].plan
      BY <2>3, <2>6, <3>1 DEF Defer, Rows
    <3>3. QED
      BY <1>1, <2>2, <2>3, <2>4, <3>1, <3>2, RowServes DEF Wrote, TypeOK
  <2>7. QED
    BY <1>4, <2>5, <2>6
<1>5. QED
  BY <1>3, <1>4

LEMMA PollWrites ==
  ASSUME TypeOK, Services, NEW w \in Workers, Poll(w)
  PROVE  /\ Wrote(w) /\ UNCHANGED rtw /\ loc[w].pc = "poll"
         /\ loc'[w].att \in Attempts /\ loc'[w].att.n > dc[loc'[w].att.job].n
         /\ loc'[w].att.n = dc'[loc'[w].att.job].n
<1> DEFINE leased(i) == [job |-> i, n |-> dc[i].n + 1]
<1>1. PICK j \in Jobs :
        /\ dc[j].state # "succeeded" /\ dc[j].n < MaxAttempts
        /\ dc' = [dc EXCEPT ![j].state = "running", ![j].n = leased(j).n]
        /\ live' = live \cup {leased(j)}
        /\ loc' = [loc EXCEPT ![w] = [Idle EXCEPT !.pc = "local", !.att = leased(j)]]
  BY DEF Poll
<1> DEFINE a   == leased(j)
           l   == [Idle EXCEPT !.pc = "local", !.att = a]
           new == [dc[j] EXCEPT !.state = "running", !.n = a.n]
<1>2. /\ UNCHANGED <<ledger, delivered, row, rtw, ending, claimed, wire>> /\ loc[w].pc = "poll"
  BY DEF Poll, At, store
<1>3. dc[j] \in JobRows /\ dc[j].n \in Nat /\ a.n \in 1..MaxAttempts /\ a \in Attempts
  BY <1>1, FenceTypes, AttemptsAssumption DEF TypeOK, Attempts
<1>4. dc' = [dc EXCEPT ![j] = new]
  BY <1>1, <1>3 DEF TypeOK
<1>5. new \in JobRows /\ new.n = a.n /\ new.state = "running"
  <2>1. a.n \in 0..MaxAttempts
    BY <1>3, AttemptsAssumption
  <2>2. QED
    BY <1>3, <2>1 DEF JobRows
<1>6. Served
  <2>1. new.n >= dc[j].n
    BY <1>3, <1>5
  <2>2. QED
    BY <1>1, <1>2, <1>4, <1>5, <2>1, JobServes
<1>7. l \in Locals /\ l.pc = "local" /\ l.att = a
  BY <1>3, EpochType DEF Idle, Locals, Labels, WorkLabels
<1>8. Others(w) /\ loc'[w] = l
  BY <1>1, <1>7 DEF TypeOK, Others
<1>9. dc'[j].n = a.n /\ a.job = j
  BY <1>4, <1>5 DEF TypeOK
<1>10. Worked(w)' /\ Scanned(w)'
  BY <1>3, <1>7, <1>8, <1>9 DEF Scanned, Worked, ScanLabels, Confirmed, WorkLabels, AttachedLabels, Asking
<1>11. live' \subseteq Attempts /\ ending' \subseteq live' /\ claimed' \subseteq Workers
  BY <1>1, <1>2, <1>3 DEF TypeOK
<1>12. QED
  BY <1>2, <1>3, <1>6, <1>7, <1>8, <1>9, <1>10, <1>11 DEF Wrote

LEMMA GrantWrites ==
  ASSUME TypeOK, Services, Locally, Counted, NEW w \in Workers, Grant(w)
  PROVE  Wrote(w) /\ loc[w].pc = "grant" /\ loc[w].att \in Attempts /\ loc'[w].pc \notin Asking
<1> DEFINE a == loc[w].att
           l == [loc[w] EXCEPT !.pc = "attach", !.fence = rtw'.fence]
<1>1. /\ loc[w].pc = "grant" /\ Grantable(a) /\ rtw' = Granted(a)
      /\ UNCHANGED <<ledger, delivered, row, dc, live, ending, claimed, wire>>
  BY DEF Grant, In, At, store, env
<1>2. a \in Attempts /\ Worked(w) /\ loc[w] \in Locals
  BY <1>1 DEF Locally, Worked, WorkLabels, TypeOK
<1>3. MayAsk(a)
  BY <1>1 DEF MayAsk, Asking
<1>4. Granted(a) \in Builds
  BY <1>2, <1>3, GrantFits
<1>5. Served
  BY <1>1, <1>2, <1>4, GrantServes DEF store
<1>6. rtw'.fence \in Fences
  BY <1>1, <1>4 DEF Builds
<1>7. l \in Locals /\ l.pc = "attach" /\ l.fence = rtw'.fence /\ l.att = a
  BY <1>2, <1>6 DEF Locals, Labels, WorkLabels
<1>8. /\ Others(w) /\ loc'[w].att = a /\ loc'[w].pc \in {"attach", "failed"}
      /\ loc'[w].pc = "attach" => loc'[w].fence = rtw'.fence
  <2>1. CASE Goto(w, "failed")
    BY <2>1, GotoIs DEF Labels, WorkLabels
  <2>2. CASE loc' = [loc EXCEPT ![w].pc = "attach", ![w].fence = rtw'.fence]
    <3>1. loc' = [loc EXCEPT ![w] = l]
      BY <2>2 DEF TypeOK
    <3>2. QED
      BY <1>7, <3>1 DEF Others, TypeOK
  <2>3. QED
    BY <2>1, <2>2 DEF Grant
<1>9. Scanned(w)' /\ Worked(w)' /\ loc'[w].pc \notin Asking
  BY <1>1, <1>2, <1>8 DEF Scanned, Worked, ScanLabels, Confirmed, WorkLabels, AttachedLabels, Asking, Known
<1>10. QED
  BY <1>1, <1>2, <1>5, <1>8, <1>9 DEF Wrote, TypeOK

LEMMA AttachWrites ==
  ASSUME TypeOK, Services, Locally, NEW w \in Workers, Attach(w)
  PROVE  Wrote(w) /\ loc'[w].pc \notin Asking
<1> DEFINE f == loc[w].fence
           a == loc[w].att
           attached(accepted) == [fence |-> f, dc |-> a, accepted |-> accepted,
                                  stage |-> "pending", holder |-> None]
<1>1. /\ loc[w].pc = "attach" /\ Attachable(f, a)
      /\ UNCHANGED <<ledger, rtw, dc, live, ending, claimed, wire>>
  BY DEF Attach, In, At, remote, env
<1>2. /\ a \in Attempts /\ a.n <= dc[a.job].n /\ Known(f) /\ f \in Fences /\ f.epoch \in Nat
  BY <1>1, FenceTypes DEF Locally, Worked, WorkLabels
<1>3. PICK label \in {"index", "post"} : Goto(w, label)
  BY DEF Attach
<1>4. /\ Others(w) /\ loc'[w].pc = label /\ loc'[w].fence = f /\ loc'[w].att = a
  BY <1>3, GotoIs DEF Labels, WorkLabels
<1>5. row # None => row \in Rows /\ f.epoch >= row.fence.epoch
  BY <1>1 DEF Attachable, TypeOK
<1>6. rtw.state = "READY" => f = rtw.fence /\ row # None /\ row.fence = f
  BY <1>2, <1>5, FenceTypes DEF Services, Fenced, Known
<1>7. CASE row # None /\ row.fence = f /\ row.dc = a /\ UNCHANGED <<row, delivered>>
  <2>1. Served
    BY <1>1, <1>7, NothingServes
  <2>2. row' # None /\ row'.fence = f
    BY <1>7
  <2>3. QED
    BY <1>1, <1>2, <1>4, <2>1, <2>2 DEF Wrote, TypeOK, Attached, Known, Scanned, Worked, ScanLabels, Confirmed, WorkLabels, AttachedLabels, Asking
<1>8. ASSUME NEW accepted \in BOOLEAN, row' = attached(accepted), delivered' = FALSE,
             accepted => row # None /\ row.accepted
      PROVE  Served /\ row' # None /\ row'.fence = f
  <2>1. row' \in Rows /\ row' # None /\ row'.fence = f /\ row'.stage = "pending"
        /\ row'.accepted = accepted
    BY <1>2, <1>8, RowAssumption DEF Rows, Stages
  <2>2. ServicesOK' /\ Keeps
    <3>1. row # None => row'.fence.epoch >= row.fence.epoch
      BY <1>5, <2>1
    <3>2. Keeps
      BY <1>1, <2>1, <3>1, FenceTypes DEF Keeps
    <3>3. QED
      BY <1>1, <1>8, <2>1, <3>2 DEF ServicesOK, TypeOK
  <2>3. Fenced'
    BY <1>1, <1>2, <1>6, <2>1 DEF Services, Fenced, Known
  <2>4. SuccessIsAccepted'
    BY <1>1 DEF Services, SuccessIsAccepted
  <2>5. DeliveredIsConfirmed'
    BY <1>1, <1>6, <1>8, <2>1 DEF Services, DeliveredIsConfirmed
  <2>6. RowPrecedesReady'
    <3>1. row = None => ledger.fence.epoch = 0
      BY DEF Services, RowPrecedesReady, NoFence
    <3>2. ledger.fence.epoch <= f.epoch
      BY <1>2, <1>5, <3>1, FenceTypes DEF Services, RowPrecedesReady
    <3>3. f.epoch <= rtw.fence.epoch
      BY <1>2, FenceTypes DEF Known
    <3>4. QED
      BY <1>1, <2>1, <3>2, <3>3 DEF RowPrecedesReady
  <2>7. QED
    BY <2>1, <2>2, <2>3, <2>4, <2>5, <2>6 DEF Served, Services
<1>9. CASE row = None /\ row' = attached(FALSE) /\ UNCHANGED delivered
  <2>1. ~delivered
    BY <1>9 DEF Services, DeliveredIsConfirmed
  <2>2. Served /\ row' # None /\ row'.fence = f
    BY <1>8, <1>9, <2>1 DEF TypeOK
  <2>3. QED
    BY <1>1, <1>2, <1>4, <2>2 DEF Wrote, TypeOK, Attached, Known, Scanned, Worked, ScanLabels, Confirmed, WorkLabels, AttachedLabels, Asking
<1>10. CASE row # None /\ delivered' = FALSE
            /\ row' = attached(row.accepted /\ f.epoch = row.fence.epoch)
  <2>1. (row.accepted /\ f.epoch = row.fence.epoch) \in BOOLEAN
    BY <1>5, <1>10 DEF Rows
  <2>2. Served /\ row' # None /\ row'.fence = f
    BY <1>8, <1>10, <2>1
  <2>3. QED
    BY <1>1, <1>2, <1>4, <2>2 DEF Wrote, TypeOK, Attached, Known, Scanned, Worked, ScanLabels, Confirmed, WorkLabels, AttachedLabels, Asking
<1>11. QED
  BY <1>7, <1>9, <1>10 DEF Attach

LEMMA BuildWrites ==
  ASSUME TypeOK, Services, Locally, NEW w \in Workers, ClaimBuild(w) \/ Commit(w)
  PROVE  Wrote(w) /\ loc'[w].pc \notin Asking
<1> DEFINE f == loc[w].fence
<1>1. /\ loc[w].pc \in {"claim", "commit"}
      /\ UNCHANGED <<delivered, row, rtw, dc, live, ending, claimed, wire>>
  BY DEF ClaimBuild, Commit, In, At, remote, env
<1>2. /\ loc[w].att \in Attempts /\ loc[w].att.n <= dc[loc[w].att.job].n
      /\ Known(f) /\ Attached(f) /\ f \in Fences /\ f.epoch \in Nat
  BY <1>1, FenceTypes DEF Locally, Worked, WorkLabels, AttachedLabels
<1>3. CASE UNCHANGED ledger /\ ClaimBuild(w)
  <2>1. PICK label \in {"recover", "lanes"} : Goto(w, label)
    BY <1>3 DEF ClaimBuild
  <2>2. Others(w) /\ loc'[w].pc = label /\ loc'[w].fence = f /\ loc'[w].att = loc[w].att
    BY <2>1, GotoIs DEF Labels, WorkLabels
  <2>3. Served
    BY <1>1, <1>3, NothingServes
  <2>4. QED
    BY <1>1, <1>2, <2>2, <2>3 DEF Wrote, TypeOK, Attached, Known, Scanned, Worked, ScanLabels, Confirmed, WorkLabels, AttachedLabels, Asking
<1>4. ASSUME ~ledger.ready, ledger' \in Ledgers, ledger'.fence = f \/ ledger'.fence = ledger.fence,
             ledger'.ready => ledger'.ref \in Refs
      PROVE  Served
  <2>1. ServicesOK' /\ Keeps
    BY <1>1, <1>4, FenceTypes DEF ServicesOK, TypeOK, Keeps
  <2>2. rtw.state # "READY"
    BY <1>4 DEF Services, SuccessIsAccepted
  <2>3. Fenced' /\ SuccessIsAccepted' /\ DeliveredIsConfirmed'
    BY <1>1, <1>4, <2>2 DEF Services, Fenced, Known, SuccessIsAccepted, DeliveredIsConfirmed
  <2>4. RowPrecedesReady'
    BY <1>1, <1>2, <1>4 DEF Services, RowPrecedesReady, Attached
  <2>5. QED
    BY <2>1, <2>3, <2>4 DEF Served, Services
<1>5. CASE ClaimBuild(w) /\ ~ledger.ready
  <2>1. ledger' = [ledger EXCEPT !.fence = f] /\ Goto(w, "lanes")
    BY <1>5 DEF ClaimBuild
  <2>2. ledger' \in Ledgers /\ ledger'.fence = f /\ ledger'.ready = FALSE
    BY <1>2, <1>5, <2>1 DEF TypeOK, Ledgers
  <2>3. Served
    BY <1>4, <1>5, <2>2
  <2>4. Others(w) /\ loc'[w].pc = "lanes" /\ loc'[w].fence = f /\ loc'[w].att = loc[w].att
    BY <2>1, GotoIs DEF Labels, WorkLabels
  <2>5. QED
    BY <1>1, <1>2, <2>3, <2>4 DEF Wrote, TypeOK, Attached, Known, Scanned, Worked, ScanLabels, Confirmed, WorkLabels, AttachedLabels, Asking
<1>6. CASE Commit(w)
  <2> DEFINE l == [loc[w] EXCEPT !.pc = "post", !.receipt = loc[w].att]
  <2>1. ~ledger.ready /\ ledger' = [ledger EXCEPT !.ready = TRUE, !.ref = loc[w].att]
    BY <1>6 DEF Commit
  <2>2. ledger' \in Ledgers /\ ledger'.fence = ledger.fence /\ ledger'.ref = loc[w].att
    BY <1>2, <2>1 DEF TypeOK, Ledgers, Refs
  <2>3. Served
    BY <1>2, <1>4, <2>1, <2>2 DEF Refs
  <2>4. l \in Locals /\ l.pc = "post" /\ l.fence = f /\ l.att = loc[w].att
    BY <1>2 DEF TypeOK, Locals, Labels, WorkLabels, Refs
  <2>5. loc' = [loc EXCEPT ![w] = l]
    BY <1>6 DEF Commit, TypeOK
  <2>6. Others(w) /\ loc'[w] = l
    BY <2>4, <2>5 DEF Others, TypeOK
  <2>7. QED
    BY <1>1, <1>2, <2>3, <2>4, <2>6 DEF Wrote, TypeOK, Attached, Known, Scanned, Worked, ScanLabels, Confirmed, WorkLabels, AttachedLabels, Asking
<1>7. QED
  BY <1>3, <1>5, <1>6 DEF ClaimBuild
LEMMA WritesDo ==
  ASSUME TypeOK, Services, Locally, Counted, NEW w \in Workers, Writes(w)
  PROVE  /\ Wrote(w)
         /\ Poll(w) \/ loc'[w].pc \notin Asking
         /\ Poll(w) \/ Grant(w) \/ UNCHANGED rtw
  BY TakeWrites, ScanWrites, PollWrites, GrantWrites, AttachWrites, BuildWrites
     DEF Writes, Takes, TakeClaim, Note, Deliver, Defer, Attach, ClaimBuild, Commit, remote

-------------------------------------------------------------------------------
(* What is known locally and in flight survives every step.                *)

LEMMA TypeStays ==
  ASSUME ServicesOK', loc' \in [Workers -> Locals], wire' \subseteq Requests,
         live' \subseteq Attempts, ending' \subseteq live', claimed' \subseteq Workers
  PROVE  TypeOK'
  BY DEF TypeOK, ServicesOK

(* What every step does but for the fences it may spend.                   *)
Goes == TypeOK' /\ Locally' /\ InFlight' /\ Services' /\ Keeps /\ ServicesOK'

LEMMA WorkerSteps ==
  ASSUME IInv, NEW w \in Workers, Reads(w) \/ Writes(w)
  PROVE  Goes
<1>1. TypeOK /\ Services /\ Locally /\ Counted /\ InFlight
  BY DEF IInv, Services
<1>2. Served /\ Others(w) /\ Scanned(w)' /\ Worked(w)'
  <2>1. CASE Reads(w)
    <3>1. Quiet(w)
      BY <1>1, <2>1, ReadsKeep DEF Read
    <3>2. Served
      BY <1>1, <3>1, NothingServes DEF Quiet
    <3>3. QED
      BY <3>1, <3>2 DEF Quiet
  <2>2. CASE Writes(w)
    BY <1>1, <2>2, WritesDo DEF Wrote
  <2>3. QED
    BY <2>1, <2>2
<1>3. live' \subseteq Attempts /\ ending' \subseteq live' /\ claimed' \subseteq Workers
  <2>1. CASE Reads(w)
    BY <1>1, <2>1, ReadsKeep DEF Read, Quiet, TypeOK
  <2>2. CASE Writes(w)
    BY <1>1, <2>2, WritesDo DEF Wrote
  <2>3. QED
    BY <2>1, <2>2
<1>4. /\ wire' \subseteq Requests
      /\ \A m \in wire' : m \in wire \/ (Sent(m) /\ UNCHANGED <<ledger, row, rtw, dc>>)
  <2>1. CASE Reads(w)
    BY <1>1, <2>1, ReadsKeep DEF Read, Quiet, Requested, TypeOK
  <2>2. CASE Writes(w)
    <3>1. UNCHANGED wire
      BY <1>1, <2>2, WritesDo DEF Wrote
    <3>2. QED
      BY <1>1, <3>1 DEF TypeOK
  <2>3. QED
    BY <2>1, <2>2
<1>5. TypeOK'
  BY <1>2, <1>3, <1>4, TypeStays DEF Served, Others
<1>6. Locally'
  <2>1. ASSUME NEW v \in Workers PROVE Scanned(v)' /\ Worked(v)'
    <3>1. CASE v = w
      BY <1>2, <3>1
    <3>2. CASE v # w
      <4>1. loc'[v] = loc[v]
        BY <1>2, <3>2 DEF Others
      <4>2. QED
        BY <1>1, <1>2, <4>1, OtherStays DEF Served
    <3>3. QED
      BY <3>1, <3>2
  <2>2. QED
    BY <2>1 DEF Locally
<1>7. InFlight'
  <2>1. ASSUME NEW m \in wire' PROVE Sent(m)'
    <3>1. CASE m \in wire
      BY <1>1, <1>2, <3>1, SentStays DEF Served
    <3>2. CASE Sent(m) /\ UNCHANGED <<ledger, row, rtw, dc>>
      BY <3>2 DEF Sent, Attached
    <3>3. QED
      BY <1>4, <3>1, <3>2
  <2>2. QED
    BY <2>1 DEF InFlight
<1>8. QED
  BY <1>2, <1>5, <1>6, <1>7 DEF Served, Goes

(* The steps of the environment: the workers stand still.                  *)
Elsewhere ==
  \/ \E m \in wire : Answer(m)
  \/ RTWCancel
  \/ \E j \in Jobs : DCExhaust(j) \/ DCCancel(j)
  \/ Expires

LEMMA OtherSteps ==
  ASSUME IInv, Elsewhere
  PROVE  Goes /\ UNCHANGED loc /\ wire' \subseteq wire
<1>1. TypeOK /\ Services /\ Locally /\ Counted /\ InFlight
  BY DEF IInv, Services
<1>2. /\ Served /\ UNCHANGED loc /\ wire' \subseteq wire
      /\ live' \subseteq live /\ ending' \subseteq live' /\ claimed' \subseteq claimed
  <2>1. ASSUME NEW m \in wire, Answer(m)
        PROVE  Served /\ wire' \subseteq wire /\ UNCHANGED <<live, ending, claimed, loc>>
    BY <1>1, <2>1, AnswerServes
  <2>2. ASSUME NEW j \in Jobs, DCExhaust(j) \/ DCCancel(j)
        PROVE  Served /\ UNCHANGED <<live, ending, claimed, wire, loc>>
    BY <1>1, <2>2, JobEnds
  <2>3. CASE RTWCancel
    BY <1>1, <2>3, CancelServes DEF RTWCancel, env, TypeOK
  <2>4. CASE Expires
    BY <1>1, <2>4, NothingServes DEF Expires, store, remote
  <2>5. QED
    BY <1>1, <2>1, <2>2, <2>3, <2>4 DEF Elsewhere, TypeOK
<1>3. TypeOK'
  BY <1>1, <1>2, TypeStays DEF Served, TypeOK
<1>4. Locally'
  BY <1>1, <1>2, OtherStays DEF Served, Locally
<1>5. InFlight'
  BY <1>1, <1>2, SentStays DEF Served, InFlight
<1>6. QED
  BY <1>2, <1>3, <1>4, <1>5 DEF Served, Goes
-------------------------------------------------------------------------------
(* Fences are granted to attempts that have not spent theirs.              *)

LEMMA FewerAsk ==
  ASSUME TypeOK, Alone, Keeps, ServicesOK', UNCHANGED loc, wire' \subseteq wire
  PROVE  Alone' /\ Spent \subseteq Spent'
<1>1. Alone'
  BY DEF Alone
<1>2. ASSUME NEW a \in Attempts, MayAsk(a)' PROVE MayAsk(a)
  <2>1. a.job \in Jobs /\ a.n \in Nat
    BY AttemptsAssumption DEF Attempts
  <2>2. a.n > dc'[a.job].n => a.n > dc[a.job].n
    BY <2>1, JobsGoOn
  <2>3. QED
    BY <1>2, <2>2 DEF MayAsk
<1>3. QED
  BY <1>1, <1>2 DEF Spent

LEMMA AsksLess ==
  ASSUME TypeOK, Alone, Keeps, ServicesOK', NEW w \in Workers,
         Others(w), Asks(w), Requested(w)
  PROVE  Alone' /\ Spent \subseteq Spent'
<1>1. ASSUME NEW v \in Workers, loc'[v].pc \in Asking
      PROVE  loc[v].pc \in Asking /\ loc'[v].att = loc[v].att
  BY <1>1 DEF Others, Asks
<1>2. ASSUME NEW a, [to |-> "claim", att |-> a] \in wire', [to |-> "claim", att |-> a] \notin wire
      PROVE  loc[w].pc = "grant" /\ a = loc[w].att /\ loc'[w].pc \notin Asking
  BY <1>2 DEF Requested, Asks
<1>3. Alone'
  <2>1. ASSUME NEW v \in Workers, loc'[v].pc \in Asking, NEW u \in Workers \ {v},
               loc'[u].pc \in Asking
        PROVE  loc'[u].att # loc'[v].att
    BY <1>1, <2>1 DEF Alone
  <2>2. ASSUME NEW v \in Workers, loc'[v].pc \in Asking
        PROVE  [to |-> "claim", att |-> loc'[v].att] \notin wire'
    <3>1. loc[v].pc \in Asking /\ loc'[v].att = loc[v].att
      BY <1>1, <2>2
    <3>2. [to |-> "claim", att |-> loc'[v].att] \notin wire
      BY <3>1 DEF Alone
    <3>3. ASSUME loc[w].pc = "grant", loc'[v].att = loc[w].att, v # w PROVE FALSE
      BY <3>1, <3>3 DEF Alone, Asking
    <3>4. QED
      BY <1>2, <2>2, <3>2, <3>3
  <2>3. QED
    BY <2>1, <2>2 DEF Alone
<1>4. ASSUME NEW a \in Attempts, MayAsk(a)' PROVE MayAsk(a)
  <2>1. a.job \in Jobs /\ a.n \in Nat
    BY AttemptsAssumption DEF Attempts
  <2>2. a.n > dc'[a.job].n => a.n > dc[a.job].n
    BY <2>1, JobsGoOn
  <2>3. (\E v \in Workers : loc'[v].att = a /\ loc'[v].pc \in Asking) => MayAsk(a)
    BY <1>1 DEF MayAsk
  <2>4. [to |-> "claim", att |-> a] \in wire' => MayAsk(a)
    BY <1>2 DEF MayAsk, Asking
  <2>5. QED
    BY <1>4, <2>2, <2>3, <2>4 DEF MayAsk
<1>5. QED
  BY <1>3, <1>4 DEF Spent

LEMMA PollAsks ==
  ASSUME TypeOK, Locally, InFlight, Alone, Services, NEW w \in Workers, Poll(w)
  PROVE  Alone' /\ Spent \subseteq Spent'
<1> DEFINE a == loc'[w].att
<1>1. /\ Served /\ Others(w) /\ UNCHANGED wire
      /\ a \in Attempts /\ a.n > dc[a.job].n
  BY PollWrites DEF Wrote
<1>2. Keeps /\ ServicesOK'
  BY <1>1 DEF Served
<1>3. a.job \in Jobs /\ a.n \in Nat /\ dc[a.job].n \in Nat
  BY <1>1, FenceTypes, AttemptsAssumption DEF Attempts
<1>4. ASSUME NEW v \in Workers, loc[v].pc \in Asking PROVE loc[v].att # a
  <2>1. loc[v].att.n <= dc[loc[v].att.job].n
    BY <1>4 DEF Locally, Worked, WorkLabels, Asking
  <2>2. QED
    BY <1>1, <1>3, <2>1
<1>5. [to |-> "claim", att |-> a] \notin wire
  <2> SUFFICES ASSUME [to |-> "claim", att |-> a] \in wire PROVE FALSE
    OBVIOUS
  <2>1. a.n <= dc[a.job].n
    BY DEF InFlight, Sent
  <2>2. QED
    BY <1>1, <1>3, <2>1
<1>6. \A v \in Workers \ {w} : loc'[v] = loc[v]
  BY <1>1 DEF Others
<1>7. Alone'
  <2>1. ASSUME NEW v \in Workers, loc'[v].pc \in Asking, NEW u \in Workers \ {v},
               loc'[u].pc \in Asking
        PROVE  loc'[u].att # loc'[v].att
    <3>1. CASE u # w /\ v # w
      BY <1>6, <2>1, <3>1 DEF Alone
    <3>2. CASE u = w \/ v = w
      BY <1>4, <1>6, <2>1, <3>2
    <3>3. QED
      BY <3>1, <3>2
  <2>2. ASSUME NEW v \in Workers, loc'[v].pc \in Asking
        PROVE  [to |-> "claim", att |-> loc'[v].att] \notin wire'
    <3>1. CASE v = w
      BY <1>1, <1>5, <3>1
    <3>2. CASE v # w
      BY <1>1, <1>6, <2>2, <3>2 DEF Alone
    <3>3. QED
      BY <3>1, <3>2
  <2>3. QED
    BY <2>1, <2>2 DEF Alone
<1>8. ASSUME NEW b \in Attempts, MayAsk(b)' PROVE MayAsk(b)
  <2>1. b.job \in Jobs /\ b.n \in Nat
    BY AttemptsAssumption DEF Attempts
  <2>2. b.n > dc'[b.job].n => MayAsk(b)
    BY <1>2, <2>1, JobsGoOn DEF MayAsk
  <2>3. ASSUME NEW v \in Workers, loc'[v].att = b, loc'[v].pc \in Asking PROVE MayAsk(b)
    BY <1>1, <1>6, <2>3 DEF MayAsk
  <2>4. [to |-> "claim", att |-> b] \in wire' => MayAsk(b)
    BY <1>1 DEF MayAsk
  <2>5. QED
    BY <1>8, <2>2, <2>3, <2>4 DEF MayAsk
<1>9. QED
  BY <1>7, <1>8 DEF Spent

LEMMA CountStays ==
  ASSUME TypeOK, Counted, Keeps, Spent \subseteq Spent',
         rtw'.fence = rtw.fence \/ \E a \in Spent' : a \notin Spent
  PROVE  Counted'
<1>1. Cardinality(Spent) <= Cardinality(Spent')
  BY SpentIsFinite, FS_Subset
<1>2. CASE rtw'.fence = rtw.fence
  BY <1>1, <1>2, SpentIsFinite, FenceTypes DEF Counted
<1>3. CASE rtw'.fence # rtw.fence
  <2>1. PICK a \in Spent' : a \notin Spent
    BY <1>3
  <2>2. Cardinality(Spent \cup {a}) = Cardinality(Spent) + 1
    BY <2>1, SpentIsFinite, FS_AddElement
  <2>3. Spent \cup {a} \in SUBSET (Spent')
    BY <2>1
  <2>4. Cardinality(Spent \cup {a}) <= Cardinality(Spent')
    BY <2>3, SpentIsFinite, FS_Subset
  <2>5. rtw'.fence.epoch = rtw.fence.epoch + 1
    BY <1>3 DEF Keeps
  <2>6. QED
    BY <2>2, <2>4, <2>5, SpentIsFinite, FenceTypes DEF Counted
<1>4. QED
  BY <1>2, <1>3
LEMMA WorkersCount ==
  ASSUME IInv, NEW w \in Workers, Reads(w) \/ Writes(w)
  PROVE  Alone' /\ Counted'
<1>1. /\ TypeOK /\ Services /\ Locally /\ Counted /\ InFlight /\ Alone
      /\ Keeps /\ ServicesOK'
  BY WorkerSteps DEF IInv, Services, Goes
<1>2. CASE Reads(w)
  <2>1. Read(w)
    BY <1>1, <1>2, ReadsKeep
  <2>2. UNCHANGED rtw
    BY <2>1 DEF Read, Quiet
  <2>3. Alone' /\ Spent \subseteq Spent'
    BY <1>1, <2>1, AsksLess DEF Read, Quiet
  <2>4. QED
    BY <1>1, <2>2, <2>3, CountStays
<1>3. CASE Poll(w)
  <2>1. UNCHANGED rtw
    BY <1>1, <1>3, PollWrites
  <2>2. Alone' /\ Spent \subseteq Spent'
    BY <1>1, <1>3, PollAsks
  <2>3. QED
    BY <1>1, <2>1, <2>2, CountStays
<1>4. CASE Writes(w) /\ ~Poll(w)
  <2>1. Others(w) /\ UNCHANGED wire /\ loc'[w].pc \notin Asking
    BY <1>1, <1>4, WritesDo DEF Wrote
  <2>2. Asks(w) /\ Requested(w)
    BY <2>1 DEF Asks, Requested
  <2>3. Alone' /\ Spent \subseteq Spent'
    BY <1>1, <2>1, <2>2, AsksLess
  <2>4. CASE UNCHANGED rtw
    BY <1>1, <2>3, <2>4, CountStays
  <2>5. CASE Grant(w)
    <3> DEFINE a == loc[w].att
    <3>1. loc[w].pc = "grant" /\ a \in Attempts /\ UNCHANGED dc
      BY <1>1, <2>5, GrantWrites DEF Grant
    <3>2. a \notin Spent
      BY <3>1 DEF Spent, MayAsk, Asking
    <3>3. a.n <= dc[a.job].n /\ a.job \in Jobs /\ a.n \in Nat
      BY <1>1, <3>1, AttemptsAssumption DEF Locally, Worked, WorkLabels, Attempts
    <3>4. ~(a.n > dc'[a.job].n)
      BY <3>1, <3>3, FenceTypes, <1>1
    <3>5. ASSUME NEW v \in Workers, loc'[v].att = a, loc'[v].pc \in Asking PROVE FALSE
      BY <1>1, <2>1, <3>1, <3>5 DEF Others, Alone, Asking
    <3>6. [to |-> "claim", att |-> a] \notin wire'
      BY <1>1, <2>1, <3>1 DEF Alone, Asking
    <3>7. a \in Spent'
      BY <3>1, <3>4, <3>5, <3>6 DEF Spent, MayAsk
    <3>8. QED
      BY <1>1, <2>3, <3>2, <3>7, CountStays
  <2>6. QED
    BY <1>1, <1>4, <2>3, <2>4, <2>5, WritesDo
<1>5. QED
  BY <1>2, <1>3, <1>4

LEMMA OthersCount ==
  ASSUME IInv, Elsewhere
  PROVE  Alone' /\ Counted'
<1>1. /\ TypeOK /\ Services /\ Locally /\ Counted /\ InFlight /\ Alone
      /\ Keeps /\ ServicesOK' /\ UNCHANGED loc /\ wire' \subseteq wire
  BY OtherSteps DEF IInv, Services, Goes
<1>2. Alone' /\ Spent \subseteq Spent'
  BY <1>1, FewerAsk
<1>3. CASE rtw'.fence = rtw.fence
  BY <1>1, <1>2, <1>3, CountStays
<1>4. ASSUME NEW m \in wire, RTWClaim(m) PROVE Counted'
  <2> DEFINE a == m.att
  <2>1. m.to = "claim" /\ a \in Attempts /\ wire' = wire \ {m} /\ UNCHANGED dc
    BY <1>1, <1>4, FenceTypes DEF RTWClaim
  <2>2. m = [to |-> "claim", att |-> a]
    BY <1>1, <2>1 DEF TypeOK, Requests
  <2>3. a \notin Spent
    BY <2>2 DEF Spent, MayAsk
  <2>4. a.n <= dc[a.job].n /\ a.job \in Jobs /\ a.n \in Nat
    BY <1>1, <2>1, AttemptsAssumption DEF InFlight, Sent, Attempts
  <2>5. ~(a.n > dc'[a.job].n)
    BY <1>1, <2>1, <2>4, FenceTypes
  <2>6. ASSUME NEW v \in Workers, loc'[v].att = a, loc'[v].pc \in Asking PROVE FALSE
    BY <1>1, <2>2, <2>6 DEF Alone
  <2>7. a \in Spent'
    BY <2>1, <2>2, <2>5, <2>6 DEF Spent, MayAsk
  <2>8. QED
    BY <1>1, <1>2, <2>3, <2>7, CountStays
<1>5. ASSUME NEW m \in wire, Answer(m), ~RTWClaim(m) PROVE rtw'.fence = rtw.fence
  BY <1>1, <1>5 DEF Answer, RTWAccept, DCComplete, DCFail, TypeOK, Builds
<1>6. ASSUME NEW j \in Jobs, DCExhaust(j) \/ DCCancel(j) PROVE rtw'.fence = rtw.fence
  BY <1>6 DEF DCExhaust, DCCancel
<1>7. CASE RTWCancel \/ Expires
  BY <1>1, <1>3, <1>7 DEF RTWCancel, Expires, remote, TypeOK, Builds
<1>8. QED
  BY <1>2, <1>3, <1>4, <1>5, <1>6, <1>7 DEF Elsewhere

LEMMA StepInv == IInv /\ [Next]_vars => IInv' /\ Keeps
<1> SUFFICES ASSUME IInv, [Next]_vars PROVE IInv' /\ Keeps
  OBVIOUS
<1>1. (\E w \in Workers : Reads(w) \/ Writes(w)) \/ Elsewhere
  BY StepsAre DEF IInv, Elsewhere
<1>2. Goes /\ Alone' /\ Counted'
  BY <1>1, WorkerSteps, WorkersCount, OtherSteps, OthersCount
<1>3. QED
  BY <1>2 DEF Goes, IInv, Services

(* Every reachable state satisfies the inductive invariant: what each      *)
(* worker, each request in flight and the three stores rely on.            *)
THEOREM Inductive == Spec => []IInv
  BY InitInv, StepInv, PTL DEF Spec

(* Types.  The part that is not about shape is the bound on the epoch of   *)
(* RTW's fence (ClaimBuild with lease_epoch 0, build_fence.go): however    *)
(* claims are lost, repeated or late, an attempt is granted at most one.   *)
THEOREM TypeCorrect == Spec => []TypeOK
<1>1. IInv => TypeOK
  BY DEF IInv
<1>2. QED
  BY <1>1, Inductive, PTL

(* DC never holds a success whose result is not committed in the ledger    *)
(* and accepted by RTW: the order commit, AcceptBuild, CompleteJob of      *)
(* index_worker_dispatch.go survives every delay and every crash.          *)
THEOREM SuccessIsAlwaysAccepted == Spec => []SuccessIsAccepted
<1>1. IInv => SuccessIsAccepted
  BY DEF IInv
<1>2. QED
  BY <1>1, Inductive, PTL

(* The outbox row is delivered exactly when the dispatch row is complete,  *)
(* and only with both receipts of the very result and attempt it names.    *)
THEOREM DeliveredIsAlwaysConfirmed == Spec => []DeliveredIsConfirmed
<1>1. IInv => DeliveredIsConfirmed
  BY DEF IInv
<1>2. QED
  BY <1>1, Inductive, PTL

(* The scanner's join finds every committed build, and no record of the    *)
(* fence is ahead of the authority that grants it.                         *)
THEOREM RowAlwaysPrecedesReady == Spec => []RowPrecedesReady
<1>1. IInv => RowPrecedesReady
  BY DEF IInv
<1>2. QED
  BY <1>1, Inductive, PTL

-------------------------------------------------------------------------------
(* What the dispatch row has recorded, it keeps.                           *)

RowKept ==
  row # None =>
    /\ row.accepted => row'.accepted
    /\ delivered /\ ~delivered' => row'.dc.job # row.dc.job
    /\ row'.dc.job = row.dc.job => row'.dc.n >= row.dc.n

LEMMA AttachKeepsRow == ASSUME IInv, NEW w \in Workers, Attach(w) PROVE RowKept
<1> SUFFICES ASSUME row # None PROVE RowKept
  BY DEF RowKept
<1> DEFINE f == loc[w].fence
           a == loc[w].att
<1>1. TypeOK /\ Services /\ Locally
  BY DEF IInv, Services
<1>2. /\ a \in Attempts /\ a.n <= dc[a.job].n /\ Known(f)
      /\ f \in Fences /\ f.epoch \in Nat
  BY <1>1, FenceTypes DEF Attach, In, At, Locally, Worked, WorkLabels
<1>3. /\ row \in Rows /\ row.dc \in Attempts /\ row.dc.n \in Nat
      /\ a.job \in Jobs /\ a.n \in Nat
  BY <1>1, <1>2, AttemptsAssumption DEF TypeOK, Rows, Attempts
<1>4. /\ f.epoch >= row.fence.epoch
      /\ f.epoch = row.fence.epoch => f.attempt = row.fence.attempt
      /\ a.job = row.dc.job => a.n >= row.dc.n
  BY DEF Attach, Attachable
<1>5. rtw.state = "READY" => row.fence = rtw.fence /\ f = row.fence
  BY <1>1, <1>2, <1>4, FenceTypes DEF Services, Fenced, Known
<1>6. CASE UNCHANGED <<row, delivered>>
  BY <1>3, <1>6 DEF RowKept
<1>7. CASE /\ <<row.fence, row.dc>> # <<f, a>> /\ delivered' = FALSE
           /\ row' = [fence |-> f, dc |-> a,
                      accepted |-> row.accepted /\ f.epoch = row.fence.epoch,
                      stage |-> "pending", holder |-> None]
  <2>1. row.accepted => row'.accepted
    <3>1. row.accepted => rtw.state = "READY"
      BY <1>1 DEF Services, DeliveredIsConfirmed
    <3>2. QED
      BY <1>5, <1>7, <3>1
  <2>2. ASSUME delivered, a.job = row.dc.job PROVE FALSE
    <3>1. rtw.state = "READY" /\ dc[row.dc.job].n = row.dc.n
      BY <1>1, <2>2 DEF Services, DeliveredIsConfirmed
    <3>2. a.n = row.dc.n
      BY <1>2, <1>3, <1>4, <2>2, <3>1
    <3>3. a = row.dc
      BY <1>2, <1>3, <2>2, <3>2 DEF Attempts
    <3>4. QED
      BY <1>5, <1>7, <3>1, <3>3
  <2>3. QED
    BY <1>4, <1>7, <2>1, <2>2 DEF RowKept
<1>8. QED
  BY <1>6, <1>7 DEF Attach

LEMMA StepsKeepRow == IInv /\ [Next]_vars => RowKept
<1> SUFFICES ASSUME IInv, [Next]_vars, row # None PROVE RowKept
  BY DEF RowKept
<1>1. TypeOK /\ row \in Rows /\ row.dc.n \in Nat /\ Services /\ Locally
  BY AttemptsAssumption DEF IInv, Services, TypeOK, Rows, Attempts
<1>2. UNCHANGED <<row, delivered>> => RowKept
  BY <1>1 DEF RowKept
<1>3. ASSUME NEW w \in Workers, Reads(w) PROVE RowKept
  BY <1>1, <1>2, <1>3, ReadsKeep DEF Read, Quiet
<1>4. ASSUME NEW w \in Workers, Writes(w) PROVE RowKept
  <2>1. CASE Attach(w)
    BY <2>1, AttachKeepsRow
  <2>2. CASE Poll(w) \/ Grant(w) \/ ClaimBuild(w) \/ Commit(w)
    BY <1>2, <2>2 DEF Poll, Grant, ClaimBuild, Commit, store
  <2>3. CASE Takes(w) \/ Note(w) \/ Deliver(w) \/ Defer(w)
    <3>1. /\ row'.dc = row.dc
          /\ row.accepted => row'.accepted
          /\ delivered => delivered'
      <4>1. CASE Takes(w)
        BY <1>1, <4>1 DEF Takes, TakeClaim, Rows
      <4>2. CASE Note(w)
        BY <1>1, <4>2 DEF Note, Rows
      <4>3. CASE Deliver(w)
        BY <1>1, <4>3 DEF Deliver, Rows
      <4>4. CASE Defer(w)
        BY <1>1, <4>4 DEF Defer, Rows
      <4>5. QED
        BY <2>3, <4>1, <4>2, <4>3, <4>4
    <3>2. QED
      BY <1>1, <3>1 DEF RowKept
  <2>4. QED
    BY <1>4, <2>1, <2>2, <2>3 DEF Writes
<1>5. CASE Elsewhere
  <2>1. UNCHANGED <<row, delivered>>
    BY <1>5 DEF Elsewhere, Answer, RTWClaim, RTWAccept, DCComplete, DCFail, RTWCancel, DCExhaust,
                DCCancel, Expires, store
  <2>2. QED
    BY <1>2, <2>1
<1>6. QED
  BY <1>1, <1>3, <1>4, <1>5, StepsAre DEF Elsewhere

(* AttachIndexDispatch reopens the row for later fences and attempts, and  *)
(* still: a noted acceptance stays noted, a delivery is withdrawn only for *)
(* another job, fences and attempts of the row never go back, and a READY  *)
(* ledger changes no more.                                                 *)
THEOREM ReceiptsAreAlwaysKept == Spec => ReceiptsAreKept
<1>1. IInv /\ [Next]_vars =>
        [/\ ledger.ready => ledger' = ledger
         /\ row # None =>
              /\ row.accepted => row'.accepted
              /\ delivered /\ ~delivered' => row'.dc.job # row.dc.job
              /\ row'.fence.epoch >= row.fence.epoch
              /\ row'.dc.job = row.dc.job => row'.dc.n >= row.dc.n]_vars
  BY StepInv, StepsKeepRow DEF Keeps, RowKept
<1>2. QED
  BY <1>1, Inductive, PTL DEF Spec, ReceiptsAreKept
===============================================================================
