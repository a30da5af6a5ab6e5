-------------------------- MODULE PoolRefillProofs --------------------------
(***************************************************************************)
(* Proofs about PoolRefill, for all sets of keys, queries and workers and  *)
(* all sizes of the channel and of a job.                                  *)
(***************************************************************************)
EXTENDS PoolRefill, FiniteSetTheorems, SequenceTheorems, TLAPS

-------------------------------------------------------------------------------
(* Merging.                                                                *)

(* The n-th element of a finite set of numbers exists and is unique.       *)
Rank(K, i) == Cardinality({j \in K : j <= i})

LEMMA RanksAreNumbers ==
  ASSUME NEW K \in SUBSET Nat, IsFiniteSet(K)
  PROVE  /\ \A i, j \in K : Rank(K, i) = Rank(K, j) => i = j
         /\ \A n \in 1..Cardinality(K) : \E i \in K : Rank(K, i) = n
<1> DEFINE upto(i) == {j \in K : j <= i}
           f == [i \in K |-> Rank(K, i)]
<1>1. \A i \in K : /\ IsFiniteSet(upto(i)) /\ Cardinality(upto(i)) \in Nat
                   /\ Cardinality(upto(i)) <= Cardinality(K)
  BY FS_Subset, FS_CardinalityType
<1>2. Cardinality(K) \in Nat
  BY FS_CardinalityType
<1>3. \A i \in K : Rank(K, i) \in 1..Cardinality(K)
  <2> TAKE i \in K
  <2>1. i \in upto(i)
    OBVIOUS
  <2>2. Cardinality(upto(i)) # 0
    BY <1>1, <2>1, FS_EmptySet
  <2>3. QED
    BY <1>1, <1>2, <2>2 DEF Rank
<1>4. ASSUME NEW i \in K, NEW j \in K, i < j PROVE Rank(K, i) # Rank(K, j)
  <2>0. i \in Nat /\ j \in Nat /\ \A x \in K : x \in Nat
    OBVIOUS
  <2>1. upto(i) \subseteq upto(j) /\ j \in upto(j) /\ j \notin upto(i)
    <3>1. \A x \in K : x <= i => x <= j
      BY <1>4, <2>0
    <3>2. j <= j /\ ~(j <= i)
      BY <1>4, <2>0
    <3>3. QED
      BY <3>1, <3>2
  <2>2. Cardinality(upto(i)) # Cardinality(upto(j))
    BY <1>1, <2>1, FS_Subset
  <2>3. QED
    BY <2>2 DEF Rank
<1>5. ASSUME NEW i \in K, NEW j \in K, Rank(K, i) = Rank(K, j) PROVE i = j
  <2>1. i \in Nat /\ j \in Nat
    OBVIOUS
  <2>2. ~(i < j) /\ ~(j < i)
    BY <1>4, <1>5
  <2>3. QED
    BY <2>1, <2>2
<1>6. f \in Injection(K, 1..Cardinality(K))
  BY <1>3, <1>5 DEF Injection, IsInjective
<1>7. IsFiniteSet(1..Cardinality(K)) /\ Cardinality(1..Cardinality(K)) = Cardinality(K)
  BY <1>2, FS_Interval
<1>8. f \in Surjection(K, 1..Cardinality(K))
  BY <1>6, <1>7, FS_Injection
<1>9. \A n \in 1..Cardinality(K) : \E i \in K : Rank(K, i) = n
  BY <1>8 DEF Surjection
<1>10. QED
  BY <1>5, <1>9

(* Of a finite set of numbers, those with fewer than m greater ones are at *)
(* most m.                                                                 *)
Above(K, i) == {j \in K : j > i}

LEMMA TheLastFew ==
  ASSUME NEW K \in SUBSET Nat, IsFiniteSet(K), NEW m \in Nat \ {0},
         NEW kept, kept = {i \in K : Cardinality(Above(K, i)) < m}
  PROVE  Cardinality(kept) <= m
<1> DEFINE range == 0..(m - 1)
           g == [i \in kept |-> Cardinality(Above(K, i))]
<1>1. \A i : IsFiniteSet(Above(K, i)) /\ Cardinality(Above(K, i)) \in Nat
  BY FS_Subset, FS_CardinalityType DEF Above
<1>2. \A i \in kept : Cardinality(Above(K, i)) \in range
  <2> TAKE i \in kept
  <2>1. Cardinality(Above(K, i)) < m /\ Cardinality(Above(K, i)) \in Nat
    BY <1>1
  <2>2. QED
    BY <2>1
<1>3. ASSUME NEW i \in kept, NEW j \in kept, i < j
      PROVE  Cardinality(Above(K, i)) # Cardinality(Above(K, j))
  <2>0. i \in K /\ j \in K /\ i \in Nat /\ j \in Nat /\ \A x \in K : x \in Nat
    OBVIOUS
  <2>1. Above(K, j) \subseteq Above(K, i) /\ j \in Above(K, i) /\ j \notin Above(K, j)
    <3>1. \A x \in K : x > j => x > i
      BY <1>3, <2>0
    <3>2. j > i /\ ~(j > j)
      BY <1>3, <2>0
    <3>3. QED
      BY <2>0, <3>1, <3>2 DEF Above
  <2>2. QED
    BY <1>1, <2>1, FS_Subset
<1>4. ASSUME NEW i \in kept, NEW j \in kept,
             Cardinality(Above(K, i)) = Cardinality(Above(K, j))
      PROVE  i = j
  <2>1. i \in Nat /\ j \in Nat
    OBVIOUS
  <2>2. ~(i < j) /\ ~(j < i)
    BY <1>3, <1>4
  <2>3. QED
    BY <2>1, <2>2
<1>5. IsFiniteSet(range) /\ Cardinality(range) = m
  BY FS_Interval
<1>6. g \in Injection(kept, range)
  BY <1>2, <1>4 DEF Injection, IsInjective
<1> HIDE DEF range, g
<1>7. QED
  BY <1>5, <1>6, FS_Injection

(* Whatever is merged is a job: few queries, each of them once.            *)
LEMMA MergeGivesJob ==
  ASSUME NEW existing \in Seq(Queries), NEW incoming \in Seq(Queries)
  PROVE  MergeQueryTexts(existing, incoming) \in RefillJobs
<1> DEFINE all    == existing \o incoming
           latest == {i \in DOMAIN all : \A j \in DOMAIN all : j > i => all[j] # all[i]}
           kept   == {i \in latest : Cardinality(Above(latest, i)) < QueryFanout}
           at(n)  == CHOOSE i \in kept : Rank(kept, i) = n
           merged == [n \in 1..Cardinality(kept) |-> all[at(n)]]
<1>1. all \in Seq(Queries) /\ DOMAIN all = 1..Len(all) /\ Len(all) \in Nat
  BY ConcatProperties, LenProperties
<1>2. IsFiniteSet(latest) /\ latest \in SUBSET Nat
  <2>1. IsFiniteSet(DOMAIN all)
    BY <1>1, FS_Interval
  <2>2. QED
    BY <1>1, <2>1, FS_Subset
<1>3. \A i \in latest, j \in latest : all[i] = all[j] => i = j
  <2> TAKE i \in latest, j \in latest
  <2> HAVE all[i] = all[j]
  <2>1. i \in Nat /\ j \in Nat /\ i \in DOMAIN all /\ j \in DOMAIN all
    BY <1>2
  <2>2. ~(i < j) /\ ~(j < i)
    BY <2>1
  <2>3. QED
    BY <2>1, <2>2
<1>4. \A i \in latest : all[i] \in Queries
  BY <1>1, ElementOfSeq
<1> HIDE DEF all, latest
<1>5. kept \in SUBSET Nat /\ kept \in SUBSET latest /\ IsFiniteSet(kept)
      /\ Cardinality(kept) \in Nat
  BY <1>2, FS_Subset, FS_CardinalityType
<1>6. Cardinality(kept) <= QueryFanout
  BY <1>2, RefillAssumption, TheLastFew
<1> HIDE DEF kept
<1>7. \A n \in 1..Cardinality(kept) : at(n) \in kept /\ Rank(kept, at(n)) = n
  BY <1>5, RanksAreNumbers
<1> HIDE DEF at
<1>8. merged \in Seq(Queries) /\ Len(merged) = Cardinality(kept)
  <2>1. merged \in [1..Cardinality(kept) -> Queries]
    BY <1>4, <1>5, <1>7
  <2>2. QED
    BY <1>5, <2>1
<1>9. ASSUME NEW a \in DOMAIN merged, NEW b \in DOMAIN merged, merged[a] = merged[b] PROVE a = b
  <2>1. a \in 1..Cardinality(kept) /\ b \in 1..Cardinality(kept)
    OBVIOUS
  <2>2. at(a) \in latest /\ at(b) \in latest /\ all[at(a)] = all[at(b)]
    BY <1>5, <1>7, <1>9, <2>1
  <2>3. QED
    BY <1>3, <1>7, <2>1, <2>2
<1>10. MergeQueryTexts(existing, incoming) = merged
  BY DEF MergeQueryTexts, Rank, Above, all, latest, kept, at
<1>11. QED
  <2> HIDE DEF merged
  <2>1. Len(merged) <= QueryFanout
    BY <1>6, <1>8
  <2>2. \A a, b \in DOMAIN merged : merged[a] = merged[b] => a = b
    BY <1>9
  <2>3. merged \in RefillJobs
    BY <1>8, <2>1, <2>2 DEF RefillJobs
  <2>4. QED
    BY <1>10, <2>3

(* What Enqueue gives a key for a job is one.                              *)
LEMMA MergedIsJob ==
  ASSUME TypeOK, NEW k \in Keys, NEW queries \in Inputs
  PROVE  Merged(k, queries) \in RefillJobs
<1>1. queries \in Seq(Queries) /\ <<>> \in Seq(Queries)
  BY DEF Inputs
<1>2. MergeQueryTexts(<<>>, queries) \in Seq(Queries)
  BY <1>1, MergeGivesJob DEF RefillJobs
<1>3. states[k] # None => states[k].job \in Seq(Queries)
  BY DEF TypeOK, JobStates, RefillJobs
<1>4. QED
  BY <1>1, <1>2, <1>3, MergeGivesJob DEF Merged

-------------------------------------------------------------------------------
(* Types.                                                                  *)

LEMMA EmptyJob == <<>> \in RefillJobs
BY RefillAssumption DEF RefillJobs

LEMMA IdleIsAPlace == Idle \in Places
BY EmptyJob DEF Idle, Places

(* A worker that holds a key is one of the three busy places.              *)
LEMMA WorkerKey ==
  ASSUME TypeOK, NEW w \in Workers, worker[w].pc \in {"received", "running", "ended"}
  PROVE  worker[w].key \in Keys /\ worker[w] \in Places
BY DEF TypeOK

LEMMA TypeInit == Init => TypeOK
<1> SUFFICES ASSUME Init PROVE TypeOK
  OBVIOUS
<1>1. \A w \in Workers : worker[w] = Idle /\ worker[w].pc = "idle"
  BY DEF Init, Idle
<1>2. worker \in [Workers -> Places]
  BY IdleIsAPlace DEF Init
<1>3. queue \in Seq(Keys) /\ Len(queue) = 0
  BY DEF Init
<1>4. requests \in 0..MaxRequests
  BY RefillAssumption DEF Init
<1>5. /\ states \in [Keys -> JobStates \cup {None}] /\ waiting \in [Keys -> SUBSET Queries]
      /\ stopped \in BOOLEAN
  BY DEF Init
<1>6. \A w \in Workers : worker[w].pc \in {"received", "running", "ended"} => worker[w].key \in Keys
  BY <1>1
<1>7. Len(queue) <= QueueSize
  BY <1>3, RefillAssumption
<1>8. QED
  BY <1>2, <1>3, <1>4, <1>5, <1>6, <1>7 DEF TypeOK

LEMMA TypeEnqueue ==
  ASSUME TypeOK, NEW k \in Keys, NEW queries \in Inputs, Enqueue(k, queries)
  PROVE  TypeOK'
<1> DEFINE merged == Merged(k, queries)
<1>1. merged \in RefillJobs /\ ToSet(merged) \in SUBSET Queries
  BY MergedIsJob DEF RefillJobs, ToSet
<1> HIDE DEF merged
<1>2. requests' \in 0..MaxRequests /\ worker' = worker /\ stopped' = stopped
  BY RefillAssumption DEF TypeOK, Enqueue
<1>3. CASE Dedupe(k, queries)
  <2> DEFINE again == states[k].running /\ merged # states[k].job
  <2>1. states[k] \in JobStates
    BY <1>3 DEF TypeOK, Dedupe, Busy
  <2>2. states' = [states EXCEPT ![k].job = merged, ![k].dirty = @ \/ again]
    BY <1>3 DEF Dedupe, merged
  <2>3. (states[k].dirty \/ again) \in BOOLEAN
    OBVIOUS
  <2>4. states' \in [Keys -> JobStates \cup {None}]
    BY <1>1, <2>1, <2>2, <2>3 DEF TypeOK, JobStates
  <2>5. waiting' \in [Keys -> SUBSET Queries]
    BY <1>1, <1>3 DEF TypeOK, Dedupe, merged
  <2>6. QED
    BY <1>2, <1>3, <2>4, <2>5 DEF TypeOK, Dedupe
<1>4. CASE Put(k, queries)
  <2>1. Fresh(merged) \in JobStates
    BY <1>1 DEF Fresh, JobStates
  <2>2. states' \in [Keys -> JobStates \cup {None}] /\ waiting' \in [Keys -> SUBSET Queries]
    BY <1>1, <1>4, <2>1 DEF TypeOK, Put, merged
  <2>3. queue' \in Seq(Keys) /\ Len(queue') <= QueueSize
    BY <1>4, AppendProperties, RefillAssumption DEF TypeOK, Put
  <2>4. QED
    BY <1>2, <2>2, <2>3 DEF TypeOK
<1>5. CASE Drop(k, queries)
  BY <1>2, <1>5 DEF TypeOK, Drop
<1>6. QED
  BY <1>3, <1>4, <1>5 DEF Enqueue

LEMMA TypeWorker ==
  ASSUME TypeOK, NEW w \in Workers, WorkerStep(w) \/ Quit(w)
  PROVE  TypeOK'
<1> DEFINE k == worker[w].key
<1>1. CASE Receive(w)
  <2>1. Head(queue) \in Keys /\ Tail(queue) \in Seq(Keys) /\ Len(Tail(queue)) = Len(queue) - 1
    BY <1>1, HeadTailProperties DEF TypeOK, Receive
  <2>2. [pc |-> "received", key |-> Head(queue), job |-> <<>>] \in Places
    BY <2>1, EmptyJob DEF Places
  <2>3. Len(queue') <= QueueSize
    BY <1>1, <2>1, LenProperties, RefillAssumption DEF TypeOK, Receive
  <2>4. QED
    BY <1>1, <2>1, <2>2, <2>3 DEF TypeOK, Receive
<1>2. CASE StartRun(w)
  <2>1. k \in Keys /\ worker[w] \in Places
    BY <1>2, WorkerKey DEF StartRun
  <2>2. CASE states[k] = None \/ ~states[k].queued
    BY <1>2, <2>2, IdleIsAPlace DEF TypeOK, StartRun, Idle
  <2>3. CASE ~(states[k] = None \/ ~states[k].queued)
    <3>1. states[k] \in JobStates /\ states[k].job \in RefillJobs
      BY <2>1, <2>3 DEF TypeOK, JobStates
    <3>2. states' = [states EXCEPT ![k].queued = FALSE, ![k].running = TRUE, ![k].dirty = FALSE]
      BY <1>2, <2>3 DEF StartRun
    <3>3. states' \in [Keys -> JobStates \cup {None}]
      BY <2>1, <3>1, <3>2 DEF TypeOK, JobStates
    <3>4. worker' = [worker EXCEPT ![w].pc = "running", ![w].job = states[k].job]
      BY <1>2, <2>3 DEF StartRun
    <3>5. /\ worker' \in [Workers -> Places]
          /\ \A v \in Workers : worker'[v].key = worker[v].key
      BY <2>1, <3>1, <3>4 DEF TypeOK, Places
    <3>6. \A v \in Workers \ {w} : worker'[v] = worker[v]
      BY <3>4 DEF TypeOK
    <3>7. waiting' \in [Keys -> SUBSET Queries]
      BY <1>2, <2>3 DEF TypeOK, StartRun
    <3>8. QED
      BY <1>2, <2>1, <3>3, <3>5, <3>6, <3>7 DEF TypeOK, StartRun
  <2>4. QED
    BY <2>2, <2>3
<1>3. CASE RunEnds(w)
  <2>1. k \in Keys /\ worker[w] \in Places
    BY <1>3, WorkerKey DEF RunEnds
  <2>2. QED
    BY <1>3, <2>1 DEF TypeOK, RunEnds, Places
<1>4. CASE Settle(w)
  <2>1. k \in Keys /\ worker[w] \in Places
    BY <1>4, WorkerKey DEF Settle
  <2>2. CASE states[k] # None /\ states[k].dirty
    <3>1. states[k] \in JobStates /\ states[k].job \in RefillJobs
      BY <2>1, <2>2 DEF TypeOK, JobStates
    <3>2. states' = [states EXCEPT ![k].dirty = FALSE]
      BY <1>4, <2>2 DEF Settle
    <3>3. states' \in [Keys -> JobStates \cup {None}]
      BY <2>1, <3>1, <3>2 DEF TypeOK, JobStates
    <3>4. worker' = [worker EXCEPT ![w].pc = "running", ![w].job = states[k].job]
      BY <1>4, <2>2 DEF Settle
    <3>5. /\ worker' \in [Workers -> Places]
          /\ \A v \in Workers : worker'[v].key = worker[v].key
      BY <2>1, <3>1, <3>4 DEF TypeOK, Places
    <3>6. \A v \in Workers \ {w} : worker'[v] = worker[v]
      BY <3>4 DEF TypeOK
    <3>7. waiting' \in [Keys -> SUBSET Queries]
      BY <1>4, <2>2 DEF TypeOK, Settle
    <3>8. QED
      BY <1>4, <2>1, <3>3, <3>5, <3>6, <3>7 DEF TypeOK, Settle
  <2>3. CASE ~(states[k] # None /\ states[k].dirty)
    <3>1. states' = [states EXCEPT ![k] = None] /\ worker' = [worker EXCEPT ![w] = Idle]
      BY <1>4, <2>3 DEF Settle
    <3>2. worker' \in [Workers -> Places] /\ states' \in [Keys -> JobStates \cup {None}]
      BY <3>1, IdleIsAPlace DEF TypeOK
    <3>3. \A v \in Workers : worker'[v].pc \in {"received", "running", "ended"}
                             => worker'[v].key \in Keys
      BY <3>1 DEF TypeOK, Idle
    <3>4. UNCHANGED <<queue, stopped, requests, waiting>>
      BY <1>4, <2>3 DEF Settle
    <3>5. QED
      BY <3>2, <3>3, <3>4 DEF TypeOK
  <2>4. QED
    BY <2>2, <2>3
<1>5. CASE Quit(w)
  BY <1>5 DEF TypeOK, Quit, Places
<1>6. QED
  BY <1>1, <1>2, <1>3, <1>4, <1>5 DEF WorkerStep

LEMMA TypeStep == TypeOK /\ [Next]_vars => TypeOK'
<1> SUFFICES ASSUME TypeOK, [Next]_vars PROVE TypeOK'
  OBVIOUS
<1>1. ASSUME NEW k \in Keys, NEW queries \in Inputs, Enqueue(k, queries) PROVE TypeOK'
  BY <1>1, TypeEnqueue
<1>2. ASSUME NEW w \in Workers, WorkerStep(w) \/ Quit(w) PROVE TypeOK'
  BY <1>2, TypeWorker
<1>3. CASE Stop
  BY <1>3 DEF TypeOK, Stop
<1>4. CASE UNCHANGED vars
  BY <1>4 DEF TypeOK, vars
<1>5. QED
  BY <1>1, <1>2, <1>3, <1>4 DEF Next

(* Every job in the map has at most QueryFanout queries, each of them once,*)
(* and the channel never holds more keys than it can.                      *)
THEOREM TypeCorrect == Spec => []TypeOK
<1>1. Init => TypeOK
  BY TypeInit
<1>2. TypeOK /\ [Next]_vars => TypeOK'
  BY TypeStep
<1>3. QED
  BY <1>1, <1>2, PTL DEF Spec

-------------------------------------------------------------------------------
(* The marks.  MarksAreTrue counts; the invariant says the same of single  *)
(* entries of the channel and single workers.                              *)

IsQueued(k)  == states[k] # None /\ states[k].queued
IsRunning(k) == states[k] # None /\ states[k].running

(* A queued key is in the channel or received, in one place only, and what *)
(* is there is marked.                                                     *)
QueuedInv ==
  /\ \A i \in DOMAIN queue : IsQueued(queue[i])
  /\ \A i, j \in DOMAIN queue : queue[i] = queue[j] => i = j
  /\ \A k \in Keys : \A w \in Received(k) :
       /\ IsQueued(k)
       /\ \A i \in DOMAIN queue : queue[i] # k
       /\ \A v \in Received(k) : v = w
  /\ \A k \in Keys : IsQueued(k) => Received(k) # {} \/ \E i \in DOMAIN queue : queue[i] = k

(* A running key is in one worker, and a worker's key is marked.           *)
RunInv ==
  /\ \A k \in Keys : \A w \in RunBy(k) : IsRunning(k) /\ \A v \in RunBy(k) : v = w
  /\ \A k \in Keys : IsRunning(k) => RunBy(k) # {}

(* A key in the map is either queued or running.                           *)
OneMark == \A k \in Keys : states[k] # None => (states[k].queued # states[k].running)

IInv == QueuedInv /\ RunInv /\ OneMark

LEMMA InvInit == Init => IInv
<1> SUFFICES ASSUME Init PROVE IInv
  OBVIOUS
<1>1. \A k \in Keys : states[k] = None
  BY DEF Init
<1>2. DOMAIN queue = {}
  BY DEF Init
<1>3. \A k \in Keys : Received(k) = {} /\ RunBy(k) = {}
  BY DEF Init, Received, RunBy, Idle
<1>4. QED
  BY <1>1, <1>2, <1>3 DEF IInv, QueuedInv, RunInv, OneMark, IsQueued, IsRunning

(* A step that leaves the marks, the channel and the workers' keys and     *)
(* places alone.                                                           *)
LEMMA InvUnchanged ==
  ASSUME TypeOK, IInv, queue' = queue,
         \A k \in Keys : /\ (IsQueued(k)' <=> IsQueued(k)) /\ (IsRunning(k)' <=> IsRunning(k))
                         /\ Received(k)' = Received(k) /\ RunBy(k)' = RunBy(k)
                         /\ states'[k] # None => (states'[k].queued # states'[k].running)
  PROVE  IInv'
<1>1. QueuedInv'
  <2>1. \A i \in DOMAIN queue : queue[i] \in Keys
    BY ElementOfSeq, LenProperties DEF TypeOK
  <2>2. \A i \in DOMAIN queue' : IsQueued(queue[i])'
    BY <2>1 DEF IInv, QueuedInv, IsQueued
  <2>3. QED
    BY <2>2 DEF IInv, QueuedInv
<1>2. RunInv'
  BY DEF IInv, RunInv
<1>3. OneMark'
  BY DEF OneMark
<1>4. QED
  BY <1>1, <1>2, <1>3 DEF IInv

LEMMA InvEnqueue ==
  ASSUME TypeOK, IInv, NEW k \in Keys, NEW queries \in Inputs, Enqueue(k, queries)
  PROVE  IInv'
<1> DEFINE merged == Merged(k, queries)
<1>1. \A m \in Keys : Received(m)' = Received(m) /\ RunBy(m)' = RunBy(m)
  BY DEF Enqueue, Received, RunBy
<1>2. CASE Dedupe(k, queries)
  <2> DEFINE again == states[k].running /\ merged # states[k].job
             next  == [states[k] EXCEPT !.job = merged, !.dirty = @ \/ again]
  <2>1. states[k] \in JobStates
    BY <1>2 DEF TypeOK, Dedupe, Busy
  <2>2. states' = [states EXCEPT ![k] = next]
    BY <1>2 DEF Dedupe
  <2>3. /\ next \in JobStates
        /\ next.queued = states[k].queued /\ next.running = states[k].running
    BY <2>1, MergedIsJob DEF JobStates
  <2> HIDE DEF next
  <2>4. states'[k] = next /\ next # None /\ states[k] # None
    BY <2>1, <2>2, <2>3, EntryAssumption DEF TypeOK
  <2>5. \A m \in Keys \ {k} : states'[m] = states[m]
    BY <2>2 DEF TypeOK
  <2>6. \A m \in Keys : /\ (IsQueued(m)' <=> IsQueued(m)) /\ (IsRunning(m)' <=> IsRunning(m))
                        /\ states'[m] # None => (states'[m].queued # states'[m].running)
    BY <2>3, <2>4, <2>5 DEF IsQueued, IsRunning, IInv, OneMark
  <2>7. QED
    BY <1>1, <1>2, <2>6, InvUnchanged DEF Dedupe
<1>3. CASE Put(k, queries)
  <2>1. /\ ~IsQueued(k) /\ ~IsRunning(k)
        /\ Received(k) = {} /\ RunBy(k) = {}
        /\ \A i \in DOMAIN queue : queue[i] # k
    BY <1>3 DEF Put, Busy, IsQueued, IsRunning, IInv, QueuedInv, RunInv
  <2>2. Fresh(merged) \in JobStates
    BY MergedIsJob DEF Fresh, JobStates
  <2>3. states'[k] = Fresh(merged) /\ Fresh(merged) # None
    BY <1>3, <2>2, EntryAssumption DEF TypeOK, Put
  <2>4. \A m \in Keys \ {k} : states'[m] = states[m]
    BY <1>3 DEF TypeOK, Put
  <2>5. /\ IsQueued(k)' /\ ~IsRunning(k)' /\ states'[k].queued # states'[k].running
        /\ \A m \in Keys \ {k} : (IsQueued(m)' <=> IsQueued(m)) /\ (IsRunning(m)' <=> IsRunning(m))
    BY <2>3, <2>4 DEF IsQueued, IsRunning, Fresh
  <2> DEFINE last == Len(queue) + 1
  <2>6. /\ DOMAIN queue' = DOMAIN queue \cup {last} /\ last \notin DOMAIN queue
        /\ queue'[last] = k
        /\ \A i \in DOMAIN queue : queue'[i] = queue[i] /\ queue[i] \in Keys
    BY <1>3, AppendProperties, LenProperties, ElementOfSeq DEF TypeOK, Put
  <2> HIDE DEF last
  <2>7. QueuedInv'
    <3>1. \A i \in DOMAIN queue' : IsQueued(queue[i])'
      BY <2>1, <2>5, <2>6 DEF IInv, QueuedInv
    <3>2. \A i, j \in DOMAIN queue' : queue'[i] = queue'[j] => i = j
      BY <2>1, <2>6 DEF IInv, QueuedInv
    <3>3. \A m \in Keys : \A w \in Received(m)' :
            /\ IsQueued(m)'
            /\ \A i \in DOMAIN queue' : queue'[i] # m
            /\ \A v \in Received(m)' : v = w
      BY <1>1, <2>1, <2>5, <2>6 DEF IInv, QueuedInv
    <3>4. \A m \in Keys : IsQueued(m)' => \/ Received(m)' # {}
                                          \/ \E i \in DOMAIN queue' : queue'[i] = m
      BY <1>1, <2>5, <2>6 DEF IInv, QueuedInv
    <3>5. QED
      BY <3>1, <3>2, <3>3, <3>4 DEF QueuedInv
  <2>8. RunInv'
    BY <1>1, <2>1, <2>5 DEF IInv, RunInv
  <2>9. OneMark'
    BY <2>4, <2>5 DEF IInv, OneMark
  <2>10. QED
    BY <2>7, <2>8, <2>9 DEF IInv
<1>4. CASE Drop(k, queries)
  <2>1. states[k] = None
    BY <1>4 DEF Drop, Busy, IInv, OneMark, TypeOK, JobStates
  <2>2. states' = states
    BY <1>4, <2>1 DEF Drop, TypeOK
  <2>3. QED
    BY <1>1, <1>4, <2>2, InvUnchanged DEF Drop, IsQueued, IsRunning, IInv, OneMark
<1>5. QED
  BY <1>2, <1>3, <1>4 DEF Enqueue

LEMMA InvReceive ==
  ASSUME TypeOK, IInv, NEW w \in Workers, Receive(w)
  PROVE  IInv'
<1>0. PICK k \in Keys : k = Head(queue)
  BY HeadTailProperties DEF TypeOK, Receive
<1>1. /\ k = queue[1] /\ 1 \in DOMAIN queue
      /\ DOMAIN queue' = {i \in Nat \ {0} : i + 1 \in DOMAIN queue}
      /\ \A i \in DOMAIN queue' : queue'[i] = queue[i + 1] /\ i + 1 # 1
      /\ \A i \in DOMAIN queue : i = 1 \/ (i - 1 \in DOMAIN queue' /\ queue'[i - 1] = queue[i])
      /\ DOMAIN queue \subseteq Nat
  BY <1>0, HeadTailProperties, LenProperties, ElementOfSeq DEF TypeOK, Receive
<1>2. \A i \in DOMAIN queue : queue[i] \in Keys
  BY ElementOfSeq, LenProperties DEF TypeOK
<1>3. \A v \in Workers : worker'[v] = IF v = w THEN [pc |-> "received", key |-> k, job |-> <<>>]
                                               ELSE worker[v]
  BY <1>0 DEF TypeOK, Receive
<1>4. worker[w].pc = "idle"
  BY DEF Receive
<1>5. /\ Received(k)' = Received(k) \cup {w}
      /\ \A m \in Keys \ {k} : Received(m)' = Received(m)
      /\ \A m \in Keys : RunBy(m)' = RunBy(m)
  <2>1. Received(k)' = Received(k) \cup {w}
    BY <1>3 DEF Received
  <2>2. \A m \in Keys \ {k} : Received(m)' = Received(m)
    BY <1>3, <1>4 DEF Received
  <2>3. \A m \in Keys : RunBy(m)' = RunBy(m)
    BY <1>3, <1>4 DEF RunBy
  <2>4. QED
    BY <2>1, <2>2, <2>3
<1>6. \A m \in Keys : (IsQueued(m)' <=> IsQueued(m)) /\ (IsRunning(m)' <=> IsRunning(m))
  BY DEF Receive, IsQueued, IsRunning
<1>7. IsQueued(k) /\ Received(k) = {}
  BY <1>1 DEF IInv, QueuedInv
<1>8. QueuedInv'
  <2>1. \A i \in DOMAIN queue' : IsQueued(queue[i])'
    BY <1>1, <1>2, <1>6 DEF IInv, QueuedInv
  <2>2. \A i, j \in DOMAIN queue' : queue'[i] = queue'[j] => i = j
    BY <1>1 DEF IInv, QueuedInv
  <2>3. \A i \in DOMAIN queue' : queue'[i] # k
    BY <1>1 DEF IInv, QueuedInv
  <2>4. \A m \in Keys : \A u \in Received(m)' :
          /\ IsQueued(m)'
          /\ \A i \in DOMAIN queue' : queue'[i] # m
          /\ \A v \in Received(m)' : v = u
    BY <1>1, <1>5, <1>6, <1>7, <2>3 DEF IInv, QueuedInv
  <2>5. \A m \in Keys : IsQueued(m)' => \/ Received(m)' # {}
                                        \/ \E i \in DOMAIN queue' : queue'[i] = m
    BY <1>1, <1>5, <1>6 DEF IInv, QueuedInv
  <2>6. QED
    BY <2>1, <2>2, <2>4, <2>5 DEF QueuedInv
<1>9. RunInv'
  BY <1>5, <1>6 DEF IInv, RunInv
<1>10. OneMark'
  BY DEF IInv, OneMark, Receive
<1>11. QED
  BY <1>8, <1>9, <1>10 DEF IInv

LEMMA InvStartRun ==
  ASSUME TypeOK, IInv, NEW w \in Workers, StartRun(w)
  PROVE  IInv'
<1>1. PICK k \in Keys : k = worker[w].key
  BY WorkerKey DEF StartRun
<1>2. w \in Received(k) /\ worker[w].pc = "received"
  BY <1>1 DEF StartRun, Received
<1>3. /\ IsQueued(k) /\ ~IsRunning(k)
      /\ Received(k) = {w} /\ RunBy(k) = {}
      /\ \A i \in DOMAIN queue : queue[i] # k
  <2>1. /\ IsQueued(k) /\ \A v \in Received(k) : v = w
        /\ \A i \in DOMAIN queue : queue[i] # k
    BY <1>2 DEF IInv, QueuedInv
  <2>2. ~IsRunning(k)
    BY <2>1 DEF IInv, OneMark, IsQueued, IsRunning
  <2>3. RunBy(k) = {}
    BY <2>2 DEF IInv, RunInv
  <2>4. QED
    BY <1>2, <2>1, <2>2, <2>3
<1>4. states[k] \in JobStates
  BY <1>3 DEF IsQueued, TypeOK
<1>5. /\ states' = [states EXCEPT ![k].queued = FALSE, ![k].running = TRUE, ![k].dirty = FALSE]
      /\ worker' = [worker EXCEPT ![w].pc = "running", ![w].job = states[k].job]
      /\ queue' = queue
  BY <1>1, <1>3 DEF StartRun, IsQueued
<1> DEFINE next == [states[k] EXCEPT !.queued = FALSE, !.running = TRUE, !.dirty = FALSE]
<1>6. states' = [states EXCEPT ![k] = next]
  BY <1>5
<1>7. next \in JobStates /\ ~next.queued /\ next.running
  BY <1>4 DEF JobStates
<1> HIDE DEF next
<1>8. /\ ~IsQueued(k)' /\ IsRunning(k)' /\ states'[k].queued # states'[k].running
      /\ \A m \in Keys \ {k} : states'[m] = states[m]
  BY <1>6, <1>7, EntryAssumption DEF TypeOK, IsQueued, IsRunning
<1>9. \A m \in Keys \ {k} : (IsQueued(m)' <=> IsQueued(m)) /\ (IsRunning(m)' <=> IsRunning(m))
  BY <1>8 DEF IsQueued, IsRunning
<1>10. /\ worker'[w].key = k /\ worker'[w].pc = "running"
       /\ \A v \in Workers \ {w} : worker'[v] = worker[v]
  BY <1>1, <1>5 DEF TypeOK, Places
<1>11. /\ Received(k)' = {} /\ RunBy(k)' = {w}
       /\ \A m \in Keys \ {k} : Received(m)' = Received(m) /\ RunBy(m)' = RunBy(m)
  <2>1. Received(k)' = Received(k) \ {w}
    BY <1>10 DEF Received
  <2>2. RunBy(k)' = RunBy(k) \cup {w}
    BY <1>10 DEF RunBy
  <2>3. \A m \in Keys \ {k} : Received(m)' = Received(m)
    BY <1>1, <1>10 DEF Received
  <2>4. \A m \in Keys \ {k} : RunBy(m)' = RunBy(m)
    BY <1>1, <1>10 DEF RunBy
  <2>5. QED
    BY <1>3, <2>1, <2>2, <2>3, <2>4
<1>12. \A i \in DOMAIN queue : queue[i] \in Keys
  BY ElementOfSeq, LenProperties DEF TypeOK
<1>13. QueuedInv'
  <2>1. \A i \in DOMAIN queue' : IsQueued(queue[i])'
    BY <1>3, <1>5, <1>9, <1>12 DEF IInv, QueuedInv
  <2>2. \A m \in Keys : \A u \in Received(m)' :
          /\ IsQueued(m)'
          /\ \A i \in DOMAIN queue' : queue'[i] # m
          /\ \A v \in Received(m)' : v = u
    BY <1>5, <1>9, <1>11 DEF IInv, QueuedInv
  <2>3. \A m \in Keys : IsQueued(m)' => \/ Received(m)' # {}
                                        \/ \E i \in DOMAIN queue' : queue'[i] = m
    BY <1>5, <1>8, <1>9, <1>11 DEF IInv, QueuedInv
  <2>4. QED
    BY <1>5, <2>1, <2>2, <2>3 DEF IInv, QueuedInv
<1>14. RunInv'
  BY <1>8, <1>9, <1>11 DEF IInv, RunInv
<1>15. OneMark'
  BY <1>8 DEF IInv, OneMark
<1>16. QED
  BY <1>13, <1>14, <1>15 DEF IInv

(* A worker that changes only its place, or its copy of the job.           *)
LEMMA SameWorkers ==
  ASSUME NEW w \in Workers,
         \A v \in Workers \ {w} : worker'[v] = worker[v],
         worker'[w].key = worker[w].key,
         (worker'[w].pc = "received") <=> (worker[w].pc = "received"),
         (worker'[w].pc \in {"running", "ended"}) <=> (worker[w].pc \in {"running", "ended"}),
         NEW m \in Keys
  PROVE  Received(m)' = Received(m) /\ RunBy(m)' = RunBy(m)
<1>1. \A v \in Workers : v \in Received(m)' <=> v \in Received(m)
  BY DEF Received
<1>2. \A v \in Workers : v \in RunBy(m)' <=> v \in RunBy(m)
  BY DEF RunBy
<1>3. QED
  BY <1>1, <1>2 DEF Received, RunBy

LEMMA InvPlaces ==
  ASSUME TypeOK, IInv, NEW w \in Workers, RunEnds(w) \/ Quit(w)
  PROVE  IInv'
<1>1. /\ queue' = queue /\ states' = states
      /\ \A v \in Workers \ {w} : worker'[v] = worker[v]
      /\ worker'[w].key = worker[w].key
      /\ \/ worker[w].pc = "running" /\ worker'[w].pc = "ended"
         \/ worker[w].pc = "idle" /\ worker'[w].pc = "gone"
  BY DEF RunEnds, Quit, TypeOK, Places
<1>2. \A m \in Keys : Received(m)' = Received(m) /\ RunBy(m)' = RunBy(m)
  BY <1>1, SameWorkers
<1>3. QED
  BY <1>1, <1>2, InvUnchanged DEF IsQueued, IsRunning, IInv, OneMark

LEMMA InvSettle ==
  ASSUME TypeOK, IInv, NEW w \in Workers, Settle(w)
  PROVE  IInv'
<1>1. PICK k \in Keys : k = worker[w].key
  BY WorkerKey DEF Settle
<1>2. w \in RunBy(k) /\ worker[w].pc = "ended"
  BY <1>1 DEF Settle, RunBy
<1>3. /\ IsRunning(k) /\ ~IsQueued(k)
      /\ RunBy(k) = {w} /\ Received(k) = {}
      /\ \A i \in DOMAIN queue : queue[i] # k
  <2>1. IsRunning(k) /\ \A v \in RunBy(k) : v = w
    BY <1>2 DEF IInv, RunInv
  <2>2. ~IsQueued(k)
    BY <2>1 DEF IInv, OneMark, IsQueued, IsRunning
  <2>3. Received(k) = {} /\ \A i \in DOMAIN queue : queue[i] # k
    BY <2>2 DEF IInv, QueuedInv
  <2>4. QED
    BY <1>2, <2>1, <2>2, <2>3
<1>4. states[k] \in JobStates /\ queue' = queue
  BY <1>3 DEF IsRunning, TypeOK, Settle
<1>5. CASE states[k].dirty
  <2> DEFINE next == [states[k] EXCEPT !.dirty = FALSE]
  <2>1. /\ states' = [states EXCEPT ![k] = next]
        /\ worker' = [worker EXCEPT ![w].pc = "running", ![w].job = states[k].job]
    BY <1>1, <1>3, <1>5 DEF Settle, IsRunning
  <2>2. next \in JobStates /\ next.queued = states[k].queued /\ next.running = states[k].running
    BY <1>4 DEF JobStates
  <2> HIDE DEF next
  <2>3. states'[k] = next /\ next # None /\ states[k] # None
    BY <1>4, <2>1, <2>2, EntryAssumption DEF TypeOK
  <2>4. \A m \in Keys \ {k} : states'[m] = states[m]
    BY <2>1 DEF TypeOK
  <2>5. \A m \in Keys : /\ (IsQueued(m)' <=> IsQueued(m)) /\ (IsRunning(m)' <=> IsRunning(m))
                        /\ states'[m] # None => (states'[m].queued # states'[m].running)
    BY <2>2, <2>3, <2>4 DEF IsQueued, IsRunning, IInv, OneMark
  <2>6. /\ worker'[w].key = worker[w].key /\ worker'[w].pc = "running"
        /\ \A v \in Workers \ {w} : worker'[v] = worker[v]
    BY <2>1 DEF TypeOK, Places
  <2>7. \A m \in Keys : Received(m)' = Received(m) /\ RunBy(m)' = RunBy(m)
    BY <1>2, <2>6, SameWorkers
  <2>8. QED
    BY <1>4, <2>5, <2>7, InvUnchanged
<1>6. CASE ~states[k].dirty
  <2>1. states' = [states EXCEPT ![k] = None] /\ worker' = [worker EXCEPT ![w] = Idle]
    BY <1>1, <1>6 DEF Settle
  <2>2. states'[k] = None /\ \A m \in Keys \ {k} : states'[m] = states[m]
    BY <2>1 DEF TypeOK
  <2>3. /\ ~IsQueued(k)' /\ ~IsRunning(k)'
        /\ \A m \in Keys \ {k} : (IsQueued(m)' <=> IsQueued(m)) /\ (IsRunning(m)' <=> IsRunning(m))
    BY <2>2 DEF IsQueued, IsRunning
  <2>4. worker'[w].pc = "idle" /\ \A v \in Workers \ {w} : worker'[v] = worker[v]
    BY <2>1 DEF TypeOK, Idle
  <2>5. \A m \in Keys : Received(m)' = Received(m)
    BY <1>2, <2>4 DEF Received
  <2>6. RunBy(k)' = {} /\ \A m \in Keys \ {k} : RunBy(m)' = RunBy(m)
    <3>1. RunBy(k)' = RunBy(k) \ {w}
      BY <2>4 DEF RunBy
    <3>2. \A m \in Keys \ {k} : RunBy(m)' = RunBy(m)
      BY <1>1, <2>4 DEF RunBy
    <3>3. QED
      BY <1>3, <3>1, <3>2
  <2>7. \A i \in DOMAIN queue : queue[i] \in Keys
    BY ElementOfSeq, LenProperties DEF TypeOK
  <2>8. QueuedInv'
    <3>1. \A i \in DOMAIN queue' : IsQueued(queue[i])'
      BY <1>3, <1>4, <2>3, <2>7 DEF IInv, QueuedInv
    <3>2. QED
      BY <1>3, <1>4, <2>3, <2>5, <3>1 DEF IInv, QueuedInv
  <2>9. RunInv'
    BY <2>3, <2>6 DEF IInv, RunInv
  <2>10. OneMark'
    BY <2>2 DEF IInv, OneMark
  <2>11. QED
    BY <2>8, <2>9, <2>10 DEF IInv
<1>7. QED
  BY <1>5, <1>6

LEMMA InvStep == TypeOK /\ IInv /\ [Next]_vars => IInv'
<1> SUFFICES ASSUME TypeOK, IInv, [Next]_vars PROVE IInv'
  OBVIOUS
<1>1. ASSUME NEW k \in Keys, NEW queries \in Inputs, Enqueue(k, queries) PROVE IInv'
  BY <1>1, InvEnqueue
<1>2. ASSUME NEW w \in Workers, WorkerStep(w) \/ Quit(w) PROVE IInv'
  BY <1>2, InvReceive, InvStartRun, InvPlaces, InvSettle DEF WorkerStep
<1>3. CASE UNCHANGED <<states, queue, worker>>
  BY <1>3, InvUnchanged DEF IsQueued, IsRunning, Received, RunBy, IInv, OneMark
<1>4. QED
  BY <1>1, <1>2, <1>3 DEF Next, Stop, vars

-------------------------------------------------------------------------------
(* From single entries to counts.                                          *)

LEMMA CountOne ==
  ASSUME NEW S, NEW P \in BOOLEAN, P <=> S # {}, \A a, b \in S : a = b
  PROVE  IsFiniteSet(S) /\ Cardinality(S) = (IF P THEN 1 ELSE 0)
<1>1. CASE S = {}
  BY <1>1, FS_EmptySet
<1>2. CASE S # {}
  <2>1. PICK a : S = {a}
    BY <1>2
  <2>2. QED
    BY <1>2, <2>1, FS_Singleton
<1>3. QED
  BY <1>1, <1>2

LEMMA CountsFollow == TypeOK /\ IInv => MarksAreTrue
<1> SUFFICES ASSUME TypeOK, IInv, NEW k \in Keys
             PROVE  /\ Cardinality({i \in DOMAIN queue : queue[i] = k})
                         + Cardinality(Received(k))
                       = (IF states[k] # None /\ states[k].queued THEN 1 ELSE 0)
                    /\ Cardinality(RunBy(k))
                       = (IF states[k] # None /\ states[k].running THEN 1 ELSE 0)
                    /\ states[k] # None => (states[k].queued # states[k].running)
  BY DEF MarksAreTrue
<1> DEFINE places == {i \in DOMAIN queue : queue[i] = k}
<1>1. Cardinality(places) + Cardinality(Received(k)) = (IF IsQueued(k) THEN 1 ELSE 0)
  <2>1. /\ \A i, j \in places : i = j
        /\ \A v, w \in Received(k) : v = w
        /\ Received(k) # {} => places = {} /\ IsQueued(k)
        /\ places # {} => IsQueued(k)
        /\ IsQueued(k) => Received(k) # {} \/ places # {}
    BY DEF IInv, QueuedInv
  <2> HIDE DEF places
  <2>2. Cardinality(places) = (IF places # {} THEN 1 ELSE 0)
    BY <2>1, CountOne
  <2>3. Cardinality(Received(k)) = (IF Received(k) # {} THEN 1 ELSE 0)
    BY <2>1, CountOne
  <2>4. QED
    BY <2>1, <2>2, <2>3
<1>2. Cardinality(RunBy(k)) = (IF IsRunning(k) THEN 1 ELSE 0)
  <2>1. (IsRunning(k) <=> RunBy(k) # {}) /\ \A v, w \in RunBy(k) : v = w
    BY DEF IInv, RunInv
  <2>2. Cardinality(RunBy(k)) = (IF RunBy(k) # {} THEN 1 ELSE 0)
    BY <2>1, CountOne
  <2>3. QED
    BY <2>1, <2>2
<1>3. QED
  BY <1>1, <1>2 DEF IsQueued, IsRunning, IInv, OneMark

(* The marks of a key say where it is, at every step of any number of      *)
(* workers and requests: no key is queued twice, run by two workers, or    *)
(* left marked with nobody to run it.                                      *)
THEOREM MarksAreAlwaysTrue == Spec => []MarksAreTrue
<1>1. Init => TypeOK /\ IInv
  BY TypeInit, InvInit
<1>2. (TypeOK /\ IInv) /\ [Next]_vars => (TypeOK /\ IInv)'
  BY TypeStep, InvStep
<1>3. TypeOK /\ IInv => MarksAreTrue
  BY CountsFollow
<1>4. QED
  BY <1>1, <1>2, <1>3, PTL DEF Spec

-------------------------------------------------------------------------------
(* What EveryJobRuns needs of every state: the queries of a caller who was *)
(* told that they are queued, or merged into a job, are in the job that    *)
(* the key's next run copies, and a worker will come to run it: the key is *)
(* in the channel, or with the worker that received it, or with the one    *)
(* whose run is marked to be repeated.                                     *)
AcceptedIsHeld ==
  \A k \in Keys : waiting[k] # {} =>
    /\ states[k] # None /\ waiting[k] = ToSet(states[k].job)
    /\ \/ \E i \in DOMAIN queue : queue[i] = k
       \/ Received(k) # {}
       \/ RunBy(k) # {} /\ states[k].dirty

(* The same by the marks, and nothing is waiting for a key without them.   *)
WaitsFor(k) ==
  waiting[k] # {} =>
    /\ states[k] # None /\ waiting[k] = ToSet(states[k].job)
    /\ states[k].queued \/ states[k].dirty
Awaited == \A k \in Keys : WaitsFor(k)

LEMMA AwaitedEnqueue ==
  ASSUME TypeOK, IInv, Awaited, NEW k \in Keys, NEW queries \in Inputs, Enqueue(k, queries)
  PROVE  Awaited'
<1> DEFINE merged == Merged(k, queries)
<1>1. merged \in RefillJobs /\ ToSet(merged) \in SUBSET Queries
  BY MergedIsJob DEF RefillJobs, ToSet
<1>2. CASE Dedupe(k, queries)
  <2> DEFINE again == states[k].running /\ merged # states[k].job
             next  == [states[k] EXCEPT !.job = merged, !.dirty = @ \/ again]
  <2>1. states[k] \in JobStates /\ states[k] # None
    BY <1>2 DEF TypeOK, Dedupe, Busy
  <2>2. states' = [states EXCEPT ![k] = next]
    BY <1>2 DEF Dedupe
  <2>3. waiting' = IF states[k].queued \/ again
                   THEN [waiting EXCEPT ![k] = ToSet(merged)] ELSE waiting
    BY <1>2 DEF Dedupe
  <2>4. /\ next \in JobStates /\ next.job = merged
        /\ next.queued = states[k].queued /\ next.running = states[k].running
        /\ next.dirty = (states[k].dirty \/ again)
    BY <1>1, <2>1 DEF JobStates
  <2>5. states[k].queued # states[k].running /\ states[k].queued \in BOOLEAN
        /\ states[k].running \in BOOLEAN
    BY <2>1 DEF IInv, OneMark, JobStates
  <2>6. next # None
    BY <2>4, EntryAssumption
  <2> HIDE DEF next, merged
  <2>7. WaitsFor(k)'
    <3>1. states'[k] = next
      BY <2>2 DEF TypeOK
    <3>2. CASE states[k].queued \/ again
      <4>1. waiting'[k] = ToSet(merged)
        BY <2>3, <3>2 DEF TypeOK
      <4>2. QED
        BY <2>4, <2>6, <3>1, <3>2, <4>1 DEF WaitsFor
    <3>3. CASE ~(states[k].queued \/ again)
      <4>1. waiting'[k] = waiting[k] /\ merged = states[k].job
        BY <2>3, <2>5, <3>3
      <4>2. QED
        BY <2>4, <2>6, <3>1, <3>3, <4>1 DEF WaitsFor, Awaited
    <3>4. QED
      BY <3>2, <3>3
  <2>8. \A m \in Keys \ {k} : states'[m] = states[m] /\ waiting'[m] = waiting[m]
    BY <2>2, <2>3 DEF TypeOK
  <2>9. QED
    BY <2>7, <2>8 DEF Awaited, WaitsFor
<1>3. CASE Put(k, queries)
  <2>1. Fresh(merged) \in JobStates
    BY <1>1 DEF Fresh, JobStates
  <2>2. /\ states'[k] = Fresh(merged) /\ waiting'[k] = ToSet(merged)
        /\ \A m \in Keys \ {k} : states'[m] = states[m] /\ waiting'[m] = waiting[m]
    BY <1>3 DEF TypeOK, Put
  <2> HIDE DEF merged
  <2>3. Fresh(merged) # None /\ Fresh(merged).job = merged /\ Fresh(merged).queued
    BY <2>1, EntryAssumption DEF Fresh
  <2>4. QED
    BY <2>2, <2>3 DEF Awaited, WaitsFor
<1>4. CASE Drop(k, queries)
  <2>1. states[k] = None
    BY <1>4 DEF Drop, Busy, IInv, OneMark, TypeOK, JobStates
  <2>2. states' = states /\ waiting' = waiting
    BY <1>4, <2>1 DEF Drop, TypeOK
  <2>3. QED
    BY <2>2 DEF Awaited, WaitsFor
<1>5. QED
  BY <1>2, <1>3, <1>4 DEF Enqueue

(* A worker that starts a run takes all that waits for its key; one that   *)
(* gives up a key leaves nothing that waits for it.                        *)
LEMMA AwaitedWorker ==
  ASSUME TypeOK, IInv, Awaited, NEW w \in Workers, StartRun(w) \/ Settle(w)
  PROVE  Awaited'
<1>1. PICK k \in Keys : k = worker[w].key
  BY WorkerKey DEF StartRun, Settle
<1>2. CASE states' = states /\ waiting' = waiting
  BY <1>2 DEF Awaited, WaitsFor
<1>3. CASE /\ waiting' = [waiting EXCEPT ![k] = {}]
           /\ \A m \in Keys \ {k} : states'[m] = states[m]
  <2>1. waiting'[k] = {} /\ \A m \in Keys \ {k} : waiting'[m] = waiting[m]
    BY <1>3 DEF TypeOK
  <2>2. QED
    BY <1>3, <2>1 DEF Awaited, WaitsFor
<1>4. CASE Settle(w) /\ ~(states[k] # None /\ states[k].dirty)
  <2>1. w \in RunBy(k)
    BY <1>1, <1>4 DEF Settle, RunBy
  <2>2. states[k] # None /\ ~states[k].queued
    BY <2>1 DEF IInv, RunInv, OneMark, IsRunning
  <2>3. waiting[k] = {}
    BY <1>4, <2>2 DEF Awaited, WaitsFor
  <2>4. waiting' = waiting /\ states' = [states EXCEPT ![k] = None]
    BY <1>1, <1>4 DEF Settle
  <2>5. \A m \in Keys \ {k} : states'[m] = states[m]
    BY <2>4 DEF TypeOK
  <2>6. QED
    BY <2>3, <2>4, <2>5 DEF Awaited, WaitsFor
<1>5. CASE StartRun(w)
  <2>1. \/ states' = states /\ waiting' = waiting
        \/ /\ waiting' = [waiting EXCEPT ![k] = {}]
           /\ states' = [states EXCEPT ![k].queued = FALSE, ![k].running = TRUE,
                                       ![k].dirty = FALSE]
    BY <1>1, <1>5 DEF StartRun
  <2>2. QED
    BY <1>2, <1>3, <2>1 DEF TypeOK
<1>6. CASE Settle(w) /\ states[k] # None /\ states[k].dirty
  <2>1. /\ waiting' = [waiting EXCEPT ![k] = {}]
        /\ states' = [states EXCEPT ![k].dirty = FALSE]
    BY <1>1, <1>6 DEF Settle
  <2>2. QED
    BY <1>3, <2>1 DEF TypeOK
<1>7. QED
  BY <1>4, <1>5, <1>6

LEMMA AwaitedStep == TypeOK /\ IInv /\ Awaited /\ [Next]_vars => Awaited'
<1> SUFFICES ASSUME TypeOK, IInv, Awaited, [Next]_vars PROVE Awaited'
  OBVIOUS
<1>1. ASSUME NEW k \in Keys, NEW queries \in Inputs, Enqueue(k, queries) PROVE Awaited'
  BY <1>1, AwaitedEnqueue
<1>2. ASSUME NEW w \in Workers, StartRun(w) \/ Settle(w) PROVE Awaited'
  BY <1>2, AwaitedWorker
<1>3. CASE UNCHANGED <<states, waiting>>
  BY <1>3 DEF Awaited, WaitsFor
<1>4. QED
  BY <1>1, <1>2, <1>3 DEF Next, WorkerStep, Receive, RunEnds, Quit, Stop, vars

(* No query that was accepted is forgotten: not when the job it is merged  *)
(* into runs already, nor when that run ends while it is merged.           *)
THEOREM AcceptedIsAlwaysHeld == Spec => []AcceptedIsHeld
<1>1. Init => TypeOK /\ IInv /\ Awaited
  BY TypeInit, InvInit DEF Init, Awaited, WaitsFor
<1>2. (TypeOK /\ IInv /\ Awaited) /\ [Next]_vars => (TypeOK /\ IInv /\ Awaited)'
  BY TypeStep, InvStep, AwaitedStep
<1>3. TypeOK /\ IInv /\ Awaited => AcceptedIsHeld
  <2> SUFFICES ASSUME TypeOK, IInv, Awaited, NEW k \in Keys, waiting[k] # {}
               PROVE  /\ states[k] # None /\ waiting[k] = ToSet(states[k].job)
                      /\ \/ \E i \in DOMAIN queue : queue[i] = k
                         \/ Received(k) # {}
                         \/ RunBy(k) # {} /\ states[k].dirty
    BY DEF AcceptedIsHeld
  <2>1. /\ states[k] # None /\ waiting[k] = ToSet(states[k].job)
        /\ states[k].queued \/ states[k].dirty
    BY DEF Awaited, WaitsFor
  <2>2. CASE states[k].queued
    BY <2>1, <2>2 DEF IInv, QueuedInv, IsQueued
  <2>3. CASE ~states[k].queued
    <3>1. IsRunning(k)
      BY <2>1, <2>3 DEF TypeOK, JobStates, IInv, OneMark, IsRunning
    <3>2. RunBy(k) # {}
      BY <3>1 DEF IInv, RunInv
    <3>3. QED
      BY <2>1, <2>3, <3>2
  <2>4. QED
    BY <2>2, <2>3
<1>4. QED
  BY <1>1, <1>2, <1>3, PTL DEF Spec

===============================================================================
