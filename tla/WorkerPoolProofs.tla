-------------------------- MODULE WorkerPoolProofs --------------------------
(***************************************************************************)
(* Proofs about WorkerPool, for every number of goroutines, any calls of   *)
(* any number of tasks, cancelled or not, and a Release or none.           *)
(***************************************************************************)
EXTENDS WorkerPool, FiniteSetTheorems, SequenceTheorems, TLAPS

-----------------------------------------------------------------------------
(* The inductive invariant: where a task is.                               *)

Places == {"task", "add", "send", "fallback", "inline", "group", "tasks", "done"}

TypeOK ==
  /\ queue \in Seq(Tasks)
  /\ count \in Nat
  /\ release \in {"no", "closing", "waiting", "released"}
  /\ hand \in [Workers -> Tasks \cup {None}]
  /\ status \in [Tasks -> {"new", "running", "done"}]
  /\ call \in [Callers -> [pc : Places, i : 1..Jobs]]
  /\ owed \in [Callers -> Nat]
  /\ group \subseteq Tasks
  /\ cancelled \subseteq Callers
  /\ panicked \in BOOLEAN

Queued(t) == \E n \in 1..Len(queue) : queue[n] = t
Held(t)   == \E w \in Workers : hand[w] = t
(* The loop of the call has not placed the task yet.                       *)
Ahead(t)  == \/ call[t[1]].i < t[2]
             \/ call[t[1]].i = t[2] /\ call[t[1]].pc \in {"task", "add", "send", "fallback"}
Inline(t) == call[t[1]].i = t[2] /\ call[t[1]].pc = "inline"
Sending(t) == call[t[1]].i = t[2] /\ call[t[1]].pc = "send"

(* A task is in one place, and its status follows from the place.          *)
Placed ==
  \A t \in Tasks :
    /\ Ahead(t) => status[t] = "new" /\ ~Queued(t)
    /\ Queued(t) => status[t] = "new"
    /\ Held(t) => status[t] = "running" /\ t \notin group /\ ~Inline(t)
    /\ t \in group => status[t] = "running" /\ t[1] \in Recallers
    /\ Inline(t) => status[t] = "running" /\ t[1] \in Batchers
    /\ status[t] = "new" => Ahead(t) \/ Queued(t)
    /\ status[t] = "running" => Held(t) \/ t \in group \/ Inline(t)

Once ==
  /\ \A m, n \in 1..Len(queue) : queue[m] = queue[n] => m = n
  /\ \A v, w \in Workers : hand[v] = hand[w] /\ hand[v] # None => v = w

(* What a call has behind it at the places after its loop.                 *)
Behind ==
  \A c \in Callers :
    /\ call[c].pc = "group" => c \in Recallers
    /\ call[c].pc \in {"group", "tasks", "done"} => call[c].i = Jobs
    /\ call[c].pc \in {"tasks", "done"} => \A t \in group : t[1] # c
    /\ call[c].pc = "done" => \A i \in 1..Jobs : status[<<c, i>>] = "done"

(* The two WaitGroups.  The pool's counts what is announced to the pool    *)
(* and not ended.  The call's counts at least what it has in the pool or   *)
(* is about to put there, and for a batch whatever has not ended.          *)
Pending == {t \in Tasks : Sending(t) \/ Queued(t) \/ Held(t)}

Open(c) ==
  {i \in 1..Jobs :
     \/ Queued(<<c, i>>) \/ Held(<<c, i>>)
     \/ call[c].i = i /\ call[c].pc \in {"add", "send", "fallback"}
     \/ c \in Batchers /\ status[<<c, i>>] # "done"}

Counted ==
  /\ IsFiniteSet(Pending) /\ count = Cardinality(Pending)
  /\ \A c \in Callers : Cardinality(Open(c)) <= owed[c]

Drained ==
  release = "released" => queue = <<>> /\ \A w \in Workers : hand[w] = None

IInv == TypeOK /\ Placed /\ Once /\ Behind /\ Counted /\ Drained

-----------------------------------------------------------------------------
(* The steps of a call.                                                    *)

LEMMA TaskIs ==
  /\ \A t \in Tasks : t = <<t[1], t[2]>> /\ t[1] \in Callers /\ t[2] \in 1..Jobs
  /\ \A c \in Callers, i \in 1..Jobs :
       <<c, i>> \in Tasks /\ <<c, i>>[1] = c /\ <<c, i>>[2] = i
  /\ Jobs \in Nat /\ 1 \in 1..Jobs /\ None \notin Tasks
BY PoolAssumption DEF Tasks

LEMMA CurrentIs ==
  ASSUME TypeOK, NEW c \in Callers
  PROVE  /\ call[c].i \in 1..Jobs /\ call[c].pc \in Places
         /\ Current(c) \in Tasks /\ Current(c)[1] = c /\ Current(c)[2] = call[c].i
         /\ \A t \in Tasks : t = Current(c) <=> t[1] = c /\ t[2] = call[c].i
<1>1. call[c].i \in 1..Jobs /\ call[c].pc \in Places
  BY DEF TypeOK
<1>2. QED
  BY <1>1, TaskIs DEF Current

(* The places of a call whose current task is on its way.                  *)
Placing == {"task", "add", "send", "fallback"}

(* A step of a call to another place concerns its current task only.       *)
Jump(c, label) ==
  /\ call' \in [Callers -> [pc : Places, i : 1..Jobs]]
  /\ call'[c].pc = label /\ call'[c].i = call[c].i
  /\ \A d \in Callers : d # c => call'[d] = call[d]

LEMMA GotoJumps ==
  ASSUME TypeOK, NEW c \in Callers, NEW label \in Places, Goto(c, label)
  PROVE  Jump(c, label)
<1>1. call \in [Callers -> [pc : Places, i : 1..Jobs]]
  BY DEF TypeOK
<1>2. call' = [call EXCEPT ![c] = [call[c] EXCEPT !.pc = label]]
  BY DEF Goto
<1>3. [call[c] EXCEPT !.pc = label] \in [pc : Places, i : 1..Jobs]
  BY <1>1
<1> DEFINE r == [call[c] EXCEPT !.pc = label]
<1>4. r.pc = label /\ r.i = call[c].i
  BY <1>1
<1> HIDE DEF r
<1>5. call'[c] = r /\ \A d \in Callers : d # c => call'[d] = call[d]
  BY <1>1, <1>2 DEF r
<1>6. call' \in [Callers -> [pc : Places, i : 1..Jobs]]
  BY <1>1, <1>2, <1>3
<1>7. QED
  BY <1>4, <1>5, <1>6 DEF Jump

(* What has placed its current task goes on to the next, or to the end.    *)
LEMMA NextPlaces ==
  ASSUME TypeOK, NEW c \in Callers, NextTask(c),
         call[c].pc \in {"send", "fallback", "inline"}
  PROVE  /\ call' \in [Callers -> [pc : Places, i : 1..Jobs]]
         /\ \A d \in Callers : d # c => call'[d] = call[d]
         /\ call'[c].pc \in {"task", "group", "tasks"}
         /\ call'[c].pc = "group" => c \in Recallers
         /\ call'[c].pc = "tasks" => c \in Batchers
         /\ call'[c].pc # "task" => call'[c].i = Jobs
         /\ \A t \in Tasks : /\ Ahead(t)' <=> Ahead(t) /\ t # Current(c)
                             /\ Inline(t)' <=> Inline(t) /\ t # Current(c)
                             /\ Sending(t)' <=> Sending(t) /\ t # Current(c)
<1>1. call \in [Callers -> [pc : Places, i : 1..Jobs]] /\ call[c].i \in 1..Jobs
  BY DEF TypeOK
<1> DEFINE r == IF call[c].i < Jobs THEN [pc |-> "task", i |-> call[c].i + 1]
                ELSE [pc |-> IF c \in Recallers THEN "group" ELSE "tasks", i |-> call[c].i]
<1>2. call' = [call EXCEPT ![c] = r]
  BY DEF NextTask
<1>3. r \in [pc : Places, i : 1..Jobs]
  BY <1>1, TaskIs DEF Places
<1>4. /\ call[c].i < Jobs => r.pc = "task" /\ r.i = call[c].i + 1
      /\ ~(call[c].i < Jobs) => /\ r.pc = IF c \in Recallers THEN "group" ELSE "tasks"
                                /\ r.i = call[c].i
  OBVIOUS
<1> HIDE DEF r
<1>5. call'[c] = r /\ \A d \in Callers : d # c => call'[d] = call[d]
  BY <1>1, <1>2
<1>6. call' \in [Callers -> [pc : Places, i : 1..Jobs]]
  BY <1>1, <1>2, <1>3
<1>7. ASSUME NEW t \in Tasks
      PROVE  /\ Ahead(t)' <=> Ahead(t) /\ t # Current(c)
             /\ Inline(t)' <=> Inline(t) /\ t # Current(c)
             /\ Sending(t)' <=> Sending(t) /\ t # Current(c)
  <2>1. t[1] \in Callers /\ t[2] \in 1..Jobs /\ (t = Current(c) <=> t[1] = c /\ t[2] = call[c].i)
    BY TaskIs, CurrentIs
  <2>2. CASE t[1] # c
    BY <1>5, <2>1, <2>2 DEF Ahead, Inline, Sending
  <2>3. CASE t[1] = c
    BY <1>1, <1>4, <1>5, <2>1, <2>3, TaskIs DEF Ahead, Inline, Sending
  <2>4. QED
    BY <2>2, <2>3
<1>8. call'[c].pc # "task" => call'[c].i = Jobs
  BY <1>1, <1>4, <1>5, TaskIs
<1>9. /\ call'[c].pc \in {"task", "group", "tasks"}
      /\ call'[c].pc = "group" => c \in Recallers
      /\ call'[c].pc = "tasks" => c \in Batchers
  BY <1>4, <1>5 DEF Callers
<1>10. QED
  BY <1>5, <1>6, <1>7, <1>8, <1>9

LEMMA JumpPlaces ==
  ASSUME TypeOK, NEW c \in Callers, NEW label \in Places, Jump(c, label), NEW t \in Tasks
  PROVE  /\ t[1] # c => /\ Ahead(t)' <=> Ahead(t)
                        /\ Inline(t)' <=> Inline(t)
                        /\ Sending(t)' <=> Sending(t)
         /\ t[1] = c => /\ Ahead(t)' <=> \/ call[c].i < t[2]
                                         \/ t = Current(c) /\ label \in Placing
                        /\ Inline(t)' <=> t = Current(c) /\ label = "inline"
                        /\ Sending(t)' <=> t = Current(c) /\ label = "send"
<1>1. t[1] \in Callers /\ (t = Current(c) <=> t[1] = c /\ t[2] = call[c].i)
  BY TaskIs, CurrentIs
<1>2. QED
  BY <1>1 DEF Jump, Ahead, Inline, Sending, Placing

-----------------------------------------------------------------------------
(* The channel.                                                            *)

LEMMA QueueFields ==
  ASSUME TypeOK
  PROVE  /\ Len(queue) \in Nat
         /\ \A n \in 1..Len(queue) : queue[n] \in Tasks
         /\ queue = <<>> <=> Len(queue) = 0
<1>1. queue \in Seq(Tasks)
  BY DEF TypeOK
<1>2. QED
  BY <1>1, EmptySeq, LenProperties

LEMMA SendQueues ==
  ASSUME TypeOK, Once, NEW t0 \in Tasks, queue' = Append(queue, t0), ~Queued(t0)
  PROVE  /\ queue' \in Seq(Tasks)
         /\ \A t \in Tasks : Queued(t)' <=> Queued(t) \/ t = t0
         /\ \A m, n \in 1..Len(queue') : queue'[m] = queue'[n] => m = n
<1>1. queue \in Seq(Tasks) /\ Len(queue) \in Nat
  BY QueueFields DEF TypeOK
<1>2. /\ queue' \in Seq(Tasks) /\ Len(queue') = Len(queue) + 1
      /\ \A n \in 1..Len(queue) : queue'[n] = queue[n]
      /\ queue'[Len(queue) + 1] = t0
  BY <1>1, AppendProperties
<1>3. ASSUME NEW t \in Tasks PROVE Queued(t)' <=> Queued(t) \/ t = t0
  <2>1. \A n : n \in 1..Len(queue') <=> n \in 1..Len(queue) \/ n = Len(queue) + 1
    BY <1>1, <1>2
  <2>2. QED
    BY <1>2, <2>1 DEF Queued
<1>4. ASSUME NEW m \in 1..Len(queue'), NEW n \in 1..Len(queue'), queue'[m] = queue'[n]
      PROVE  m = n
  <2>1. \A k \in 1..Len(queue') : k \in 1..Len(queue) \/ k = Len(queue) + 1
    BY <1>1, <1>2
  <2>2. \A k \in 1..Len(queue) : queue[k] # t0
    BY DEF Queued
  <2>3. QED
    BY <1>2, <1>4, <2>1, <2>2 DEF Once
<1>5. QED
  BY <1>2, <1>3, <1>4

LEMMA TakeUnqueues ==
  ASSUME TypeOK, Once, queue # <<>>, queue' = Tail(queue)
  PROVE  /\ queue' \in Seq(Tasks)
         /\ Head(queue) \in Tasks /\ Queued(Head(queue))
         /\ \A t \in Tasks : Queued(t)' <=> Queued(t) /\ t # Head(queue)
         /\ \A m, n \in 1..Len(queue') : queue'[m] = queue'[n] => m = n
<1>1. queue \in Seq(Tasks) /\ Len(queue) \in Nat /\ Len(queue) # 0
  BY QueueFields DEF TypeOK
<1>2. Head(queue) = queue[1] /\ 1 \in 1..Len(queue)
  BY <1>1
<1>3. /\ Head(queue) \in Tasks /\ queue' \in Seq(Tasks)
      /\ Len(queue') = Len(queue) - 1
      /\ \A n \in 1..Len(queue') : queue'[n] = queue[n + 1]
  BY <1>1, HeadTailProperties
<1>4. Queued(Head(queue))
  BY <1>2 DEF Queued
<1>5. ASSUME NEW t \in Tasks PROVE Queued(t)' <=> Queued(t) /\ t # Head(queue)
  <2>1. ASSUME Queued(t)' PROVE Queued(t) /\ t # Head(queue)
    <3>1. PICK n \in 1..Len(queue') : queue'[n] = t
      BY <2>1 DEF Queued
    <3>2. n + 1 \in 1..Len(queue) /\ queue[n + 1] = t /\ n + 1 # 1
      BY <1>1, <1>3, <3>1
    <3>3. QED
      BY <1>2, <3>2 DEF Queued, Once
  <2>2. ASSUME Queued(t), t # Head(queue) PROVE Queued(t)'
    <3>1. PICK n \in 1..Len(queue) : queue[n] = t
      BY <2>2 DEF Queued
    <3>2. n # 1
      BY <1>2, <2>2, <3>1
    <3>3. n - 1 \in 1..Len(queue') /\ (n - 1) + 1 = n
      BY <1>1, <1>3, <3>1, <3>2
    <3>4. queue'[n - 1] = t
      BY <1>3, <3>1, <3>3
    <3>5. QED
      BY <3>3, <3>4 DEF Queued
  <2>3. QED
    BY <2>1, <2>2
<1>6. ASSUME NEW m \in 1..Len(queue'), NEW n \in 1..Len(queue'), queue'[m] = queue'[n]
      PROVE  m = n
  <2>1. m + 1 \in 1..Len(queue) /\ n + 1 \in 1..Len(queue) /\ queue[m + 1] = queue[n + 1]
    BY <1>1, <1>3, <1>6
  <2>2. m + 1 = n + 1
    BY <2>1 DEF Once
  <2>3. QED
    BY <1>3, <2>2
<1>7. QED
  BY <1>3, <1>4, <1>5, <1>6

LEMMA NothingQueued ==
  queue = <<>> => \A t \in Tasks : ~Queued(t)
BY DEF Queued

-----------------------------------------------------------------------------
(* The WaitGroup of a call.                                                *)

LEMMA JobSets ==
  ASSUME NEW S \in SUBSET (1..Jobs)
  PROVE  IsFiniteSet(S) /\ Cardinality(S) \in Nat
<1>1. IsFiniteSet(1..Jobs)
  BY TaskIs, FS_Interval
<1>2. QED
  BY <1>1, FS_Subset, FS_CardinalityType

LEMMA OpenIs ==
  \A c \in Callers : Open(c) \subseteq 1..Jobs /\ Open(c)' \subseteq 1..Jobs
BY DEF Open

LEMMA NoMore ==
  ASSUME NEW S \in SUBSET (1..Jobs), NEW T \in SUBSET S, NEW n \in Nat, Cardinality(S) <= n
  PROVE  Cardinality(T) <= n
<1>1. Cardinality(S) \in Nat /\ Cardinality(T) \in Nat /\ Cardinality(T) <= Cardinality(S)
  BY JobSets, FS_Subset
<1>2. QED
  BY <1>1

LEMMA OneLess ==
  ASSUME NEW S \in SUBSET (1..Jobs), NEW i \in S, NEW T \in SUBSET (S \ {i}),
         NEW n \in Nat, Cardinality(S) <= n
  PROVE  n - 1 \in Nat /\ Cardinality(T) <= n - 1
<1>1. IsFiniteSet(S) /\ Cardinality(S) \in Nat
  BY JobSets
<1>2. IsFiniteSet(S \ {i}) /\ Cardinality(S \ {i}) = Cardinality(S) - 1
  BY <1>1, FS_RemoveElement
<1>3. Cardinality(T) \in Nat /\ Cardinality(T) <= Cardinality(S \ {i})
  <2>1. T \in SUBSET (1..Jobs)
    OBVIOUS
  <2>2. QED
    BY <1>2, <2>1, JobSets, FS_Subset
<1>4. QED
  BY <1>1, <1>2, <1>3

LEMMA OneMore ==
  ASSUME NEW S \in SUBSET (1..Jobs), NEW i \in 1..Jobs, NEW T \in SUBSET (S \cup {i}),
         NEW n \in Nat, Cardinality(S) <= n
  PROVE  Cardinality(T) <= n + 1
<1>1. IsFiniteSet(S) /\ Cardinality(S) \in Nat
  BY JobSets
<1>2. /\ IsFiniteSet(S \cup {i})
      /\ Cardinality(S \cup {i}) = IF i \in S THEN Cardinality(S) ELSE Cardinality(S) + 1
  BY <1>1, FS_AddElement
<1>3. Cardinality(T) \in Nat /\ Cardinality(T) <= Cardinality(S \cup {i})
  <2>1. T \in SUBSET (1..Jobs)
    OBVIOUS
  <2>2. QED
    BY <1>2, <2>1, JobSets, FS_Subset
<1>4. QED
  BY <1>1, <1>2, <1>3

(* What of a call is open before and after a step.                         *)
LEMMA OpenMoves ==
  ASSUME TypeOK, TypeOK', Placed, NEW d \in Callers,
         \A t \in Tasks : t[1] = d =>
           /\ Queued(t)' \/ Held(t)' => Queued(t) \/ Held(t)
           /\ status'[t] # "done" => status[t] # "done",
         call'[d] = call[d]
  PROVE  Open(d)' \subseteq Open(d)
BY TaskIs DEF Open

LEMMA OthersOpen ==
  ASSUME TypeOK, TypeOK', Counted, NEW d \in Callers,
         Open(d)' \subseteq Open(d), owed'[d] = owed[d]
  PROVE  Cardinality(Open(d)') <= owed'[d]
<1>1. owed[d] \in Nat /\ Cardinality(Open(d)) <= owed[d]
  BY DEF TypeOK, Counted
<1> DEFINE S == Open(d)
           T == Open(d)'
<1>2. S \in SUBSET (1..Jobs) /\ T \in SUBSET S
  BY OpenIs
<1> HIDE DEF S, T
<1>3. Cardinality(S) <= owed[d]
  BY <1>1 DEF S
<1>4. Cardinality(T) <= owed[d]
  BY <1>1, <1>2, <1>3, NoMore
<1>5. QED
  BY <1>4 DEF T

-----------------------------------------------------------------------------
(* Steps that change none of the places.                                   *)

Same == UNCHANGED <<queue, count, hand, status, call, owed, group>>

LEMMA SameKeeps ==
  ASSUME IInv, Same, cancelled' \subseteq Callers, panicked' \in BOOLEAN,
         release' \in {"no", "closing", "waiting", "released"},
         release' = "released" => release = "released" \/ count = 0
  PROVE  IInv'
<1> USE DEF IInv
<1>1. TypeOK'
  BY DEF TypeOK, Same
<1>2. \A t : /\ Queued(t)' = Queued(t) /\ Held(t)' = Held(t) /\ Ahead(t)' = Ahead(t)
             /\ Inline(t)' = Inline(t) /\ Sending(t)' = Sending(t)
  BY DEF Same, Queued, Held, Ahead, Inline, Sending
<1>3. Placed' /\ Once' /\ Behind'
  BY <1>2 DEF Same, Placed, Once, Behind
<1>4. Counted'
  <2>1. Pending' = Pending
    BY <1>2 DEF Pending
  <2>2. \A c \in Callers : Open(c)' = Open(c)
    BY <1>2 DEF Same, Open
  <2>3. QED
    BY <2>1, <2>2 DEF Same, Counted
<1>5. Drained'
  <2>1. CASE release = "released"
    BY <2>1 DEF Drained, Same
  <2>2. CASE count = 0
    <3>1. Pending = {}
      BY <2>2, FS_EmptySet DEF Counted
    <3>2. queue = <<>>
      <4>1. ASSUME Len(queue) # 0 PROVE FALSE
        <5>1. 1 \in 1..Len(queue) /\ queue[1] \in Tasks
          BY <4>1, QueueFields
        <5>2. queue[1] \in Pending
          BY <5>1 DEF Pending, Queued
        <5>3. QED
          BY <3>1, <5>2
      <4>2. QED
        BY <4>1, QueueFields
    <3>3. \A w \in Workers : hand[w] = None
      BY <3>1 DEF Pending, Held, TypeOK
    <3>4. QED
      BY <3>2, <3>3 DEF Drained, Same
  <2>3. QED
    BY <2>1, <2>2 DEF Drained
<1>6. QED
  BY <1>1, <1>3, <1>4, <1>5

-----------------------------------------------------------------------------
(* The steps of Submit.                                                    *)

LEMMA Frame ==
  /\ queue' = queue => \A t : Queued(t)' = Queued(t)
  /\ hand' = hand => \A t : Held(t)' = Held(t)
BY DEF Queued, Held

LEMMA CurrentIsAhead ==
  ASSUME IInv, NEW c \in Callers, call[c].pc \in Placing
  PROVE  /\ Current(c) \in Tasks /\ Current(c)[1] = c /\ Current(c)[2] = call[c].i
         /\ Ahead(Current(c)) /\ ~Inline(Current(c)) /\ status[Current(c)] = "new"
         /\ ~Queued(Current(c)) /\ ~Held(Current(c)) /\ Current(c) \notin group
<1>1. TypeOK /\ Placed
  BY DEF IInv
<1>2. Current(c) \in Tasks /\ Current(c)[1] = c /\ Current(c)[2] = call[c].i
  BY <1>1, CurrentIs
<1>3. Ahead(Current(c)) /\ ~Inline(Current(c))
  BY <1>2 DEF Ahead, Inline, Placing
<1>4. QED
  BY <1>1, <1>2, <1>3 DEF Placed

(* On the way of a task to its place nothing changes but the way.          *)
LEMMA StillAhead ==
  ASSUME IInv, NEW c \in Callers, call[c].pc \in Placing,
         NEW label \in {"add", "send", "fallback"}, Jump(c, label),
         UNCHANGED <<queue, release, hand, status, group>>
  PROVE  /\ Placed' /\ Once' /\ Behind' /\ Drained'
         /\ \A t \in Tasks : /\ Queued(t)' = Queued(t) /\ Held(t)' = Held(t)
                             /\ t[1] # c => (Sending(t)' <=> Sending(t))
                             /\ t[1] = c => (Sending(t)' <=> t = Current(c) /\ label = "send")
<1>1. TypeOK /\ Placed /\ Once /\ Behind /\ Drained
  BY DEF IInv
<1>2. \A t \in Tasks : Queued(t)' = Queued(t) /\ Held(t)' = Held(t)
  BY Frame
<1>3. label \in Places /\ label \in Placing
  BY DEF Places, Placing
<1>4. \A t \in Tasks :
        /\ Ahead(t)' <=> Ahead(t)
        /\ Inline(t)' <=> Inline(t)
        /\ t[1] # c => (Sending(t)' <=> Sending(t))
        /\ t[1] = c => (Sending(t)' <=> t = Current(c) /\ label = "send")
  <2> TAKE t \in Tasks
  <2>1. /\ t[1] # c => (Ahead(t)' <=> Ahead(t))
        /\ t[1] = c => (Ahead(t)' <=> call[c].i < t[2] \/ t = Current(c))
        /\ Inline(t)' <=> t[1] # c /\ Inline(t)
        /\ Sending(t)' <=> IF t[1] = c THEN t = Current(c) /\ label = "send" ELSE Sending(t)
    BY <1>1, <1>3, JumpPlaces
  <2>2. t[1] = c => ~Inline(t) /\ (Ahead(t) <=> call[c].i < t[2] \/ t = Current(c))
    BY <1>1, CurrentIs DEF Inline, Ahead, Placing
  <2>3. QED
    BY <2>1, <2>2
<1>5. Placed'
  BY <1>1, <1>2, <1>4 DEF Placed
<1>6. Once' /\ Drained'
  BY <1>1 DEF Once, Drained
<1>7. Behind'
  BY <1>1 DEF Behind, Jump
<1>8. QED
  BY <1>2, <1>4, <1>5, <1>6, <1>7

LEMMA CheckKeeps ==
  ASSUME IInv, NEW c \in Callers, Check(c)
  PROVE  IInv'
<1> DEFINE label == IF Closed THEN "fallback" ELSE "add"
<1>1. TypeOK /\ call[c].pc = "task" /\ UNCHANGED <<queue, count, release, hand, status, group>>
  BY DEF IInv, Check, At, pool
<1>2. /\ label \in {"add", "send", "fallback"} /\ label # "send" /\ label \in Places
      /\ Goto(c, label)
  BY DEF Check, Places
<1> HIDE DEF label
<1>3. Jump(c, label)
  BY <1>1, <1>2, GotoJumps
<1>4. /\ Placed' /\ Once' /\ Behind' /\ Drained'
      /\ \A t \in Tasks : /\ Queued(t)' = Queued(t) /\ Held(t)' = Held(t)
                          /\ t[1] # c => (Sending(t)' <=> Sending(t))
                          /\ t[1] = c => ~Sending(t)'
  BY <1>1, <1>2, <1>3, StillAhead DEF Placing
<1>5. owed' = [owed EXCEPT ![c] = IF c \in Recallers THEN owed[c] + 1 ELSE owed[c]]
  BY DEF Check
<1>6. TypeOK'
  BY <1>1, <1>3, <1>5 DEF TypeOK, Jump, Check
<1>7. Pending' = Pending
  <2>1. \A t \in Tasks : t[1] = c => ~Sending(t)
    BY <1>1 DEF Sending
  <2>2. QED
    BY <1>4, <2>1 DEF Pending
<1>8. \A d \in Callers : Cardinality(Open(d)') <= owed'[d]
  <2> TAKE d \in Callers
  <2>1. CASE d # c
    <3>1. Open(d)' \subseteq Open(d)
      BY <1>1, <1>3, <1>4, <1>6, <2>1, OpenMoves DEF Jump, IInv
    <3>2. QED
      BY <1>1, <1>5, <1>6, <2>1, <3>1, OthersOpen DEF IInv, TypeOK
  <2>2. CASE d = c /\ c \in Recallers
    <3>1. c \notin Batchers
      BY <2>2, PoolAssumption
    <3>2. Open(c)' \subseteq Open(c) \cup {call[c].i}
      BY <1>1, <1>3, <1>4, <3>1, TaskIs DEF Open, Jump
    <3>3. owed[c] \in Nat /\ Cardinality(Open(c)) <= owed[c] /\ call[c].i \in 1..Jobs
      BY CurrentIs DEF IInv, TypeOK, Counted
    <3>4. \A S, T : S = Open(c) /\ T = Open(c)' => Cardinality(T) <= owed[c] + 1
      BY <3>2, <3>3, OpenIs, OneMore
    <3>5. owed'[c] = owed[c] + 1
      BY <1>1, <1>5, <2>2 DEF TypeOK
    <3>6. QED
      BY <2>2, <3>4, <3>5
  <2>3. CASE d = c /\ c \notin Recallers
    <3>1. c \in Batchers
      BY <2>3 DEF Callers
    <3>2. \A i \in 1..Jobs : call[c].i = i => status[<<c, i>>] = "new"
      <4>1. status[Current(c)] = "new"
        BY <1>1, CurrentIsAhead DEF Placing
      <4>2. QED
        BY <4>1 DEF Current
    <3>3. Open(c)' \subseteq Open(c)
      BY <1>1, <1>3, <1>4, <3>1, <3>2, TaskIs DEF Open, Jump
    <3>4. owed'[c] = owed[c]
      BY <1>1, <1>5, <2>3 DEF TypeOK
    <3>5. QED
      BY <1>1, <1>6, <2>3, <3>3, <3>4, OthersOpen DEF IInv
  <2>4. QED
    BY <2>1, <2>2, <2>3
<1>9. Counted'
  BY <1>1, <1>7, <1>8 DEF IInv, Counted
<1>10. QED
  BY <1>4, <1>6, <1>9 DEF IInv

LEMMA AddPendingKeeps ==
  ASSUME IInv, NEW c \in Callers, AddPending(c)
  PROVE  IInv'
<1>1. /\ TypeOK /\ call[c].pc = "add" /\ count' = count + 1
      /\ UNCHANGED <<queue, release, hand, status, group, owed>>
  BY DEF IInv, AddPending, At
<1>2. Jump(c, "send")
  BY <1>1, GotoJumps DEF AddPending, Places
<1>3. /\ Placed' /\ Once' /\ Behind' /\ Drained'
      /\ \A t \in Tasks : /\ Queued(t)' = Queued(t) /\ Held(t)' = Held(t)
                          /\ t[1] # c => (Sending(t)' <=> Sending(t))
                          /\ t[1] = c => (Sending(t)' <=> t = Current(c))
  BY <1>1, <1>2, StillAhead DEF Placing
<1>4. TypeOK'
  BY <1>1, <1>2 DEF TypeOK, Jump, AddPending
<1>5. /\ Current(c) \in Tasks /\ Current(c)[1] = c
      /\ ~Queued(Current(c)) /\ ~Held(Current(c))
  BY <1>1, CurrentIsAhead DEF Placing
<1>6. Pending' = Pending \cup {Current(c)} /\ Current(c) \notin Pending
  <2>1. \A t \in Tasks : t[1] = c => ~Sending(t)
    BY <1>1 DEF Sending
  <2>2. \A t : t \in Pending' <=> t \in Pending \/ t = Current(c)
    BY <1>3, <1>5, <2>1 DEF Pending
  <2>3. QED
    BY <1>5, <2>1, <2>2 DEF Pending
<1>7. IsFiniteSet(Pending') /\ count' = Cardinality(Pending')
  <2>1. IsFiniteSet(Pending) /\ count = Cardinality(Pending)
    BY DEF IInv, Counted
  <2>2. QED
    BY <1>1, <1>6, <2>1, FS_AddElement
<1>8. \A d \in Callers : Open(d)' \subseteq Open(d)
  BY <1>1, <1>2, <1>3, TaskIs DEF Open, Jump
<1>9. \A d \in Callers : Cardinality(Open(d)') <= owed'[d]
  BY <1>1, <1>4, <1>8, OthersOpen DEF IInv
<1>10. QED
  BY <1>3, <1>4, <1>7, <1>9 DEF IInv, Counted

(* The places of a call whose loop has gone on.                            *)
LEMMA NextBehind ==
  ASSUME IInv, NEW c \in Callers, NextTask(c),
         call[c].pc \in {"send", "fallback", "inline"},
         \A t \in group' : t \in group \/ (t[1] \in Recallers /\ t[1] = c),
         \A t \in Tasks : status[t] = "done" => status'[t] = "done"
  PROVE  Behind'
<1>1. TypeOK /\ Behind
  BY DEF IInv
<1>2. /\ \A d \in Callers : d # c => call'[d] = call[d]
      /\ call'[c].pc \in {"task", "group", "tasks"}
      /\ call'[c].pc = "group" => c \in Recallers
      /\ call'[c].pc = "tasks" => c \in Batchers
      /\ call'[c].pc # "task" => call'[c].i = Jobs
  BY <1>1, NextPlaces
<1>3. c \in Batchers => \A t \in group' : t[1] # c
  <2>1. c \in Batchers => c \notin Recallers
    BY PoolAssumption
  <2>2. \A t \in group : t[1] \in Recallers
    BY DEF IInv, Placed, TypeOK
  <2>3. QED
    BY <2>1, <2>2
<1>4. \A d \in Callers : d # c => \A t \in group' : t[1] = d => t \in group
  OBVIOUS
<1>5. \A d \in Callers, i \in 1..Jobs : status[<<d, i>>] = "done" => status'[<<d, i>>] = "done"
  BY TaskIs
<1>6. ASSUME NEW d \in Callers
      PROVE  /\ call'[d].pc = "group" => d \in Recallers
             /\ call'[d].pc \in {"group", "tasks", "done"} => call'[d].i = Jobs
             /\ call'[d].pc \in {"tasks", "done"} => \A t \in group' : t[1] # d
             /\ call'[d].pc = "done" => \A i \in 1..Jobs : status'[<<d, i>>] = "done"
  <2>1. CASE d = c
    BY <1>2, <1>3, <2>1
  <2>2. CASE d # c
    <3>1. call'[d] = call[d]
      BY <1>2, <2>2
    <3>2. call[d].pc \in {"tasks", "done"} => \A t \in group' : t[1] # d
      BY <1>1, <1>4, <2>2 DEF Behind
    <3>3. QED
      BY <1>1, <1>5, <3>1, <3>2 DEF Behind
  <2>3. QED
    BY <2>1, <2>2
<1>7. QED
  BY <1>6 DEF Behind

LEMMA SendKeeps ==
  ASSUME IInv, NEW c \in Callers, Send(c)
  PROVE  IInv'
<1>1. /\ TypeOK /\ Placed /\ Once /\ call[c].pc = "send" /\ release # "released"
      /\ queue' = Append(queue, Current(c)) /\ NextTask(c)
      /\ UNCHANGED <<count, release, hand, status, group, owed>>
  BY DEF IInv, Send, At, ChannelOpen
<1>2. /\ Current(c) \in Tasks /\ status[Current(c)] = "new" /\ ~Queued(Current(c))
      /\ ~Held(Current(c)) /\ Current(c) \notin group /\ ~Inline(Current(c))
      /\ Sending(Current(c)) /\ Current(c)[1] = c /\ Current(c)[2] = call[c].i
  BY <1>1, CurrentIsAhead DEF Placing, Sending
<1>3. /\ queue' \in Seq(Tasks)
      /\ \A t \in Tasks : Queued(t)' <=> Queued(t) \/ t = Current(c)
      /\ \A m, n \in 1..Len(queue') : queue'[m] = queue'[n] => m = n
  BY <1>1, <1>2, SendQueues
<1>4. /\ call' \in [Callers -> [pc : Places, i : 1..Jobs]]
      /\ \A d \in Callers : d # c => call'[d] = call[d]
      /\ \A t \in Tasks : /\ Ahead(t)' <=> Ahead(t) /\ t # Current(c)
                          /\ Inline(t)' <=> Inline(t) /\ t # Current(c)
                          /\ Sending(t)' <=> Sending(t) /\ t # Current(c)
  BY <1>1, NextPlaces
<1>5. \A t : Held(t)' = Held(t)
  BY <1>1, Frame
<1>6. TypeOK'
  BY <1>1, <1>3, <1>4 DEF TypeOK, Send
<1>7. Placed'
  BY <1>1, <1>2, <1>3, <1>4, <1>5 DEF Placed
<1>8. Once'
  BY <1>1, <1>3 DEF Once
<1>9. Behind'
  BY <1>1, NextBehind
<1>10. Pending' = Pending
  <2>1. \A t : t \in Pending' <=> t \in Pending
    BY <1>2, <1>3, <1>4, <1>5 DEF Pending
  <2>2. QED
    BY <2>1
<1>11. \A d \in Callers : Open(d)' \subseteq Open(d)
  <2> TAKE d \in Callers
  <2>1. CASE d # c
    <3>1. \A i \in 1..Jobs : /\ <<d, i>> \in Tasks /\ <<d, i>> # Current(c)
      BY <1>2, <2>1, TaskIs
    <3>2. \A i \in 1..Jobs : /\ Queued(<<d, i>>)' <=> Queued(<<d, i>>)
                             /\ Held(<<d, i>>)' <=> Held(<<d, i>>)
      BY <1>3, <1>5, <3>1
    <3>3. QED
      BY <1>1, <1>4, <2>1, <3>2 DEF Open
  <2>2. CASE d = c
    <3>1. \A i \in 1..Jobs : /\ <<c, i>> \in Tasks
                             /\ <<c, i>> = Current(c) => call[c].i = i
                             /\ call'[c].pc \notin {"add", "send", "fallback"}
      BY <1>1, NextPlaces, TaskIs DEF Current
    <3>2. QED
      BY <1>1, <1>3, <1>5, <2>2, <3>1 DEF Open
  <2>3. QED
    BY <2>1, <2>2
<1>12. \A d \in Callers : Cardinality(Open(d)') <= owed'[d]
  BY <1>1, <1>6, <1>11, OthersOpen DEF IInv
<1>13. Counted'
  BY <1>1, <1>10, <1>12 DEF IInv, Counted
<1>14. Drained'
  BY <1>1 DEF Drained
<1>15. QED
  BY <1>6, <1>7, <1>8, <1>9, <1>13, <1>14 DEF IInv

-----------------------------------------------------------------------------
(* What the pool refuses.                                                  *)

LEMMA FallbackRecallKeeps ==
  ASSUME IInv, NEW c \in Callers, FallbackRecall(c)
  PROVE  IInv'
<1>1. /\ TypeOK /\ Placed /\ Once /\ call[c].pc = "fallback" /\ c \in Recallers /\ NextTask(c)
      /\ group' = group \cup {Current(c)}
      /\ status' = [status EXCEPT ![Current(c)] = "running"]
      /\ owed' = [owed EXCEPT ![c] = owed[c] - 1]
      /\ UNCHANGED <<queue, count, release, hand>>
  BY DEF IInv, FallbackRecall, At, pool
<1>2. /\ Current(c) \in Tasks /\ status[Current(c)] = "new" /\ ~Queued(Current(c))
      /\ ~Held(Current(c)) /\ Current(c) \notin group /\ ~Inline(Current(c))
      /\ ~Sending(Current(c)) /\ Current(c)[1] = c /\ Current(c)[2] = call[c].i
  BY <1>1, CurrentIsAhead DEF Placing, Sending
<1>3. /\ call' \in [Callers -> [pc : Places, i : 1..Jobs]]
      /\ \A d \in Callers : d # c => call'[d] = call[d]
      /\ \A t \in Tasks : /\ Ahead(t)' <=> Ahead(t) /\ t # Current(c)
                          /\ Inline(t)' <=> Inline(t) /\ t # Current(c)
                          /\ Sending(t)' <=> Sending(t) /\ t # Current(c)
  BY <1>1, NextPlaces
<1>4. \A t : Queued(t)' = Queued(t) /\ Held(t)' = Held(t)
  BY <1>1, Frame
<1>5. \A t \in Tasks : status'[t] = IF t = Current(c) THEN "running" ELSE status[t]
  BY <1>1, <1>2 DEF TypeOK
<1>6. /\ owed'[c] = owed[c] - 1 /\ \A d \in Callers : d # c => owed'[d] = owed[d]
      /\ owed' \in [Callers -> Int]
  BY <1>1 DEF TypeOK
<1>7. c \notin Batchers
  BY <1>1, PoolAssumption
<1>8. owed[c] - 1 \in Nat /\ Cardinality(Open(c)') <= owed[c] - 1
  <2>1. call[c].i \in Open(c)
    BY <1>1, CurrentIs DEF Open
  <2>2. Open(c)' \subseteq Open(c) \ {call[c].i}
    <3>1. call'[c].pc \notin {"add", "send", "fallback"}
      BY <1>1, NextPlaces
    <3>2. \A i \in 1..Jobs : Queued(<<c, i>>) \/ Held(<<c, i>>) => i # call[c].i
      BY <1>2 DEF Current
    <3>3. QED
      BY <1>4, <1>7, <3>1, <3>2 DEF Open
  <2>3. owed[c] \in Nat /\ Cardinality(Open(c)) <= owed[c]
    BY <1>1 DEF TypeOK, IInv, Counted
  <2>4. \A S, T : S = Open(c) /\ T = Open(c)' =>
          owed[c] - 1 \in Nat /\ Cardinality(T) <= owed[c] - 1
    BY <2>1, <2>2, <2>3, OpenIs, OneLess
  <2>5. QED
    BY <2>4
<1>9. TypeOK'
  <2>1. owed' \in [Callers -> Nat]
    BY <1>1, <1>8 DEF TypeOK
  <2>2. group' \subseteq Tasks /\ status' \in [Tasks -> {"new", "running", "done"}]
    BY <1>1, <1>2 DEF TypeOK
  <2>3. QED
    BY <1>1, <1>3, <2>1, <2>2 DEF TypeOK, FallbackRecall
<1>10. Placed'
  BY <1>1, <1>2, <1>3, <1>4, <1>5 DEF Placed
<1>11. Once' /\ Drained'
  BY <1>1 DEF IInv, Once, Drained
<1>12. Behind'
  BY <1>1, <1>2, <1>5, NextBehind
<1>13. Pending' = Pending
  <2>1. \A t : t \in Pending' <=> t \in Pending
    BY <1>2, <1>3, <1>4 DEF Pending
  <2>2. QED
    BY <2>1
<1>14. ASSUME NEW d \in Callers PROVE Cardinality(Open(d)') <= owed'[d]
  <2>1. CASE d = c
    BY <1>6, <1>8, <2>1
  <2>2. CASE d # c
    <3>1. Open(d)' \subseteq Open(d)
      BY <1>1, <1>2, <1>3, <1>4, <1>5, <1>9, <2>2, OpenMoves
    <3>2. QED
      BY <1>1, <1>6, <1>9, <2>2, <3>1, OthersOpen DEF IInv
  <2>3. QED
    BY <2>1, <2>2
<1>15. Counted'
  BY <1>1, <1>13, <1>14 DEF IInv, Counted
<1>16. QED
  BY <1>9, <1>10, <1>11, <1>12, <1>15 DEF IInv

(* The shard runs in its caller, whose WaitGroup goes on counting it.      *)
LEMMA FallbackShardKeeps ==
  ASSUME IInv, NEW c \in Callers, FallbackShard(c)
  PROVE  IInv'
<1>1. /\ TypeOK /\ Placed /\ Once /\ call[c].pc = "fallback" /\ c \in Batchers
      /\ status' = [status EXCEPT ![Current(c)] = "running"]
      /\ UNCHANGED <<queue, count, release, hand, owed, group>>
  BY DEF IInv, FallbackShard, At, pool
<1>2. Jump(c, "inline")
  BY <1>1, GotoJumps DEF FallbackShard, Places
<1>3. /\ Current(c) \in Tasks /\ status[Current(c)] = "new" /\ ~Queued(Current(c))
      /\ ~Held(Current(c)) /\ Current(c) \notin group
      /\ Current(c)[1] = c /\ Current(c)[2] = call[c].i
  BY <1>1, CurrentIsAhead DEF Placing
<1>4. \A t : Queued(t)' = Queued(t) /\ Held(t)' = Held(t)
  BY <1>1, Frame
<1>5. \A t \in Tasks : status'[t] = IF t = Current(c) THEN "running" ELSE status[t]
  BY <1>1, <1>3 DEF TypeOK
<1>6. \A t \in Tasks : /\ Ahead(t)' <=> Ahead(t) /\ t # Current(c)
                       /\ Inline(t)' <=> Inline(t) \/ t = Current(c)
                       /\ Sending(t)' <=> Sending(t)
  <2> TAKE t \in Tasks
  <2>1. /\ t[1] # c => (Ahead(t)' <=> Ahead(t))
        /\ t[1] = c => (Ahead(t)' <=> call[c].i < t[2])
        /\ Inline(t)' <=> IF t[1] = c THEN t = Current(c) ELSE Inline(t)
        /\ Sending(t)' <=> t[1] # c /\ Sending(t)
    <3>1. "inline" \in Places
      BY DEF Places
    <3>2. QED
      BY <1>1, <1>2, <3>1, JumpPlaces DEF Placing
  <2>2. /\ t[1] = c => ~Inline(t) /\ ~Sending(t)
        /\ t[1] = c => (Ahead(t) <=> call[c].i < t[2] \/ t = Current(c))
        /\ t = Current(c) => t[1] = c /\ ~(call[c].i < t[2])
    BY <1>1, CurrentIs DEF Inline, Sending, Ahead
  <2>3. QED
    BY <2>1, <2>2
<1>7. TypeOK'
  BY <1>1, <1>2, <1>3 DEF TypeOK, Jump, FallbackShard
<1>8. Placed'
  BY <1>1, <1>3, <1>4, <1>5, <1>6 DEF Placed
<1>9. Once' /\ Drained'
  BY <1>1 DEF IInv, Once, Drained
<1>10. Behind'
  <2>1. \A d \in Callers, i \in 1..Jobs : status[<<d, i>>] = "done" => status'[<<d, i>>] = "done"
    BY <1>3, <1>5, TaskIs
  <2>2. QED
    BY <1>1, <1>2, <2>1 DEF IInv, Behind, Jump
<1>11. Pending' = Pending
  BY <1>4, <1>6 DEF Pending
<1>12. \A d \in Callers : Open(d)' \subseteq Open(d)
  <2>1. \A d \in Callers, i \in 1..Jobs : status'[<<d, i>>] # "done" => status[<<d, i>>] # "done"
    BY <1>3, <1>5, TaskIs
  <2>2. QED
    BY <1>1, <1>2, <1>4, <2>1 DEF Open, Jump
<1>13. \A d \in Callers : Cardinality(Open(d)') <= owed'[d]
  BY <1>1, <1>7, <1>12, OthersOpen DEF IInv
<1>14. QED
  BY <1>1, <1>7, <1>8, <1>9, <1>10, <1>11, <1>13 DEF IInv, Counted

(* A task that ends where no worker holds it.                              *)
LEMMA EndsOpen ==
  ASSUME TypeOK, NEW t0 \in Tasks, status' = [status EXCEPT ![t0] = "done"]
  PROVE  /\ status' \in [Tasks -> {"new", "running", "done"}]
         /\ \A t \in Tasks : status'[t] = IF t = t0 THEN "done" ELSE status[t]
         /\ \A d \in Callers, i \in 1..Jobs :
              status'[<<d, i>>] # "done" => status[<<d, i>>] # "done"
BY TaskIs DEF TypeOK

LEMMA InlineEndsKeeps ==
  ASSUME IInv, NEW c \in Callers, InlineEnds(c)
  PROVE  IInv'
<1>1. /\ TypeOK /\ Placed /\ Once /\ call[c].pc = "inline" /\ NextTask(c)
      /\ status' = [status EXCEPT ![Current(c)] = "done"]
      /\ UNCHANGED <<queue, count, release, hand, owed, group>>
  BY DEF IInv, InlineEnds, At, pool
<1>2. /\ Current(c) \in Tasks /\ Inline(Current(c)) /\ ~Sending(Current(c)) /\ c \in Batchers
      /\ Current(c)[1] = c
  BY <1>1, CurrentIs DEF Inline, Sending, Placed
<1>3. /\ ~Queued(Current(c)) /\ ~Held(Current(c)) /\ Current(c) \notin group
  BY <1>1, <1>2, PoolAssumption DEF Placed
<1>4. /\ call' \in [Callers -> [pc : Places, i : 1..Jobs]]
      /\ \A d \in Callers : d # c => call'[d] = call[d]
      /\ call'[c].pc \notin {"add", "send", "fallback"}
      /\ \A t \in Tasks : /\ Ahead(t)' <=> Ahead(t) /\ t # Current(c)
                          /\ Inline(t)' <=> Inline(t) /\ t # Current(c)
                          /\ Sending(t)' <=> Sending(t) /\ t # Current(c)
  BY <1>1, NextPlaces
<1>5. \A t : Queued(t)' = Queued(t) /\ Held(t)' = Held(t)
  BY <1>1, Frame
<1>6. /\ status' \in [Tasks -> {"new", "running", "done"}]
      /\ \A t \in Tasks : status'[t] = IF t = Current(c) THEN "done" ELSE status[t]
      /\ \A d \in Callers, i \in 1..Jobs : status'[<<d, i>>] # "done" => status[<<d, i>>] # "done"
  BY <1>1, <1>2, EndsOpen
<1>7. TypeOK'
  BY <1>1, <1>4, <1>6 DEF TypeOK, InlineEnds
<1>8. Placed'
  BY <1>1, <1>2, <1>3, <1>4, <1>5, <1>6 DEF Placed
<1>9. Once' /\ Drained'
  BY <1>1 DEF IInv, Once, Drained
<1>10. Behind'
  BY <1>1, <1>6, NextBehind
<1>11. Pending' = Pending
  <2>1. \A t : t \in Pending' <=> t \in Pending
    BY <1>2, <1>3, <1>4, <1>5 DEF Pending
  <2>2. QED
    BY <2>1
<1>12. \A d \in Callers : Open(d)' \subseteq Open(d)
  BY <1>1, <1>4, <1>5, <1>6 DEF Open
<1>13. \A d \in Callers : Cardinality(Open(d)') <= owed'[d]
  BY <1>1, <1>7, <1>12, OthersOpen DEF IInv
<1>14. QED
  BY <1>1, <1>7, <1>8, <1>9, <1>10, <1>11, <1>13 DEF IInv, Counted

LEMMA GroupEndsKeeps ==
  ASSUME IInv, NEW t0 \in Tasks, GroupEnds(t0)
  PROVE  IInv'
<1>1. /\ TypeOK /\ Placed /\ Once /\ t0 \in group /\ group' = group \ {t0}
      /\ status' = [status EXCEPT ![t0] = "done"]
      /\ UNCHANGED <<queue, count, release, hand, call, owed>>
  BY DEF IInv, GroupEnds, pool
<1>2. \A t : /\ Queued(t)' = Queued(t) /\ Held(t)' = Held(t) /\ Ahead(t)' = Ahead(t)
             /\ Inline(t)' = Inline(t) /\ Sending(t)' = Sending(t)
  BY <1>1, Frame DEF Ahead, Inline, Sending
<1>3. /\ status' \in [Tasks -> {"new", "running", "done"}]
      /\ \A t \in Tasks : status'[t] = IF t = t0 THEN "done" ELSE status[t]
      /\ \A d \in Callers, i \in 1..Jobs : status'[<<d, i>>] # "done" => status[<<d, i>>] # "done"
  BY <1>1, EndsOpen
<1>4. TypeOK'
  BY <1>1, <1>3 DEF TypeOK, GroupEnds
<1>5. Placed'
  <2>1. status[t0] = "running" /\ ~Held(t0) /\ ~Inline(t0)
    BY <1>1, PoolAssumption DEF Placed
  <2>2. ~Ahead(t0) /\ ~Queued(t0)
    BY <1>1, <2>1 DEF Placed
  <2>3. QED
    BY <1>1, <1>2, <1>3, <2>1, <2>2 DEF Placed
<1>6. Once' /\ Drained'
  BY <1>1 DEF IInv, Once, Drained
<1>7. Behind'
  <2>1. \A d \in Callers, i \in 1..Jobs : status[<<d, i>>] = "done" => status'[<<d, i>>] = "done"
    BY <1>3, TaskIs
  <2>2. QED
    BY <1>1, <2>1 DEF IInv, Behind
<1>8. Pending' = Pending
  BY <1>2 DEF Pending
<1>9. \A d \in Callers : Open(d)' \subseteq Open(d)
  BY <1>1, <1>2, <1>3 DEF Open
<1>10. \A d \in Callers : Cardinality(Open(d)') <= owed'[d]
  BY <1>1, <1>4, <1>9, OthersOpen DEF IInv
<1>11. QED
  BY <1>1, <1>4, <1>5, <1>6, <1>7, <1>8, <1>10 DEF IInv, Counted

-----------------------------------------------------------------------------
(* The two waits of a call.                                                *)

LEMMA WaitKeeps ==
  ASSUME IInv, NEW c \in Callers, NEW label \in {"tasks", "done"},
         call[c].pc \in {"group", "tasks"}, Jump(c, label),
         \A t \in group : t[1] # c,
         label = "done" => \A i \in 1..Jobs : status[<<c, i>>] = "done",
         UNCHANGED <<queue, count, release, hand, status, owed, group>>,
         cancelled' \subseteq Callers, panicked' \in BOOLEAN
  PROVE  IInv'
<1>1. TypeOK /\ Placed /\ Once /\ Behind /\ call[c].i = Jobs
  BY DEF IInv, Behind
<1>2. \A t : Queued(t)' = Queued(t) /\ Held(t)' = Held(t)
  BY Frame
<1>3. \A t \in Tasks : /\ Ahead(t)' <=> Ahead(t)
                       /\ Inline(t)' <=> Inline(t)
                       /\ Sending(t)' <=> Sending(t)
  BY DEF Jump, Ahead, Inline, Sending, Tasks
<1>4. TypeOK'
  BY <1>1 DEF TypeOK, Jump
<1>5. Placed'
  BY <1>1, <1>2, <1>3 DEF Placed
<1>6. Once' /\ Drained'
  BY <1>1 DEF IInv, Once, Drained
<1>7. Behind'
  BY <1>1 DEF Behind, Jump
<1>8. Pending' = Pending
  BY <1>2, <1>3 DEF Pending
<1>9. \A d \in Callers : Open(d)' \subseteq Open(d)
  BY <1>2 DEF Open, Jump
<1>10. \A d \in Callers : Cardinality(Open(d)') <= owed'[d]
  BY <1>1, <1>4, <1>9, OthersOpen DEF IInv
<1>11. QED
  BY <1>1, <1>4, <1>5, <1>6, <1>7, <1>8, <1>10 DEF IInv, Counted

LEMMA GroupWaitKeeps ==
  ASSUME IInv, NEW c \in Callers, GroupWait(c)
  PROVE  IInv'
<1>1. Jump(c, "tasks")
  BY GotoJumps DEF GroupWait, IInv, Places
<1>2. QED
  BY <1>1, WaitKeeps DEF GroupWait, At, pool, IInv, TypeOK

(* What the call's WaitGroup no longer counts is done.                     *)
LEMMA TasksWaitKeeps ==
  ASSUME IInv, NEW c \in Callers, TasksWait(c)
  PROVE  IInv'
<1>1. TypeOK /\ Placed /\ call[c].pc = "tasks" /\ owed[c] = 0
  BY DEF IInv, TasksWait, At
<1>2. call[c].i = Jobs /\ \A t \in group : t[1] # c
  BY <1>1 DEF IInv, Behind
<1>3. Open(c) = {}
  <2>1. Cardinality(Open(c)) <= 0 /\ Open(c) \in SUBSET (1..Jobs)
    BY <1>1, OpenIs DEF IInv, Counted
  <2>2. QED
    BY <2>1, JobSets, FS_EmptySet
<1>4. ASSUME NEW i \in 1..Jobs PROVE status[<<c, i>>] = "done"
  <2> DEFINE t == <<c, i>>
  <2>1. t \in Tasks /\ t[1] = c /\ t[2] = i
    BY TaskIs
  <2>2. ~Queued(t) /\ ~Held(t) /\ t \notin group
    BY <1>2, <1>3, <2>1 DEF Open
  <2>3. ~Ahead(t) /\ ~Inline(t)
    BY <1>1, <1>2, <2>1, TaskIs DEF Ahead, Inline
  <2> HIDE DEF t
  <2>4. status[t] \in {"new", "running", "done"}
    BY <1>1, <2>1 DEF TypeOK
  <2>5. QED
    BY <1>1, <2>1, <2>2, <2>3, <2>4 DEF Placed, t
<1>5. Jump(c, "done")
  BY <1>1, GotoJumps DEF TasksWait, Places
<1>6. QED
  BY <1>1, <1>2, <1>4, <1>5, WaitKeeps DEF TasksWait, pool, TypeOK

-----------------------------------------------------------------------------
(* The goroutines of the pool.                                             *)

LEMMA TakeKeeps ==
  ASSUME IInv, NEW w \in Workers, Take(w)
  PROVE  IInv'
<1> DEFINE t0 == Head(queue)
<1>1. /\ TypeOK /\ Placed /\ Once /\ hand[w] = None /\ queue # <<>> /\ queue' = Tail(queue)
      /\ hand' = [hand EXCEPT ![w] = t0]
      /\ status' = [status EXCEPT ![t0] = "running"]
      /\ UNCHANGED <<count, release, call, owed, group>>
  BY DEF IInv, Take
<1>2. /\ queue' \in Seq(Tasks) /\ t0 \in Tasks /\ Queued(t0)
      /\ \A t \in Tasks : Queued(t)' <=> Queued(t) /\ t # t0
      /\ \A m, n \in 1..Len(queue') : queue'[m] = queue'[n] => m = n
  BY <1>1, TakeUnqueues
<1> HIDE DEF t0
<1>3. status[t0] = "new" /\ ~Held(t0) /\ t0 \notin group /\ ~Ahead(t0) /\ ~Inline(t0)
  BY <1>1, <1>2 DEF Placed
<1>4. /\ hand' \in [Workers -> Tasks \cup {None}]
      /\ hand'[w] = t0 /\ \A v \in Workers : v # w => hand'[v] = hand[v]
  BY <1>1, <1>2 DEF TypeOK
<1>5. \A t \in Tasks : Held(t)' <=> Held(t) \/ t = t0
  BY <1>1, <1>2, <1>4, TaskIs DEF Held
<1>6. \A t : Ahead(t)' = Ahead(t) /\ Inline(t)' = Inline(t) /\ Sending(t)' = Sending(t)
  BY <1>1 DEF Ahead, Inline, Sending
<1>7. /\ status' \in [Tasks -> {"new", "running", "done"}]
      /\ \A t \in Tasks : status'[t] = IF t = t0 THEN "running" ELSE status[t]
  BY <1>1, <1>2 DEF TypeOK
<1>8. TypeOK'
  BY <1>1, <1>2, <1>4, <1>7 DEF TypeOK, Take
<1>9. Placed'
  BY <1>1, <1>2, <1>3, <1>5, <1>6, <1>7 DEF Placed
<1>10. Once'
  <2>1. \A v \in Workers : hand[v] # t0
    BY <1>3 DEF Held
  <2>2. \A u, v \in Workers : hand'[u] = hand'[v] /\ hand'[u] # None => u = v
    BY <1>1, <1>4, <2>1 DEF Once
  <2>3. QED
    BY <1>2, <2>2 DEF Once
<1>11. Behind'
  <2>1. \A d \in Callers, i \in 1..Jobs : status[<<d, i>>] = "done" => status'[<<d, i>>] = "done"
    BY <1>3, <1>7, TaskIs
  <2>2. QED
    BY <1>1, <2>1 DEF IInv, Behind
<1>12. Pending' = Pending
  <2>1. \A t : t \in Pending' <=> t \in Pending
    BY <1>2, <1>5, <1>6 DEF Pending
  <2>2. QED
    BY <2>1
<1>13. \A d \in Callers : Open(d)' \subseteq Open(d)
  <2>1. \A d \in Callers, i \in 1..Jobs :
          /\ status'[<<d, i>>] # "done" => status[<<d, i>>] # "done"
          /\ Queued(<<d, i>>)' \/ Held(<<d, i>>)' => Queued(<<d, i>>) \/ Held(<<d, i>>)
    BY <1>2, <1>3, <1>5, <1>7, TaskIs
  <2>2. QED
    BY <1>1, <2>1 DEF Open
<1>14. \A d \in Callers : Cardinality(Open(d)') <= owed'[d]
  BY <1>1, <1>8, <1>13, OthersOpen DEF IInv
<1>15. Drained'
  BY <1>1 DEF IInv, Drained
<1>16. QED
  BY <1>1, <1>8, <1>9, <1>10, <1>11, <1>12, <1>14, <1>15 DEF IInv, Counted

LEMMA FinishKeeps ==
  ASSUME IInv, NEW w \in Workers, Finish(w)
  PROVE  IInv'
(* Names for the task and its call that a prime leaves alone.             *)
<1>0. \E t : t = hand[w]
  OBVIOUS
<1>a. PICK t0 : t0 = hand[w]
  BY <1>0
<1>b. \E d : d = t0[1]
  OBVIOUS
<1>c. PICK c : c = t0[1]
  BY <1>b
<1> USE <1>a, <1>c
<1>1. /\ TypeOK /\ Placed /\ Once /\ t0 # None
      /\ hand' = [hand EXCEPT ![w] = None]
      /\ status' = [status EXCEPT ![t0] = "done"]
      /\ owed' = [owed EXCEPT ![c] = owed[c] - 1]
      /\ count' = count - 1
      /\ UNCHANGED <<queue, release, call, group>>
  BY DEF IInv, Finish
<1>2. /\ t0 \in Tasks /\ Held(t0) /\ c \in Callers /\ t0[2] \in 1..Jobs /\ t0 = <<c, t0[2]>>
  <2>1. t0 \in Tasks
    BY <1>1 DEF TypeOK
  <2>2. QED
    BY <2>1, TaskIs DEF Held
<1>3. \A v \in Workers : hand[v] = t0 => v = w
  BY <1>1 DEF Once
<1>4. /\ status[t0] = "running" /\ t0 \notin group /\ ~Inline(t0) /\ ~Ahead(t0) /\ ~Queued(t0)
      /\ ~Sending(t0)
  <2>1. Sending(t0) => Ahead(t0)
    BY DEF Sending, Ahead
  <2>2. QED
    BY <1>1, <1>2, <2>1 DEF Placed
<1>5. /\ hand' \in [Workers -> Tasks \cup {None}]
      /\ hand'[w] = None /\ \A v \in Workers : v # w => hand'[v] = hand[v]
  BY <1>1 DEF TypeOK
<1>6. \A t \in Tasks : Held(t)' <=> Held(t) /\ t # t0
  BY <1>3, <1>5, TaskIs DEF Held
<1>7. /\ \A t : Ahead(t)' = Ahead(t) /\ Inline(t)' = Inline(t) /\ Sending(t)' = Sending(t)
      /\ \A t : Queued(t)' = Queued(t)
  BY <1>1, Frame DEF Ahead, Inline, Sending
<1>8. /\ status' \in [Tasks -> {"new", "running", "done"}]
      /\ \A t \in Tasks : status'[t] = IF t = t0 THEN "done" ELSE status[t]
      /\ \A d \in Callers, i \in 1..Jobs : status'[<<d, i>>] # "done" => status[<<d, i>>] # "done"
  BY <1>1, <1>2, EndsOpen
<1>9. count' \in Nat /\ IsFiniteSet(Pending') /\ count' = Cardinality(Pending')
  <2>1. IsFiniteSet(Pending) /\ count = Cardinality(Pending) /\ count \in Nat
    BY DEF IInv, Counted, TypeOK
  <2>2. Pending' = Pending \ {t0} /\ t0 \in Pending
    <3>1. \A t : t \in Pending' <=> t \in Pending /\ t # t0
      BY <1>4, <1>6, <1>7 DEF Pending
    <3>2. t0 \in Pending
      BY <1>2 DEF Pending
    <3>3. QED
      BY <3>1, <3>2
  <2>3. /\ IsFiniteSet(Pending \ {t0}) /\ Cardinality(Pending \ {t0}) = count - 1
    BY <2>1, <2>2, FS_RemoveElement
  <2>4. Cardinality(Pending \ {t0}) \in Nat
    BY <2>3, FS_CardinalityType
  <2>5. QED
    BY <1>1, <2>2, <2>3, <2>4
<1>10. /\ owed'[c] = owed[c] - 1 /\ \A d \in Callers : d # c => owed'[d] = owed[d]
  BY <1>1, <1>2 DEF TypeOK
<1>11. owed[c] - 1 \in Nat /\ Cardinality(Open(c)') <= owed[c] - 1
  <2>1. t0[2] \in Open(c)
    BY <1>2 DEF Open
  <2>2. Open(c)' \subseteq Open(c) \ {t0[2]}
    <3>1. t0[2] \notin Open(c)'
      <4>1. <<c, t0[2]>> \in Tasks /\ <<c, t0[2]>> = t0
        BY <1>2
      <4>2. ~Queued(<<c, t0[2]>>)' /\ ~Held(<<c, t0[2]>>)' /\ status'[<<c, t0[2]>>] = "done"
        BY <1>2, <1>4, <1>6, <1>7, <1>8, <4>1
      <4>3. ~(call[c].i = t0[2] /\ call[c].pc \in {"add", "send", "fallback"})
        BY <1>4 DEF Ahead
      <4>4. QED
        BY <1>1, <4>2, <4>3 DEF Open
    <3>2. Open(c)' \subseteq Open(c)
      BY <1>1, <1>2, <1>6, <1>7, <1>8, TaskIs DEF Open
    <3>3. QED
      BY <3>1, <3>2
  <2>3. owed[c] \in Nat /\ Cardinality(Open(c)) <= owed[c]
    BY <1>1, <1>2 DEF TypeOK, IInv, Counted
  <2>4. Open(c) \in SUBSET (1..Jobs)
    BY <1>2, OpenIs
  <2>5. \A S, T : S = Open(c) /\ T = Open(c)' =>
          owed[c] - 1 \in Nat /\ Cardinality(T) <= owed[c] - 1
    BY <2>1, <2>2, <2>3, <2>4, OneLess
  <2>6. QED
    BY <2>5
<1>12. TypeOK'
  <2>1. owed' \in [Callers -> Nat]
    BY <1>1, <1>2, <1>11 DEF TypeOK
  <2>2. QED
    BY <1>1, <1>5, <1>8, <1>9, <2>1 DEF TypeOK, Finish
<1>13. Placed'
  BY <1>1, <1>2, <1>4, <1>6, <1>7, <1>8 DEF Placed
<1>14. Once'
  <2>1. \A u, v \in Workers : hand'[u] = hand'[v] /\ hand'[u] # None => u = v
    BY <1>1, <1>5 DEF Once
  <2>2. QED
    BY <1>1, <2>1 DEF Once
<1>15. Behind'
  <2>1. \A d \in Callers, i \in 1..Jobs : status[<<d, i>>] = "done" => status'[<<d, i>>] = "done"
    BY <1>8, TaskIs
  <2>2. QED
    BY <1>1, <2>1 DEF IInv, Behind
<1>16. ASSUME NEW d \in Callers PROVE Cardinality(Open(d)') <= owed'[d]
  <2>1. CASE d = c
    BY <1>10, <1>11, <2>1
  <2>2. CASE d # c
    <3>1. Open(d)' \subseteq Open(d)
      BY <1>1, <1>6, <1>7, <1>8, TaskIs DEF Open
    <3>2. QED
      BY <1>1, <1>10, <1>12, <2>2, <3>1, OthersOpen DEF IInv
  <2>3. QED
    BY <2>1, <2>2
<1>17. Drained'
  BY <1>1, <1>5 DEF IInv, Drained
<1>18. QED
  BY <1>9, <1>12, <1>13, <1>14, <1>15, <1>16, <1>17 DEF IInv, Counted

-----------------------------------------------------------------------------
(* The invariant of the specification.                                     *)

LEMMA InitHasIInv == Init => IInv
<1> SUFFICES ASSUME Init PROVE IInv
  OBVIOUS
<1>1. TypeOK
  BY TaskIs, EmptySeq DEF Init, TypeOK, Places
<1>2. Len(queue) = 0 /\ \A t : ~Queued(t)
  BY DEF Init, Queued
<1>3. \A t \in Tasks : ~Held(t)
  BY TaskIs DEF Init, Held
<1>4. \A t \in Tasks : Ahead(t) /\ ~Inline(t) /\ ~Sending(t)
  <2> TAKE t \in Tasks
  <2>1. t[1] \in Callers /\ t[2] \in Nat /\ t[2] >= 1
    BY TaskIs
  <2>2. call[t[1]].i = 1 /\ call[t[1]].pc = "task"
    BY <2>1 DEF Init
  <2>3. QED
    BY <2>1, <2>2 DEF Ahead, Inline, Sending
<1>5. Placed
  BY <1>2, <1>3, <1>4 DEF Init, Placed
<1>6. Once
  BY <1>2 DEF Init, Once
<1>7. Behind
  BY DEF Init, Behind
<1>8. Counted
  <2>1. Pending = {}
    BY <1>2, <1>3, <1>4 DEF Pending
  <2>2. \A c \in Callers : Cardinality(Open(c)) <= owed[c]
    <3> TAKE c \in Callers
    <3>1. CASE c \in Batchers
      <4>1. owed[c] = Jobs
        BY <3>1 DEF Init
      <4>2. /\ Open(c) \in SUBSET (1..Jobs) /\ IsFiniteSet(1..Jobs)
            /\ Cardinality(1..Jobs) = Jobs
        BY OpenIs, TaskIs, FS_Interval
      <4>3. Cardinality(Open(c)) <= Cardinality(1..Jobs)
        BY <4>2, FS_Subset
      <4>4. QED
        BY <4>1, <4>2, <4>3
    <3>2. CASE c \notin Batchers
      <4>1. owed[c] = 0
        BY <3>2 DEF Init
      <4>2. call[c].pc = "task"
        BY DEF Init
      <4>3. Open(c) = {}
        BY <1>2, <1>3, <3>2, <4>2, TaskIs DEF Open
      <4>4. QED
        BY <4>1, <4>3, FS_EmptySet
    <3>3. QED
      BY <3>1, <3>2
  <2>3. QED
    BY <2>1, <2>2, FS_EmptySet DEF Init, Counted
<1>9. Drained
  BY DEF Init, Drained
<1>10. QED
  BY <1>1, <1>5, <1>6, <1>7, <1>8, <1>9 DEF IInv

LEMMA NextKeepsIInv == IInv /\ [Next]_vars => IInv'
<1> SUFFICES ASSUME IInv, [Next]_vars PROVE IInv'
  OBVIOUS
<1>1. ASSUME NEW c \in Callers, CallStep(c) PROVE IInv'
  <2>1. CASE SendOnClosed(c)
    BY <2>1, SameKeeps DEF SendOnClosed, Same, pool, IInv, TypeOK
  <2>2. QED
    BY <1>1, <2>1, CheckKeeps, AddPendingKeeps, SendKeeps, FallbackRecallKeeps,
       FallbackShardKeeps, InlineEndsKeeps, GroupWaitKeeps, TasksWaitKeeps DEF CallStep
<1>2. ASSUME NEW c \in Callers, CallerCancels(c) PROVE IInv'
  BY <1>2, SameKeeps DEF CallerCancels, Same, pool, IInv, TypeOK
<1>3. CASE ReleaseStep
  BY <1>3, SameKeeps DEF ReleaseStep, SetClosed, CloseChannel, ReleaseReturns, Same, IInv, TypeOK
<1>4. CASE UNCHANGED vars
  BY <1>4, SameKeeps DEF vars, Same, IInv, TypeOK
<1>5. QED
  BY <1>1, <1>2, <1>3, <1>4, GroupEndsKeeps, TakeKeeps, FinishKeeps DEF Next

THEOREM Invariant == Spec => []IInv
<1>1. QED
  BY InitHasIInv, NextKeepsIInv, PTL DEF Spec

(* The variables have their types; in particular neither WaitGroup is      *)
(* ever counted below zero, which would panic.                             *)
THEOREM TypeCorrect == Spec => []TypeOK
<1>1. IInv => TypeOK
  BY DEF IInv
<1>2. QED
  BY <1>1, Invariant, PTL

(* A call that has returned has all its tasks done, and a Release that has *)
(* returned leaves nothing in the pool, however calls, cancellations and   *)
(* the steps of Release interleave.                                        *)
THEOREM ReturnsAreComplete == Spec => []ReturnsComplete
<1>1. IInv => ReturnsComplete
  <2> SUFFICES ASSUME IInv PROVE ReturnsComplete
    OBVIOUS
  <2>1. ASSUME NEW c \in Callers, call[c].pc = "done", NEW i \in 1..Jobs
        PROVE  status[<<c, i>>] = "done"
    BY <2>1 DEF IInv, Behind
  <2>2. ASSUME release = "released"
        PROVE  /\ queue = <<>> /\ \A w \in Workers : hand[w] = None
               /\ \A t \in Tasks : status[t] = "running" => t \in group \/ t[1] \in Batchers
    <3>1. queue = <<>> /\ \A w \in Workers : hand[w] = None
      BY <2>2 DEF IInv, Drained
    <3>2. \A t \in Tasks : ~Held(t)
      BY <3>1, TaskIs DEF Held
    <3>3. QED
      BY <3>1, <3>2 DEF IInv, Placed
  <2>3. QED
    BY <2>1, <2>2 DEF ReturnsComplete
<1>2. QED
  BY <1>1, Invariant, PTL

-----------------------------------------------------------------------------
(* What waits, waits for somebody.                                         *)

(* What EveryRecallReturns needs of every state: a recall that waits for   *)
(* its tasks has one of them in the channel or with a goroutine, so that   *)
(* no Done is owed to it that nobody will call; and a Release that waits   *)
(* has a task of the pool left, or a caller about to send one.  Batches    *)
(* have no such promise: they owe themselves a Done (EveryCallReturns).    *)
WaitsAreOwed ==
  /\ \A c \in Recallers : call[c].pc = "tasks" /\ owed[c] # 0 =>
       \E i \in 1..Jobs : Queued(<<c, i>>) \/ Held(<<c, i>>)
  /\ count # 0 => \E t \in Tasks : Queued(t) \/ Held(t) \/ Sending(t)

(* The tasks for which a recall has added to its WaitGroup.                *)
OnItsWay(c, i) == call[c].i = i /\ call[c].pc \in {"add", "send", "fallback"}
Owing(c) == {i \in 1..Jobs : Queued(<<c, i>>) \/ Held(<<c, i>>) \/ OnItsWay(c, i)}

Exact == \A c \in Recallers : owed[c] = Cardinality(Owing(c))

LEMMA OwingIs ==
  \A c \in Callers : /\ Owing(c) \in SUBSET (1..Jobs) /\ IsFiniteSet(Owing(c))
                     /\ Cardinality(Owing(c)) \in Nat
<1>1. \A c \in Callers : Owing(c) \in SUBSET (1..Jobs)
  BY DEF Owing
<1>2. QED
  BY <1>1, JobSets

(* The tasks of a recall in the pool, and its way, stay.                   *)
LEMMA OwingStays ==
  ASSUME NEW c \in Recallers,
         \A i \in 1..Jobs : /\ Queued(<<c, i>>)' \/ Held(<<c, i>>)' <=> Queued(<<c, i>>) \/ Held(<<c, i>>)
                            /\ OnItsWay(c, i)' <=> OnItsWay(c, i)
  PROVE  Owing(c)' = Owing(c)
BY DEF Owing

LEMMA ExactCall ==
  ASSUME IInv, Exact, NEW b \in Callers, CallStep(b), NEW c \in Recallers
  PROVE  owed'[c] = Cardinality(Owing(c)')
<1>1. /\ TypeOK /\ Placed /\ Once /\ c \in Callers /\ c \notin Batchers
      /\ owed \in [Callers -> Nat] /\ owed[c] = Cardinality(Owing(c))
  BY PoolAssumption DEF IInv, TypeOK, Exact, Callers
<1>2. Owing(c) \in SUBSET (1..Jobs) /\ IsFiniteSet(Owing(c))
  BY <1>1, OwingIs
<1>3. ASSUME Owing(c)' = Owing(c), owed'[c] = owed[c] PROVE owed'[c] = Cardinality(Owing(c)')
  BY <1>1, <1>3
<1>4. \A t \in Tasks : hand' = hand => (Held(t)' <=> Held(t))
  BY Frame
<1>5. \A t \in Tasks : queue' = queue => (Queued(t)' <=> Queued(t))
  BY Frame
<1>6. \A i \in 1..Jobs : <<c, i>> \in Tasks /\ (<<c, i>> = Current(c) <=> call[c].i = i)
  BY <1>1, TaskIs, CurrentIs
<1>7. CASE Check(b)
  <2> DEFINE label == IF Closed THEN "fallback" ELSE "add"
  <2>1. /\ call[b].pc = "task" /\ Goto(b, label) /\ UNCHANGED <<queue, hand>>
        /\ owed' = [owed EXCEPT ![b] = IF b \in Recallers THEN owed[b] + 1 ELSE owed[b]]
        /\ label \in {"add", "fallback"} /\ label \in Places
    BY <1>7 DEF Check, At, pool, Places
  <2> HIDE DEF label
  <2>2. Jump(b, label)
    BY <1>1, <2>1, GotoJumps
  <2>3. CASE b # c
    <3>1. call'[c] = call[c] /\ owed'[c] = owed[c]
      BY <1>1, <2>1, <2>2, <2>3 DEF Jump
    <3>2. QED
      BY <1>3, <1>4, <1>5, <1>6, <2>1, <3>1, OwingStays DEF OnItsWay
  <2>4. CASE b = c
    <3>1. PICK i \in 1..Jobs : i = call[c].i
      BY <1>1, CurrentIs
    <3>2. ~Queued(<<c, i>>) /\ ~Held(<<c, i>>)
      BY <1>6, <2>1, <2>4, <3>1, CurrentIsAhead DEF Placing
    <3>3. i \notin Owing(c)
      BY <2>1, <2>4, <3>2 DEF Owing, OnItsWay
    <3>4. \A j \in 1..Jobs : OnItsWay(c, j)' <=> j = i
      BY <2>1, <2>2, <2>4, <3>1 DEF Jump, OnItsWay
    <3>5. \A j \in 1..Jobs : ~OnItsWay(c, j)
      BY <2>1, <2>4 DEF OnItsWay
    <3>6. Owing(c)' = Owing(c) \cup {i}
      BY <1>4, <1>5, <1>6, <2>1, <3>4, <3>5 DEF Owing
    <3>7. owed'[c] = owed[c] + 1
      BY <1>1, <2>1, <2>4
    <3>8. QED
      BY <1>1, <1>2, <3>3, <3>6, <3>7, FS_AddElement
  <2>5. QED
    BY <2>3, <2>4
<1>8. CASE AddPending(b)
  <2>1. /\ call[b].pc = "add" /\ Jump(b, "send") /\ UNCHANGED <<queue, hand, owed>>
    BY <1>1, <1>8, GotoJumps DEF AddPending, At, Places
  <2>2. \A j \in 1..Jobs : OnItsWay(c, j)' <=> OnItsWay(c, j)
    BY <1>1, <2>1 DEF Jump, OnItsWay
  <2>3. QED
    BY <1>3, <1>4, <1>5, <1>6, <2>1, <2>2, OwingStays
<1>9. CASE Send(b)
  <2>1. /\ call[b].pc = "send" /\ NextTask(b) /\ queue' = Append(queue, Current(b))
        /\ UNCHANGED <<hand, owed>>
    BY <1>9 DEF Send, At
  <2>2. Current(b) \in Tasks /\ Current(b)[1] = b /\ ~Queued(Current(b))
    BY <2>1, CurrentIsAhead DEF Placing
  <2>3. \A t \in Tasks : Queued(t)' <=> Queued(t) \/ t = Current(b)
    BY <1>1, <2>1, <2>2, SendQueues
  <2>4. /\ \A d \in Callers : d # b => call'[d] = call[d]
        /\ call'[b].pc \in {"task", "group", "tasks"}
    BY <1>1, <2>1, NextPlaces
  <2>5. CASE b # c
    <3>1. call'[c] = call[c] /\ \A i \in 1..Jobs : <<c, i>> # Current(b)
      BY <1>1, <2>2, <2>4, <2>5, TaskIs
    <3>2. QED
      BY <1>3, <1>4, <1>6, <2>1, <2>3, <3>1, OwingStays DEF OnItsWay
  <2>6. CASE b = c
    <3>1. \A i \in 1..Jobs : ~OnItsWay(c, i)' /\ (OnItsWay(c, i) <=> <<c, i>> = Current(c))
      BY <1>6, <2>1, <2>4, <2>6 DEF OnItsWay
    <3>2. Owing(c)' = Owing(c)
      BY <1>4, <1>6, <2>1, <2>3, <2>6, <3>1 DEF Owing
    <3>3. QED
      BY <1>3, <2>1, <3>2
  <2>7. QED
    BY <2>5, <2>6
<1>10. CASE FallbackRecall(b)
  <2>1. /\ call[b].pc = "fallback" /\ NextTask(b) /\ UNCHANGED <<queue, hand>>
        /\ owed' = [owed EXCEPT ![b] = owed[b] - 1]
    BY <1>10 DEF FallbackRecall, At, pool
  <2>2. /\ \A d \in Callers : d # b => call'[d] = call[d]
        /\ call'[b].pc \in {"task", "group", "tasks"}
    BY <1>1, <2>1, NextPlaces
  <2>3. CASE b # c
    <3>1. call'[c] = call[c] /\ owed'[c] = owed[c]
      BY <1>1, <2>1, <2>2, <2>3
    <3>2. QED
      BY <1>3, <1>4, <1>5, <1>6, <2>1, <3>1, OwingStays DEF OnItsWay
  <2>4. CASE b = c
    <3>1. PICK i \in 1..Jobs : i = call[c].i
      BY <1>1, CurrentIs
    <3>2. ~Queued(<<c, i>>) /\ ~Held(<<c, i>>)
      BY <1>6, <2>1, <2>4, <3>1, CurrentIsAhead DEF Placing
    <3>3. \A j \in 1..Jobs : ~OnItsWay(c, j)' /\ (OnItsWay(c, j) <=> j = i)
      BY <2>1, <2>2, <2>4, <3>1 DEF OnItsWay
    <3>4. i \in Owing(c) /\ Owing(c)' = Owing(c) \ {i}
      BY <1>4, <1>5, <1>6, <2>1, <3>2, <3>3 DEF Owing
    <3>5. owed'[c] = owed[c] - 1
      BY <1>1, <2>1, <2>4
    <3>6. QED
      BY <1>1, <1>2, <3>4, <3>5, FS_RemoveElement
  <2>5. QED
    BY <2>3, <2>4
<1>11. CASE FallbackShard(b) \/ InlineEnds(b)
  <2>1. b # c /\ UNCHANGED <<queue, hand, owed>>
    <3>1. InlineEnds(b) => Inline(Current(b)) /\ Current(b) \in Tasks /\ Current(b)[1] = b
      BY <1>1, CurrentIs DEF InlineEnds, Inline, At
    <3>2. b \in Batchers
      BY <1>1, <1>11, <3>1 DEF Placed, FallbackShard
    <3>3. QED
      BY <1>1, <1>11, <3>2 DEF FallbackShard, InlineEnds, pool
  <2>2. call'[c] = call[c]
    BY <1>1, <1>11, <2>1 DEF FallbackShard, InlineEnds, Goto, NextTask, TypeOK
  <2>3. QED
    BY <1>3, <1>4, <1>5, <1>6, <2>1, <2>2, OwingStays DEF OnItsWay
<1>12. CASE GroupWait(b) \/ TasksWait(b)
  <2>1. PICK label \in {"tasks", "done"} :
          /\ call[b].pc \in {"group", "tasks"} /\ Goto(b, label)
          /\ UNCHANGED <<queue, hand, owed>>
    BY <1>12 DEF GroupWait, TasksWait, At, pool
  <2>2. Jump(b, label)
    BY <1>1, <2>1, GotoJumps DEF Places
  <2>3. \A j \in 1..Jobs : OnItsWay(c, j)' <=> OnItsWay(c, j)
    BY <1>1, <2>1, <2>2 DEF Jump, OnItsWay
  <2>4. QED
    BY <1>3, <1>4, <1>5, <1>6, <2>1, <2>3, OwingStays
<1>13. CASE SendOnClosed(b)
  BY <1>3, <1>4, <1>5, <1>6, <1>13, OwingStays DEF SendOnClosed, pool, OnItsWay
<1>14. QED
  BY <1>7, <1>8, <1>9, <1>10, <1>11, <1>12, <1>13 DEF CallStep

LEMMA ExactPool ==
  ASSUME IInv, Exact, NEW w \in Workers, Take(w) \/ Finish(w), NEW c \in Recallers
  PROVE  owed'[c] = Cardinality(Owing(c)')
<1>1. /\ TypeOK /\ Placed /\ Once /\ c \in Callers
      /\ owed \in [Callers -> Nat] /\ owed[c] = Cardinality(Owing(c))
  BY DEF IInv, TypeOK, Exact, Callers
<1>2. Owing(c) \in SUBSET (1..Jobs) /\ IsFiniteSet(Owing(c))
  BY <1>1, OwingIs
<1>3. call' = call /\ \A i \in 1..Jobs : <<c, i>> \in Tasks /\ (OnItsWay(c, i)' <=> OnItsWay(c, i))
  BY <1>1, TaskIs DEF Take, Finish, OnItsWay
<1>4. CASE Take(w)
  <2>1. PICK t0 : t0 = Head(queue)
    OBVIOUS
  <2>2. /\ queue # <<>> /\ queue' = Tail(queue) /\ hand[w] = None
        /\ hand' = [hand EXCEPT ![w] = t0] /\ owed' = owed
    BY <1>4, <2>1 DEF Take
  <2>3. /\ t0 \in Tasks /\ Queued(t0)
        /\ \A t \in Tasks : Queued(t)' <=> Queued(t) /\ t # t0
    BY <1>1, <2>1, <2>2, TakeUnqueues
  <2>4. hand'[w] = t0 /\ \A v \in Workers : v # w => hand'[v] = hand[v]
    BY <1>1, <2>2 DEF TypeOK
  <2>5. \A t \in Tasks : Held(t)' <=> Held(t) \/ t = t0
    BY <2>2, <2>4, TaskIs DEF Held
  <2>6. Owing(c)' = Owing(c)
    BY <1>3, <2>3, <2>5, OwingStays
  <2>7. QED
    BY <1>1, <2>2, <2>6
<1>5. CASE Finish(w)
  <2>1. PICK t0 : t0 = hand[w]
    OBVIOUS
  <2>2. /\ t0 # None /\ hand' = [hand EXCEPT ![w] = None] /\ queue' = queue
        /\ owed' = [owed EXCEPT ![t0[1]] = @ - 1]
    BY <1>5, <2>1 DEF Finish
  <2>3. t0 \in Tasks /\ Held(t0) /\ t0[1] \in Callers /\ t0[2] \in 1..Jobs /\ t0 = <<t0[1], t0[2]>>
    <3>1. t0 \in Tasks
      BY <1>1, <2>1, <2>2 DEF TypeOK
    <3>2. QED
      BY <2>1, <3>1, TaskIs DEF Held
  <2>4. ~Queued(t0) /\ ~Ahead(t0)
    BY <1>1, <2>3 DEF Placed
  <2>5. \A v \in Workers : hand[v] = t0 => v = w
    BY <1>1, <2>1, <2>2 DEF Once
  <2>6. hand'[w] = None /\ \A v \in Workers : v # w => hand'[v] = hand[v]
    BY <1>1, <2>2 DEF TypeOK
  <2>7. \A t \in Tasks : /\ Held(t)' <=> Held(t) /\ t # t0
                         /\ Queued(t)' <=> Queued(t)
    <3>1. \A t \in Tasks : Held(t)' <=> Held(t) /\ t # t0
      BY <2>1, <2>5, <2>6, TaskIs DEF Held
    <3>2. \A t \in Tasks : Queued(t)' <=> Queued(t)
      BY <2>2, Frame
    <3>3. QED
      BY <3>1, <3>2
  <2>8. CASE t0[1] # c
    <3>1. owed'[c] = owed[c] /\ \A i \in 1..Jobs : <<c, i>> # t0
      BY <1>1, <2>2, <2>8, TaskIs
    <3>2. Owing(c)' = Owing(c)
      BY <1>3, <2>7, <3>1, OwingStays
    <3>3. QED
      BY <1>1, <3>1, <3>2
  <2>9. CASE t0[1] = c
    <3>1. PICK i \in 1..Jobs : t0 = <<c, i>>
      BY <2>3, <2>9
    <3>2. t0[1] = c /\ t0[2] = i
      BY <3>1, TaskIs
    <3>3. ~OnItsWay(c, i)
      BY <2>4, <3>2 DEF OnItsWay, Ahead
    <3>4. \A j \in 1..Jobs : <<c, j>> = t0 <=> j = i
      BY <3>1
    <3>5. i \in Owing(c) /\ Owing(c)' = Owing(c) \ {i}
      BY <1>3, <2>3, <2>4, <2>7, <3>1, <3>3, <3>4 DEF Owing
    <3>6. owed'[c] = owed[c] - 1
      BY <1>1, <2>2, <2>9
    <3>7. QED
      BY <1>1, <1>2, <3>5, <3>6, FS_RemoveElement
  <2>10. QED
    BY <2>8, <2>9
<1>6. QED
  BY <1>4, <1>5

LEMMA ExactStep == IInv /\ Exact /\ [Next]_vars => Exact'
<1> SUFFICES ASSUME IInv, Exact, [Next]_vars, NEW c \in Recallers
             PROVE  owed'[c] = Cardinality(Owing(c)')
  BY DEF Exact
<1>1. CASE UNCHANGED <<queue, hand, call, owed>>
  <2>1. Owing(c)' = Owing(c)
    BY <1>1, OwingStays DEF Queued, Held, OnItsWay
  <2>2. QED
    BY <1>1, <2>1 DEF Exact
<1>2. ASSUME NEW b \in Callers, CallStep(b) PROVE owed'[c] = Cardinality(Owing(c)')
  BY <1>2, ExactCall
<1>3. ASSUME NEW w \in Workers, Take(w) \/ Finish(w) PROVE owed'[c] = Cardinality(Owing(c)')
  BY <1>3, ExactPool
<1>4. QED
  BY <1>1, <1>2, <1>3
     DEF Next, CallerCancels, GroupEnds, ReleaseStep, SetClosed, CloseChannel, ReleaseReturns,
         pool, vars

LEMMA InitIsExact == Init => Exact
<1> SUFFICES ASSUME Init, NEW c \in Recallers PROVE owed[c] = Cardinality(Owing(c))
  BY DEF Exact
<1>1. owed[c] = 0
  BY PoolAssumption DEF Init, Callers
<1>2. \A i \in 1..Jobs : ~Queued(<<c, i>>) /\ ~Held(<<c, i>>) /\ ~OnItsWay(c, i)
  BY TaskIs DEF Init, Queued, Held, OnItsWay, Callers
<1>3. Owing(c) = {}
  BY <1>2 DEF Owing
<1>4. QED
  BY <1>1, <1>3, FS_EmptySet

(* No recall and no Release waits for a WaitGroup that nobody will count   *)
(* down: who runs what, and whoever released the pool in between.          *)
THEOREM WaitsAreAlwaysOwed == Spec => []WaitsAreOwed
<1>1. Init => IInv /\ Exact
  BY InitHasIInv, InitIsExact
<1>2. (IInv /\ Exact) /\ [Next]_vars => (IInv /\ Exact)'
  BY NextKeepsIInv, ExactStep
<1>3. IInv /\ Exact => WaitsAreOwed
  <2> SUFFICES ASSUME IInv, Exact PROVE WaitsAreOwed
    OBVIOUS
  <2>1. ASSUME NEW c \in Recallers, call[c].pc = "tasks", owed[c] # 0
        PROVE  \E i \in 1..Jobs : Queued(<<c, i>>) \/ Held(<<c, i>>)
    <3>1. Owing(c) # {}
      BY <2>1, FS_EmptySet DEF Exact
    <3>2. QED
      BY <2>1, <3>1 DEF Owing, OnItsWay
  <2>2. ASSUME count # 0 PROVE \E t \in Tasks : Queued(t) \/ Held(t) \/ Sending(t)
    <3>1. Pending # {}
      BY <2>2, FS_EmptySet DEF IInv, Counted
    <3>2. QED
      BY <3>1 DEF Pending
  <2>3. QED
    BY <2>1, <2>2 DEF WaitsAreOwed
<1>4. QED
  BY <1>1, <1>2, <1>3, PTL DEF Spec

=============================================================================
