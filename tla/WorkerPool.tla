----------------------------- MODULE WorkerPool -----------------------------
(***************************************************************************)
(* service/common/cpu: the goroutine pool WorkerPool and the two callers   *)
(* that wait for their own tasks in it, ParallelRecaller.RecallParallel    *)
(* and BatchProcessor.parallel, while an owner may release the pool.       *)
(*                                                                         *)
(* Every call makes the tasks <<c, 1>> .. <<c, Jobs>>, the sources of a    *)
(* recall or the shards of a batch.  What a task computes is left out; it  *)
(* is started, it ends, and a recall runs under the context of its call.   *)
(* A send on a closed channel panics, which stops the process.             *)
(***************************************************************************)
EXTENDS Naturals, Sequences, FiniteSets

CONSTANTS
  Workers,      \* the goroutines; the channel holds as many tasks
  Recallers,    \* calls of RecallParallel
  Batchers,     \* calls of parallel
  Jobs,         \* bound: the tasks of one call
  Cancels,      \* the recalls whose caller may cancel the context
  Releases,     \* whether the owner may call Release
  None

Callers == Recallers \cup Batchers
Tasks   == Callers \X (1..Jobs)
Cap     == Cardinality(Workers)

ASSUME PoolAssumption ==
  /\ IsFiniteSet(Workers) /\ Workers # {} /\ Jobs \in Nat \ {0}
  /\ Recallers \cap Batchers = {} /\ Cancels \subseteq Recallers
  /\ Releases \in BOOLEAN /\ None \notin Tasks

VARIABLES
  queue,      \* the channel tasks
  count,      \* the WaitGroup of the pool
  release,    \* how far Release has come: closed is set, channel closed, returned
  hand,       \* the task each worker runs
  status,     \* of each task: new, running or done
  call,       \* of each call: its place and the index of its loop
  owed,       \* of each call: its own WaitGroup
  group,      \* tasks that run as goroutines of the call's errgroup
  cancelled,  \* the recalls whose context is cancelled, by the caller or by Wait;
              \* runRecall starts a recall under such a context all the same
  panicked
vars == <<queue, count, release, hand, status, call, owed, group, cancelled, panicked>>
pool == <<queue, count, release, hand>>

Closed  == release # "no"
Current(c) == <<c, call[c].i>>
At(c, label) == ~panicked /\ call[c].pc = label
Goto(c, label) == call' = [call EXCEPT ![c].pc = label]
(* The next round of the loop over the tasks, or what follows the loop.    *)
NextTask(c) ==
  call' = [call EXCEPT ![c] =
    IF @.i < Jobs THEN [pc |-> "task", i |-> @.i + 1]
    ELSE [pc |-> IF c \in Recallers THEN "group" ELSE "tasks", i |-> @.i]]

-----------------------------------------------------------------------------
(* Submit, in the three steps another goroutine can come between: the look *)
(* at closed, wg.Add and the send, which waits while the channel is full.  *)

Check(c) ==
  /\ At(c, "task")
  /\ owed' = [owed EXCEPT ![c] = IF c \in Recallers THEN @ + 1 ELSE @]
  /\ Goto(c, IF Closed THEN "fallback" ELSE "add")
  /\ UNCHANGED <<pool, status, group, cancelled, panicked>>

AddPending(c) ==
  /\ At(c, "add")
  /\ count' = count + 1
  /\ Goto(c, "send")
  /\ UNCHANGED <<queue, release, hand, status, owed, group, cancelled, panicked>>

ChannelOpen == release \in {"no", "closing"}

(* Faulty variants of the steps below, which the properties must refuse: a *)
(* fallback without poolWg.Done, a call that does not wait for its tasks.  *)
FallbackKeepsOwing(c) ==
  /\ At(c, "fallback") /\ c \in Recallers
  /\ group' = group \cup {Current(c)}
  /\ status' = [status EXCEPT ![Current(c)] = "running"]
  /\ NextTask(c)
  /\ UNCHANGED <<pool, owed, cancelled, panicked>>

ReturnsAfterGroup(c) ==
  /\ At(c, "tasks")
  /\ Goto(c, "done")
  /\ UNCHANGED <<pool, status, owed, group, cancelled, panicked>>

Send(c) ==
  /\ At(c, "send")
  /\ ChannelOpen /\ Len(queue) < Cap
  /\ queue' = Append(queue, Current(c))
  /\ NextTask(c)
  /\ UNCHANGED <<count, release, hand, status, owed, group, cancelled, panicked>>

SendOnClosed(c) ==
  /\ At(c, "send")
  /\ ~ChannelOpen
  /\ panicked' = TRUE
  /\ UNCHANGED <<pool, status, call, owed, group, cancelled>>

(* A refused recall runs as a goroutine of the errgroup instead.           *)
FallbackRecall(c) ==
  /\ At(c, "fallback") /\ c \in Recallers
  /\ owed' = [owed EXCEPT ![c] = @ - 1]
  /\ group' = group \cup {Current(c)}
  /\ status' = [status EXCEPT ![Current(c)] = "running"]
  /\ NextTask(c)
  /\ UNCHANGED <<pool, cancelled, panicked>>

(* A refused shard runs in the caller; the wg.Done for it is deferred to   *)
(* the end of the method, behind the wg.Wait.                              *)
FallbackShard(c) ==
  /\ At(c, "fallback") /\ c \in Batchers
  /\ status' = [status EXCEPT ![Current(c)] = "running"]
  /\ Goto(c, "inline")
  /\ UNCHANGED <<pool, owed, group, cancelled, panicked>>

InlineEnds(c) ==
  /\ At(c, "inline")
  /\ status' = [status EXCEPT ![Current(c)] = "done"]
  /\ NextTask(c)
  /\ UNCHANGED <<pool, owed, group, cancelled, panicked>>

GroupEnds(t) ==
  /\ ~panicked /\ t \in group
  /\ group' = group \ {t}
  /\ status' = [status EXCEPT ![t] = "done"]
  /\ UNCHANGED <<pool, call, owed, cancelled, panicked>>

(* g.Wait knows the errgroup's goroutines only and cancels its context     *)
(* when they have ended, if there are any or not.                          *)
GroupWait(c) ==
  /\ At(c, "group")
  /\ \A t \in group : t[1] # c
  /\ cancelled' = cancelled \cup {c}
  /\ Goto(c, "tasks")
  /\ UNCHANGED <<pool, status, owed, group, panicked>>

TasksWait(c) ==
  /\ At(c, "tasks")
  /\ owed[c] = 0
  /\ Goto(c, "done")
  /\ UNCHANGED <<pool, status, owed, group, cancelled, panicked>>

CallerCancels(c) ==
  /\ ~panicked /\ c \in Cancels \ cancelled
  /\ cancelled' = cancelled \cup {c}
  /\ UNCHANGED <<pool, status, call, owed, group, panicked>>

-----------------------------------------------------------------------------
(* The goroutines and Release.                                             *)

Take(w) ==
  /\ ~panicked
  /\ hand[w] = None /\ queue # <<>>
  /\ hand' = [hand EXCEPT ![w] = Head(queue)]
  /\ queue' = Tail(queue)
  /\ status' = [status EXCEPT ![Head(queue)] = "running"]
  /\ UNCHANGED <<count, release, call, owed, group, cancelled, panicked>>

(* A task ends, by returning or by a panic that safeRun stops: the Done    *)
(* deferred in it and the Done of the worker.                              *)
Finish(w) ==
  /\ ~panicked
  /\ hand[w] # None
  /\ hand' = [hand EXCEPT ![w] = None]
  /\ status' = [status EXCEPT ![hand[w]] = "done"]
  /\ owed' = [owed EXCEPT ![hand[w][1]] = @ - 1]
  /\ count' = count - 1
  /\ UNCHANGED <<queue, release, call, group, cancelled, panicked>>

SetClosed ==
  /\ ~panicked /\ Releases /\ release = "no"
  /\ release' = "closing"
  /\ UNCHANGED <<queue, count, hand, status, call, owed, group, cancelled, panicked>>

CloseChannel ==
  /\ ~panicked /\ release = "closing"
  /\ release' = "waiting"
  /\ UNCHANGED <<queue, count, hand, status, call, owed, group, cancelled, panicked>>

ReleaseReturns ==
  /\ ~panicked /\ release = "waiting" /\ count = 0
  /\ release' = "released"
  /\ UNCHANGED <<queue, count, hand, status, call, owed, group, cancelled, panicked>>

-----------------------------------------------------------------------------

Init ==
  /\ queue = <<>> /\ count = 0 /\ release = "no"
  /\ hand = [w \in Workers |-> None]
  /\ status = [t \in Tasks |-> "new"]
  /\ call = [c \in Callers |-> [pc |-> "task", i |-> 1]]
  /\ owed = [c \in Callers |-> IF c \in Batchers THEN Jobs ELSE 0]
  /\ group = {} /\ cancelled = {} /\ panicked = FALSE

CallStep(c) ==
  \/ Check(c) \/ AddPending(c) \/ Send(c) \/ SendOnClosed(c)
  \/ FallbackRecall(c) \/ FallbackShard(c) \/ InlineEnds(c)
  \/ GroupWait(c) \/ TasksWait(c)
ReleaseStep == SetClosed \/ CloseChannel \/ ReleaseReturns

Next ==
  \/ \E c \in Callers : CallStep(c) \/ CallerCancels(c)
  \/ \E t \in Tasks : GroupEnds(t)
  \/ \E w \in Workers : Take(w) \/ Finish(w)
  \/ ReleaseStep

Spec == Init /\ [][Next]_vars

(* Goroutines that can go on do go on, and tasks end: the recalls and the  *)
(* computations take a context with a deadline.  Nobody has to cancel or   *)
(* to release.                                                             *)
FairSpec ==
  /\ Spec
  /\ \A c \in Callers : WF_vars(CallStep(c))
  /\ \A t \in Tasks : WF_vars(GroupEnds(t))
  /\ \A w \in Workers : WF_vars(Take(w) \/ Finish(w))
  /\ WF_vars(CloseChannel \/ ReleaseReturns)

-----------------------------------------------------------------------------

(* A call that has returned leaves nothing behind that could still write   *)
(* to its results: all its tasks are done, wherever each of them ran.  And *)
(* when Release has returned no task is queued or running in the pool;     *)
(* what still runs, runs in a goroutine of its caller.                     *)
ReturnsComplete ==
  /\ \A c \in Callers : call[c].pc = "done" => \A i \in 1..Jobs : status[<<c, i>>] = "done"
  /\ release = "released" =>
       /\ queue = <<>>
       /\ \A w \in Workers : hand[w] = None
       /\ \A t \in Tasks : status[t] = "running" => t \in group \/ t[1] \in Batchers

(* A recall returns whatever happens to the pool, the channel or the       *)
(* context, unless the process is gone.                                    *)
EveryRecallReturns ==
  \A c \in Recallers : call[c].pc = "task" ~> call[c].pc = "done" \/ panicked

(* batch.go:244: what the pool refuses runs in the caller, so that every   *)
(* call returns, unless the process is gone.                               *)
EveryCallReturns ==
  \A c \in Callers : call[c].pc = "task" ~> call[c].pc = "done" \/ panicked

=============================================================================
