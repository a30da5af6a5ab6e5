----------------------------- MODULE PoolRefill -----------------------------
(***************************************************************************)
(* AsyncPoolRefillDispatcher of the recommend service: requests to refill  *)
(* a candidate pool are queued by key (user, pool, period), merged with    *)
(* the request of the same key that is queued or running, and run by a few *)
(* workers, one at a time per key.                                         *)
(*                                                                         *)
(* A step is one critical section of d.mu, one receive from the channel or *)
(* one call of the runner.  What a run does, and its error, which is only  *)
(* logged, are left out.  A query stands for its trimmed text in lower     *)
(* case: that a change of case alone also marks a job is left out.         *)
(***************************************************************************)
EXTENDS Naturals, Sequences, SequencesExt, FiniteSets

CONSTANTS
  Keys, Queries, Workers,
  QueueSize,     \* capacity of the channel
  QueryFanout,   \* at most so many queries per job
  MaxRequests,   \* bound: calls of Enqueue
  None

ASSUME RefillAssumption ==
  /\ QueueSize \in Nat \ {0} /\ QueryFanout \in Nat \ {0} /\ MaxRequests \in Nat
  /\ None \notin Keys

VARIABLES
  states,     \* key -> its job and the marks queued, running and dirty, or None
  queue,      \* the channel
  worker,     \* each worker's place, key and copy of the job's queries
  stopped,    \* baseCtx is done
  requests,   \* calls of Enqueue so far
  waiting     \* history: by key, the queries accepted and not run since
vars == <<states, queue, worker, stopped, requests, waiting>>

Idle == [pc |-> "idle", key |-> None, job |-> <<>>]
Inputs == UNION {[1..n -> Queries] : n \in 1..(QueryFanout + 1)}

-----------------------------------------------------------------------------

(* Of every query its last occurrence, and of these the last QueryFanout.  *)
MergeQueryTexts(existing, incoming) ==
  LET all    == existing \o incoming
      latest == {i \in DOMAIN all : \A j \in DOMAIN all : j > i => all[j] # all[i]}
      kept   == {i \in latest : Cardinality({j \in latest : j > i}) < QueryFanout}
  IN  [n \in 1..Cardinality(kept) |->
         all[CHOOSE i \in kept : Cardinality({j \in kept : j <= i}) = n]]

Fresh(job) == [job |-> job, queued |-> TRUE, running |-> FALSE, dirty |-> FALSE]
(* Faulty variant: a running key is queued again.                          *)
BusyIfQueued(k) == states[k] # None /\ states[k].queued

Busy(k) == states[k] # None /\ (states[k].queued \/ states[k].running)
Merged(k, queries) ==
  MergeQueryTexts(IF states[k] = None THEN <<>> ELSE states[k].job,
                  MergeQueryTexts(<<>>, queries))

(* Faulty variant: a mark that is cleared without another run.             *)
SettleWithoutRerun(w) ==
  LET k == worker[w].key IN
  /\ worker[w].pc = "ended"
  /\ IF states[k].dirty
     THEN /\ states' = [states EXCEPT ![k].dirty = FALSE]
          /\ UNCHANGED worker
     ELSE /\ states' = [states EXCEPT ![k] = None]
          /\ worker' = [worker EXCEPT ![w] = Idle]
  /\ UNCHANGED <<queue, stopped, requests, waiting>>

(* Enqueue of a key that is queued or running: the queries are merged; a   *)
(* running job whose queries changed is marked to run again.               *)
Dedupe(k, queries) ==
  LET merged == Merged(k, queries)
      again  == states[k].running /\ merged # states[k].job
  IN  /\ Busy(k)
      /\ states' = [states EXCEPT ![k].job = merged, ![k].dirty = @ \/ again]
      /\ waiting' = IF states[k].queued \/ again
                    THEN [waiting EXCEPT ![k] = ToSet(merged)] ELSE waiting
      /\ UNCHANGED queue

Put(k, queries) ==
  /\ ~Busy(k) /\ Len(queue) < QueueSize
  /\ states' = [states EXCEPT ![k] = Fresh(Merged(k, queries))]
  /\ queue' = Append(queue, k)
  /\ waiting' = [waiting EXCEPT ![k] = ToSet(Merged(k, queries))]

(* The channel is full: the state is deleted again and the caller is told. *)
Drop(k, queries) ==
  /\ ~Busy(k) /\ Len(queue) = QueueSize
  /\ states' = [states EXCEPT ![k] = None]
  /\ UNCHANGED <<queue, waiting>>

Enqueue(k, queries) ==
  /\ requests < MaxRequests
  /\ requests' = requests + 1
  /\ Dedupe(k, queries) \/ Put(k, queries) \/ Drop(k, queries)
  /\ UNCHANGED <<worker, stopped>>

-----------------------------------------------------------------------------

(* A worker receives a key; when baseCtx is done as well, select chooses.  *)
Receive(w) ==
  /\ worker[w].pc = "idle" /\ queue # <<>>
  /\ worker' = [worker EXCEPT ![w] = [pc |-> "received", key |-> Head(queue), job |-> <<>>]]
  /\ queue' = Tail(queue)
  /\ UNCHANGED <<states, stopped, requests, waiting>>

Quit(w) ==
  /\ worker[w].pc = "idle" /\ stopped
  /\ worker' = [worker EXCEPT ![w].pc = "gone"]
  /\ UNCHANGED <<states, queue, stopped, requests, waiting>>

(* The copy of the job is what this run uses, whatever is merged later.    *)
StartRun(w) ==
  LET k == worker[w].key IN
  /\ worker[w].pc = "received"
  /\ IF states[k] = None \/ ~states[k].queued
     THEN /\ worker' = [worker EXCEPT ![w] = Idle]
          /\ UNCHANGED <<states, waiting>>
     ELSE /\ worker' = [worker EXCEPT ![w].pc = "running", ![w].job = states[k].job]
          /\ states' = [states EXCEPT ![k].queued = FALSE, ![k].running = TRUE,
                                      ![k].dirty = FALSE]
          /\ waiting' = [waiting EXCEPT ![k] = {}]
  /\ UNCHANGED <<queue, stopped, requests>>

RunEnds(w) ==
  /\ worker[w].pc = "running"
  /\ worker' = [worker EXCEPT ![w].pc = "ended"]
  /\ UNCHANGED <<states, queue, stopped, requests, waiting>>

(* After a run: once more with the merged job if it was marked, else done. *)
Settle(w) ==
  LET k == worker[w].key IN
  /\ worker[w].pc = "ended"
  /\ IF states[k] # None /\ states[k].dirty
     THEN /\ worker' = [worker EXCEPT ![w].pc = "running", ![w].job = states[k].job]
          /\ states' = [states EXCEPT ![k].dirty = FALSE]
          /\ waiting' = [waiting EXCEPT ![k] = {}]
     ELSE /\ worker' = [worker EXCEPT ![w] = Idle]
          /\ states' = [states EXCEPT ![k] = None]
          /\ UNCHANGED waiting
  /\ UNCHANGED <<queue, stopped, requests>>

Stop ==
  /\ ~stopped
  /\ stopped' = TRUE
  /\ UNCHANGED <<states, queue, worker, requests, waiting>>

-----------------------------------------------------------------------------

Init ==
  /\ states = [k \in Keys |-> None]
  /\ queue = <<>>
  /\ worker = [w \in Workers |-> Idle]
  /\ stopped = FALSE
  /\ requests = 0
  /\ waiting = [k \in Keys |-> {}]

WorkerStep(w) == Receive(w) \/ StartRun(w) \/ RunEnds(w) \/ Settle(w)

Next ==
  \/ \E k \in Keys, queries \in Inputs : Enqueue(k, queries)
  \/ \E w \in Workers : WorkerStep(w) \/ Quit(w)
  \/ Stop

Spec == Init /\ [][Next]_vars

(* The workers' loops go on and every run ends, for its context has a      *)
(* timeout; the service need not be stopped.                               *)
FairSpec == Spec /\ \A w \in Workers : WF_vars(WorkerStep(w))

-----------------------------------------------------------------------------

(* A job has at most QueryFanout queries, none of them twice.              *)
RefillJobs ==
  {queries \in Seq(Queries) :
     /\ Len(queries) <= QueryFanout
     /\ \A i, j \in DOMAIN queries : queries[i] = queries[j] => i = j}
JobStates == [job : RefillJobs, queued : BOOLEAN, running : BOOLEAN, dirty : BOOLEAN]
Places    == [pc : {"idle", "received", "running", "ended", "gone"}, key : Keys \cup {None},
              job : RefillJobs]

(* A missing entry of the map is none of its states.                       *)
ASSUME EntryAssumption == None \notin JobStates

TypeOK ==
  /\ states \in [Keys -> JobStates \cup {None}]
  /\ queue \in Seq(Keys) /\ Len(queue) <= QueueSize
  /\ worker \in [Workers -> Places]
  /\ \A w \in Workers : worker[w].pc \in {"received", "running", "ended"} => worker[w].key \in Keys
  /\ stopped \in BOOLEAN /\ requests \in 0..MaxRequests
  /\ waiting \in [Keys -> SUBSET Queries]

(* The marks of a key say where it is: queued, exactly once, in the channel*)
(* or received by a worker; running, in exactly one worker; and a key with *)
(* neither has no state, so that a later request is not deduplicated away. *)
Received(k) == {w \in Workers : worker[w].key = k /\ worker[w].pc = "received"}
RunBy(k)    == {w \in Workers : worker[w].key = k /\ worker[w].pc \in {"running", "ended"}}
MarksAreTrue ==
  \A k \in Keys :
    LET places == Cardinality({i \in DOMAIN queue : queue[i] = k}) + Cardinality(Received(k))
    IN  /\ places = (IF states[k] # None /\ states[k].queued THEN 1 ELSE 0)
        /\ Cardinality(RunBy(k)) = (IF states[k] # None /\ states[k].running THEN 1 ELSE 0)
        /\ states[k] # None => (states[k].queued # states[k].running)

(* Until the service stops, every accepted job is run.                     *)
EveryJobRuns ==
  \A k \in Keys : waiting[k] # {} ~> waiting[k] = {} \/ stopped

=============================================================================
