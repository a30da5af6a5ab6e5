----------------------------- MODULE ArticleSync -----------------------------
(***************************************************************************)
(* The article sync consumers of the async domain (mqs/kafka/consumer.go   *)
(* and retry.go, logic/kafka_handler.go, knowledge/doc_ingest), for the    *)
(* events of one article.                                                  *)
(*                                                                         *)
(* Two Kafka topics, each read in order by one consumer: events as they    *)
(* are published, and the retries of those whose handling failed.  To      *)
(* handle an event is to write its stores one after another, then to       *)
(* publish a result.  Every message is marked when it has been handled,    *)
(* well or not; marks are committed later, and a consumer that starts      *)
(* again goes on from what was committed, or, while nothing has been, from *)
(* the end of its topic (Offsets.Initial = OffsetNewest).                  *)
(*                                                                         *)
(* The rows of the article and of its chunks are in PostgreSQL, without    *)
(* which no process starts.  One whose Milvus or Neo4j could not be        *)
(* reached at its start only warns, and from then on passes over what it   *)
(* should delete there.                                                    *)
(***************************************************************************)
EXTENDS Integers, Sequences

CONSTANTS
  MaxRetry,     \* maxRetryAttempts (5)
  MaxEvents,    \* bound: events published
  MaxRestarts   \* bound: restarts of a consumer

ASSUME SyncAssumption == MaxRetry \in Nat \ {0} /\ MaxEvents \in Nat /\ MaxRestarts \in Nat

Topics     == {"primary", "retry"}
Fresh      == -1                                   \* no offset committed

(* A "bare" upsert is of an article of which only the title has text; a    *)
(* "broken" event cannot be parsed.                                        *)
Operations == {"upsert", "bare", "delete", "broken"}

(* PostgreSQL; Milvus: the vectors of the text (two collections) and of    *)
(* the images; Neo4j: what hangs on the article's node.                    *)
StoreNames == {"articles", "chunks", "vectors", "images", "graph"}
Optional   == {"vectors", "images", "graph"}

VARIABLES
  op,         \* the events published: what each asks for
  topic,      \* topic -> its messages: an event, and how often it has failed
  position,   \* topic -> messages marked
  committed,  \* topic -> messages whose mark is committed, or Fresh
  consumer,   \* topic -> where the handling of the next message is
  together,   \* both consumers are in one process
  reach,      \* topic -> the optional stores in which its process deletes
  store,      \* store -> the events some of whose rows it holds
  answers,    \* results published: event and success
  lost,       \* history: events of which a message or result was not sent, or skipped
  attempts,   \* history: event -> handlings that failed
  settled,    \* history: the event handled last to the end, 0 once another begins
  passed,     \* history: the stores whose deletion that handling passed over
  overlapped, \* history: the two consumers have worked at the same time
  restarts
vars == <<op, topic, position, committed, consumer, together, reach, store, answers,
          lost, attempts, settled, passed, overlapped, restarts>>

Events == 1..MaxEvents
Idle   == [pc |-> "idle", at |-> 1]
Message(t) == topic[t][position[t] + 1]
Event(t) == Message(t).event
Busy(t)  == consumer[t].pc \in {"work", "failed"}   \* activePrimaryJobs

To(t, pc) == consumer' = [consumer EXCEPT ![t].pc = pc]

-------------------------------------------------------------------------------
(* What a process can have found at its start: neither the client of       *)
(* Milvus nor that of Neo4j need be there, and the collection of images    *)
(* need not be named (which the writes, not the deletion, make up for).    *)
Reaches == {r \in SUBSET Optional : "images" \in r => "vectors" \in r}
Process(t) == IF together THEN Topics ELSE {t}

(* The handling of an event, store by store: DeleteArticleState, and for   *)
(* an upsert the article again (processArticleSyncEvent, Invoke).  The     *)
(* rows of chunks go with their article's (ON DELETE CASCADE).             *)
Delete(stores) == [put |-> FALSE, stores |-> stores]
Put(s)         == [put |-> TRUE, stores |-> {s}]
Work == << Delete({"articles", "chunks"}), Delete({"vectors"}), Delete({"images"}),
           Delete({"graph"}),
           Put("articles"), Put("chunks"), Put("vectors"), Put("images"), Put("graph") >>
Steps(e) == IF op[e] = "delete" THEN 4 ELSE Len(Work)

(* What the stores hold of an event.                                       *)
Content(e) ==
  CASE op[e] = "upsert" -> StoreNames
    [] op[e] = "bare"   -> {"articles", "vectors", "graph"}
    [] OTHER            -> {}

(* A step that is no error and does nothing: a deletion, or a put to the   *)
(* graph, without the client; a put of what the article has none of.       *)
PassesOver(t, step) ==
  IF step.put
  THEN \/ ~step.stores \subseteq Content(Event(t))
       \/ step.stores = {"graph"} /\ "graph" \notin reach[t]
  ELSE \E s \in step.stores : s \in Optional \ reach[t]

(* The vectors cannot be put without the client, nor the chunks of an      *)
(* article that (by the other consumer) has been deleted.                  *)
Possible(t, step) ==
  /\ step = Put("vectors") => "vectors" \in reach[t]
  /\ step = Put("chunks") => store["articles"] # {}

(* The stores after a step that left the rows of some events where it was. *)
After(step, e, left) ==
  [s \in StoreNames |-> IF s \notin step.stores THEN store[s]
                        ELSE IF step.put THEN left \cup {e} ELSE left]

(* A deletion leaves nothing; the article's row is one; of what else there *)
(* was a put replaces some.                                                *)
Rows(step) == UNION {store[s] : s \in step.stores}
Done(step, e) ==
  {After(step, e, left) :
     left \in IF step.put /\ step # Put("articles") THEN SUBSET Rows(step) ELSE {{}}}

(* A step that fails may have been done; a deletion of vectors in one of   *)
(* the two collections only.                                               *)
HalfDone(step, e) ==
  {store} \cup Done(step, e)
    \cup IF step = Delete({"vectors"})
         THEN {After(step, e, left) : left \in SUBSET Rows(step)} ELSE {}

(* Faulty variant: nothing about the graph is worth a retry.               *)
MaySkipGraph(step) == step.stores = {"graph"}

(* A graph that cannot be written is left out; one that cannot be deleted  *)
(* is an error.                                                            *)
MaySkip(step) == step.stores = {"graph"} /\ step.put

Init ==
  /\ op = <<>> /\ topic = [t \in Topics |-> <<>>]
  /\ position = [t \in Topics |-> 0] /\ committed = [t \in Topics |-> Fresh]
  /\ consumer = [t \in Topics |-> Idle] /\ together \in BOOLEAN
  /\ reach \in [Topics -> Reaches] /\ (together => reach["primary"] = reach["retry"])
  /\ store = [s \in StoreNames |-> {}] /\ answers = {} /\ lost = {}
  /\ attempts = [e \in Events |-> 0] /\ settled = 0 /\ passed = {}
  /\ overlapped = FALSE /\ restarts = 0

(* An event of the article.                                                *)
Publish(o) ==
  /\ Len(op) < MaxEvents
  /\ op' = Append(op, o)
  /\ topic' = [topic EXCEPT !["primary"] = Append(@, [event |-> Len(op) + 1, count |-> 0])]
  /\ UNCHANGED <<position, committed, consumer, together, reach, store, answers, lost, attempts,
                 settled, passed, overlapped, restarts>>

(* waitUntilRetryReady: a retry waits for a moment in which no primary job *)
(* of its process is active.  (It is due at some time or other.)           *)
Ready(t) == t = "retry" /\ together => ~Busy("primary")

(* parseMessage.                                                           *)
Unreadable(t) == op[Event(t)] = "broken"

(* ConsumeClaim takes the next message; one it cannot read is only marked. *)
Take(t) ==
  /\ consumer[t].pc = "idle" /\ position[t] < Len(topic[t])
  /\ Ready(t)
  /\ IF Unreadable(t)
     THEN To(t, "mark") /\ UNCHANGED <<settled, passed, overlapped>>
     ELSE /\ consumer' = [consumer EXCEPT ![t] = [pc |-> "work", at |-> 1]]
          /\ settled' = 0 /\ passed' = {}
          /\ overlapped' = (overlapped \/ \E u \in Topics \ {t} : Busy(u))
  /\ UNCHANGED <<op, topic, position, committed, together, reach, store, answers, lost, attempts,
                 restarts>>

Failed(t) ==
  /\ To(t, "failed")
  /\ attempts' = [attempts EXCEPT ![Event(t)] = @ + 1]

(* One step of the handling; of one that fails it is unknown what was done. *)
Write(t) ==
  /\ consumer[t].pc = "work" /\ consumer[t].at <= Steps(Event(t))
  /\ LET step == Work[consumer[t].at]
         goes == consumer' = [consumer EXCEPT ![t].at = @ + 1] /\ UNCHANGED attempts
     IN  \/ PassesOver(t, step) /\ goes /\ UNCHANGED store
         \/ /\ ~PassesOver(t, step) /\ Possible(t, step)
            /\ store' \in Done(step, Event(t)) /\ goes
         \/ /\ ~PassesOver(t, step)
            /\ store' \in IF Possible(t, step) THEN HalfDone(step, Event(t)) ELSE {store}
            /\ IF MaySkip(step) THEN goes ELSE Failed(t)
  /\ UNCHANGED <<op, topic, position, committed, together, reach, answers, lost, settled,
                 passed, overlapped, restarts>>

(* PublishSyncResult.  When it fails the primary consumer gives up, the    *)
(* retry consumer takes it for a failure of the event.                     *)
Answer(t) ==
  /\ consumer[t].pc = "work" /\ consumer[t].at = Steps(Event(t)) + 1
  /\ settled' = IF \E u \in Topics \ {t} : Busy(u) THEN 0 ELSE Event(t)
  /\ passed' = IF settled' = 0 THEN {} ELSE Optional \ reach[t]
  /\ LET answered == answers \cup {[event |-> Event(t), success |-> TRUE]}
     IN  \/ answers' = answered /\ To(t, "mark") /\ UNCHANGED <<lost, attempts>>
         \/ /\ answers' \in {answers, answered}
            /\ IF t = "primary"
               THEN lost' = lost \cup {Event(t)} /\ To(t, "mark") /\ UNCHANGED attempts
               ELSE Failed(t) /\ UNCHANGED lost
  /\ UNCHANGED <<op, topic, position, committed, together, reach, store, overlapped, restarts>>

(* Faulty variant: one retry fewer.                                        *)
MayRetryLess(count) == count < MaxRetry
MayRetry(count) == count <= MaxRetry

(* EnqueueArticleSyncRetry.                                                *)
Again(t) == [event |-> Event(t), count |-> Message(t).count + 1]

(* Faulty variant: an event that has failed for good is only logged.       *)
FailSilently(t) ==
  /\ consumer[t].pc = "failed"
  /\ IF MayRetry(Again(t).count)
     THEN \/ topic' = [topic EXCEPT !["retry"] = Append(@, Again(t))] /\ UNCHANGED lost
          \/ UNCHANGED topic /\ lost' = lost \cup {Event(t)}
     ELSE UNCHANGED <<topic, lost>>
  /\ To(t, "mark")
  /\ UNCHANGED <<op, position, committed, together, reach, store, answers, attempts, settled, passed,
                 overlapped, restarts>>

(* The event goes on the retry topic, or is answered as failed; a send     *)
(* that fails is logged and no more.                                       *)
Fail(t) ==
  /\ consumer[t].pc = "failed"
  /\ LET sent == IF MayRetry(Again(t).count)
                 THEN /\ topic' = [topic EXCEPT !["retry"] = Append(@, Again(t))]
                      /\ UNCHANGED answers
                 ELSE /\ answers' = answers \cup {[event |-> Event(t), success |-> FALSE]}
                      /\ UNCHANGED topic
     IN  \/ sent /\ UNCHANGED lost
         \/ UNCHANGED <<topic, answers>> /\ lost' = lost \cup {Event(t)}
  /\ To(t, "mark")
  /\ UNCHANGED <<op, position, committed, together, reach, store, attempts, settled, passed,
                 overlapped, restarts>>

(* MarkMessage; the mark may be committed before the consumer stops.       *)
Mark(t) ==
  /\ consumer[t].pc = "mark"
  /\ position' = [position EXCEPT ![t] = @ + 1]
  /\ committed' \in {committed, [committed EXCEPT ![t] = position[t] + 1]}
  /\ consumer' = [consumer EXCEPT ![t] = Idle]
  /\ UNCHANGED <<op, topic, together, reach, store, answers, lost, attempts, settled, passed,
                 overlapped, restarts>>

(* The consumers of some topics start again, from what was committed.      *)
StartAgain(topics) ==
  /\ restarts < MaxRestarts /\ restarts' = restarts + 1
  /\ consumer' = [t \in Topics |-> IF t \in topics THEN Idle ELSE consumer[t]]
  /\ position' = [t \in Topics |-> IF t \notin topics THEN position[t]
                                  ELSE IF committed[t] = Fresh THEN Len(topic[t]) ELSE committed[t]]
  /\ lost' = lost \cup
       UNION {{topic[t][i].event : i \in position[t] + 1 .. position'[t]} : t \in topics}
  /\ UNCHANGED <<op, topic, committed, together, store, answers, attempts, settled, passed,
                 overlapped>>

(* The partition is taken away and given back.                             *)
Rebalance(t) == StartAgain({t}) /\ UNCHANGED reach

(* The process of a consumer crashes; the one that follows tries anew to   *)
(* reach the stores (StartWorkers).                                        *)
Crash(t) ==
  /\ StartAgain(Process(t))
  /\ \E r \in Reaches : reach' = [u \in Topics |-> IF u \in Process(t) THEN r ELSE reach[u]]

Consume(t) == Take(t) \/ Write(t) \/ Answer(t) \/ Fail(t) \/ Mark(t)

Next ==
  \/ \E o \in Operations : Publish(o)
  \/ \E t \in Topics : Consume(t) \/ Rebalance(t) \/ Crash(t)

(* A consumer goes on: no call waits for ever.                             *)
Fairness == \A t \in Topics : WF_vars(Consume(t))
Spec == Init /\ [][Next]_vars /\ Fairness

-------------------------------------------------------------------------------
(* Properties.                                                             *)

(* Types; in particular the messages of the primary topic are those that   *)
(* have not failed yet, and none has failed more often than it may be      *)
(* retried.                                                                *)
Messages == [event : Events, count : 0..MaxRetry]
Places   == [pc : {"idle", "work", "failed", "mark"}, at : Nat \ {0}]
TopicsOK ==
  /\ op \in Seq(Operations) /\ Len(op) <= MaxEvents
  /\ topic \in [Topics -> Seq(Messages)]
  /\ \A t \in Topics : \A i \in DOMAIN topic[t] :
       topic[t][i].event \in DOMAIN op /\ (t = "primary" <=> topic[t][i].count = 0)
ConsumersOK ==
  /\ position \in [Topics -> Nat] /\ committed \in [Topics -> Nat \cup {Fresh}]
  /\ consumer \in [Topics -> Places]
  /\ \A t \in Topics : /\ committed[t] <= position[t] /\ position[t] <= Len(topic[t])
                       /\ consumer[t].pc # "idle" => position[t] < Len(topic[t])
TypeOK ==
  /\ TopicsOK /\ ConsumersOK
  /\ together \in BOOLEAN /\ overlapped \in BOOLEAN /\ restarts \in Nat
  /\ reach \in [Topics -> Reaches] /\ (together => reach["primary"] = reach["retry"])
  /\ store \in [StoreNames -> SUBSET Events]
  /\ settled \in DOMAIN op \cup {0} /\ passed \subseteq Optional
  /\ answers \subseteq [event : Events, success : BOOLEAN] /\ lost \subseteq Events
  /\ attempts \in [Events -> Nat]

(* The event's failure is final: it is published only after the event has  *)
(* been handled and has failed in the primary consumer and in each of the  *)
(* MaxRetry retries, whatever was redelivered or sent twice.               *)
FailureIsFinal ==
  \A e \in Events : [event |-> e, success |-> FALSE] \in answers => attempts[e] > MaxRetry

(* The stores agree: as long as the two consumers have not worked on the   *)
(* article at the same time, once an event has been handled to its end     *)
(* each store holds what the event says and nothing older, whatever        *)
(* half-done handling, failed or cut off by a restart, came before, and    *)
(* whatever an earlier process could not delete.  Only the graph may have  *)
(* been left out, and only the stores in which this process does not       *)
(* delete may hold something else; no article is handled to its end        *)
(* without its vectors.                                                    *)
StoresAgree ==
  settled # 0 /\ ~overlapped =>
    /\ \A s \in StoreNames \ passed :
         \/ store[s] = IF s \in Content(settled) THEN {settled} ELSE {}
         \/ s = "graph" /\ store[s] = {}
    /\ Content(settled) # {} => settled \in store["vectors"]

(* Every event that can be read is answered in the end, unless one of its  *)
(* messages could not be sent (which the code only logs) or was skipped by *)
(* a consumer without a committed offset.                                  *)
EventsAreAnswered ==
  \A e \in Events :
    e \in DOMAIN op /\ op[e] # "broken" ~>
      e \in lost \/ \E success \in BOOLEAN : [event |-> e, success |-> success] \in answers
=============================================================================
