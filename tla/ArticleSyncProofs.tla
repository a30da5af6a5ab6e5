-------------------------- MODULE ArticleSyncProofs --------------------------
(***************************************************************************)
(* Proofs about ArticleSync, for every number of retries, events and       *)
(* restarts.                                                               *)
(***************************************************************************)
EXTENDS ArticleSync, SequenceTheorems, TLAPS

(* No event was retried more often than it failed.                         *)
Counted ==
  /\ \A t \in Topics : \A i \in DOMAIN topic[t] :
       topic[t][i].count <= attempts[topic[t][i].event]
  /\ \A t \in Topics :
       consumer[t].pc = "failed" => Message(t).count < attempts[Event(t)]

(* Unless the consumers overlapped, one works at a time, and none once an  *)
(* event has been handled to its end.                                      *)
Exclusive ==
  ~overlapped => /\ \A t, u \in Topics : Busy(t) /\ Busy(u) => t = u
                 /\ settled # 0 => \A t \in Topics : consumer[t].pc # "work"

(* The steps of a handling: four deletions, then the stores in turn.       *)
PutAt(s) ==
  CASE s = "articles" -> 5 [] s = "chunks" -> 6 [] s = "vectors" -> 7 [] s = "images" -> 8 [] OTHER -> 9
DeleteAt(s) == IF s = "articles" THEN 1 ELSE PutAt(s) - 5

(* What the steps that are behind a working consumer have left in the      *)
(* stores it reaches; the vectors it must reach to get past them.          *)
Behind(t) ==
  /\ \A s \in StoreNames \ (Optional \ reach[t]) :
       /\ consumer[t].at \in DeleteAt(s) + 1 .. PutAt(s) => store[s] = {}
       /\ consumer[t].at > PutAt(s) =>
            \/ store[s] = IF s \in Content(Event(t)) THEN {Event(t)} ELSE {}
            \/ s = "graph" /\ store[s] = {}
  /\ consumer[t].at > 7 => "vectors" \in reach[t]
Written ==
  \A t \in Topics : consumer[t].pc = "work" =>
    /\ op[Event(t)] \in {"upsert", "bare", "delete"}
    /\ consumer[t].at <= Steps(Event(t)) + 1
    /\ ~overlapped => Behind(t)

IInv == TypeOK /\ Counted /\ FailureIsFinal /\ Exclusive /\ Written /\ StoresAgree

LEMMA WorkIs ==
  ASSUME NEW i \in 1..9
  PROVE  /\ Work[i].stores \subseteq StoreNames /\ (Work[i].put <=> i > 4)
         /\ \A s \in StoreNames : s \in Work[i].stores <=> i \in {DeleteAt(s), PutAt(s)}
         /\ i > 4 => \E s \in StoreNames : i = PutAt(s) /\ Work[i] = Put(s)
<1>1. CASE i \in 1..4
  <2>1. Work[i] = <<Delete({"articles", "chunks"}), Delete({"vectors"}), Delete({"images"}), Delete({"graph"})>>[i]
    BY <1>1 DEF Work
  <2>2. QED
    BY <1>1, <2>1 DEF Delete, StoreNames, DeleteAt, PutAt
<1>2. CASE i \in 5..9
  <2>1. PICK s \in StoreNames : i = PutAt(s) /\ Work[i] = Put(s)
    <3>1. Work[5] = Put("articles") /\ Work[6] = Put("chunks") /\ Work[7] = Put("vectors")
          /\ Work[8] = Put("images") /\ Work[9] = Put("graph")
      BY DEF Work
    <3>2. i \in {5, 6, 7, 8, 9}
      BY <1>2
    <3>3. QED
      BY <3>1, <3>2 DEF PutAt, StoreNames
  <2>2. Work[i].put = TRUE /\ Work[i].stores = {s}
    BY <2>1 DEF Put
  <2>3. \A z \in StoreNames : DeleteAt(z) \in 1..4 /\ (PutAt(z) = PutAt(s) => z = s)
    BY DEF DeleteAt, PutAt, StoreNames
  <2>4. \A z \in StoreNames : z \in Work[i].stores <=> i \in {DeleteAt(z), PutAt(z)}
    BY <1>2, <2>1, <2>2, <2>3
  <2>5. QED
    BY <1>2, <2>1, <2>2, <2>4
<1>3. QED
  BY <1>1, <1>2

LEMMA StepsAre == \A e : Steps(e) = IF op[e] = "delete" THEN 4 ELSE 9
  BY DEF Steps, Work

LEMMA InitInv == Init => IInv
<1> SUFFICES ASSUME Init PROVE IInv
  OBVIOUS
<1>1. TopicsOK
  BY SyncAssumption DEF Init, TopicsOK
<1>2. Idle \in Places
  BY DEF Idle, Places
<1>3. ConsumersOK
  BY <1>2 DEF Init, ConsumersOK, Idle, Fresh
<1>4. TypeOK
  BY <1>1, <1>3, SyncAssumption DEF Init, TypeOK, Events
<1>5. Counted /\ FailureIsFinal
  BY DEF Init, Counted, FailureIsFinal, Idle
<1>6. Exclusive /\ Written /\ StoresAgree
  BY DEF Init, Exclusive, Written, StoresAgree, Idle, Busy
<1>7. QED
  BY <1>4, <1>5, <1>6 DEF IInv

LEMMA MessageType ==
  ASSUME TopicsOK, ConsumersOK, NEW t \in Topics,
         consumer[t].pc # "idle" \/ position[t] < Len(topic[t])
  PROVE  /\ position[t] + 1 \in 1..Len(topic[t])
         /\ Message(t) \in Messages
         /\ Event(t) \in DOMAIN op /\ Event(t) \in Events
         /\ Message(t).count \in 0..MaxRetry
         /\ t = "primary" <=> Message(t).count = 0
<1>1. topic[t] \in Seq(Messages) /\ position[t] \in Nat
  BY DEF TopicsOK, ConsumersOK
<1>2. position[t] + 1 \in 1..Len(topic[t])
  BY <1>1 DEF ConsumersOK
<1>3. position[t] + 1 \in DOMAIN topic[t] /\ topic[t][position[t] + 1] \in Messages
  BY <1>1, <1>2
<1>4. QED
  BY <1>2, <1>3 DEF TopicsOK, Message, Event, Messages

(* A message keeps its place when others are sent.                         *)
LEMMA Sent ==
  ASSUME TopicsOK, NEW t \in Topics, NEW m \in Messages,
         topic' = [topic EXCEPT ![t] = Append(@, m)]
  PROVE  /\ topic' \in [Topics -> Seq(Messages)]
         /\ \A u \in Topics : /\ Len(topic'[u]) \in {Len(topic[u]), Len(topic[u]) + 1}
                              /\ \A i \in 1..Len(topic[u]) : topic'[u][i] = topic[u][i]
         /\ \A u \in Topics : \A i \in 1..Len(topic'[u]) :
              i \in 1..Len(topic[u]) \/ (u = t /\ topic'[u][i] = m)
<1>1. \A u \in Topics : topic[u] \in Seq(Messages)
  BY DEF TopicsOK
<1>2. topic'[t] = Append(topic[t], m) /\ \A u \in Topics \ {t} : topic'[u] = topic[u]
  BY DEF TopicsOK
<1>3. Append(topic[t], m) \in Seq(Messages) /\ Len(Append(topic[t], m)) = Len(topic[t]) + 1
  BY <1>1
<1>4. /\ \A i \in 1..Len(topic[t]) : Append(topic[t], m)[i] = topic[t][i]
      /\ Append(topic[t], m)[Len(topic[t]) + 1] = m
  BY <1>1
<1>5. topic' \in [Topics -> Seq(Messages)]
  BY <1>1, <1>2, <1>3 DEF TopicsOK
<1>6. QED
  BY <1>1, <1>2, <1>3, <1>4, <1>5

(* The topics only grow, by events published and by retries.               *)
Grown ==
  /\ op' \in Seq(Operations) /\ Len(op') <= MaxEvents
  /\ DOMAIN op \subseteq DOMAIN op' /\ \A e \in DOMAIN op : op'[e] = op[e]
  /\ topic' \in [Topics -> Seq(Messages)]
  /\ \A u \in Topics : /\ Len(topic'[u]) >= Len(topic[u])
                       /\ \A i \in 1..Len(topic[u]) : topic'[u][i] = topic[u][i]
Added(u, i) ==
  \/ u = "primary" /\ topic'[u][i].count = 0 /\ topic'[u][i].event \in DOMAIN op'
  \/ u = "retry" /\ \E t \in Topics : /\ consumer[t].pc = "failed" /\ MayRetry(Again(t).count)
                                      /\ topic'[u][i] = Again(t) /\ UNCHANGED attempts

LEMMA TopicsGrow ==
  TypeOK /\ [Next]_vars =>
    Grown /\ \A u \in Topics : \A i \in 1..Len(topic'[u]) : i \in 1..Len(topic[u]) \/ Added(u, i)
<1> DEFINE Goal == Grown /\ \A u \in Topics : \A i \in 1..Len(topic'[u]) :
                     i \in 1..Len(topic[u]) \/ Added(u, i)
<1> SUFFICES ASSUME TypeOK, [Next]_vars PROVE Goal
  OBVIOUS
<1>1. TopicsOK /\ ConsumersOK /\ \A u \in Topics : topic[u] \in Seq(Messages)
  BY DEF TypeOK, TopicsOK
<1>2. ASSUME NEW o \in Operations, Publish(o) PROVE Goal
  <2> DEFINE m == [event |-> Len(op) + 1, count |-> 0]
  <2>1. op \in Seq(Operations) /\ Len(op) \in Nat /\ Len(op) < MaxEvents
    BY <1>1, <1>2 DEF TopicsOK, Publish
  <2>2. /\ op' \in Seq(Operations) /\ Len(op') = Len(op) + 1 /\ Len(op) + 1 \in DOMAIN op'
        /\ DOMAIN op \subseteq DOMAIN op' /\ \A e \in DOMAIN op : op'[e] = op[e]
    BY <1>2, <2>1 DEF Publish
  <2>3. m \in Messages
    BY <2>1, SyncAssumption DEF Messages, Events
  <2>4. topic' = [topic EXCEPT !["primary"] = Append(@, m)]
    BY <1>2 DEF Publish
  <2>5. m.count = 0 /\ m.event \in DOMAIN op'
    BY <2>2
  <2> HIDE DEF m
  <2>6. Grown
    <3>1. /\ topic' \in [Topics -> Seq(Messages)]
          /\ \A u \in Topics : /\ Len(topic'[u]) \in {Len(topic[u]), Len(topic[u]) + 1}
                               /\ \A i \in 1..Len(topic[u]) : topic'[u][i] = topic[u][i]
      BY <1>1, <2>3, <2>4, Sent DEF Topics
    <3>2. \A u \in Topics : Len(topic[u]) \in Nat
      BY <1>1
    <3>3. \A u \in Topics : Len(topic'[u]) >= Len(topic[u])
      BY <3>1, <3>2
    <3>4. Len(op') <= MaxEvents
      BY <2>1, <2>2, SyncAssumption
    <3>5. QED
      BY <2>2, <3>1, <3>3, <3>4 DEF Grown
  <2>7. \A u \in Topics : \A i \in 1..Len(topic'[u]) :
          i \in 1..Len(topic[u]) \/ (u = "primary" /\ topic'[u][i] = m)
    BY <1>1, <2>3, <2>4, Sent DEF Topics
  <2>8. QED
    BY <2>5, <2>6, <2>7 DEF Added
<1>3. ASSUME UNCHANGED op, UNCHANGED topic PROVE Goal
  BY <1>1, <1>3 DEF TopicsOK, Grown
<1>4. ASSUME NEW t \in Topics, Fail(t) PROVE Goal
  <2>1. consumer[t].pc = "failed" /\ UNCHANGED op /\ UNCHANGED attempts
    BY <1>4 DEF Fail
  <2>2. CASE UNCHANGED topic
    BY <1>3, <2>1, <2>2
  <2>3. CASE MayRetry(Again(t).count) /\ topic' = [topic EXCEPT !["retry"] = Append(@, Again(t))]
    <3>1. Again(t) \in Messages
      BY <1>1, <2>1, <2>3, MessageType, SyncAssumption DEF Again, MayRetry, Messages
    <3>2. Grown
      BY <1>1, <2>1, <3>1, <2>3, Sent DEF Topics, Grown, TopicsOK
    <3>3. \A u \in Topics : \A i \in 1..Len(topic'[u]) :
            i \in 1..Len(topic[u]) \/ (u = "retry" /\ topic'[u][i] = Again(t))
      BY <1>1, <3>1, <2>3, Sent DEF Topics
    <3>4. QED
      BY <2>1, <2>3, <3>2, <3>3 DEF Added
  <2>4. QED
    BY <1>4, <2>2, <2>3 DEF Fail
<1>5. QED
  BY <1>2, <1>3, <1>4 DEF Next, Consume, Take, Write, Answer, Mark, Rebalance, Crash, StartAgain, vars

LEMMA TopicsStep == TypeOK /\ [Next]_vars => TopicsOK'
<1> SUFFICES ASSUME TypeOK, [Next]_vars PROVE TopicsOK'
  OBVIOUS
<1>1. TopicsOK /\ ConsumersOK
  BY DEF TypeOK
<1>2. Grown
  BY TopicsGrow
<1>3. ASSUME NEW u \in Topics, NEW i \in DOMAIN topic'[u]
      PROVE  topic'[u][i].event \in DOMAIN op' /\ (u = "primary" <=> topic'[u][i].count = 0)
  <2>1. i \in 1..Len(topic'[u]) /\ topic[u] \in Seq(Messages)
    BY <1>1, <1>2 DEF Grown, TopicsOK
  <2>2. CASE i \in 1..Len(topic[u])
    BY <1>1, <1>2, <2>1, <2>2 DEF TopicsOK, Grown
  <2>3. CASE u = "primary" /\ topic'[u][i].count = 0 /\ topic'[u][i].event \in DOMAIN op'
    BY <2>3
  <2>4. ASSUME u = "retry", NEW t \in Topics, consumer[t].pc = "failed", topic'[u][i] = Again(t)
        PROVE  topic'[u][i].event \in DOMAIN op' /\ topic'[u][i].count # 0
    BY <1>1, <1>2, <2>4, MessageType DEF Again, Grown
  <2>5. QED
    BY <2>1, <2>2, <2>3, <2>4, TopicsGrow DEF Added
<1>4. QED
  BY <1>2, <1>3 DEF TopicsOK, Grown

(* A consumer's message stays the same while it is at it.                  *)
LEMMA MessageStays ==
  ASSUME TypeOK, [Next]_vars, NEW t \in Topics, position'[t] = position[t],
         position[t] < Len(topic[t])
  PROVE  /\ Message(t)' = Message(t) /\ Event(t)' = Event(t)
         /\ op'[Event(t)] = op[Event(t)] /\ Event(t) \in DOMAIN op'
<1>1. TopicsOK /\ ConsumersOK /\ Grown
  BY TopicsGrow DEF TypeOK
<1>2. position[t] + 1 \in 1..Len(topic[t]) /\ Event(t) \in DOMAIN op
  BY <1>1, MessageType
<1>3. topic'[t][position[t] + 1] = topic[t][position[t] + 1]
  BY <1>1, <1>2 DEF Grown
<1>4. QED
  BY <1>1, <1>2, <1>3 DEF Message, Event, Grown

LEMMA ConsumersStep == TypeOK /\ [Next]_vars => ConsumersOK'
<1> SUFFICES ASSUME TypeOK, [Next]_vars PROVE ConsumersOK'
  OBVIOUS
<1>1. TopicsOK /\ ConsumersOK /\ Grown
  BY TopicsGrow DEF TypeOK
<1>2. \A u \in Topics : Len(topic[u]) \in Nat /\ Len(topic'[u]) \in Nat /\ Len(topic[u]) <= Len(topic'[u])
  BY <1>1 DEF TopicsOK, Grown
<1> USE DEF ConsumersOK
<1>3. ASSUME UNCHANGED <<position, committed, consumer>> PROVE ConsumersOK'
  BY <1>1, <1>2, <1>3
<1>4. ASSUME NEW t \in Topics, NEW p \in Places, consumer' = [consumer EXCEPT ![t] = p],
             position[t] < Len(topic[t]) \/ p.pc = "idle", UNCHANGED <<position, committed>>
      PROVE  ConsumersOK'
  BY <1>1, <1>2, <1>4
<1>a. ASSUME NEW t \in Topics, NEW pc \in {"work", "failed", "mark"}, To(t, pc),
             position[t] < Len(topic[t]), UNCHANGED <<position, committed>>
      PROVE  ConsumersOK'
  <2>1. [consumer[t] EXCEPT !.pc = pc] \in Places
    BY <1>1 DEF Places
  <2>2. consumer' = [consumer EXCEPT ![t] = [consumer[t] EXCEPT !.pc = pc]]
    BY <1>a DEF To
  <2>3. QED
    BY <1>4, <1>a, <2>1, <2>2
<1>5. ASSUME NEW t \in Topics, Take(t) PROVE ConsumersOK'
  <2>1. [pc |-> "work", at |-> 1] \in Places /\ position[t] < Len(topic[t])
    BY <1>5 DEF Take, Places
  <2>2. CASE To(t, "mark")
    BY <1>a, <1>5, <2>1, <2>2 DEF Take
  <2>3. CASE consumer' = [consumer EXCEPT ![t] = [pc |-> "work", at |-> 1]]
    BY <1>4, <1>5, <2>1, <2>3 DEF Take
  <2>4. QED
    BY <1>5, <2>2, <2>3 DEF Take
<1>6. ASSUME NEW t \in Topics, Write(t) PROVE ConsumersOK'
  <2>1. position[t] < Len(topic[t]) /\ UNCHANGED <<position, committed>>
    BY <1>1, <1>6 DEF Write
  <2>2. CASE To(t, "failed")
    BY <1>a, <2>1, <2>2
  <2>3. CASE consumer' = [consumer EXCEPT ![t].at = @ + 1]
    <3>1. [consumer[t] EXCEPT !.at = @ + 1] \in Places /\ consumer[t] \in Places
      BY <1>1 DEF Places
    <3>2. consumer' = [consumer EXCEPT ![t] = [consumer[t] EXCEPT !.at = @ + 1]]
      BY <2>3
    <3>3. QED
      BY <1>4, <2>1, <3>1, <3>2
  <2>4. QED
    BY <1>6, <2>2, <2>3 DEF Write, Failed
<1>7. ASSUME NEW t \in Topics, Answer(t) PROVE ConsumersOK'
  BY <1>1, <1>4, <1>7 DEF Answer, Failed, To, Places
<1>8. ASSUME NEW t \in Topics, Fail(t) PROVE ConsumersOK'
  BY <1>1, <1>4, <1>8 DEF Fail, To, Places
<1>9. ASSUME NEW t \in Topics, Mark(t) PROVE ConsumersOK'
  <2>1. consumer' = [consumer EXCEPT ![t] = Idle] /\ Idle \in Places /\ Idle.pc = "idle"
    BY <1>9 DEF Mark, Idle, Places
  <2>2. position[t] < Len(topic[t]) /\ position' = [position EXCEPT ![t] = @ + 1]
    BY <1>1, <1>9 DEF Mark
  <2>3. committed' \in {committed, [committed EXCEPT ![t] = position[t] + 1]} /\ UNCHANGED topic
    BY <1>9 DEF Mark
  <2>4. /\ position[t] \in Nat /\ position'[t] = position[t] + 1
        /\ consumer' \in [Topics -> Places] /\ position' \in [Topics -> Nat]
    BY <1>1, <2>1, <2>2
  <2>5. committed' \in [Topics -> Nat \cup {Fresh}] /\ committed'[t] \in {committed[t], position'[t]}
    BY <1>1, <2>3, <2>4
  <2>6. committed[t] <= position[t] /\ committed[t] \in Nat \cup {Fresh}
    BY <1>1
  <2>7. committed'[t] <= position'[t]
    BY <2>4, <2>5, <2>6 DEF Fresh
  <2>8. ASSUME NEW u \in Topics \ {t}
        PROVE  position'[u] = position[u] /\ committed'[u] = committed[u] /\ consumer'[u] = consumer[u]
    BY <1>1, <2>1, <2>2, <2>3
  <2>9. position'[t] <= Len(topic'[t]) /\ consumer'[t].pc = "idle"
    BY <1>1, <1>2, <2>1, <2>2, <2>3, <2>4
  <2>10. QED
    BY <1>1, <2>3, <2>4, <2>5, <2>7, <2>8, <2>9
<1>10. ASSUME NEW topics, StartAgain(topics) PROVE ConsumersOK'
  BY <1>1, <1>2, <1>10 DEF StartAgain, Idle, Places, Fresh
<1>11. QED
  BY <1>3, <1>5, <1>6, <1>7, <1>8, <1>9, <1>10 DEF Next, Consume, Publish, Rebalance, Crash, vars

LEMMA TypeStep == TypeOK /\ [Next]_vars => TypeOK'
<1> SUFFICES ASSUME TypeOK, [Next]_vars PROVE TypeOK'
  OBVIOUS
<1>1. TopicsOK' /\ ConsumersOK' /\ Grown /\ TopicsOK /\ ConsumersOK
  BY TopicsStep, ConsumersStep, TopicsGrow DEF TypeOK
<1>2. DOMAIN op \subseteq DOMAIN op' /\ DOMAIN op \subseteq Events
  <2>1. op \in Seq(Operations) /\ Len(op) <= MaxEvents /\ DOMAIN op \subseteq DOMAIN op'
    BY <1>1 DEF Grown, TopicsOK
  <2>2. DOMAIN op = 1..Len(op) /\ Len(op) \in Nat
    BY <2>1
  <2>3. QED
    BY <2>1, <2>2, SyncAssumption DEF Events
<1> DEFINE Rest ==
      /\ together \in BOOLEAN /\ overlapped \in BOOLEAN /\ restarts \in Nat
      /\ reach \in [Topics -> Reaches] /\ (together => reach["primary"] = reach["retry"])
      /\ store \in [StoreNames -> SUBSET Events]
      /\ settled \in DOMAIN op \cup {0} /\ passed \subseteq Optional
      /\ answers \subseteq [event : Events, success : BOOLEAN] /\ lost \subseteq Events
      /\ attempts \in [Events -> Nat]
<1>3. Rest
  BY DEF TypeOK
<1>4. ASSUME NEW o \in Operations, Publish(o) PROVE Rest'
  BY <1>2, <1>3, <1>4 DEF Publish
<1>5. ASSUME NEW t \in Topics, Take(t) PROVE Rest'
  BY <1>3, <1>5 DEF Take
<1>6. ASSUME NEW t \in Topics, consumer[t].pc # "idle" PROVE Event(t) \in DOMAIN op /\ Event(t) \in Events
  BY <1>1, <1>6, MessageType
<1>7. ASSUME NEW t \in Topics, Failed(t), Event(t) \in Events PROVE attempts' \in [Events -> Nat]
  BY <1>3, <1>7 DEF Failed
<1>8. ASSUME NEW t \in Topics, Write(t) PROVE Rest'
  <2>1. Event(t) \in Events
    BY <1>6, <1>8 DEF Write
  <2>2. attempts' \in [Events -> Nat]
    BY <1>3, <1>7, <1>8, <2>1 DEF Write
  <2>3. store' \in [StoreNames -> SUBSET Events]
    <3>1. ASSUME NEW step, NEW left \in SUBSET Events
          PROVE  After(step, Event(t), left) \in [StoreNames -> SUBSET Events]
      BY <1>3, <2>1 DEF After
    <3>2. \A step : \A left \in SUBSET Rows(step) : left \in SUBSET Events \/ ~(step.stores \subseteq StoreNames)
      BY <1>3 DEF Rows
    <3>3. consumer[t].at \in 1..9
      BY <1>1, <1>8, StepsAre DEF Write, ConsumersOK, Places
    <3>4. Work[consumer[t].at].stores \subseteq StoreNames
      BY <3>3, WorkIs
    <3>5. Done(Work[consumer[t].at], Event(t)) \subseteq [StoreNames -> SUBSET Events]
      BY <3>1, <3>2, <3>4 DEF Done
    <3>6. HalfDone(Work[consumer[t].at], Event(t)) \subseteq [StoreNames -> SUBSET Events]
      BY <1>3, <3>1, <3>2, <3>4, <3>5 DEF HalfDone
    <3>7. QED
      BY <1>3, <1>8, <3>5, <3>6 DEF Write
  <2>4. QED
    BY <1>3, <1>8, <2>2, <2>3 DEF Write
<1>9. ASSUME NEW t \in Topics, Answer(t) PROVE Rest'
  <2>1. Event(t) \in DOMAIN op /\ Event(t) \in Events
    BY <1>6, <1>9 DEF Answer
  <2>2. attempts' \in [Events -> Nat]
    BY <1>3, <1>7, <1>9, <2>1 DEF Answer
  <2>a. [event |-> Event(t), success |-> TRUE] \in [event : Events, success : BOOLEAN]
    BY <2>1
  <2>3. answers' \subseteq [event : Events, success : BOOLEAN] /\ lost' \subseteq Events
    <3>1. /\ answers' \in {answers, answers \cup {[event |-> Event(t), success |-> TRUE]}}
          /\ lost' \in {lost, lost \cup {Event(t)}}
      BY <1>9 DEF Answer
    <3>2. QED
      BY <1>3, <2>1, <2>a, <3>1
  <2>4. QED
    BY <1>3, <1>9, <2>1, <2>2, <2>3 DEF Answer
<1>10. ASSUME NEW t \in Topics, Fail(t) PROVE Rest'
  <2>1. Event(t) \in Events
    BY <1>6, <1>10 DEF Fail
  <2>2. [event |-> Event(t), success |-> FALSE] \in [event : Events, success : BOOLEAN]
    BY <2>1
  <2>3. /\ answers' \in {answers, answers \cup {[event |-> Event(t), success |-> FALSE]}}
        /\ lost' \in {lost, lost \cup {Event(t)}}
    BY <1>10 DEF Fail
  <2>4. answers' \subseteq [event : Events, success : BOOLEAN] /\ lost' \subseteq Events
    BY <1>3, <2>1, <2>2, <2>3
  <2>5. QED
    BY <1>3, <1>10, <2>4 DEF Fail
<1>11. ASSUME NEW t \in Topics, Mark(t) PROVE Rest'
  BY <1>3, <1>11 DEF Mark
<1>12. ASSUME NEW topics \in SUBSET Topics, StartAgain(topics) PROVE restarts' \in Nat /\ lost' \subseteq Events
  <2>1. ASSUME NEW t \in topics
        PROVE  position'[t] \in Nat /\ position'[t] <= Len(topic[t]) /\ position[t] \in Nat
    BY <1>1, <1>12 DEF StartAgain, ConsumersOK
  <2>2. ASSUME NEW t \in topics, NEW i \in position[t] + 1 .. position'[t] PROVE topic[t][i].event \in Events
    <3>1. topic[t] \in Seq(Messages) /\ i \in 1..Len(topic[t])
      BY <1>1, <2>1, <2>2 DEF TopicsOK
    <3>2. topic[t][i] \in Messages
      BY <3>1
    <3>3. QED
      BY <3>2 DEF Messages
  <2>3. lost' \subseteq Events
    <3>1. lost' = lost \cup UNION {{topic[t][i].event : i \in position[t] + 1 .. position'[t]} : t \in topics}
      BY <1>12 DEF StartAgain
    <3>2. \A t \in topics : {topic[t][i].event : i \in position[t] + 1 .. position'[t]} \subseteq Events
      BY <2>2
    <3>3. QED
      BY <1>3, <3>1, <3>2
  <2>4. QED
    BY <1>3, <1>12, <2>3 DEF StartAgain
<1>a. ASSUME NEW t \in Topics, Rebalance(t) PROVE Rest'
  <2>1. {t} \in SUBSET Topics /\ StartAgain({t}) /\ UNCHANGED reach
    BY <1>a DEF Rebalance
  <2>2. restarts' \in Nat /\ lost' \subseteq Events
    BY <1>12, <2>1
  <2>3. QED
    BY <1>3, <2>1, <2>2 DEF StartAgain
<1>b. ASSUME NEW t \in Topics, Crash(t) PROVE Rest'
  <2>1. Process(t) \in SUBSET Topics /\ StartAgain(Process(t)) /\ (together => Process(t) = Topics)
    BY <1>b DEF Crash, Process
  <2>2. /\ reach' \in [Topics -> Reaches]
        /\ together => reach'["primary"] = reach'["retry"]
    BY <1>3, <1>b, <2>1 DEF Crash, Topics
  <2>3. QED
    BY <1>3, <1>12, <2>1, <2>2 DEF StartAgain
<1>13. ASSUME UNCHANGED vars PROVE Rest'
  BY <1>3, <1>13 DEF vars
<1>14. Rest'
  BY <1>4, <1>5, <1>8, <1>9, <1>10, <1>11, <1>a, <1>b, <1>13 DEF Next, Consume
<1>15. QED
  BY <1>1, <1>14 DEF TypeOK

(* The declared types, whatever fails and restarts.                        *)
THEOREM TypeCorrect == Spec => []TypeOK
<1>1. Init => TypeOK
  BY InitInv DEF IInv
<1>2. QED
  BY <1>1, TypeStep, PTL DEF Spec

LEMMA AttemptsGrow ==
  TypeOK /\ [Next]_vars => \A e \in Events : attempts[e] \in Nat /\ attempts'[e] \in Nat
                                             /\ attempts[e] <= attempts'[e]
<1> SUFFICES ASSUME TypeOK, [Next]_vars, NEW e \in Events
             PROVE  attempts[e] \in Nat /\ attempts'[e] \in Nat /\ attempts[e] <= attempts'[e]
  OBVIOUS
<1>1. attempts \in [Events -> Nat]
  BY DEF TypeOK
<1>2. UNCHANGED attempts \/ \E t \in Topics : Failed(t)
  BY DEF Next, Consume, Publish, Take, Write, Answer, Fail, Mark, Rebalance, Crash, StartAgain, vars
<1>3. QED
  BY <1>1, <1>2 DEF Failed

(* A consumer is moved by its own steps only, or starts again.             *)
LEMMA OthersStay ==
  ASSUME TypeOK, NEW u \in Topics, Consume(u), NEW t \in Topics \ {u}
  PROVE  consumer'[t] = consumer[t] /\ position'[t] = position[t]
<1>1. consumer \in [Topics -> Places] /\ position \in [Topics -> Nat]
  BY DEF TypeOK, ConsumersOK
<1>2. CASE Take(u)
  BY <1>1, <1>2 DEF Take, To
<1>3. CASE Write(u)
  BY <1>1, <1>3 DEF Write, Failed, To
<1>4. CASE Answer(u)
  BY <1>1, <1>4 DEF Answer, Failed, To
<1>5. CASE Fail(u)
  BY <1>1, <1>5 DEF Fail, To
<1>6. CASE Mark(u)
  BY <1>1, <1>6 DEF Mark
<1>7. QED
  BY <1>2, <1>3, <1>4, <1>5, <1>6 DEF Consume

StartsAgain(t) ==
  /\ consumer'[t] = Idle
  /\ position'[t] = IF committed[t] = Fresh THEN Len(topic[t]) ELSE committed[t]
  /\ {topic[t][i].event : i \in position[t] + 1 .. position'[t]} \subseteq lost'

LEMMA Moves ==
  ASSUME TypeOK, [Next]_vars, NEW t \in Topics
  PROVE  \/ consumer'[t] = consumer[t] /\ position'[t] = position[t]
         \/ Consume(t) \/ StartsAgain(t)
<1>1. ASSUME NEW topics, StartAgain(topics), t \in topics PROVE StartsAgain(t)
  BY <1>1 DEF StartAgain, StartsAgain
<1>2. ASSUME NEW topics, StartAgain(topics), t \notin topics
      PROVE  consumer'[t] = consumer[t] /\ position'[t] = position[t]
  BY <1>2 DEF StartAgain
<1>3. QED
  BY <1>1, <1>2, OthersStay DEF Next, Publish, Rebalance, Crash, vars

LEMMA CountedStep ==
  TypeOK /\ Counted /\ FailureIsFinal /\ [Next]_vars => Counted' /\ FailureIsFinal'
<1> SUFFICES ASSUME TypeOK, Counted, FailureIsFinal, [Next]_vars PROVE Counted' /\ FailureIsFinal'
  OBVIOUS
<1>1. TopicsOK /\ ConsumersOK /\ Grown /\ TypeOK' /\ TopicsOK' /\ ConsumersOK'
  BY TopicsGrow, TypeStep DEF TypeOK
<1>2. ASSUME NEW t \in Topics, consumer[t].pc = "failed"
      PROVE  /\ Message(t).count < attempts[Event(t)] /\ Message(t).count \in Nat
             /\ Event(t) \in Events /\ attempts[Event(t)] \in Nat
  BY <1>1, <1>2, MessageType, AttemptsGrow DEF Counted
<1>3. ASSUME NEW u \in Topics, NEW i \in DOMAIN topic'[u]
      PROVE  topic'[u][i].count <= attempts'[topic'[u][i].event]
  <2>1. i \in 1..Len(topic'[u]) /\ topic'[u][i] \in Messages /\ topic[u] \in Seq(Messages)
    BY <1>1 DEF Grown, TopicsOK
  <2>2. topic'[u][i].event \in Events /\ topic'[u][i].count \in Nat
    BY <2>1 DEF Messages
  <2>3. CASE i \in 1..Len(topic[u])
    <3>1. topic'[u][i] = topic[u][i] /\ topic[u][i].count <= attempts[topic[u][i].event]
      BY <1>1, <2>1, <2>3 DEF Grown, Counted
    <3>2. QED
      BY <2>2, <3>1, AttemptsGrow
  <2>4. CASE topic'[u][i].count = 0
    BY <2>2, <2>4, AttemptsGrow
  <2>5. ASSUME NEW t \in Topics, consumer[t].pc = "failed", topic'[u][i] = Again(t), UNCHANGED attempts
        PROVE  topic'[u][i].count <= attempts'[topic'[u][i].event]
    BY <1>2, <2>5 DEF Again
  <2>6. QED
    BY <2>1, <2>3, <2>4, <2>5, TopicsGrow DEF Added
<1>4. ASSUME NEW t \in Topics, consumer'[t].pc = "failed"
      PROVE  Message(t)'.count < attempts'[Event(t)']
  <2>1. position'[t] = position[t] /\ (consumer[t].pc = "failed" \/ (consumer[t].pc = "work" /\ Failed(t)))
    <3>1. consumer \in [Topics -> Places] /\ position \in [Topics -> Nat]
      BY <1>1 DEF ConsumersOK
    <3>2. CASE Take(t)
      BY <1>4, <3>1, <3>2 DEF Take, To, Places
    <3>3. CASE Write(t)
      BY <1>4, <3>1, <3>3 DEF Write, Places
    <3>4. CASE Answer(t)
      BY <1>4, <3>1, <3>4 DEF Answer, To, Places
    <3>5. CASE Fail(t)
      BY <1>4, <3>1, <3>5 DEF Fail, To, Places
    <3>6. CASE Mark(t) \/ StartsAgain(t)
      BY <1>4, <3>1, <3>6 DEF Mark, StartsAgain, Idle
    <3>7. QED
      BY <1>4, <3>2, <3>3, <3>4, <3>5, <3>6, Moves DEF Consume
  <2>2. Message(t)' = Message(t) /\ Event(t)' = Event(t)
    BY <1>1, <2>1, MessageStays DEF ConsumersOK
  <2>3. Message(t).count \in Nat /\ Event(t) \in Events
    BY <1>1, <2>1, MessageType
  <2>4. CASE consumer[t].pc = "failed"
    BY <1>2, <2>2, <2>4, AttemptsGrow
  <2>5. CASE consumer[t].pc = "work" /\ Failed(t)
    <3>1. Message(t).count <= attempts[Event(t)]
      <4>1. position[t] + 1 \in 1..Len(topic[t]) /\ topic[t] \in Seq(Messages)
        BY <1>1, <2>5, MessageType DEF TopicsOK
      <4>2. position[t] + 1 \in DOMAIN topic[t]
        BY <4>1
      <4>3. QED
        BY <4>2 DEF Counted, Message, Event
    <3>2. attempts'[Event(t)] = attempts[Event(t)] + 1
      BY <2>3, <2>5 DEF Failed, TypeOK
    <3>3. QED
      BY <2>2, <2>3, <3>1, <3>2, AttemptsGrow
  <2>6. QED
    BY <2>1, <2>4, <2>5
<1>5. FailureIsFinal'
  <2>1. ASSUME NEW e \in Events, [event |-> e, success |-> FALSE] \in answers'
        PROVE  attempts'[e] > MaxRetry
    <3>1. CASE [event |-> e, success |-> FALSE] \in answers
      BY <3>1, AttemptsGrow, SyncAssumption DEF FailureIsFinal
    <3>2. CASE [event |-> e, success |-> FALSE] \notin answers
      <4>1. PICK t \in Topics : Fail(t) /\ e = Event(t) /\ ~MayRetry(Again(t).count)
        BY <2>1, <3>2 DEF Next, Consume, Publish, Take, Write, Answer, Fail, Mark, Rebalance, Crash, StartAgain, vars
      <4>2. Message(t).count >= MaxRetry /\ consumer[t].pc = "failed"
        BY <1>2, <4>1, SyncAssumption DEF Fail, MayRetry, Again
      <4>3. QED
        BY <1>2, <4>1, <4>2, AttemptsGrow, SyncAssumption
    <3>3. QED
      BY <3>1, <3>2
  <2>2. QED
    BY <2>1 DEF FailureIsFinal
<1>6. QED
  BY <1>3, <1>4, <1>5 DEF Counted

(* A failure that was published is final: the event failed in the primary  *)
(* consumer and in every retry (ConsumeClaim of retry.go).                 *)
THEOREM FailuresAreFinal == Spec => []FailureIsFinal
<1>1. Init => TypeOK /\ Counted /\ FailureIsFinal
  BY InitInv DEF IInv
<1>2. QED
  BY <1>1, TypeStep, CountedStep, PTL DEF Spec

-------------------------------------------------------------------------------
(* The stores.                                                             *)

LEMMA ExclusiveStep == TypeOK /\ Exclusive /\ [Next]_vars => Exclusive'
<1> SUFFICES ASSUME TypeOK, Exclusive, [Next]_vars, ~overlapped'
             PROVE  /\ \A t, u \in Topics : Busy(t)' /\ Busy(u)' => t = u
                    /\ settled' # 0 => \A t \in Topics : consumer'[t].pc # "work"
  BY DEF Exclusive
<1>1. ~overlapped /\ consumer \in [Topics -> Places]
  BY DEF TypeOK, ConsumersOK, Next, Consume, Publish, Take, Write, Answer, Fail, Mark, Rebalance, Crash, StartAgain, vars
<1>2. /\ \A t, u \in Topics : Busy(t) /\ Busy(u) => t = u
      /\ settled # 0 => \A t \in Topics : consumer[t].pc # "work"
  BY <1>1 DEF Exclusive
<1>3. CASE UNCHANGED <<consumer, settled>>
  BY <1>2, <1>3 DEF Busy
<1>4. ASSUME NEW t \in Topics, Consume(t),
             Busy(t)' => Busy(t), settled' = settled, consumer'[t].pc = "work" => consumer[t].pc = "work"
      PROVE  /\ \A s, u \in Topics : Busy(s)' /\ Busy(u)' => s = u
             /\ settled' # 0 => \A u \in Topics : consumer'[u].pc # "work"
  BY <1>2, <1>4, OthersStay DEF Busy
<1>5. ASSUME NEW t \in Topics, Take(t)
      PROVE  /\ \A s, u \in Topics : Busy(s)' /\ Busy(u)' => s = u
             /\ settled' # 0 => \A u \in Topics : consumer'[u].pc # "work"
  <2>1. CASE To(t, "mark") /\ UNCHANGED settled
    BY <1>1, <1>4, <1>5, <2>1 DEF Consume, Busy, To, Places
  <2>2. CASE settled' = 0 /\ overlapped' = (overlapped \/ \E u \in Topics \ {t} : Busy(u))
    <3>1. \A u \in Topics \ {t} : ~Busy(u) /\ consumer'[u] = consumer[u]
      BY <1>5, <2>2, OthersStay DEF Consume
    <3>2. \A u \in Topics : Busy(u)' => u = t
      BY <3>1 DEF Busy
    <3>3. QED
      BY <2>2, <3>2
  <2>3. QED
    BY <1>5, <2>1, <2>2 DEF Take
<1>6. ASSUME NEW t \in Topics, Write(t)
      PROVE  /\ \A s, u \in Topics : Busy(s)' /\ Busy(u)' => s = u
             /\ settled' # 0 => \A u \in Topics : consumer'[u].pc # "work"
  BY <1>4, <1>6 DEF Consume, Write, Busy
<1>7. ASSUME NEW t \in Topics, Answer(t)
      PROVE  /\ \A s, u \in Topics : Busy(s)' /\ Busy(u)' => s = u
             /\ settled' # 0 => \A u \in Topics : consumer'[u].pc # "work"
  <2>1. consumer[t].pc = "work" /\ consumer'[t].pc \in {"mark", "failed"}
    BY <1>1, <1>7 DEF Answer, Failed, To, Places
  <2>2. \A u \in Topics \ {t} : ~Busy(u) /\ consumer'[u] = consumer[u]
    BY <1>2, <1>7, <2>1, OthersStay DEF Consume, Busy
  <2>3. QED
    BY <2>1, <2>2 DEF Busy
<1>8. ASSUME NEW t \in Topics, Fail(t)
      PROVE  /\ \A s, u \in Topics : Busy(s)' /\ Busy(u)' => s = u
             /\ settled' # 0 => \A u \in Topics : consumer'[u].pc # "work"
  BY <1>1, <1>4, <1>8 DEF Consume, Fail, To, Busy, Places
<1>a. ASSUME NEW topics, StartAgain(topics)
      PROVE  /\ \A s, u \in Topics : Busy(s)' /\ Busy(u)' => s = u
             /\ settled' # 0 => \A u \in Topics : consumer'[u].pc # "work"
  BY <1>2, <1>a DEF StartAgain, Idle, Busy
<1>9. ASSUME NEW t \in Topics, Mark(t)
      PROVE  /\ \A s, u \in Topics : Busy(s)' /\ Busy(u)' => s = u
             /\ settled' # 0 => \A u \in Topics : consumer'[u].pc # "work"
  BY <1>1, <1>4, <1>9 DEF Consume, Mark, Idle, Busy
<1>10. QED
  BY <1>3, <1>5, <1>6, <1>7, <1>8, <1>9, <1>a DEF Next, Consume, Publish, Rebalance, Crash, vars

(* A step that does not end the handling did what it is for, in a store    *)
(* the consumer reaches; only the graph may not have been put.             *)
LEMMA WriteDoes ==
  ASSUME TypeOK, Written, NEW t \in Topics, Write(t), consumer'[t].pc = "work",
         NEW s \in StoreNames, s \notin Optional \ reach[t]
  PROVE  /\ consumer'[t].at = consumer[t].at + 1 /\ consumer[t].at \in 1..Steps(Event(t))
         /\ consumer[t].at = DeleteAt(s) => store'[s] = {}
         /\ consumer[t].at = PutAt(s) /\ s \in Content(Event(t)) =>
              \/ \E left \in SUBSET store[s] : store'[s] = left \cup {Event(t)}
              \/ s = "graph" /\ store'[s] = store[s]
         /\ consumer[t].at = PutAt(s) /\ s \notin Content(Event(t)) => store'[s] = store[s]
         /\ consumer[t].at \notin {DeleteAt(s), PutAt(s)} => store'[s] = store[s]
<1> DEFINE at == consumer[t].at
           e == Event(t)
           step == Work[at]
<1>1. consumer \in [Topics -> Places] /\ store \in [StoreNames -> SUBSET Events]
  BY DEF TypeOK, ConsumersOK
<1>2. consumer'[t].at = at + 1 /\ at \in 1..Steps(e) /\ at \in 1..9
  <2>1. at \in Nat \ {0} /\ at <= Steps(e) /\ Steps(e) \in {4, 9}
    BY <1>1, StepsAre DEF Write, Places
  <2>2. consumer'[t].at = at + 1
    BY <1>1 DEF Write, Failed, To, Places
  <2>3. QED
    BY <2>1, <2>2
<1>3. \/ PassesOver(t, step) /\ store' = store
      \/ ~PassesOver(t, step) /\ store' \in Done(step, e)
      \/ ~PassesOver(t, step) /\ MaySkip(step) /\ store' \in HalfDone(step, e) \cup {store}
  BY <1>1 DEF Write, Failed, To, Places
<1>4. /\ step.put <=> at > 4
      /\ \A z \in StoreNames : z \in step.stores <=> at \in {DeleteAt(z), PutAt(z)}
      /\ at > 4 => \E z \in StoreNames : at = PutAt(z) /\ step = Put(z)
  BY <1>2, WorkIs
<1>5. DeleteAt(s) \in 1..4 /\ PutAt(s) \in 5..9 /\ \A z \in StoreNames : PutAt(z) = PutAt(s) => z = s
  BY DEF DeleteAt, PutAt, StoreNames
<1> HIDE DEF step
<1>6. CASE at \notin {DeleteAt(s), PutAt(s)}
  <2>1. s \notin step.stores
    BY <1>4, <1>6
  <2>2. \A left : After(step, e, left)[s] = store[s]
    BY <2>1 DEF After
  <2>3. store'[s] = store[s]
    BY <1>3, <2>2 DEF Done, HalfDone
  <2>4. QED
    BY <1>2, <1>6, <2>3
<1>7. CASE at = DeleteAt(s)
  <2>1. ~step.put /\ s \in step.stores
    BY <1>4, <1>5, <1>7
  <2>2. step.stores \cap Optional \subseteq {s}
    BY <1>4, <1>7 DEF Optional, StoreNames, DeleteAt, PutAt
  <2>3. ~PassesOver(t, step) /\ ~MaySkip(step)
    BY <2>1, <2>2 DEF PassesOver, MaySkip
  <2>4. store' = After(step, e, {})
    BY <1>3, <2>1, <2>3 DEF Done
  <2>5. store'[s] = {}
    BY <2>1, <2>4 DEF After
  <2>6. QED
    BY <1>2, <1>5, <1>7, <2>5
<1>8. CASE at = PutAt(s)
  <2>1. step.put /\ step = Put(s)
    BY <1>4, <1>5, <1>8
  <2>2. step.stores = {s} /\ Rows(step) = store[s]
    BY <2>1 DEF Put, Rows
  <2>3. CASE s \in Content(e)
    <3>1. ~PassesOver(t, step)
      BY <2>1, <2>2, <2>3 DEF PassesOver, Optional
    <3>2. ASSUME store' \in Done(step, e)
          PROVE  \E left \in SUBSET store[s] : store'[s] = left \cup {e}
      <4>1. PICK left \in SUBSET store[s] : store' = After(step, e, left)
        BY <2>2, <3>2 DEF Done
      <4>2. store'[s] = left \cup {e}
        BY <2>1, <2>2, <4>1 DEF After
      <4>3. QED
        BY <4>2
    <3>3. ASSUME MaySkip(step), store' \in HalfDone(step, e) \cup {store}
          PROVE  \/ \E left \in SUBSET store[s] : store'[s] = left \cup {e}
                 \/ s = "graph" /\ store'[s] = store[s]
      <4>1. s = "graph"
        BY <2>2, <3>3 DEF MaySkip
      <4>2. step # Delete({"vectors"})
        BY <2>1 DEF Put, Delete
      <4>3. store' = store \/ store' \in Done(step, e)
        BY <3>3, <4>2 DEF HalfDone
      <4>4. QED
        BY <3>2, <4>1, <4>3
    <3>4. \/ \E left \in SUBSET store[s] : store'[s] = left \cup {e}
          \/ s = "graph" /\ store'[s] = store[s]
      BY <1>3, <3>1, <3>2, <3>3
    <3>5. QED
      BY <1>2, <1>5, <1>8, <2>3, <3>4
  <2>4. CASE s \notin Content(e)
    <3>1. PassesOver(t, step)
      BY <2>1, <2>2, <2>4 DEF PassesOver
    <3>2. QED
      BY <1>2, <1>3, <1>5, <1>8, <2>4, <3>1
  <2>5. QED
    BY <2>3, <2>4
<1>9. QED
  BY <1>6, <1>7, <1>8

(* The vectors are put only by one who reaches them.                       *)
LEMMA VectorsReached ==
  ASSUME TypeOK, NEW t \in Topics, Write(t), consumer'[t].pc = "work", consumer[t].at = 7,
         op[Event(t)] \in {"upsert", "bare", "delete"}
  PROVE  "vectors" \in reach[t]
<1>1. consumer \in [Topics -> Places]
  BY DEF TypeOK, ConsumersOK
<1>2. Work[7] = Put("vectors") /\ Put("vectors").put /\ Put("vectors").stores = {"vectors"}
  BY DEF Work, Put
<1>3. "vectors" \in Content(Event(t))
  BY StepsAre DEF Write, Content, StoreNames
<1>4. ~PassesOver(t, Work[7]) /\ ~MaySkip(Work[7])
  BY <1>2, <1>3 DEF PassesOver, MaySkip
<1>5. Possible(t, Work[7])
  BY <1>1, <1>4 DEF Write, Failed, To, Places
<1>6. QED
  BY <1>2, <1>5 DEF Possible

(* The stores are written by a consumer at work, which moves; what one     *)
(* reaches stays the same while it works.                                  *)
LEMMA StoreStays ==
  ASSUME TypeOK, [Next]_vars
  PROVE  store' = store \/ \E u \in Topics : Write(u) /\ consumer[u].pc = "work"
                                              /\ consumer'[u] # consumer[u] /\ UNCHANGED settled
<1>1. consumer \in [Topics -> Places]
  BY DEF TypeOK, ConsumersOK
<1>2. ASSUME NEW u \in Topics, Write(u)
      PROVE  consumer[u].pc = "work" /\ consumer'[u] # consumer[u] /\ UNCHANGED settled
  BY <1>1, <1>2 DEF Write, Failed, To, Places
<1>3. QED
  BY <1>2 DEF Next, Consume, Publish, Take, Answer, Fail, Mark, Rebalance, Crash, StartAgain, vars

LEMMA ReachStays ==
  ASSUME TypeOK, [Next]_vars, NEW t \in Topics, consumer'[t].pc # "idle"
  PROVE  reach'[t] = reach[t]
<1>1. reach \in [Topics -> Reaches]
  BY DEF TypeOK
<1>2. ASSUME NEW u \in Topics, Crash(u) PROVE reach'[t] = reach[t]
  BY <1>1, <1>2 DEF Crash, StartAgain, Idle
<1>3. QED
  BY <1>2 DEF Next, Consume, Publish, Take, Write, Answer, Fail, Mark, Rebalance, vars

LEMMA WrittenStep == TypeOK /\ Exclusive /\ Written /\ [Next]_vars => Written'
<1> SUFFICES ASSUME TypeOK, Exclusive, Written, [Next]_vars, NEW t \in Topics, consumer'[t].pc = "work"
             PROVE  /\ op'[Event(t)'] \in {"upsert", "bare", "delete"}
                    /\ consumer'[t].at <= Steps(Event(t))' + 1
                    /\ ~overlapped' => Behind(t)'
  BY DEF Written
<1>1. TopicsOK /\ ConsumersOK /\ consumer \in [Topics -> Places] /\ (~overlapped' => ~overlapped)
  BY DEF TypeOK, ConsumersOK, Next, Consume, Publish, Take, Write, Answer, Fail, Mark, Rebalance, Crash,
         StartAgain, vars
<1>2. ASSUME position'[t] = position[t], position[t] < Len(topic[t]),
             op[Event(t)] \in {"upsert", "bare", "delete"}
      PROVE  /\ op'[Event(t)'] \in {"upsert", "bare", "delete"} /\ Event(t)' = Event(t)
             /\ Steps(Event(t))' = Steps(Event(t)) /\ Content(Event(t))' = Content(Event(t))
  BY <1>2, MessageStays DEF Steps, Content
<1>3. ASSUME consumer[t].pc = "work"
      PROVE  /\ position[t] < Len(topic[t]) /\ op[Event(t)] \in {"upsert", "bare", "delete"}
             /\ consumer[t].at <= Steps(Event(t)) + 1 /\ (~overlapped => Behind(t))
  BY <1>1, <1>3 DEF Written, ConsumersOK
<1>4. reach'[t] = reach[t]
  BY ReachStays
<1>5. CASE consumer'[t] = consumer[t] /\ position'[t] = position[t]
  <2>1. ASSUME ~overlapped' PROVE store' = store
    <3>1. \A u \in Topics : consumer[u].pc = "work" => u = t
      BY <1>1, <1>5, <2>1 DEF Exclusive, Busy
    <3>2. QED
      BY <1>5, <3>1, StoreStays
  <2>2. ~overlapped' => Behind(t)'
    BY <1>1, <1>2, <1>3, <1>4, <1>5, <2>1 DEF Behind
  <2>3. QED
    BY <1>2, <1>3, <1>5, <2>2
<1>6. CASE Take(t)
  <2>1. /\ consumer'[t] = [pc |-> "work", at |-> 1] /\ UNCHANGED <<position, op>>
        /\ position[t] < Len(topic[t]) /\ op[Event(t)] # "broken"
    BY <1>1, <1>6 DEF Take, To, Unreadable, Places
  <2>2. op[Event(t)] \in Operations
    BY <1>1, <2>1, MessageType DEF TopicsOK
  <2>3. op[Event(t)] \in {"upsert", "bare", "delete"}
    BY <2>1, <2>2 DEF Operations
  <2>4. Steps(Event(t)) \in {4, 9}
    BY StepsAre
  <2>5. Behind(t)'
    <3>1. consumer'[t].at = 1 /\ \A s \in StoreNames : DeleteAt(s) \in 1..4 /\ PutAt(s) \in 5..9
      BY <2>1 DEF DeleteAt, PutAt, StoreNames
    <3>2. QED
      BY <3>1 DEF Behind
  <2>6. QED
    BY <1>2, <2>1, <2>3, <2>4, <2>5
<1>7. CASE Write(t)
  <2>1. UNCHANGED <<position, op, topic>> /\ consumer[t].pc = "work"
    BY <1>7 DEF Write
  <2>2. Event(t)' = Event(t) /\ Content(Event(t))' = Content(Event(t))
    BY <1>2, <1>3, <2>1
  <2>3. consumer'[t].at = consumer[t].at + 1 /\ consumer[t].at \in 1..Steps(Event(t)) /\ consumer[t].at \in 1..9
    <3>1. "articles" \in StoreNames /\ "articles" \notin Optional \ reach[t]
      BY DEF StoreNames, Optional
    <3>2. QED
      BY <1>7, <3>1, WriteDoes, StepsAre
  <2>4. ASSUME NEW s \in StoreNames \ (Optional \ reach[t]), Behind(t)
        PROVE  /\ consumer'[t].at \in DeleteAt(s) + 1 .. PutAt(s) => store'[s] = {}
               /\ consumer'[t].at > PutAt(s) =>
                    \/ store'[s] = IF s \in Content(Event(t)) THEN {Event(t)} ELSE {}
                    \/ s = "graph" /\ store'[s] = {}
    <3>1. /\ DeleteAt(s) \in 1..4 /\ PutAt(s) \in 5..9
      BY DEF DeleteAt, PutAt, StoreNames
    <3>2. /\ consumer[t].at \in DeleteAt(s) + 1 .. PutAt(s) => store[s] = {}
          /\ consumer[t].at > PutAt(s) =>
               \/ store[s] = IF s \in Content(Event(t)) THEN {Event(t)} ELSE {}
               \/ s = "graph" /\ store[s] = {}
      BY <2>4 DEF Behind
    <3>3. CASE consumer[t].at = DeleteAt(s)
      BY <1>7, <2>3, <2>4, <3>1, <3>3, WriteDoes
    <3>4. CASE consumer[t].at = PutAt(s)
      <4>1. store[s] = {}
        BY <2>3, <3>1, <3>2, <3>4
      <4>2. \A left \in SUBSET store[s] : left = {}
        BY <4>1
      <4>3. \/ store'[s] = IF s \in Content(Event(t)) THEN {Event(t)} ELSE {}
            \/ s = "graph" /\ store'[s] = {}
        BY <1>7, <2>4, <3>4, <4>1, <4>2, WriteDoes
      <4>4. QED
        BY <2>3, <3>1, <3>4, <4>3
    <3>5. CASE consumer[t].at \notin {DeleteAt(s), PutAt(s)}
      <4>1. store'[s] = store[s]
        BY <1>7, <2>4, <3>5, WriteDoes
      <4>2. QED
        BY <2>3, <3>1, <3>2, <3>5, <4>1
    <3>6. QED
      BY <3>3, <3>4, <3>5
  <2>5. ASSUME Behind(t) PROVE consumer'[t].at > 7 => "vectors" \in reach[t]
    <3>1. CASE consumer[t].at = 7
      BY <1>3, <1>7, <2>1, <3>1, VectorsReached
    <3>2. QED
      BY <2>3, <2>5, <3>1 DEF Behind
  <2>6. ~overlapped' => Behind(t)'
    <3>1. SUFFICES ASSUME Behind(t) PROVE Behind(t)'
      BY <1>1, <1>3, <2>1
    <3>2. (StoreNames \ (Optional \ reach[t]))' = StoreNames \ (Optional \ reach[t])
      BY <1>4
    <3>3. ASSUME NEW s \in StoreNames \ (Optional \ reach[t])
          PROVE  /\ consumer'[t].at \in DeleteAt(s) + 1 .. PutAt(s) => store'[s] = {}
                 /\ consumer'[t].at > PutAt(s) =>
                      \/ store'[s] = IF s \in Content(Event(t))' THEN {Event(t)'} ELSE {}
                      \/ s = "graph" /\ store'[s] = {}
      BY <2>2, <2>4, <3>1
    <3>4. QED
      BY <1>4, <2>5, <3>1, <3>2, <3>3 DEF Behind
  <2>7. consumer'[t].at <= Steps(Event(t)) + 1
    BY <2>3, StepsAre
  <2>8. QED
    BY <1>2, <1>3, <2>1, <2>6, <2>7
<1>8. CASE Answer(t) \/ Fail(t) \/ Mark(t) \/ StartsAgain(t)
  BY <1>1, <1>8 DEF Answer, Failed, Fail, Mark, StartsAgain, Idle, To, Places
<1>9. QED
  BY <1>5, <1>6, <1>7, <1>8, Moves DEF Consume

LEMMA StoresAgreeStep ==
  TypeOK /\ Exclusive /\ Written /\ StoresAgree /\ [Next]_vars => StoresAgree'
<1> DEFINE Goal ==
      /\ \A s \in StoreNames \ passed' :
           \/ store'[s] = IF s \in Content(settled)' THEN {settled'} ELSE {}
           \/ s = "graph" /\ store'[s] = {}
      /\ Content(settled)' # {} => settled' \in store'["vectors"]
<1> SUFFICES ASSUME TypeOK, Exclusive, Written, StoresAgree, [Next]_vars, settled' # 0, ~overlapped'
             PROVE  Goal
  BY DEF StoresAgree
<1>1. ~overlapped
  BY DEF Next, Consume, Publish, Take, Write, Answer, Fail, Mark, Rebalance, Crash, StartAgain, vars
<1>2. CASE settled' = settled /\ passed' = passed
  <2>1. store' = store
    BY <1>1, <1>2, StoreStays DEF Exclusive
  <2>2. op'[settled] = op[settled]
    BY <1>2, TopicsGrow DEF Grown, TypeOK
  <2>3. Content(settled)' = Content(settled)
    BY <1>2, <2>2 DEF Content
  <2>4. QED
    BY <1>1, <1>2, <2>1, <2>3 DEF StoresAgree
<1>3. ASSUME NEW t \in Topics, Answer(t)
      PROVE  Goal
  <2>1. /\ settled' = Event(t) /\ UNCHANGED <<store, op>> /\ consumer[t].pc = "work"
        /\ consumer[t].at = Steps(Event(t)) + 1 /\ passed' = Optional \ reach[t]
    BY <1>3 DEF Answer
  <2>2. Behind(t) /\ op[Event(t)] \in {"upsert", "bare", "delete"}
    BY <1>1, <2>1 DEF Written
  <2>3. Content(settled)' = Content(Event(t))
    BY <2>1 DEF Content
  <2>4. \A s \in StoreNames : DeleteAt(s) \in 1..4 /\ PutAt(s) \in 5..9
    BY DEF DeleteAt, PutAt, StoreNames
  <2>5. CASE op[Event(t)] = "delete"
    <3>1. consumer[t].at = 5 /\ Content(Event(t)) = {}
      BY <2>1, <2>5, StepsAre DEF Content
    <3>2. QED
      BY <2>1, <2>2, <2>3, <2>4, <3>1 DEF Behind
  <2>6. CASE op[Event(t)] # "delete"
    <3>1. consumer[t].at = 10
      BY <2>1, <2>6, StepsAre
    <3>2. /\ \A s \in StoreNames \ passed' :
               \/ store[s] = IF s \in Content(Event(t)) THEN {Event(t)} ELSE {}
               \/ s = "graph" /\ store[s] = {}
          /\ "vectors" \in reach[t]
      <4>1. ASSUME NEW s \in StoreNames \ (Optional \ reach[t])
            PROVE  \/ store[s] = IF s \in Content(Event(t)) THEN {Event(t)} ELSE {}
                   \/ s = "graph" /\ store[s] = {}
        <5>1. 10 > PutAt(s)
          BY <2>4
        <5>2. consumer[t].at > PutAt(s)
          BY <3>1, <5>1
        <5>3. QED
          BY <2>2, <5>2 DEF Behind
      <4>2. consumer[t].at > 7
        BY <3>1
      <4>3. QED
        BY <2>1, <2>2, <4>1, <4>2 DEF Behind
    <3>3. "vectors" \in Content(Event(t)) /\ "vectors" \in StoreNames \ passed'
      BY <2>1, <2>2, <2>6, <3>2 DEF Content, StoreNames
    <3>4. store["vectors"] = {Event(t)}
      BY <3>2, <3>3
    <3>5. QED
      BY <2>1, <2>3, <3>2, <3>4
  <2>7. QED
    BY <2>5, <2>6
<1>4. (settled' = settled /\ passed' = passed) \/ \E t \in Topics : Answer(t)
  BY DEF Next, Consume, Publish, Take, Write, Fail, Mark, Rebalance, Crash, StartAgain, vars
<1>5. QED
  BY <1>2, <1>3, <1>4

(* Once an event has been handled to its end without the other consumer at *)
(* work, the stores in which its process deletes hold what it says (Invoke *)
(* of doc_ingest.tool.go), whatever handling was cut off before it, and    *)
(* whatever processes without a client of Milvus or Neo4j left behind.     *)
THEOREM StoresAlwaysAgree == Spec => []StoresAgree
<1>1. Init => TypeOK /\ Exclusive /\ Written /\ StoresAgree
  BY InitInv DEF IInv
<1>2. QED
  BY <1>1, TypeStep, ExclusiveStep, WrittenStep, StoresAgreeStep, PTL DEF Spec

-------------------------------------------------------------------------------
(* What EventsAreAnswered needs of every state: an event that can be read  *)
(* is answered, or was lost, or one of its messages is still to be handled *)
(* by the consumer of its topic.                                           *)
Answered(e) == \E success \in BOOLEAN : [event |-> e, success |-> success] \in answers
Ahead(e) ==
  \E t \in Topics : \E i \in DOMAIN topic[t] :
    /\ topic[t][i].event = e
    /\ i > position[t] + 1 \/ (i = position[t] + 1 /\ consumer[t].pc # "mark")
NoneIsForgotten ==
  \A e \in DOMAIN op : op[e] # "broken" => e \in lost \/ Answered(e) \/ Ahead(e)

LEMMA NothingIsTakenBack ==
  [Next]_vars => answers \subseteq answers' /\ lost \subseteq lost'
BY DEF Next, Publish, Consume, Take, Write, Answer, Fail, Failed, Mark, Rebalance, Crash, StartAgain, vars

(* What a consumer does with the message at its position: until that is    *)
(* marked its event is answered or lost, or has another message.           *)
LEMMA HandledIsNotForgotten ==
  ASSUME TypeOK, [Next]_vars, NEW t \in Topics, Consume(t),
         position[t] < Len(topic[t]), consumer[t].pc # "mark",
         NEW e, e = Event(t), op[e] # "broken"
  PROVE  e \in lost' \/ Answered(e)' \/ Ahead(e)'
<1>1. TopicsOK /\ ConsumersOK /\ Grown /\ ConsumersOK' /\ TopicsOK'
  BY TopicsGrow, TypeStep DEF TypeOK
<1>2. /\ position[t] + 1 \in 1..Len(topic[t]) /\ Message(t) \in Messages
      /\ consumer[t] \in Places /\ position[t] \in Nat
  BY <1>1, MessageType DEF ConsumersOK
<1>3. /\ position[t] + 1 \in DOMAIN topic'[t]
      /\ topic'[t][position[t] + 1].event = e
  <2>1. topic[t] \in Seq(Messages) /\ topic'[t] \in Seq(Messages)
    BY <1>1 DEF TopicsOK
  <2>2. position[t] + 1 \in 1..Len(topic'[t])
    BY <1>1, <1>2, <2>1 DEF Grown
  <2>3. topic'[t][position[t] + 1] = topic[t][position[t] + 1]
    BY <1>1, <1>2 DEF Grown
  <2>4. QED
    BY <2>1, <2>2, <2>3 DEF Event, Message
<1>4. ASSUME position'[t] = position[t], consumer'[t].pc # "mark" PROVE Ahead(e)'
  <2>1. \E i \in DOMAIN topic'[t] :
          topic'[t][i].event = e /\ i = position'[t] + 1 /\ consumer'[t].pc # "mark"
    BY <1>3, <1>4
  <2>2. QED
    BY <2>1 DEF Ahead
<1>5. CASE Take(t)
  <2>1. consumer' = [consumer EXCEPT ![t] = [pc |-> "work", at |-> 1]] /\ position' = position
    BY <1>5 DEF Take, Unreadable
  <2>2. consumer'[t].pc = "work"
    BY <1>1, <2>1 DEF ConsumersOK
  <2>3. QED
    BY <1>4, <2>1, <2>2
<1>6. CASE Write(t)
  <2>1. consumer'[t].pc \in {"work", "failed"} /\ position' = position
    BY <1>1, <1>6 DEF Write, Failed, To, ConsumersOK, Places
  <2>2. QED
    BY <1>4, <2>1
<1>7. CASE Answer(t)
  <2>1. /\ position' = position
        /\ \/ answers' = answers \cup {[event |-> Event(t), success |-> TRUE]}
           \/ lost' = lost \cup {Event(t)}
           \/ To(t, "failed")
    BY <1>7 DEF Answer, Failed
  <2>2. CASE To(t, "failed")
    BY <1>1, <1>4, <2>1, <2>2 DEF To, ConsumersOK, Places
  <2>3. QED
    BY <2>1, <2>2 DEF Answered
<1>8. CASE Fail(t)
  <2>1. CASE lost' = lost \cup {Event(t)}
    BY <2>1
  <2>2. CASE answers' = answers \cup {[event |-> Event(t), success |-> FALSE]}
    BY <2>2 DEF Answered
  <2>3. CASE topic' = [topic EXCEPT !["retry"] = Append(@, Again(t))]
    <3> DEFINE last == Len(topic["retry"]) + 1
    <3>1. topic["retry"] \in Seq(Messages) /\ Len(topic["retry"]) \in Nat
      BY <1>1 DEF TopicsOK, Topics
    <3>2. topic'["retry"] = Append(topic["retry"], Again(t))
      BY <1>1, <2>3 DEF TopicsOK, Topics
    <3>3. last \in DOMAIN topic'["retry"] /\ topic'["retry"][last] = Again(t)
      BY <3>1, <3>2
    <3>4. /\ position["retry"] \in Nat /\ position["retry"] <= Len(topic["retry"])
          /\ consumer["retry"].pc # "idle" => position["retry"] < Len(topic["retry"])
          /\ position["retry"] = position'["retry"]
      BY <1>1, <1>8 DEF ConsumersOK, Topics, Fail
    <3>5. last > position'["retry"] + 1 \/ (last = position'["retry"] + 1 /\ t # "retry"
                                            /\ consumer["retry"].pc = "idle")
      <4>1. t = "retry" => consumer["retry"].pc # "idle"
        BY <1>8 DEF Fail
      <4>2. QED
        BY <3>1, <3>4, <4>1
    <3>6. t # "retry" => consumer'["retry"] = consumer["retry"]
      BY <1>1, <1>8 DEF Fail, To, ConsumersOK, Topics
    <3>7. Again(t).event = e
      BY DEF Again
    <3> HIDE DEF last
    <3>8. QED
      BY <3>3, <3>5, <3>6, <3>7 DEF Ahead, Topics
  <2>4. QED
    BY <1>8, <2>1, <2>2, <2>3 DEF Fail
<1>9. QED
  BY <1>5, <1>6, <1>7, <1>8 DEF Consume, Mark

LEMMA ForgetsNone ==
  ASSUME TypeOK, NoneIsForgotten, [Next]_vars
  PROVE  NoneIsForgotten'
<1>1. TopicsOK /\ ConsumersOK /\ Grown /\ ConsumersOK' /\ TopicsOK'
  BY TopicsGrow, TypeStep DEF TypeOK
<1> SUFFICES ASSUME NEW e \in DOMAIN op', op'[e] # "broken"
             PROVE  e \in lost' \/ Answered(e)' \/ Ahead(e)'
  BY DEF NoneIsForgotten
<1>2. CASE e \notin DOMAIN op
  <2>1. PICK o \in Operations : Publish(o)
    BY <1>2 DEF Next, Consume, Take, Write, Answer, Fail, Mark, Rebalance, Crash, StartAgain, vars
  <2> DEFINE last == Len(topic["primary"]) + 1
             m == [event |-> Len(op) + 1, count |-> 0]
  <2>2. topic["primary"] \in Seq(Messages) /\ Len(topic["primary"]) \in Nat /\ op \in Seq(Operations)
    BY <1>1 DEF TopicsOK, Topics
  <2>3. e = Len(op) + 1
    BY <1>2, <2>1, <2>2 DEF Publish
  <2>4. topic'["primary"] = Append(topic["primary"], m)
    BY <1>1, <2>1 DEF Publish, TopicsOK, Topics
  <2>5. last \in DOMAIN topic'["primary"] /\ topic'["primary"][last] = m
    BY <2>2, <2>4
  <2>6. /\ position'["primary"] \in Nat /\ position'["primary"] <= Len(topic["primary"])
        /\ consumer'["primary"].pc # "idle" => position'["primary"] < Len(topic["primary"])
    BY <1>1, <2>1 DEF ConsumersOK, Topics, Publish
  <2>7. last > position'["primary"] + 1
          \/ (last = position'["primary"] + 1 /\ consumer'["primary"].pc # "mark")
    BY <2>2, <2>6
  <2>8. m.event = e
    BY <2>3
  <2> HIDE DEF last, m
  <2>9. Ahead(e)'
    BY <2>5, <2>7, <2>8 DEF Ahead, Topics
  <2>10. QED
    BY <2>9
<1>3. CASE e \in DOMAIN op /\ (e \in lost \/ Answered(e))
  BY <1>3, NothingIsTakenBack DEF Answered
<1>4. CASE e \in DOMAIN op /\ Ahead(e)
  <2>1. op[e] # "broken"
    BY <1>1, <1>4 DEF Grown
  <2>2. PICK t \in Topics : \E i \in DOMAIN topic[t] :
          /\ topic[t][i].event = e
          /\ i > position[t] + 1 \/ (i = position[t] + 1 /\ consumer[t].pc # "mark")
    BY <1>4 DEF Ahead
  <2>3. PICK i \in DOMAIN topic[t] :
          /\ topic[t][i].event = e
          /\ i > position[t] + 1 \/ (i = position[t] + 1 /\ consumer[t].pc # "mark")
    BY <2>2
  <2>4. /\ topic[t] \in Seq(Messages) /\ topic'[t] \in Seq(Messages)
        /\ position[t] \in Nat /\ position'[t] \in Nat
    BY <1>1 DEF TopicsOK, ConsumersOK
  <2>5. i \in 1..Len(topic[t]) /\ i \in DOMAIN topic'[t] /\ topic'[t][i].event = e
    <3>1. i \in 1..Len(topic[t])
      BY <2>4
    <3>2. i \in 1..Len(topic'[t]) /\ topic'[t][i] = topic[t][i]
      BY <1>1, <2>4, <3>1 DEF Grown
    <3>3. QED
      BY <2>3, <2>4, <3>1, <3>2
  <2>6. ASSUME i > position'[t] + 1 \/ (i = position'[t] + 1 /\ consumer'[t].pc # "mark")
        PROVE  Ahead(e)'
    BY <2>5, <2>6 DEF Ahead
  <2>7. CASE consumer'[t] = consumer[t] /\ position'[t] = position[t]
    BY <2>3, <2>6, <2>7
  <2>8. CASE Mark(t)
    <3>1. consumer[t].pc = "mark" /\ position'[t] = position[t] + 1 /\ consumer'[t] = Idle
      BY <1>1, <2>8 DEF Mark, ConsumersOK
    <3>2. i >= position'[t] + 1 /\ consumer'[t].pc # "mark"
      BY <2>3, <2>4, <2>5, <3>1 DEF Idle
    <3>3. QED
      BY <2>4, <2>5, <2>6, <3>2
  <2>9. CASE StartsAgain(t)
    <3>1. /\ consumer'[t] = Idle
          /\ position'[t] = IF committed[t] = Fresh THEN Len(topic[t]) ELSE committed[t]
          /\ {topic[t][j].event : j \in position[t] + 1 .. position'[t]} \subseteq lost'
      BY <2>9 DEF StartsAgain
    <3>2. CASE committed[t] = Fresh
      <4>1. i \in position[t] + 1 .. position'[t]
        BY <2>3, <2>4, <2>5, <3>1, <3>2
      <4>2. QED
        BY <2>3, <3>1, <4>1
    <3>3. CASE committed[t] # Fresh
      <4>1. position'[t] <= position[t]
        BY <1>1, <3>1, <3>3 DEF ConsumersOK
      <4>2. i >= position'[t] + 1 /\ consumer'[t].pc # "mark"
        BY <2>3, <2>4, <2>5, <3>1, <4>1 DEF Idle
      <4>3. QED
        BY <2>4, <2>5, <2>6, <4>2
    <3>4. QED
      BY <3>2, <3>3
  <2>10. CASE Consume(t) /\ ~Mark(t)
    <3>1. consumer[t].pc # "mark" /\ position'[t] = position[t]
      BY <2>10 DEF Consume, Take, Write, Answer, Fail
    <3>2. CASE i > position[t] + 1
      BY <2>6, <3>1, <3>2
    <3>3. CASE i = position[t] + 1
      <4>1. Event(t) = e /\ position[t] < Len(topic[t])
        BY <2>3, <2>4, <2>5, <3>3 DEF Event, Message
      <4>2. QED
        BY <2>1, <2>10, <3>1, <4>1, HandledIsNotForgotten
    <3>4. QED
      BY <2>3, <3>2, <3>3
  <2>11. QED
    BY <2>7, <2>8, <2>9, <2>10, Moves
<1>5. QED
  BY <1>1, <1>2, <1>3, <1>4 DEF NoneIsForgotten, Grown

(* No event is forgotten: whatever fails, is sent twice or is read again   *)
(* after a restart, a message of it is still to come until it is answered, *)
(* unless one could not be sent or was skipped.                            *)
THEOREM NoneIsEverForgotten == Spec => []NoneIsForgotten
<1>1. Init => TypeOK /\ NoneIsForgotten
  BY InitInv DEF IInv, Init, NoneIsForgotten
<1>2. (TypeOK /\ NoneIsForgotten) /\ [Next]_vars => (TypeOK /\ NoneIsForgotten)'
  BY TypeStep, ForgetsNone
<1>3. QED
  BY <1>1, <1>2, PTL DEF Spec

===============================================================================
