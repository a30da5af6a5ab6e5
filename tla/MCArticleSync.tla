---------------------------- MODULE MCArticleSync ----------------------------
(***************************************************************************)
(* Two events of an article.  In some behaviours sends fail; in others the *)
(* one process, or one of two, starts again.                               *)
(***************************************************************************)
EXTENDS ArticleSync

VARIABLE theme
Everywhere == \A t \in Topics : reach[t] = Optional
MCInit ==
  /\ Init /\ theme \in {"sends", "restarts", "apart"}
  /\ together <=> theme # "apart"
  /\ theme # "restarts" => Everywhere

(* The bounds.  Only where one process starts again are there stores that  *)
(* it does not reach.                                                      *)
NoSendFails  == lost' # lost => restarts' # restarts
Published(o) == \A e \in DOMAIN op' : op'[e] \in o
Harmless     == attempts' # attempts => store' = store
OneFailsForGood == attempts'[1] + attempts'[2] <= MaxRetry + 1

Sends ==
  /\ theme = "sends" /\ restarts' = 0 /\ Harmless
  /\ Published({"upsert", "delete", "broken"})
Restarts ==
  /\ theme = "restarts" /\ NoSendFails /\ attempts'[1] + attempts'[2] <= 1
  /\ reach = [t \in Topics |-> Optional] \/ reach' \in {reach, [t \in Topics |-> Optional]}
  /\ Published({"upsert", "bare", "delete"})
Apart ==
  /\ theme = "apart" /\ NoSendFails /\ OneFailsForGood /\ Harmless
  /\ reach' = reach
  /\ Published({"upsert", "delete"})

(* Consumers at work at the same time take turns: one stops only where the *)
(* deletion is over, or the article is put and its chunks are not; events  *)
(* are published then, too.                                                *)
Underway(t) == consumer[t].pc = "work" /\ consumer[t].at \notin {1, 5, 6, 10}
TakeTurns ==
  \A t \in Topics : Underway(t) =>
    /\ op' = op
    /\ restarts' # restarts \/ \A u \in Topics \ {t} : consumer'[u] = consumer[u]

MCNext ==
  /\ Next /\ (Sends \/ Restarts \/ Apart) /\ TakeTurns
  /\ op' # op => consumer["primary"].pc = "idle"
  /\ UNCHANGED theme
MCSpec == MCInit /\ [][MCNext]_<<vars, theme>> /\ Fairness
=============================================================================
