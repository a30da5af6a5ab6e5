---------------------------- MODULE MCFactDelivery ----------------------------
(***************************************************************************)
(* The ledger for TLC.  Either the facts of a catalogue of MCFactLedger    *)
(* arrive in any order, or two workers carry a short stream into it: a     *)
(* favourite and its retraction, a retraction whose predecessor comes by   *)
(* another route, and a fact of a second user.                             *)
(***************************************************************************)
EXTENDS FactDelivery, MCFactLedger

CONSTANTS w1, w2

Favourite(key, src, seq, action, supersedes, at) ==
  [Fact(key, src, seq, action, supersedes, at) EXCEPT !.kind = "product_action"]

Elsewhere == Favourite("old", "app", 1, "assert", null, 0)

Offsets ==
  <<[subject |-> s1, envelope |-> Favourite("add", "dc", 1, "assert", null, 1)],
    [subject |-> s1, envelope |-> Favourite("drop", "dc", 2, "retract", "old", 2)],
    [subject |-> s2, envelope |-> Favourite("other", "dc", 3, "assert", null, 3)],
    [subject |-> s1, envelope |-> Favourite("undo", "dc", 4, "retract", "add", 4)]>>

(* Another payload under the key of offset 3.                              *)
Rival == Favourite("other", "app", 2, "assert", null, 5)

StreamFacts   == {Offsets[o].envelope : o \in DOMAIN Offsets} \cup {Elsewhere, Rival}
Others        == {<<s1, Elsewhere>>, <<s2, Rival>>}
FactsOfAll    == AllFacts \cup StreamFacts

(* Bound: a catalogue or the stream, never both.                           *)
MCNext ==
  \/ published = 0 /\ LedgerNext /\ UNCHANGED deliveryVars
  \/ DeliveryNext /\ Arrived' \subseteq StreamFacts

MCSpec == DeliveryInit /\ [][MCNext]_allVars /\ Fairness
===============================================================================
