----------------------------- MODULE MCFactLedger -----------------------------
(***************************************************************************)
(* Catalogues of envelopes for TLC: FactLedger on a few facts that arrive  *)
(* in every order, repeated, by the direct way and through an alias.       *)
(***************************************************************************)
EXTENDS FactLedger

CONSTANTS s1, s2, alias, null

(* A self report at position seq of source src.                            *)
Fact(key, src, seq, action, supersedes, at) ==
  [key |-> key, source |-> src, seq |-> seq, action |-> action,
   kind |-> "self_report", supersedes |-> supersedes, impression |-> null,
   evidence |-> null, context |-> null, at |-> at]

Shown(key, action, supersedes, impression, evidence, context, at) ==
  [Fact(key, "app", 0, action, supersedes, at) EXCEPT
     !.kind = "impression", !.impression = impression,
     !.evidence = evidence, !.context = context]

Read(key, action, supersedes, context, at) ==
  [Fact(key, "app", 0, action, supersedes, at) EXCEPT
     !.kind = "reading", !.context = context]

(* A fact, its correction, the retraction of that and a new correction of  *)
(* the retraction; a rival correction; a second payload under one key.     *)
ChainFacts ==
  {Fact("a", "p", 1, "assert", null, 1),
   Fact("b", "p", 3, "correct", "a", 2),
   Fact("c", "p", 2, "retract", "b", 3),
   Fact("d", "q", 1, "correct", "c", 4),
   Fact("rival", "q", 2, "correct", "a", 5),
   Fact("a", "p", 1, "assert", null, 6)}

(* Three corrections that would wait for each other, another fact at the   *)
(* position of one of them, and positions 1 to 3 of one source.            *)
CircleFacts ==
  {Fact("x", "q", 3, "correct", "y", 7),
   Fact("y", "q", 2, "correct", "z", 8),
   Fact("z", "r", 0, "correct", "x", 9),
   Fact("v", "q", 1, "assert", null, 10),
   Fact("w", "q", 3, "assert", null, 11)}

(* An impression, its correction and retraction, a new display under the   *)
(* same ID, two readings and a correction of one of them.                  *)
DisplayFacts ==
  {Shown("i", "assert", null, "view", "proof", "item", 1),
   Shown("j", "correct", "i", "view", "proof", "item", 2),
   Fact("k", "app", 0, "retract", "j", 3),
   Shown("m", "assert", null, "view", "proof2", "item", 4),
   Read("r", "assert", null, "item", 5),
   Read("t", "correct", "r", "item", 6),
   Read("early", "assert", null, "item", 0)}

ViewDisplays == {<<"view", "proof">>, <<"view", "proof2">>}

(* What comes through an alias that could mean either of two subjects.     *)
AliasFacts ==
  {Fact("a", "p", 1, "assert", null, 1),
   Fact("a", "p", 1, "assert", null, 6),
   Fact("b", "p", 3, "correct", "a", 2)}

(* An impression waits under the ID of one that is active.                 *)
BlockedFacts ==
  {Shown("p", "assert", null, "other", "proof", "item", 1),
   Shown("d", "correct", "p", "view", "proof", "item", 2),
   Shown("q", "assert", null, "view", "proof2", "item", 3),
   Fact("u", "app", 0, "retract", "q", 4)}

NoDisplays == {}
AllFacts == ChainFacts \cup CircleFacts \cup DisplayFacts

(* Bound: the facts of one catalogue at a time, all but those of the alias *)
(* for one subject and by the direct way.                                  *)
Arrived ==
  UNION {{ledger[s].rows[k].envelope : k \in DOMAIN ledger[s].rows} : s \in Subjects}
    \cup {parked[p].envelope : p \in DOMAIN parked}
OneCatalogue ==
  \/ Arrived \subseteq AliasFacts
  \/ /\ \E c \in {ChainFacts, CircleFacts, DisplayFacts} : Arrived \subseteq c
     /\ ledger[s2] = EmptyLedger /\ parked = <<>>

(* The steps within the bound.                                             *)
Bounded(A) == A /\ OneCatalogue'
LedgerNext ==
  \/ \E s \in Subjects, e \in Envelopes : Bounded(AppendFact(s, e))
  \/ \E a \in Aliases, e \in Envelopes : Bounded(ParkUnmapped(a, e))
  \/ \E a \in Aliases, k \in Keys, s \in Subjects : Bounded(BindUnmapped(a, k, s))
  \/ \E s \in Subjects, k \in Keys, d \in Displays : Bounded(LinkImpression(s, k, d))
  \/ \E s \in Subjects : Bounded(ReconcilePending(s))
===============================================================================
