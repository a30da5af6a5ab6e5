---------------------------- MODULE BuildOutcome ----------------------------
(***************************************************************************)
(* What a content build promises to everything downstream of its ledger:   *)
(* it is open, then decided at most once - accepted with one result or     *)
(* cancelled - and the acceptance is announced in the step that decides it.*)
(***************************************************************************)
CONSTANTS Builds, Refs

VARIABLES
  outcome,     \* the decision on every build
  announced    \* the <<build, result>> pairs published to the outbox

vars == <<outcome, announced>>

Open      == [kind |-> "open"]
Cancelled == [kind |-> "cancelled"]
Ready(r)  == [kind |-> "ready", ref |-> r]

Init ==
  /\ outcome   = [b \in Builds |-> Open]
  /\ announced = {}

Accept(b, r) ==
  /\ outcome[b] = Open
  /\ outcome'   = [outcome EXCEPT ![b] = Ready(r)]
  /\ announced' = announced \cup {<<b, r>>}

Withdraw(b) ==
  /\ outcome[b] = Open
  /\ outcome' = [outcome EXCEPT ![b] = Cancelled]
  /\ UNCHANGED announced

Next == \E b \in Builds : Withdraw(b) \/ \E r \in Refs : Accept(b, r)

Spec == Init /\ [][Next]_vars

=============================================================================
