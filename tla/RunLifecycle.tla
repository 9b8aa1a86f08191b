---------------------------- MODULE RunLifecycle ----------------------------
(***************************************************************************)
(* What the Run persistence promises to whoever reads a Run: it moves along *)
(* the edges of domain/runs.py, every edge costs exactly one revision (the  *)
(* revision is the optimistic-concurrency token of every caller), the       *)
(* "interrupted" state is never left behind by a committed transaction, a   *)
(* terminal Run never moves again, and the final output row appears with    *)
(* the completion of a composed Run and at no other moment.                 *)
(* Several Runs may move in one step: recover_expired is one transaction.   *)
(***************************************************************************)
EXTENDS RunDomain

CONSTANT RunIds

VARIABLES state, revision, output
vars == <<state, revision, output>>

Init ==
  /\ state = [r \in RunIds |-> "received"]
  /\ revision = [r \in RunIds |-> 0]
  /\ output = [r \in RunIds |-> FALSE]

Stay(r) ==
  /\ state'[r] = state[r]
  /\ revision'[r] = revision[r]
  /\ output'[r] = output[r]

(* One edge of the domain's table, completing a composed Run with its output. *)
Advance(r) ==
  /\ <<state[r], state'[r]>> \in RunEdges
  /\ state'[r] # "interrupted"
  /\ revision'[r] = revision[r] + 1
  /\ output'[r] = (output[r] \/ <<state[r], state'[r]>> = <<"composing", "completed">>)

(* Recovery takes the two edges through "interrupted" in one transaction. *)
Recover(r) ==
  /\ <<state[r], "interrupted">> \in RunEdges
  /\ <<"interrupted", state'[r]>> \in RunEdges
  /\ revision'[r] = revision[r] + 2
  /\ output'[r] = output[r]

Next == \A r \in RunIds : Stay(r) \/ Advance(r) \/ Recover(r)

Spec == Init /\ [][Next]_vars
=============================================================================
