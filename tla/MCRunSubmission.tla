-------------------------- MODULE MCRunSubmission --------------------------
(* One user repeats a request and uses its key for another one, with a skill; *)
(* a second user sends one, and one that carries too much; the limiter has    *)
(* room for one user.                                                         *)
EXTENDS RunSubmission, TLC

CONSTANTS ask, other, skill, heavy, r1

MCUserOf == ask :> "ann" @@ other :> "bob" @@ skill :> "ann" @@ heavy :> "bob"
MCKeyOf == [q \in Requests |-> "k"]
MCFingerprintOf == [q \in Requests |-> q]

MCPolicy == [text |-> 1, count |-> 2, each |-> 2, total |-> 3, media |-> {"text/plain"}]

Text == [media |-> "text/plain", bytes |-> 2]
Plain == [principal |-> "active", unsafe |-> FALSE, bytes |-> 1, attachments |-> <<>>, skill |-> "none"]
MCFacts ==
  ask :> Plain @@ other :> [Plain EXCEPT !.attachments = <<Text>>]
    @@ skill :> [Plain EXCEPT !.skill = "allowed"] @@ heavy :> [Plain EXCEPT !.attachments = <<Text, Text>>]

(* Every request the rules could meet, two attachments at the most and one    *)
(* too many.                                                                  *)
Attachments ==
  UNION {[1..n -> [media : {"text/plain", "text/html", Unknown}, bytes : {1, 2, 3, Unknown}]] : n \in 0..2}
    \union {[i \in 1..3 |-> [media |-> "text/plain", bytes |-> 1]]}
MCInputs ==
  [principal : {"active", "inactive", "id_mismatch", "role_mismatch"}, unsafe : BOOLEAN,
   bytes : 1..2, attachments : Attachments, skill : {"none", "allowed", "denied", "unavailable"}]

(* The guardrail states only decisions that GuardrailDecision accepts, and    *)
(* lets through exactly what satisfies the whole policy at once.              *)
ASSUME GuardrailSound ==
  \A q \in MCInputs :
    /\ IsDecision(Decision(q))
    /\ Admissible(q) <=>
         /\ q.principal = "active" /\ ~q.unsafe /\ q.bytes <= MCPolicy.text
         /\ q.skill \in {"none", "allowed"}
         /\ Len(q.attachments) <= MCPolicy.count
         /\ \A a \in Range(q.attachments) :
              a.media \in MCPolicy.media /\ a.bytes # Unknown /\ a.bytes \in 0..MCPolicy.each
         /\ Total(q.attachments) <= MCPolicy.total

MCSymmetry == Permutations(Deliveries)
=============================================================================
