------------------------------- MODULE MCHost -------------------------------
(* Two policy versions of one profile that share a candidate: both let raw    *)
(* text leave, of which the candidate of the first wants none, and the second *)
(* asks for zero retention; three orders, of which two reuse one idempotency  *)
(* key; the Root's call, which carries raw text.  The callers of all          *)
(* components are the same names.                                             *)
EXTENDS HostComponents, MCRunAnswer, TLC

CONSTANTS
  v1, v2, o1, o2, o3,    \* policy versions, orders
  c1, c2, c3, c4,        \* callers
  call1,
  older, newer           \* processes, of which the newer brings one migration more

Candidate(id, classes, retention, raw, priority) ==
  [id |-> id, profile |-> "root", provider |-> "openai", model |-> id, region |-> NoRegion,
   classes |-> classes, kinds |-> {"policy", "channel"},
   purposes |-> {"orchestration"}, retention |-> retention,
   raw |-> raw, priority |-> priority, active |-> TRUE]

Policy(id, classes, raw, zeroRetention) ==
  [id |-> id, profile |-> "root", providers |-> {"openai"}, models |-> {"small", "medium", "large"},
   regions |-> {}, classes |-> classes, kinds |-> {"policy", "channel", "tool"},
   purposes |-> {"orchestration"},
   zeroRetention |-> zeroRetention, raw |-> raw]

Small == Candidate("small", {"internal"}, "provider_default", FALSE, 1)
Medium == Candidate("medium", {"internal", "restricted"}, "zero_retention", FALSE, 2)
Large == Candidate("large", {"internal", "restricted"}, "zero_retention", TRUE, 3)

MCSnapshot ==
     v1 :> [policy |-> Policy("p1", {"internal"}, TRUE, FALSE), candidates |-> {Small}]
  @@ v2 :> [policy |-> Policy("p2", {"internal", "restricted"}, TRUE, TRUE),
            candidates |-> {Small, Medium, Large}]

MCKeyOf == o1 :> "k1" @@ o2 :> "k1" @@ o3 :> "k2"

MCCallOf == call1 :> RootCall("root", {"internal"})

(* Every decision and every impact that these can come to is one that its     *)
(* contract admits.                                                           *)
ASSUME DecisionsAdmitted ==
  \A v, w \in {v1, v2}, redacted \in BOOLEAN :
    IsEgressDecision(EgressDecision(MCCallOf[call1], MCSnapshot[v].policy,
                                    MCSnapshot[w].candidates, redacted))

ASSUME ImpactsAdmitted ==
  \A v, w \in {v1, v2} :
    IsImpact(Impact(MCSnapshot[v], MCSnapshot[w])) /\ IsImpact(Impact(NoBaseline, MCSnapshot[w]))

MCPackage == older :> <<"m1">> @@ newer :> <<"m1", "m2">>
MCBackoff == [k \in 1..3 |-> k - 1]
=============================================================================
