---------------------------- MODULE ModelEgress ----------------------------
(***************************************************************************)
(* What may leave: the pure part of ModelPolicyService.guard.  A policy and   *)
(* its candidate profiles are records of the names they allow; a call is the  *)
(* record of what it asks and of the sources it carries.                      *)
(*   policy     profile, providers, models, regions, classes, kinds,          *)
(*              purposes, zeroRetention, raw                                  *)
(*   candidate  id, profile, provider, model, region, classes, kinds,         *)
(*              purposes, retention, raw, priority, active                    *)
(*   call       profile, purpose, sources, a sequence of                      *)
(*              [classes, kind, raw, role]                                    *)
(***************************************************************************)
EXTENDS Integers, FiniteSets

CONSTANT NoRegion    \* a candidate whose region is None

(* ModelEgressPolicy.__post_init__: what may be left out of a policy is its   *)
(* regions, nothing else.                                                     *)
IsPolicy(policy) ==
  /\ policy.providers # {} /\ policy.models # {} /\ policy.classes # {}
  /\ policy.kinds # {} /\ policy.purposes # {}
  /\ {policy.zeroRetention, policy.raw} \subseteq BOOLEAN
  /\ NoRegion \notin policy.regions

MaxPriority == 100000

(* ModelProfile.__post_init__.                                                *)
IsCandidate(candidate) ==
  /\ candidate.classes # {} /\ candidate.kinds # {} /\ candidate.purposes # {}
  /\ candidate.retention \in {"provider_default", "zero_retention"}
  /\ candidate.priority \in 0..MaxPriority
  /\ {candidate.raw, candidate.active} \subseteq BOOLEAN

(* ModelPolicySnapshot.__post_init__: candidates of one profile, told apart   *)
(* by their id and by their priority.                                         *)
IsSnapshot(snapshot) ==
  /\ IsPolicy(snapshot.policy)
  /\ snapshot.candidates # {}
  /\ \A c \in snapshot.candidates : IsCandidate(c) /\ c.profile = snapshot.policy.profile
  /\ \A c, d \in snapshot.candidates : c # d => c.id # d.id /\ c.priority # d.priority

SourcesOf(call) == {call.sources[i] : i \in DOMAIN call.sources}

(* ModelInputSource.__post_init__.                                            *)
IsSource(source) ==
  source.classes # {} /\ source.raw \in BOOLEAN /\ source.role \in {"system", "user"}

(* ModelCallRequest.__post_init__: what the system says comes first, and      *)
(* there is something of the user.                                            *)
IsCall(call) ==
  /\ \A s \in SourcesOf(call) : IsSource(s)
  /\ \E s \in SourcesOf(call) : s.role = "user"
  /\ \A i, j \in DOMAIN call.sources :
       i < j /\ call.sources[i].role = "user" => call.sources[j].role = "user"

(* RootContextBuilder.build: the rules and the catalog are the system's, the   *)
(* request is the user's and leaves as it was typed.                           *)
RootCall(profile, classes) ==
  [profile |-> profile, purpose |-> "orchestration",
   sources |-> <<[classes |-> {"internal"}, kind |-> "policy", raw |-> FALSE, role |-> "system"],
                 [classes |-> classes, kind |-> "channel", raw |-> TRUE, role |-> "user"]>>]

(* _classification and _source_kinds: what all the sources carry together.    *)
ClassesOf(call) == UNION {s.classes : s \in SourcesOf(call)}
KindsOf(call) == {s.kind : s \in SourcesOf(call)}
CarriesRaw(call) == \E s \in SourcesOf(call) : s.raw

RegionAllowed(candidate, policy) ==
  IF candidate.region = NoRegion THEN policy.regions = {} ELSE candidate.region \in policy.regions

(* Mutant: raw content is a matter of the policy alone.                       *)
CandidateAllowedRaw(candidate, call, policy) ==
  /\ candidate.active
  /\ candidate.profile = call.profile
  /\ candidate.provider \in policy.providers /\ candidate.model \in policy.models
  /\ RegionAllowed(candidate, policy)
  /\ call.purpose \in policy.purposes \intersect candidate.purposes
  /\ ClassesOf(call) \subseteq policy.classes \intersect candidate.classes
  /\ KindsOf(call) \subseteq policy.kinds \intersect candidate.kinds
  /\ policy.zeroRetention => candidate.retention = "zero_retention"
  /\ CarriesRaw(call) => policy.raw

(* _is_candidate_allowed: the policy and the candidate must both allow what   *)
(* the call carries.                                                          *)
CandidateAllowed(candidate, call, policy) ==
  /\ candidate.active
  /\ candidate.profile = call.profile
  /\ candidate.provider \in policy.providers /\ candidate.model \in policy.models
  /\ RegionAllowed(candidate, policy)
  /\ call.purpose \in policy.purposes \intersect candidate.purposes
  /\ ClassesOf(call) \subseteq policy.classes \intersect candidate.classes
  /\ KindsOf(call) \subseteq policy.kinds \intersect candidate.kinds
  /\ policy.zeroRetention => candidate.retention = "zero_retention"
  /\ CarriesRaw(call) => policy.raw /\ candidate.raw

(* Duplicate ids or priorities deny the call whatever the candidates are.     *)
Unambiguous(candidates) ==
  \A c, d \in candidates : c # d => c.id # d.id /\ c.priority # d.priority

Eligible(candidates, call, policy) == {c \in candidates : CandidateAllowed(c, call, policy)}

Selected(eligible) == CHOOSE c \in eligible : \A d \in eligible : c.priority <= d.priority

(* _decision and _block: what the row of a call says of how it was decided.    *)
Decided(stage, error, evaluated, eligible, selected) ==
  [stage |-> stage, outcome |-> IF error = "none" THEN "allowed" ELSE "blocked",
   error |-> error, evaluated |-> evaluated, eligible |-> eligible, selected |-> selected]

PolicyMissing == Decided("policy", "policy_missing", 0, 0, {})

(* guard, once the policy is read; the redaction of the sources may fail.     *)
EgressDecision(call, policy, candidates, redacted) ==
  LET eligible == Eligible(candidates, call, policy)
      evaluated == Cardinality(candidates)
  IN
  CASE ~Unambiguous(candidates) \/ eligible = {} ->
         Decided("candidate", "policy_denied", evaluated, 0, {})
    [] ~redacted -> Decided("redaction", "redaction_failed", evaluated,
                            Cardinality(eligible), {Selected(eligible)})
    [] OTHER -> Decided("complete", "none", evaluated,
                        Cardinality(eligible), {Selected(eligible)})

(* ModelPolicyDecision.__post_init__: what a decision has to say to be one.   *)
IsEgressDecision(decision) ==
  /\ decision.evaluated \in Nat /\ decision.eligible \in 0..decision.evaluated
  /\ Cardinality(decision.selected) <= 1
  /\ decision.outcome = "allowed" =>
       /\ decision.stage = "complete" /\ decision.error = "none"
       /\ decision.selected # {} /\ decision.eligible >= 1
  /\ decision.outcome = "blocked" => decision.stage # "complete" /\ decision.error # "none"

(* GuardedModelExecutionService._invoke: what an answer of the provider comes *)
(* to; "stop" is one whose output the schema then has to accept.              *)
Answers == {"stop", "length", "content_filtered", "unknown", "failure", "not_a_response"}
OutcomeOf(answer, valid) ==
  CASE answer = "stop" /\ valid -> "completed"
    [] answer = "stop" -> "model_invalid_structured_output"
    [] answer = "content_filtered" -> "model_provider_content_filtered"
    [] answer \in {"length", "unknown"} -> "model_invalid_structured_output"
    [] answer = "failure" -> "model_provider_failure"
    [] OTHER -> "model_provider_unknown"
=============================================================================
