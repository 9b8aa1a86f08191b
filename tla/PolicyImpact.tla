---------------------------- MODULE PolicyImpact ----------------------------
(***************************************************************************)
(* compare_model_policy_versions and compare_policy_impact.  A snapshot of    *)
(* policies is a function from their keys, kind and id, to what their         *)
(* fingerprint stands for; SHA-256 is taken for injective, so a fingerprint   *)
(* is what it was computed from.                                              *)
(***************************************************************************)
EXTENDS FiniteSets

CONSTANT NoBaseline    \* there is no active policy of that profile

(* ModelPolicyVersion.impact_references: the policy and every candidate.      *)
ImpactReferences(version) ==
  LET keyed == {<<<<"model.egress", version.policy.id>>, version.policy>>}
                 \union {<<<<"model.profile", c.id>>, c>> : c \in version.candidates}
  IN [key \in {k[1] : k \in keyed} |-> (CHOOSE k \in keyed : k[1] = key)[2]]

Added(before, after) == DOMAIN after \ DOMAIN before
Removed(before, after) == DOMAIN before \ DOMAIN after
Changed(before, after) ==
  {key \in DOMAIN before \intersect DOMAIN after : before[key] # after[key]}

(* compare_model_policy_versions: of a first activation everything is added.  *)
Impact(baseline, candidate) ==
  LET before == IF baseline = NoBaseline THEN <<>> ELSE ImpactReferences(baseline)
      after == ImpactReferences(candidate)
  IN [baseline |-> baseline, candidate |-> candidate,
      added |-> Added(before, after),
      removed |-> Removed(before, after),
      changed |-> Changed(before, after)]

(* The ValueError of a candidate that does not differ from the baseline.      *)
HasChanges(impact) == impact.added \union impact.removed \union impact.changed # {}

(* PolicyImpactDiff.__post_init__: the three kinds of keys are disjoint, and  *)
(* there are changes exactly when the fingerprints differ.                    *)
IsImpact(impact) ==
  /\ impact.added \intersect impact.removed = {}
  /\ (impact.added \union impact.removed) \intersect impact.changed = {}
  /\ HasChanges(impact) <=>
       \/ impact.baseline = NoBaseline
       \/ ImpactReferences(impact.baseline) # ImpactReferences(impact.candidate)
=============================================================================
