--------------------------- MODULE ModelPolicies ---------------------------
(***************************************************************************)
(* Model policies and the calls they govern.  Administrators review a draft   *)
(* against the active policy of its profile, have the difference evaluated    *)
(* and activate it, with an idempotency key and any number of deliveries      *)
(* (ModelPolicyManagementService, SqliteModelPolicyRepository); calls read    *)
(* the active policy and its candidates, one transaction each, and go to the  *)
(* provider between two rows (ModelPolicyService,                             *)
(* GuardedModelExecutionService, SqliteModelInvocationRecorder).  A delivery  *)
(* or a call that is cancelled takes no further step: its row stays running.  *)
(***************************************************************************)
EXTENDS ModelEgress, PolicyImpact, Sequences

CONSTANTS
  Versions,     \* rows of model_policies
  Snapshot,     \* the policy and candidates of each
  Orders,       \* activations that an administrator asks for
  KeyOf,        \* the actor and idempotency key of an order
  Deliveries,   \* calls of activate_policy
  Calls,        \* model calls
  CallOf,       \* what a call asks and carries
  Nothing,
  RecordTTL,          \* idempotency_ttl, in ticks
  MaxPolicyTime       \* bound on the clock

ASSUME VersionAssumption ==
  /\ \A v \in Versions : IsSnapshot(Snapshot[v])
  /\ \A v, w \in Versions : v # w => Snapshot[v] # Snapshot[w]
  /\ \A c \in Calls : IsCall(CallOf[c])
  /\ RecordTTL \in Nat \ {0} /\ MaxPolicyTime \in Nat
  /\ Nothing \notin Versions \union Orders

VARIABLES
  policyClock,
  policy,     \* model_policies.state, "none" before the row exists
  order,      \* what an administrator reviewed: NoOrder, or a version and the impact
  passed,     \* orders whose evaluation was approved
  records,    \* api_idempotency_records, by actor and key
  awaiting,   \* the await a delivery is in
  job,        \* its order, its clock, and what it has read
  answer,     \* what it returned
  history,    \* the activations: version, what it replaced, and the order
  call,       \* a call: its await, what it read and what was decided
  row,        \* its row of model_invocations
  inForce     \* versions that were active while a call ran

adminVars == <<order, passed, records, awaiting, job, answer, history>>
callVars == <<call, row, inForce>>
policyVars == <<policyClock, policy, adminVars, callVars>>

ProfileOf(v) == Snapshot[v].policy.profile
Slots == {KeyOf[o] : o \in Orders}
NoOrder == [version |-> Nothing, impact |-> Nothing]
NoRecord == [order |-> Nothing, expires |-> 0]
NoJob == [order |-> Nothing, at |-> 0, baseline |-> Nothing]
NoCall == [at |-> "policy", policy |-> Nothing, source |-> Nothing,
           decision |-> PolicyMissing, outcome |-> "none"]

Actives(profile) == {v \in Versions : policy[v] = "active" /\ ProfileOf(v) = profile}
Active(profile) ==
  IF Actives(profile) = {} THEN NoBaseline ELSE CHOOSE v \in Actives(profile) : TRUE
Rules(v) == IF v = NoBaseline THEN NoBaseline ELSE Snapshot[v]

PolicyInit ==
  /\ policyClock = 0
  /\ policy = [v \in Versions |-> "none"]
  /\ order = [o \in Orders |-> NoOrder]
  /\ passed = {}
  /\ records = [s \in Slots |-> NoRecord]
  /\ awaiting = [d \in Deliveries |-> "idle"]
  /\ job = [d \in Deliveries |-> NoJob]
  /\ answer = [d \in Deliveries |-> NoOrder]
  /\ history = <<>>
  /\ call = [c \in Calls |-> NoCall]
  /\ row = [c \in Calls |-> "none"]
  /\ inForce = [c \in Calls |-> {}]

-----------------------------------------------------------------------------
(* Drafts, reviews and evaluations                                            *)

(* save_draft.                                                                *)
SaveDraft(v) ==
  /\ policy[v] = "none"
  /\ policy' = [policy EXCEPT ![v] = "draft"]
  /\ UNCHANGED <<policyClock, adminVars, callVars>>

(* evaluate_policy: what the administrator will send back with the order.     *)
Review(o, v) ==
  /\ order[o] = NoOrder
  /\ policy[v] = "draft"
  /\ HasChanges(Impact(Rules(Active(ProfileOf(v))), Snapshot[v]))
  /\ order' = [order EXCEPT ![o] =
       [version |-> v, impact |-> Impact(Rules(Active(ProfileOf(v))), Snapshot[v])]]
  /\ UNCHANGED <<policyClock, policy, passed, records, awaiting, job, answer, history, callVars>>

-----------------------------------------------------------------------------
(* activate_policy, one await at a time                                       *)

Await(d, next) == awaiting' = [awaiting EXCEPT ![d] = next]
Alive(slot, moment) == records[slot] # NoRecord /\ records[slot].expires > moment

Deliver(d, o) ==
  /\ awaiting[d] = "idle"
  /\ order[o] # NoOrder
  /\ job' = [job EXCEPT ![d] = [NoJob EXCEPT !.order = o, !.at = policyClock]]
  /\ Await(d, "replay")
  /\ UNCHANGED <<policyClock, policy, order, passed, records, answer, history, callVars>>

(* What a live record says to an order: the same one gets its answer.         *)
Replays(d) ==
  LET slot == KeyOf[job[d].order] IN
  /\ Alive(slot, job[d].at)
  /\ records[slot].order = job[d].order
  /\ answer' = [answer EXCEPT ![d] = order[records[slot].order]]
  /\ Await(d, "answered")
  /\ UNCHANGED <<records, history, policy>>

Conflicts(d) ==
  /\ Alive(KeyOf[job[d].order], job[d].at)
  /\ records[KeyOf[job[d].order]].order # job[d].order
  /\ Await(d, "refused")
  /\ UNCHANGED <<records, answer, history, policy>>

(* get_activation_replay: an expired record is deleted on the way.            *)
LookUp(d) ==
  LET slot == KeyOf[job[d].order] IN
  /\ awaiting[d] = "replay"
  /\ \/ Replays(d)
     \/ Conflicts(d)
     \/ /\ ~Alive(slot, job[d].at)
        /\ records' = [records EXCEPT ![slot] = NoRecord]
        /\ Await(d, "candidate")
        /\ UNCHANGED <<answer, history, policy>>
  /\ UNCHANGED <<policyClock, order, passed, job, callVars>>

(* get_version: only a draft can be activated.                                *)
ReadCandidate(d) ==
  /\ awaiting[d] = "candidate"
  /\ Await(d, IF policy[order[job[d].order].version] = "draft" THEN "baseline" ELSE "refused")
  /\ UNCHANGED <<policyClock, policy, order, passed, records, job, answer, history, callVars>>

(* get_active_version: the impact is computed again and has to be the one the *)
(* order names.                                                               *)
ReadBaseline(d) ==
  LET o == job[d].order
      found == Active(ProfileOf(order[o].version))
  IN
  /\ awaiting[d] = "baseline"
  /\ job' = [job EXCEPT ![d].baseline = found]
  /\ Await(d, IF Impact(Rules(found), Snapshot[order[o].version]) = order[o].impact
           THEN "approval" ELSE "refused")
  /\ UNCHANGED <<policyClock, policy, order, passed, records, answer, history, callVars>>

(* require_approved: the gateway of evaluations, whose verdicts are its own.  *)
RequireApproved(d) ==
  /\ awaiting[d] = "approval"
  /\ \/ passed' = passed \union {job[d].order} /\ Await(d, "activate")
     \/ passed' = passed /\ Await(d, "refused")
  /\ UNCHANGED <<policyClock, policy, order, records, job, answer, history, callVars>>

(* The rows that activate compares with what the service had read before the  *)
(* approval was awaited.                                                      *)
StillAsReviewed(d) ==
  LET o == job[d].order
      found == Active(ProfileOf(order[o].version))
  IN
  /\ policy[order[o].version] = "draft"
  /\ found = job[d].baseline
  /\ Impact(Rules(found), Snapshot[order[o].version]) = order[o].impact

Activates(d) ==
  LET o == job[d].order
      v == order[o].version
      replaced == Active(ProfileOf(v))
  IN
  /\ policy' = [w \in Versions |->
       IF w = v THEN "active" ELSE IF w = replaced THEN "retired" ELSE policy[w]]
  /\ records' = [records EXCEPT ![KeyOf[o]] = [order |-> o, expires |-> job[d].at + RecordTTL]]
  /\ history' = Append(history, [version |-> v, replaced |-> replaced, order |-> o])
  /\ answer' = [answer EXCEPT ![d] = order[o]]
  /\ Await(d, "answered")

(* Mutant: the transaction asks only whether the version is still a draft.    *)
ActivateDraft(d) ==
  /\ awaiting[d] = "activate"
  /\ \/ Replays(d)
     \/ Conflicts(d)
     \/ /\ ~Alive(KeyOf[job[d].order], job[d].at)
        /\ policy[order[job[d].order].version] = "draft"
        /\ Activates(d)
  /\ UNCHANGED <<policyClock, order, passed, job, call, row>>
  /\ inForce' = [c \in Calls |-> inForce[c]]

(* activate: one transaction from the record to the audit entry; a refusal    *)
(* rolls all of it back.                                                      *)
Activate(d) ==
  /\ awaiting[d] = "activate"
  /\ \/ Replays(d)
     \/ Conflicts(d)
     \/ ~Alive(KeyOf[job[d].order], job[d].at) /\ StillAsReviewed(d) /\ Activates(d)
     \/ /\ ~Alive(KeyOf[job[d].order], job[d].at)
        /\ ~StillAsReviewed(d)
        /\ Await(d, "refused")
        /\ UNCHANGED <<records, answer, history, policy>>
  /\ inForce' = [c \in Calls |-> IF call[c].at \in {"candidates", "start"}
                                 THEN inForce[c] \union {v \in Versions : policy'[v] = "active"}
                                 ELSE inForce[c]]
  /\ UNCHANGED <<policyClock, order, passed, job, call, row>>

-----------------------------------------------------------------------------
(* One model call                                                             *)

(* get_policy.                                                                *)
ReadPolicy(c) ==
  LET found == Active(CallOf[c].profile) IN
  /\ call[c].at = "policy"
  /\ call' = [call EXCEPT ![c].policy = found,
                          ![c].at = IF found = NoBaseline THEN "deny" ELSE "candidates"]
  /\ inForce' = [inForce EXCEPT ![c] = Actives(CallOf[c].profile)]
  /\ UNCHANGED <<policyClock, policy, adminVars, row>>

(* list_candidates, a transaction later, and the choice; the redaction of the *)
(* sources may fail.                                                          *)
ReadCandidates(c, redacted) ==
  LET source == Active(CallOf[c].profile)
      decision == EgressDecision(CallOf[c], Snapshot[call[c].policy].policy,
                                 IF source = NoBaseline THEN {} ELSE Rules(source).candidates, redacted)
  IN
  /\ call[c].at = "candidates"
  /\ call' = [call EXCEPT ![c].source = source, ![c].decision = decision,
                          ![c].at = IF decision.outcome = "allowed" THEN "start" ELSE "deny"]
  /\ UNCHANGED <<policyClock, policy, adminVars, row, inForce>>

DenyCall(c) ==
  /\ call[c].at = "deny"
  /\ row' = [row EXCEPT ![c] = "denied"]
  /\ call' = [call EXCEPT ![c].at = "ended"]
  /\ UNCHANGED <<policyClock, policy, adminVars, inForce>>

StartCall(c) ==
  /\ call[c].at = "start"
  /\ row' = [row EXCEPT ![c] = "running"]
  /\ call' = [call EXCEPT ![c].at = "provider"]
  /\ UNCHANGED <<policyClock, policy, adminVars, inForce>>

(* PolicySelectedModelProvider.invoke, and _invoke's verdict on the answer.   *)
Invoke(c, reply, valid) ==
  /\ call[c].at = "provider"
  /\ call' = [call EXCEPT ![c].outcome = OutcomeOf(reply, valid), ![c].at = "finish"]
  /\ UNCHANGED <<policyClock, policy, adminVars, row, inForce>>

FinishCall(c) ==
  /\ call[c].at = "finish"
  /\ row[c] = "running"
  /\ row' = [row EXCEPT ![c] = IF call[c].outcome = "completed" THEN "completed" ELSE "failed"]
  /\ call' = [call EXCEPT ![c].at = "ended"]
  /\ UNCHANGED <<policyClock, policy, adminVars, inForce>>

PolicyTick ==
  /\ policyClock < MaxPolicyTime
  /\ policyClock' = policyClock + 1
  /\ UNCHANGED <<policy, adminVars, callVars>>

Administration ==
  \/ \E v \in Versions : SaveDraft(v)
  \/ \E o \in Orders, v \in Versions : Review(o, v)
  \/ \E d \in Deliveries :
       \/ \E o \in Orders : Deliver(d, o)
       \/ LookUp(d) \/ ReadCandidate(d) \/ ReadBaseline(d) \/ RequireApproved(d) \/ Activate(d)

Calling(c) ==
  \/ ReadPolicy(c) \/ \E redacted \in BOOLEAN : ReadCandidates(c, redacted)
  \/ DenyCall(c) \/ StartCall(c) \/ FinishCall(c)
  \/ \E reply \in Answers, valid \in BOOLEAN : Invoke(c, reply, valid)

PolicyNext == Administration \/ (\E c \in Calls : Calling(c)) \/ PolicyTick

PolicySpec == PolicyInit /\ [][PolicyNext]_policyVars

-----------------------------------------------------------------------------
(* Properties *)

PolicyTypeOK ==
  /\ policy \in [Versions -> {"none", "draft", "active", "retired"}]
  /\ awaiting \in [Deliveries -> {"idle", "replay", "candidate", "baseline", "approval",
                            "activate", "answered", "refused"}]
  /\ row \in [Calls -> {"none", "denied", "running", "completed", "failed"}]
  /\ passed \subseteq Orders
  /\ policyClock \in 0..MaxPolicyTime

(* What is activated is what was reviewed (activate): a version takes the     *)
(* place of exactly the policy its approved impact was computed against,      *)
(* whoever activates what in between; one policy is active per profile; and   *)
(* every answer, a repeated one included, is about an activation that took    *)
(* place for that order, once.                                                *)
ActivatedAsReviewed ==
  /\ \A p \in {ProfileOf(v) : v \in Versions} : Cardinality(Actives(p)) <= 1
  /\ \A i \in DOMAIN history :
       /\ history[i].order \in passed
       /\ order[history[i].order].version = history[i].version
       /\ order[history[i].order].impact.baseline = Rules(history[i].replaced)
       /\ \A j \in DOMAIN history : history[j].version = history[i].version => j = i
  /\ \A d \in Deliveries : awaiting[d] = "answered" =>
       /\ answer[d] = order[job[d].order]
       /\ \E i \in DOMAIN history : history[i].order = job[d].order

(* Nothing leaves that a policy did not allow (guard, execute): a call gets   *)
(* to the provider after its row was written, with a candidate that both the  *)
(* policy and the candidate itself allow for all its sources; the policy and  *)
(* the candidate were each in force while the call was being decided, and     *)
(* what the row says at the end is what the provider answered.                *)
EgressAllowed ==
  \A c \in Calls :
    /\ call[c].at \in {"provider", "finish"} => row[c] = "running"
    /\ row[c] = "denied" => call[c].decision.outcome = "blocked"
    /\ row[c] \in {"running", "completed", "failed"} =>
         /\ {call[c].policy, call[c].source} \subseteq inForce[c]
         /\ call[c].decision.selected \subseteq Snapshot[call[c].source].candidates
         /\ LET rules == Snapshot[call[c].policy].policy IN
            \A chosen \in call[c].decision.selected, s \in SourcesOf(CallOf[c]) :
                 /\ s.classes \subseteq rules.classes /\ s.classes \subseteq chosen.classes
                 /\ s.kind \in rules.kinds \intersect chosen.kinds
                 /\ s.raw => rules.raw /\ chosen.raw
                 /\ rules.zeroRetention => chosen.retention = "zero_retention"
    /\ row[c] = "completed" => call[c].outcome = "completed"
    /\ row[c] = "failed" => call[c].outcome \notin {"completed", "none"}
=============================================================================
