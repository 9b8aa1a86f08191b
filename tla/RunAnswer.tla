----------------------------- MODULE RunAnswer -----------------------------
(***************************************************************************)
(* A decision of the Root on its way to the answer of a Run: validated and   *)
(* prepared (PlanValidation), executed and reduced (ResultReduction),         *)
(* sanitized (OutputGuardrail).  Each arrow hands one contract to code that   *)
(* checks it again: what one side accepts, the next must not refuse.          *)
(***************************************************************************)
EXTENDS ResultReduction, OutputGuardrail

CONSTANTS
  Decisions,     \* what the model or an explicit skill may decide
  Catalog,       \* the subagents and skills of the principal
  Limits,        \* OrchestratorLimits
  ResultsFor,    \* a task -> what its executor may answer
  OutputPolicy,
  NoPlan

(* A warning of the Run is written under "run": what the text says of a task   *)
(* of that name, which the code does not refuse, is left out.                 *)
ASSUME AnswerAssumption ==
  /\ \A d \in Decisions : IsDecision(d)
  /\ IsLimits(Limits) /\ IsOutputPolicy(OutputPolicy)
  /\ \A t \in DOMAIN ResultsFor : \A r \in ResultsFor[t] : IsResult(r) /\ r.task = t
  /\ \A d \in Decisions : TaskIds(d.tasks) \subseteq DOMAIN ResultsFor \ {"run"}

VARIABLES
  phase,      \* how far the Run has come
  decision,   \* what the Root decided
  plan,       \* the prepared plan, NoPlan before that
  outcome,    \* what the engine handed over
  output      \* what the guardrail made of it

answerVars == <<phase, decision, plan, outcome, output>>

AnswerInit ==
  /\ phase = "asked"
  /\ decision = NoPlan /\ plan = NoPlan /\ outcome = NoPlan /\ output = NoPlan

(* The Root's answer, parsed, or an explicit skill.                            *)
Decide ==
  /\ phase = "asked"
  /\ decision' \in Decisions
  /\ phase' = "planning"
  /\ UNCHANGED <<plan, outcome, output>>

(* RootOrchestratorService.decide rejects what the validator rejects, and      *)
(* PreparedExecutionPlan.from_validated refuses a skill.  Callers of the       *)
(* engine other than from_validated may make steps optional.                   *)
Plan ==
  /\ phase = "planning"
  /\ IF Verdict(decision, Catalog, Limits) # "accepted" \/ decision.mode = "skill"
     THEN phase' = "refused" /\ plan' = plan
     ELSE \E required \in SUBSET TaskIds(decision.tasks) :
            /\ phase' = "planned"
            /\ plan' = [Prepared(decision) EXCEPT !.required = required]
  /\ UNCHANGED <<decision, outcome, output>>

(* The engine runs the plan to its end, whatever the executors answer.         *)
Execute ==
  /\ phase = "planned"
  /\ \E given \in {g \in [TaskIds(plan.tasks) -> UNION {ResultsFor[t] : t \in DOMAIN ResultsFor}] :
                     \A t \in DOMAIN g : g[t] \in ResultsFor[t]} :
       outcome' = Outcome(plan, given)
  /\ phase' = IF outcome'.state = "composing" THEN "composing" ELSE "failed"
  /\ UNCHANGED <<decision, plan, output>>

(* OrchestrationOutputComposer.compose: a rejection of the reducer and a block *)
(* of the guardrail both fail the Run.                                         *)
Compose ==
  /\ phase = "composing"
  /\ LET fault == FirstBroken(ReductionRules(plan, outcome))
         made == Sanitized(OutputCandidate(plan, outcome), OutputPolicy)
     IN IF fault # "accepted"
        THEN output' = [code |-> fault] /\ phase' = "failed"
        ELSE output' = made /\ phase' = IF IsSafeOutput(made) THEN "answered" ELSE "failed"
  /\ UNCHANGED <<decision, plan, outcome>>

AnswerNext == Decide \/ Plan \/ Execute \/ Compose

AnswerSpec == AnswerInit /\ [][AnswerNext]_answerVars

-----------------------------------------------------------------------------
(* Properties *)

AnswerTypeOK ==
  /\ phase \in {"asked", "planning", "refused", "planned", "composing", "answered", "failed"}
  /\ decision = NoPlan \/ decision \in Decisions
  /\ plan = NoPlan \/ IsPreparedPlan(plan)
  /\ outcome = NoPlan \/ IsOutcome(outcome)

(* A set of tasks each of which waits for another of the set: what may never   *)
(* be executed.                                                                *)
WaitsInCircle(tasks) ==
  \E S \in (SUBSET TaskIds(tasks)) \ {{}} :
    \A k \in DOMAIN tasks : tasks[k].id \in S => ToSet(tasks[k].deps) \intersect S # {}

(* Tasks of which each waits for the one before.                               *)
Chains(tasks) ==
  {c \in BoundedSeq(DOMAIN tasks, Len(tasks)) :
     \A i \in 1..(Len(c) - 1) : tasks[c[i]].id \in ToSet(tasks[c[i + 1]].deps)}

Duration(tasks, chain) ==
  LET sum[n \in 0..Len(chain)] == IF n = 0 THEN 0 ELSE sum[n - 1] + tasks[chain[n]].timeout
  IN sum[Len(chain)]

(* What the validator lets through the engine can execute: every task of the   *)
(* decision, each after its dependencies, no chain longer than the Run may     *)
(* take.  What it refuses as a cycle or as too long is one                     *)
(* (plan_validator.py:143 _topological_order, :161 _critical_path_timeout).    *)
PlansExecutable ==
  LET Refused(code) == phase = "refused" /\ Verdict(decision, Catalog, Limits) = code
      Long(tasks) == \E c \in Chains(tasks) : Duration(tasks, c) > Limits.runTimeout
  IN /\ plan # NoPlan =>
          /\ IsPreparedPlan(plan)
          /\ ToSet(plan.tasks) = ToSet(decision.tasks)
          /\ ~Long(plan.tasks)
     /\ Refused("dependency_cycle") => WaitsInCircle(decision.tasks)
     /\ Refused("run_timeout_exceeded") => Long(decision.tasks)

(* The candidate names what it is made of: a number in the text stands for     *)
(* evidence of that task, no URI has two numbers, no warning is lost and none  *)
(* is reported without the task it came from.                                  *)
Attributed(candidate) ==
  LET gathered == CollectEvidence(OrderedResults(plan, outcome)).evidence
      results == ToSet(outcome.results)
      Cites(n, e) == gathered[n].uri = Normalized[e.uri] /\ (e.uri = NoUri => gathered[n].title = e.title)
      NumbersOf(r) == UNION {ToSet(token[3]) : token \in
                               {x \in ToSet(candidate.markdown) : x[1] = "sources" /\ x[2] = r.task}}
  IN /\ IsInjective(candidate.links)
     /\ \A token \in ToSet(candidate.markdown) : token[1] = "warning" => token[2] # "run"
     /\ \A r \in results : \A w \in ToSet(r.warnings) :
          TimesIn(candidate.markdown, <<"warning", r.task, w>>) >= TimesIn(r.warnings, w)
     /\ plan.composition = "deterministic" =>
          \A r \in {x \in results : x.status # "failed"} :
            /\ \A n \in NumbersOf(r) : \E e \in ToSet(r.evidence) : Cites(n, e)
            /\ \A e \in ToSet(r.evidence) : \E n \in NumbersOf(r) : Cites(n, e)

(* Every outcome that the engine calls composing the reducer composes, unless  *)
(* an optional synthesis failed, and the candidate is attributed               *)
(* (execution_engine.py:199 _finish_delegate, result_reducer.py:88).           *)
AnswersCompose ==
  LET synthesisLost == /\ plan.composition = "synthesis_subagent"
                       /\ Missing(outcome, SynthesisTasks(plan.tasks)[1].id)
  IN phase = "composing" =>
       /\ FirstBroken(ReductionRules(plan, outcome))
            \in {"accepted"} \union (IF synthesisLost THEN {"synthesis_result_invalid"} ELSE {})
       /\ plan.mode = "delegate" /\ ~synthesisLost => Attributed(OutputCandidate(plan, outcome))

(* No target stands directly behind another one: no label can be joined with a *)
(* target that was not its own.                                               *)
Spaced(markdown) ==
  \A k \in DOMAIN markdown :
    markdown[k][1] = "target" => KindAt(markdown, k + 1) \notin {"target", "definition"}

(* A link the reader can follow leads where the policy allows.                 *)
LinksAllowed(markdown) ==
  \A k \in DOMAIN markdown :
    /\ IsInlineLink(markdown, k) => AllowedLink(markdown[k + 1][2], OutputPolicy)
    /\ IsDefinition(markdown, k) => AllowedLink(DefinedTarget(markdown, k), OutputPolicy)

(* The marker stands directly behind what is at k.                             *)
CutAt(markdown, k) == k + 1 \in DOMAIN markdown /\ markdown[k + 1] = Marker

(* An answer keeps every limit of the policy at once, the truncated one too,   *)
(* and carries no secret, internal detail or markup.  A broadcast or a         *)
(* forbidden definition in it is what the cut left of a longer mention or      *)
(* target, and a forbidden inline link was joined from a text whose targets    *)
(* stood side by side (output_guardrails.py:107, :223, :281, :299).            *)
OutputSafe ==
  LET p == OutputPolicy
      m == output.markdown
      OfKind(kind) == {k \in DOMAIN m : m[k][1] = kind}
  IN phase = "answered" =>
       /\ Len(m) \in 1..p.maxOutput
       /\ Cardinality(OfKind("mention") \union OfKind("broadcast")) <= p.maxMentions
       /\ \A kind \in {"secret", "internal", "html"} : OfKind(kind) = {}
       /\ \A k \in DOMAIN m : m[k][1] \in LinkKinds => ~m[k][2].secret
       /\ Len(output.links) <= p.maxLinks
       /\ \A uri \in ToSet(output.links) : AllowedLink(uri, p) /\ ~uri.secret
       /\ \A k \in DOMAIN m : IsBroadcast(m, k) => CutAt(m, k)
       /\ Spaced(OutputCandidate(plan, outcome).markdown) =>
            \A k \in DOMAIN m :
              /\ IsInlineLink(m, k) => AllowedLink(m[k + 1][2], p)
              /\ IsDefinition(m, k) =>
                   AllowedLink(DefinedTarget(m, k), p) \/ CutAt(m, k + 1)

(* Behind the guardrail there is only output in which the dangerous links and  *)
(* the broadcasts have been dealt with (README.md:220).                        *)
OnlyHandledOutput ==
  phase = "answered" =>
    /\ LinksAllowed(output.markdown)
    /\ \A k \in DOMAIN output.markdown : ~IsBroadcast(output.markdown, k)
=============================================================================
