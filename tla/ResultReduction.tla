-------------------------- MODULE ResultReduction --------------------------
(***************************************************************************)
(* The outcome the engine hands over and what DeterministicResultReducer     *)
(* makes of it: the results in the plan's order, the evidence once per URI,  *)
(* every warning under the task it came from.  Markdown is a sequence of      *)
(* tokens <<kind, ...>>; escaping and layout are left out.                    *)
(***************************************************************************)
EXTENDS PlanValidation

CONSTANTS
  NoUri, NoError,
  Normalized      \* a spelling of a URI -> its NFC form without blanks around

ASSUME NormalizedAssumption ==
  /\ \A uri \in DOMAIN Normalized : Normalized[uri] \in Uris \union {NoUri}
  /\ NoUri \in DOMAIN Normalized => Normalized[NoUri] = NoUri

(* A summary is text of the executor: lines of the kinds "sources" and         *)
(* "warning" are the reducer's own.                                           *)
IsResult(r) ==
  /\ r.status \in {"succeeded", "partial", "failed"}
  /\ r.status = "failed" => r.error # NoError
  /\ r.status = "succeeded" => r.error = NoError
  /\ IsMarkdown(r.summary) /\ \A k \in DOMAIN r.summary : r.summary[k][1] \notin {"sources", "warning"}
  /\ r.evidence \in Seq([title : {e.title : e \in ToSet(r.evidence)}, uri : DOMAIN Normalized])
  /\ r.warnings \in Seq(ToSet(r.warnings))

-----------------------------------------------------------------------------
(* The engine.  given[t] is what the executor answers to task t.              *)

(* How the tasks end when, of the failures given, only the first k happen: a  *)
(* task whose dependency has not completed is cancelled.                      *)
StepEnds(plan, given, k) ==
  LET end[j \in DOMAIN plan.tasks] ==
        IF \E i \in 1..(j - 1) :
             plan.tasks[i].id \in ToSet(plan.tasks[j].deps) /\ end[i] # "completed"
        THEN "cancelled"
        ELSE IF j <= k /\ given[plan.tasks[j].id].status = "failed" THEN "failed" ELSE "completed"
  IN end

RequiredFails(plan, given, k) ==
  \E j \in DOMAIN plan.tasks :
    plan.tasks[j].id \in plan.required /\ StepEnds(plan, given, k)[j] # "completed"

(* The steps up to k that ended with a result, in the plan's order.           *)
ResultsUpTo(plan, given, k) ==
  LET ran == Chosen([j \in 1..k |-> j], {j \in 1..k : StepEnds(plan, given, k)[j] # "cancelled"})
  IN [n \in DOMAIN ran |-> given[plan.tasks[ran[n]].id]]

PartialWarning(r) == IF r.status = "partial" THEN << <<"partial result", r.task>> >> ELSE <<>>

Outcome(plan, given) ==
  LET n == Len(plan.tasks)
      ends == StepEnds(plan, given, n)
      failures == Chosen([j \in 1..n |-> j], {j \in 1..n : ends[j] # "completed"})
      results == ResultsUpTo(plan, given, n)
      optional == [i \in DOMAIN failures |-> <<"optional step failed", plan.tasks[failures[i]].id>>]
  IN IF plan.mode = "direct"
     THEN [state |-> "composing", results |-> <<>>, answer |-> plan.answer,
           warnings |-> <<>>, error |-> NoError]
     ELSE IF RequiredFails(plan, given, n)
     THEN [state |-> "failed", answer |-> NoAnswer, warnings |-> <<>>, error |-> "required_step_failed",
           results |-> ResultsUpTo(plan, given, Min({k \in 1..n : RequiredFails(plan, given, k)}))]
     ELSE [state |-> "composing", results |-> results, answer |-> NoAnswer,
           warnings |-> optional
             \o FlattenSeq([i \in DOMAIN results |-> PartialWarning(results[i]) \o results[i].warnings]),
           error |-> IF failures = <<>> THEN NoError ELSE "optional_step_failed"]

IsOutcome(o) ==
  /\ o.state \in {"composing", "failed"}
  /\ o.answer # NoAnswer => o.results = <<>>
  /\ IF o.state = "failed" THEN o.error = "required_step_failed" /\ o.answer = NoAnswer
     ELSE o.error \in {NoError, "optional_step_failed"}

-----------------------------------------------------------------------------
(* The reducer's checks. *)

ResultOf(outcome, task) ==
  Chosen(outcome.results, {k \in DOMAIN outcome.results : outcome.results[k].task = task})

Missing(outcome, task) ==
  \A k \in DOMAIN ResultOf(outcome, task) : ResultOf(outcome, task)[k].status = "failed"

OrderedResults(plan, outcome) ==
  FlattenSeq([k \in DOMAIN plan.tasks |-> ResultOf(outcome, plan.tasks[k].id)])

OptionalFailures(plan, outcome) ==
  Chosen(plan.tasks, {k \in DOMAIN plan.tasks : Missing(outcome, plan.tasks[k].id)})

SynthesisBroken(plan, outcome) ==
  IF plan.composition = "deterministic" THEN SynthesisTasks(plan.tasks) # <<>>
  ELSE ~JoinsResults(plan.tasks) \/ Missing(outcome, SynthesisTasks(plan.tasks)[1].id)

BodyResults(plan, outcome) ==
  LET results == OrderedResults(plan, outcome)
  IN Chosen(results, {k \in DOMAIN results :
                        IF plan.composition = "deterministic" THEN results[k].status # "failed"
                        ELSE results[k].task = SynthesisTasks(plan.tasks)[1].id})

ReductionRules(plan, outcome) ==
  LET ids == {outcome.results[k].task : k \in DOMAIN outcome.results}
      expected == IF OptionalFailures(plan, outcome) = <<>> THEN NoError ELSE "optional_step_failed"
  IN << <<outcome.state # "composing", "outcome_not_composable">> >>
     \o IF plan.mode = "direct"
        THEN << <<\/ plan.answer = NoAnswer \/ outcome.answer # plan.answer
                  \/ outcome.results # <<>> \/ outcome.warnings # <<>> \/ outcome.error # NoError,
                  "composition_mode_mismatch">> >>
        ELSE << <<outcome.answer # NoAnswer \/ outcome.results = <<>>, "composition_mode_mismatch">>,
                <<Cardinality(ids) # Len(outcome.results) \/ ~(ids \subseteq TaskIds(plan.tasks)),
                  "composition_result_set_invalid">>,
                <<\E t \in plan.required : Missing(outcome, t), "composition_result_set_invalid">>,
                <<outcome.error # expected, "composition_outcome_metadata_invalid">>,
                <<SynthesisBroken(plan, outcome), "synthesis_result_invalid">>,
                <<\E k \in DOMAIN outcome.results :
                     outcome.results[k].status = "failed" /\ outcome.results[k].error = NoError,
                  "composition_outcome_metadata_invalid">> >>

-----------------------------------------------------------------------------
(* Evidence, warnings and the text.                                           *)

(* A bug to catch: a piece seen before takes the number of the last one.       *)
PlaceLast(gathered, e) ==
  LET uri == Normalized[e.uri]
      known == {i \in DOMAIN gathered.evidence : uri # NoUri /\ gathered.evidence[i].uri = uri}
      evidence == IF known = {} THEN Append(gathered.evidence, [title |-> e.title, uri |-> uri])
                  ELSE gathered.evidence
  IN [evidence |-> evidence,
      numbers |-> IF Contains(gathered.numbers, Len(evidence)) THEN gathered.numbers
                  ELSE Append(gathered.numbers, Len(evidence))]

(* A piece of evidence takes the number of the piece with the same URI before *)
(* it, or the next one.                                                       *)
Place(gathered, e) ==
  LET uri == Normalized[e.uri]
      known == {i \in DOMAIN gathered.evidence : uri # NoUri /\ gathered.evidence[i].uri = uri}
      evidence == IF known = {} THEN Append(gathered.evidence, [title |-> e.title, uri |-> uri])
                  ELSE gathered.evidence
      index == IF known = {} THEN Len(evidence) ELSE Min(known)
  IN [evidence |-> evidence,
      numbers |-> IF Contains(gathered.numbers, index) THEN gathered.numbers
                  ELSE Append(gathered.numbers, index)]

GatherOf(gathered, r) ==
  LET placed[k \in 0..Len(r.evidence)] ==
        IF k = 0 THEN [evidence |-> gathered.evidence, numbers |-> <<>>]
        ELSE Place(placed[k - 1], r.evidence[k])
      all == placed[Len(r.evidence)]
  IN [evidence |-> all.evidence,
      sources |-> [t \in DOMAIN gathered.sources \union {r.task} |->
                     IF t = r.task THEN all.numbers ELSE gathered.sources[t]]]

CollectEvidence(results) ==
  LET gathered[k \in 0..Len(results)] ==
        IF k = 0 THEN [evidence |-> <<>>, sources |-> <<>>]
        ELSE GatherOf(gathered[k - 1], results[k])
  IN gathered[Len(results)]

TimesIn(seq, value) == Cardinality({i \in DOMAIN seq : seq[i] = value})

(* The warnings of a task, as the engine repeats them.                        *)
RawWarnings(plan, outcome, task) ==
  LET own == ResultOf(outcome, task)
  IN (IF Missing(outcome, task) THEN << <<"optional step failed", task>> >> ELSE <<>>)
     \o FlattenSeq([k \in DOMAIN own |-> PartialWarning(own[k]) \o own[k].warnings])

(* The lines written for a task: of an error of its result, too.              *)
TaskWarnings(plan, outcome, task) ==
  LET own == ResultOf(outcome, task)
      code == IF own = <<>> THEN "dependency_failed" ELSE own[1].error
  IN (IF Missing(outcome, task) THEN << <<"warning", task, <<"optional step failed", code>>>> >> ELSE <<>>)
     \o FlattenSeq([k \in DOMAIN own |->
          (IF own[k].status = "partial" THEN << <<"warning", task, <<"partial result", task>>>> >> ELSE <<>>)
          \o (IF own[k].error # NoError /\ own[k].status # "failed"
              THEN << <<"warning", task, <<"error", own[k].error>>>> >> ELSE <<>>)
          \o [i \in DOMAIN own[k].warnings |-> <<"warning", task, own[k].warnings[i]>>]])

(* A warning of the Run that no task accounts for is written as the Run's.    *)
CollectWarnings(plan, outcome) ==
  LET known == FlattenSeq([k \in DOMAIN plan.tasks |-> RawWarnings(plan, outcome, plan.tasks[k].id)])
      others == Chosen(outcome.warnings, {i \in DOMAIN outcome.warnings :
                  TimesIn(SubSeq(outcome.warnings, 1, i), outcome.warnings[i])
                    > TimesIn(known, outcome.warnings[i])})
  IN FlattenSeq([k \in DOMAIN plan.tasks |-> TaskWarnings(plan, outcome, plan.tasks[k].id)])
     \o [i \in DOMAIN others |-> <<"warning", "run", others[i]>>]

Section(r, numbers) ==
  << <<"heading", r.task>> >> \o r.summary
  \o (IF numbers = <<>> THEN <<>> ELSE << <<"sources", r.task, numbers>> >>)

RenderMarkdown(plan, outcome) ==
  LET body == BodyResults(plan, outcome)
      gathered == CollectEvidence(OrderedResults(plan, outcome))
      all == [i \in DOMAIN gathered.evidence |-> i]
      NumbersOf(r) == IF plan.composition = "synthesis_subagent" THEN all ELSE gathered.sources[r.task]
  IN << <<"heading", "results">> >>
     \o (IF body = <<>> THEN << <<"text", "nothing completed">> >>
         ELSE FlattenSeq([k \in DOMAIN body |-> Section(body[k], NumbersOf(body[k]))]))
     \o CollectWarnings(plan, outcome)
     \o [i \in DOMAIN gathered.evidence |-> <<"source", i, gathered.evidence[i]>>]

(* What goes to the guardrail. *)
OutputCandidate(plan, outcome) ==
  IF plan.mode = "direct" THEN [markdown |-> plan.answer, links |-> <<>>]
  ELSE LET gathered == CollectEvidence(OrderedResults(plan, outcome)).evidence
           cited == Chosen(gathered, {i \in DOMAIN gathered : gathered[i].uri # NoUri})
       IN [markdown |-> RenderMarkdown(plan, outcome), links |-> [i \in DOMAIN cited |-> cited[i].uri]]
=============================================================================
