--------------------------- MODULE PlanValidation ---------------------------
(***************************************************************************)
(* What the Root may decide and which decisions become plans: the contracts  *)
(* of application/contracts/orchestration.py, the validator that rejects     *)
(* with the first rule broken, in its order, and the plan prepared for the   *)
(* engine.  A task names its dependencies in a sequence; text is abstract:   *)
(* an answer is a sequence of tokens, NoAnswer when there is none.           *)
(***************************************************************************)
EXTENDS Markdown

CONSTANTS NoAnswer, NoSkill

HardMaxTasks == 5
HardMaxTaskTimeout == 180
HardMaxRunTimeout == 600
MaxConnectionHints == 20
MaxToolHints == 50

PlanModes == {"direct", "skill", "delegate"}
Compositions == {"deterministic", "synthesis_subagent"}

IsTask(t) ==
  /\ Len(t.deps) <= HardMaxTasks
  /\ Len(t.connections) <= MaxConnectionHints
  /\ Len(t.tools) <= MaxToolHints
  /\ t.timeout \in 1..HardMaxTaskTimeout

IsDecision(d) ==
  /\ d.mode \in PlanModes /\ d.composition \in Compositions
  /\ d.tasks \in Seq(ToSet(d.tasks))
  /\ \A k \in DOMAIN d.tasks : IsTask(d.tasks[k])
  /\ d.answer = NoAnswer \/ IsMarkdown(d.answer)

IsLimits(l) ==
  /\ l.tasks \in 1..HardMaxTasks
  /\ l.taskTimeout \in 1..HardMaxTaskTimeout
  /\ l.runTimeout \in 1..HardMaxRunTimeout

(* What the output schema given to the model admits: lists without repeats    *)
(* and no more tasks than any limit allows.                                   *)
SchemaAdmits(d) ==
  /\ IsDecision(d)
  /\ Len(d.tasks) <= HardMaxTasks
  /\ \A k \in DOMAIN d.tasks : LET t == d.tasks[k] IN
       IsInjective(t.deps) /\ IsInjective(t.connections) /\ IsInjective(t.tools)

(* The decision a request with an explicit skill stands for: no model asked.  *)
ExplicitSkill(skill) ==
  [mode |-> "skill", answer |-> NoAnswer, skill |-> skill, tasks |-> <<>>,
   composition |-> "deterministic"]

-----------------------------------------------------------------------------
(* The validator.  A rule is what it forbids and the code it rejects with.    *)

TaskIds(tasks) == {tasks[k].id : k \in DOMAIN tasks}

FirstBroken(rules) ==
  LET broken == {k \in DOMAIN rules : rules[k][1]}
  IN IF broken = {} THEN "accepted" ELSE rules[Min(broken)][2]

DirectRules(d) ==
  << <<d.answer = NoAnswer \/ d.skill # NoSkill \/ d.tasks # <<>>, "invalid_mode_payload">>,
     <<d.composition # "deterministic", "invalid_composition">> >>

SkillRules(d, catalog) ==
  << <<d.answer # NoAnswer \/ d.skill = NoSkill \/ d.tasks # <<>>, "invalid_mode_payload">>,
     <<d.composition # "deterministic", "invalid_composition">>,
     <<d.skill \notin catalog.skills, "unknown_skill">> >>

TaskRules(t, ids, catalog, limits) ==
  << <<t.subagent \notin catalog.subagents, "unknown_subagent">>,
     <<t.timeout > limits.taskTimeout, "task_timeout_exceeded">>,
     <<~IsInjective(t.deps), "duplicate_dependency">>,
     <<t.id \in ToSet(t.deps), "self_dependency">>,
     <<~(ToSet(t.deps) \subseteq ids), "unknown_dependency">>,
     <<~(IsInjective(t.connections) /\ IsInjective(t.tools)), "duplicate_hint">> >>

(* A bug to catch: a task is taken when one of its dependencies is done.       *)
TakenEager(done, t) ==
  IF t.id \notin TaskIds(done) /\ (t.deps = <<>> \/ ToSet(t.deps) \intersect TaskIds(done) # {})
  THEN Append(done, t) ELSE done

(* A task that remains is taken when its dependencies are completed.          *)
Taken(done, t) ==
  IF t.id \notin TaskIds(done) /\ ToSet(t.deps) \subseteq TaskIds(done) THEN Append(done, t) ELSE done

(* One pass over the tasks: what an earlier task of the same pass completed    *)
(* counts.                                                                    *)
OnePass(tasks, ordered) ==
  LET done[k \in 0..Len(tasks)] == IF k = 0 THEN ordered ELSE Taken(done[k - 1], tasks[k])
  IN done[Len(tasks)]

(* A pass that appends nothing ends the loop, so |tasks| passes are enough.   *)
TopologicalOrder(tasks) ==
  LET after[k \in 0..Len(tasks)] == IF k = 0 THEN <<>> ELSE OnePass(tasks, after[k - 1])
  IN after[Len(tasks)]

SynthesisTasks(tasks) == Chosen(tasks, {k \in DOMAIN tasks : tasks[k].subagent = "synthesis"})

(* The synthesis task is alone, joins at least two results and is depended on *)
(* by none.                                                                   *)
JoinsResults(tasks) ==
  LET only == SynthesisTasks(tasks)
  IN /\ Len(only) = 1
     /\ Len(only[1].deps) >= 2
     /\ \A k \in DOMAIN tasks : tasks[k].id # only[1].id => only[1].id \notin ToSet(tasks[k].deps)

SynthesisAllowed(d, catalog) ==
  IF d.composition = "deterministic" THEN SynthesisTasks(d.tasks) = <<>>
  ELSE "synthesis" \in catalog.subagents /\ JoinsResults(d.tasks)

(* Ends of the tasks when each starts as soon as its dependencies have ended. *)
CriticalPath(ordered) ==
  LET ends[k \in 1..Len(ordered)] ==
        ordered[k].timeout
          + Max({0} \union {ends[j] : j \in {i \in 1..(k - 1) : ordered[i].id \in ToSet(ordered[k].deps)}})
  IN Max({0} \union {ends[k] : k \in 1..Len(ordered)})

DelegateRules(d, catalog, limits) ==
  LET ids == TaskIds(d.tasks)
      ordered == TopologicalOrder(d.tasks)
  IN << <<d.answer # NoAnswer \/ d.skill # NoSkill \/ d.tasks = <<>>, "invalid_mode_payload">>,
        <<Len(d.tasks) > limits.tasks, "task_limit_exceeded">>,
        <<Cardinality(ids) # Len(d.tasks), "duplicate_task_id">> >>
     \o FlattenSeq([k \in DOMAIN d.tasks |-> TaskRules(d.tasks[k], ids, catalog, limits)])
     \o << <<Len(ordered) < Len(d.tasks), "dependency_cycle">>,
           <<~SynthesisAllowed(d, catalog), "invalid_synthesis">>,
           <<CriticalPath(ordered) > limits.runTimeout, "run_timeout_exceeded">> >>

Verdict(d, catalog, limits) ==
  FirstBroken(CASE d.mode = "direct" -> DirectRules(d)
                [] d.mode = "skill" -> SkillRules(d, catalog)
                [] d.mode = "delegate" -> DelegateRules(d, catalog, limits))

-----------------------------------------------------------------------------
(* The plan the engine executes.                                              *)

(* PreparedExecutionPlan: tasks come after their dependencies.                *)
IsPreparedPlan(p) ==
  /\ Len(p.tasks) <= HardMaxTasks
  /\ \/ p.mode = "direct" /\ p.answer # NoAnswer /\ p.tasks = <<>> /\ p.composition = "deterministic"
     \/ /\ p.mode = "delegate" /\ p.answer = NoAnswer /\ p.tasks # <<>>
        /\ Cardinality(TaskIds(p.tasks)) = Len(p.tasks)
        /\ \A k \in DOMAIN p.tasks : ToSet(p.tasks[k].deps) \subseteq TaskIds(SubSeq(p.tasks, 1, k - 1))

(* from_validated: every task is required and none may be repeated.           *)
Prepared(d) ==
  [mode |-> d.mode, answer |-> d.answer, composition |-> d.composition,
   tasks |-> IF d.mode = "delegate" THEN TopologicalOrder(d.tasks) ELSE <<>>,
   required |-> TaskIds(d.tasks)]
=============================================================================
