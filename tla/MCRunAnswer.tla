----------------------------- MODULE MCRunAnswer ----------------------------
(* Every plan of three tasks with at most one synthesis among them, odd ones, *)
(* and executors that answer fully, partly, repeat themselves or fail.        *)
EXTENDS RunAnswer

CONSTANTS t1, t2, t3

Target(name, scheme, long) == [name |-> name, scheme |-> scheme, long |-> long, secret |-> FALSE]
Home == Target("home", "https", FALSE)
HomeBlank == Target(" home", "https", FALSE)
Tokened == [Target("tokened", "https", FALSE) EXCEPT !.secret = TRUE]
Script == Target("script", "javascript", FALSE)
Beginning == Target("home", "relative", FALSE)
Endless == Target("endless", "https", TRUE)

MCNormalized ==
  [u \in {NoUri, Home, HomeBlank, Tokened, Script, Endless} |-> IF u = HomeBlank THEN Home ELSE u]

Task(id, subagent, deps, timeout) ==
  [id |-> id, subagent |-> subagent, deps |-> deps, timeout |-> timeout,
   connections |-> <<>>, tools |-> <<>>]

Decision(mode, answer, skill, tasks, composition) ==
  [mode |-> mode, answer |-> answer, skill |-> skill, tasks |-> tasks, composition |-> composition]

Delegates(tasks, composition) == Decision("delegate", NoAnswer, NoSkill, tasks, composition)

(* Three tasks with any dependencies among them and at most one synthesis.    *)
DependencyLists == UNION {SetToSeqs(S) : S \in {x \in SUBSET {t1, t2, t3} : Cardinality(x) <= 2}}

Threefold ==
  {Delegates(<<Task(t1, IF s = t1 THEN "synthesis" ELSE "files", a, 60),
               Task(t2, IF s = t2 THEN "synthesis" ELSE "files", b, 100),
               Task(t3, IF s = t3 THEN "synthesis" ELSE "files", c, 70)>>, composition) :
     s \in {t1, t2, t3, NoSkill}, a \in DependencyLists, b \in DependencyLists, c \in DependencyLists, composition \in Compositions}

(* Answers of the Root: a forbidden link alone, more mentions than are        *)
(* allowed, targets side by side, texts that reach the limit of the output in  *)
(* the middle of a target or of a mention.                                     *)
Label == <<"label", "words">>
Words(n) == [i \in 1..n |-> <<"text", "words">>]

DirectAnswers ==
  {<<Label, <<"definition", Script>>, Blank>>,
   <<<<"mention", 1>>, <<"secret", 1>>, <<"target", Script>>, <<"broadcast", 1>>, <<"mention", 2>>,
     <<"html", 1>>, Label, <<"target", Tokened>>, <<"internal", 1>>, <<"target", Script>>>>,
   <<Label, <<"target", Script>>, <<"target", Script>>, <<"broadcast", 1>>, <<"tail", 1>>>>,
   <<Label, <<"target", Script>>, <<"definition", Script>>, <<"onward", Home>>>>,
   Words(9) \o <<Label, <<"definition", Beginning>>, <<"onward", Home>>, <<"text", "end">>>>,
   Words(10) \o <<<<"broadcast", 1>>, <<"tail", 1>>, <<"text", "end">>>>,
   Words(9) \o <<Blank, Blank, <<"text", "end">>, <<"html", 1>>>>}

(* What else a rule may object to, and what it may not.                       *)
Odd ==
  LET plain == Task(t1, "files", <<>>, 60)
      other == Task(t2, "files", <<t1>>, 60)
  IN {Delegates(<<plain, t>>, "deterministic") : t \in
        {other, plain, [other EXCEPT !.subagent = "nobody"], [other EXCEPT !.timeout = 170],
         [other EXCEPT !.deps = <<t1, t1>>], [other EXCEPT !.deps = <<t3>>],
         [other EXCEPT !.tools = <<"a", "a">>], [other EXCEPT !.connections = <<"a", "a">>]}}
     \union {Delegates(<<plain, other, Task(t3, "files", <<>>, 1), Task("t4", "files", <<>>, 1)>>, "deterministic")}
     \union {Decision(mode, answer, skill, tasks, composition) :
               mode \in PlanModes, skill \in {NoSkill, "known", "other"}, tasks \in {<<>>, <<plain>>},
               composition \in Compositions,
               answer \in {NoAnswer} \union DirectAnswers}

(* What the schema lets a model say is never refused for a repeat.             *)
ASSUME SchemaForbidsRepeats ==
  \A d \in Odd : SchemaAdmits(d) =>
    Verdict(d, [subagents |-> {"files", "synthesis"}, skills |-> {}],
            [tasks |-> 3, taskTimeout |-> 160, runTimeout |-> 180])
      \notin {"duplicate_dependency", "duplicate_hint"}

MCDecisions == Threefold \union Odd \union {ExplicitSkill("known")}
MCCatalog == [subagents |-> {"files", "synthesis"}, skills |-> {"known"}]
MCLimits == [tasks |-> 3, taskTimeout |-> 160, runTimeout |-> 180]

Result(task, status, summary, evidence, warnings, error) ==
  [task |-> task, status |-> status, summary |-> summary, evidence |-> evidence,
   warnings |-> warnings, error |-> error]

MCResultsFor ==
  [t \in {t1, t2, t3, "t4"} |->
     {Result(t, "succeeded", << <<"mention", t>>, Label, <<"target", Script>> >>,
             <<[title |-> "x", uri |-> Home], [title |-> "y", uri |-> NoUri]>>, <<>>, NoError),
      Result(t, "succeeded", << <<"internal", 1>> >>,
             <<[title |-> "z", uri |-> Script], [title |-> "x", uri |-> HomeBlank], [title |-> "e", uri |-> Tokened]>>,
             << <<"says", "late">> >>, NoError),
      Result(t, "partial", << <<"broadcast", 1>> >>, <<>>, << <<"says", "late">>, <<"partial result", t>>>>, "limit"),
      Result(t, "failed", << <<"text", "words">> >>, <<[title |-> "e", uri |-> Endless]>>, << <<"says", "late">> >>, "step_timeout")}]

MCOutputPolicy ==
  [maxInput |-> 22, maxOutput |-> 12, maxMentions |-> 1, maxLinks |-> 2, marker |-> 1,
   schemes |-> {"https"}, relative |-> FALSE]
=============================================================================
