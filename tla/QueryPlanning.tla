---------------------------- MODULE QueryPlanning ----------------------------
(***************************************************************************)
(* From a classified question to a plan and a strategy: the rules of       *)
(* agent/planning/complexity_analyzer.py, agent/query_planner.py and       *)
(* agent/execution/strategies, as operators.                               *)
(*                                                                         *)
(* A question is what the text matching leaves of it: its task type, how   *)
(* many companies and years it names, and whether it spells out a financial*)
(* calculation.  Scores are thousandths: factors are tenths and weights    *)
(* hundredths, so the float comparisons of the code are exact here.        *)
(***************************************************************************)
EXTENDS Integers, Sequences

\* What classify_by_keyword returns.
TaskType == {"ocr", "image_analysis", "comparison", "document_qa", "research", "chat"}

-----------------------------------------------------------------------------
(* ComplexityAnalyzer.                                                     *)

\* A table whose last entry also stands for every greater count.
Graded(table, n) == table[IF n + 1 > Len(table) THEN Len(table) ELSE n + 1]

PromptScore(q) == Graded(<<2, 5, 5, 8>>, q.companies + q.years)
CompanyScore(q) == Graded(<<0, 3, 6, 9>>, q.companies)
YearScore(q) == Graded(<<0, 3, 5, 8>>, q.years)

TaskTypeScore(q) ==
    [chat |-> 0, ocr |-> 3, document_qa |-> 5, image_analysis |-> 5,
     comparison |-> 7, research |-> 10][q.task]

ComparisonScore(q) ==
    CASE q.companies < 2 -> 0
      [] q.companies >= 2 /\ q.task = "comparison" -> 8
      [] OTHER -> 5

\* ComplexityWeights, in hundredths.
Weights ==
    [prompt_length |-> 10, company_count |-> 20, year_count |-> 10,
     task_weight |-> 50, comparison |-> 10]

Score(q) ==
    Weights.prompt_length * PromptScore(q) + Weights.company_count * CompanyScore(q)
        + Weights.year_count * YearScore(q) + Weights.task_weight * TaskTypeScore(q)
        + Weights.comparison * ComparisonScore(q)

ScoreToLevel(s) ==
    CASE s <= 300 -> "low"
      [] s > 300 /\ s <= 500 -> "medium"
      [] OTHER -> "high"

Level(q) == ScoreToLevel(Score(q))

-----------------------------------------------------------------------------
(* QueryPlanner: the types of the steps, in order, and for each step how   *)
(* it depends on the ones before it.                                       *)

Retrieves(n) == [k \in 1..n |-> "retrieve"]

StepTypes(q) ==
    CASE q.metric -> <<"tool_call">>
      [] ~q.metric /\ q.task = "comparison" ->
            Retrieves(q.companies) \o <<"compare", "synthesis">>
      [] ~q.metric /\ q.task = "document_qa" -> <<"retrieve", "reasoning">>
      [] ~q.metric /\ q.task = "research" -> <<"retrieve", "synthesis">>
      [] OTHER -> <<"retrieve">>

\* depends_on of a new step, from the steps already in the plan: a comparison
\* needs every retrieval, the other derived steps the step before them.
DependsOn(type, plan) ==
    CASE type \in {"retrieve", "tool_call"} -> {}
      [] type = "compare" -> {plan[k].id : k \in {j \in DOMAIN plan : plan[j].type = "retrieve"}}
      [] OTHER -> {plan[Len(plan)].id}

-----------------------------------------------------------------------------
(* The strategies, most specific first, and the fallback.                  *)

ToolCallingSupports(q) == q.metric \/ q.task \in {"ocr", "image_analysis"}
RagSupports(q) == q.task \in {"document_qa", "research"} /\ Level(q) \in {"low", "medium"}

\* extracted_entities holds the years too.
Entities(q) == q.companies + q.years
ParallelSupports(q) ==
    q.task = "comparison" /\ Level(q) \in {"medium", "high"} /\ Entities(q) >= 2
MultiStepSupports(q) == q.task \in {"comparison", "research"} /\ Level(q) = "high"

\* DirectLLMStrategy needs no case of its own: the fallback is the same.
Strategy(q) ==
    CASE ToolCallingSupports(q) -> "tool_calling"
      [] ~ToolCallingSupports(q) /\ RagSupports(q) -> "rag"
      [] ~ToolCallingSupports(q) /\ ~RagSupports(q) /\ ParallelSupports(q) -> "parallel"
      [] ~ToolCallingSupports(q) /\ ~RagSupports(q) /\ ~ParallelSupports(q)
            /\ MultiStepSupports(q) -> "multi_step"
      [] OTHER -> "direct_llm"

\* parallelism of the strategy's result, clipped to MAX_RETRIEVAL_WORKERS = 4.
Parallelism(q) ==
    IF Strategy(q) = "parallel" THEN (IF Entities(q) > 4 THEN 4 ELSE Entities(q)) ELSE 1
=============================================================================
