-------------------------- MODULE MCPlanExecution --------------------------
(***************************************************************************)
(* The questions on which TLC checks PlanExecution.                        *)
(***************************************************************************)
EXTENDS PlanExecution

Asks(t, c, y) == [task |-> t, companies |-> c, years |-> y, metric |-> FALSE]
Calculation == [task |-> "document_qa", companies |-> 0, years |-> 0, metric |-> TRUE]

\* Every shape of plan with every strategy that runs it.
MCAsked ==
    {Asks("chat", 0, 0), Asks("ocr", 0, 0), Asks("document_qa", 1, 0),
     Asks("document_qa", 2, 1), Asks("research", 0, 0), Asks("comparison", 1, 0),
     Asks("comparison", 1, 2), Asks("comparison", 3, 0), Asks("comparison", 0, 3),
     Calculation}

\* All questions with up to four companies and three years.
MCAllQuestions == [task : TaskType, companies : 0..4, years : 0..3, metric : BOOLEAN]
============================================================================
