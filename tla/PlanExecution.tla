---------------------------- MODULE PlanExecution ----------------------------
(***************************************************************************)
(* Concurrent requests through one shared QueryPlanner and the handlers of *)
(* agent/execution: the plan is built under the planner's lock, and then   *)
(* run by the strategy's handler, sequentially or with the retrievals of a *)
(* round on a pool of threads (agent/execution/plan_execution.py).         *)
(*                                                                         *)
(* What a step computes is left out: it completes or fails.  The evidence  *)
(* of a request is the sequence of the steps it came from.                 *)
(***************************************************************************)
EXTENDS QueryPlanning, FiniteSets

CONSTANTS Clients,  \* requests, one per client
          Asked     \* the questions they may have

ASSUME PlanAssumption ==
    Asked \subseteq [task : TaskType, companies : Nat, years : Nat, metric : BOOLEAN]

NoClient == "nobody"
ASSUME ClientAssumption == NoClient \notin Clients

VARIABLES planLock,   \* holder of _plan_lock
          counter,    \* _step_counter
          phase,      \* of each client's request
          query,      \* its question
          plan,       \* plan.tasks: id, type, deps
          status,     \* of every step of the plan
          completed,  \* the ids in the handler's dict of the same name
          evidence,   \* _all_evidence, as the steps it came from
          round,      \* steps of the current round that still have to run
          batch       \* those of them given to the thread pool

plannerVars == <<planLock, counter>>
runVars == <<status, completed, evidence, round, batch>>
planVars == <<plannerVars, phase, query, plan, runVars>>

PlanInit ==
    /\ planLock = NoClient
    /\ counter = 1
    /\ phase = [c \in Clients |-> "idle"]
    /\ query \in [Clients -> Asked]
    /\ plan = [c \in Clients |-> <<>>]
    /\ status = [c \in Clients |-> <<>>]
    /\ completed = [c \in Clients |-> {}]
    /\ evidence = [c \in Clients |-> <<>>]
    /\ round = [c \in Clients |-> {}]
    /\ batch = [c \in Clients |-> {}]

-----------------------------------------------------------------------------
(* QueryPlanner.plan.                                                      *)

\* Mutant: no lock.
PlanBeginUnlocked(c) ==
    /\ phase[c] = "idle"
    /\ phase' = [phase EXCEPT ![c] = "plan"]
    /\ counter' = 1
    /\ UNCHANGED <<planLock, query, plan, runVars>>

\* with self._plan_lock: ... _reset_counter()
PlanBegin(c) ==
    /\ phase[c] = "idle"
    /\ planLock = NoClient
    /\ planLock' = c
    /\ phase' = [phase EXCEPT ![c] = "plan"]
    /\ counter' = 1
    /\ UNCHANGED <<query, plan, runVars>>

\* One PlanStep, with _next_id().
PlanStep(c) ==
    LET types == StepTypes(query[c])
        type == types[Len(plan[c]) + 1]
    IN
    /\ phase[c] = "plan"
    /\ Len(plan[c]) < Len(types)
    /\ plan' = [plan EXCEPT ![c] = Append(@,
            [id |-> counter, type |-> type, deps |-> DependsOn(type, plan[c])])]
    /\ status' = [status EXCEPT ![c] = Append(@, "pending")]
    /\ counter' = counter + 1
    /\ UNCHANGED <<planLock, phase, query, completed, evidence, round, batch>>

\* The lock is released; the strategy engine chooses and the dispatcher calls
\* the handler.  The direct one returns an empty output at once.
PlanEnd(c) ==
    /\ phase[c] = "plan"
    /\ Len(plan[c]) = Len(StepTypes(query[c]))
    /\ planLock' = NoClient
    /\ phase' = [phase EXCEPT ![c] =
                    IF Strategy(query[c]) = "direct_llm" THEN "done" ELSE "run"]
    /\ UNCHANGED <<counter, query, plan, runVars>>

-----------------------------------------------------------------------------
(* Single steps: StepExecutionEngine._execute_step.                        *)

Steps(c) == 1..Len(plan[c])
Pending(c) == {k \in Steps(c) : status[c][k] = "pending"}
DependenciesMet(c, k) == plan[c][k].deps \subseteq completed[c]

\* What the registered handlers can do: there is none for a reasoning step, and
\* those of compare and synthesis only return.
Outcomes(type) ==
    CASE type = "reasoning" -> {"failed"}
      [] type \in {"compare", "synthesis"} -> {"completed"}
      [] OTHER -> {"completed", "failed"}

\* The result of step k is recorded, and its evidence kept if it succeeded.
Record(c, k, s) ==
    /\ status' = [status EXCEPT ![c][k] = s]
    /\ completed' = [completed EXCEPT ![c] =
                        IF s = "completed" THEN @ \cup {plan[c][k].id} ELSE @]
    /\ evidence' = [evidence EXCEPT ![c] =
                        IF s = "completed" /\ plan[c][k].type = "retrieve"
                        THEN Append(@, k) ELSE @]

\* Step k on the caller's thread.
ExecuteStep(c, k) ==
    IF DependenciesMet(c, k)
    THEN \E s \in Outcomes(plan[c][k].type) : Record(c, k, s)
    ELSE Record(c, k, "skipped")

First(S) == CHOOSE k \in S : \A j \in S : k <= j

-----------------------------------------------------------------------------
(* The handlers.                                                           *)

Runs(c, S) == phase[c] = "run" /\ Strategy(query[c]) \in S

\* The first step that has not run.
NextInOrder(c) ==
    /\ Pending(c) # {}
    /\ ExecuteStep(c, First(Pending(c)))
    /\ UNCHANGED <<plannerVars, phase, query, plan, round, batch>>

\* RagHandler, through StepExecutionEngine.execute.
RagStep(c) == Runs(c, {"rag"}) /\ NextInOrder(c)

\* MultiStepHandler, through execute_sequential.
SequentialStep(c) == Runs(c, {"multi_step"}) /\ NextInOrder(c)

\* ToolCallingHandler: only a planned tool call gets as far as the step engine.
ToolStep(c) ==
    LET k == First(Pending(c)) IN
    /\ Runs(c, {"tool_calling"})
    /\ Pending(c) # {}
    /\ IF DependenciesMet(c, k) /\ plan[c][k].type = "tool_call"
       THEN ExecuteStep(c, k) ELSE Record(c, k, "skipped")
    /\ UNCHANGED <<plannerVars, phase, query, plan, round, batch>>

Ready(c) == {k \in Pending(c) : DependenciesMet(c, k)}
Retrievals(c, S) == {k \in S : plan[c][k].type = "retrieve"}

\* Mutant: the break after a round without a ready step is missing.
RoundBeginNoBreak(c) ==
    /\ Runs(c, {"parallel"})
    /\ round[c] = {} /\ Pending(c) # {} /\ Ready(c) # {}
    /\ round' = [round EXCEPT ![c] = Ready(c)]
    /\ batch' = [batch EXCEPT ![c] =
            IF Cardinality(Retrievals(c, Ready(c))) > 1 /\ Parallelism(query[c]) > 1
            THEN Retrievals(c, Ready(c)) ELSE {}]
    /\ UNCHANGED <<plannerVars, phase, query, plan, status, completed, evidence>>

\* execute_parallel_retrievals, one turn of while pending: several retrievals go
\* to the pool; when nothing is ready the rest is skipped.
RoundBegin(c) ==
    /\ Runs(c, {"parallel"})
    /\ round[c] = {} /\ Pending(c) # {}
    /\ \/ /\ Ready(c) # {}
          /\ round' = [round EXCEPT ![c] = Ready(c)]
          /\ batch' = [batch EXCEPT ![c] =
                  IF Cardinality(Retrievals(c, Ready(c))) > 1 /\ Parallelism(query[c]) > 1
                  THEN Retrievals(c, Ready(c)) ELSE {}]
          /\ UNCHANGED status
       \/ /\ Ready(c) = {}
          /\ status' = [status EXCEPT ![c] =
                  [k \in Steps(c) |-> IF k \in Pending(c) THEN "skipped" ELSE @[k]]]
          /\ UNCHANGED <<round, batch>>
    /\ UNCHANGED <<plannerVars, phase, query, plan, completed, evidence>>

\* A thread of the pool takes the next step that was submitted.
TakeRetrieval(c) ==
    LET queued == {k \in batch[c] : status[c][k] = "pending"} IN
    /\ queued # {}
    /\ Cardinality({k \in batch[c] : status[c][k] = "running"}) < Parallelism(query[c])
    /\ status' = [status EXCEPT ![c][First(queued)] = "running"]
    /\ UNCHANGED <<plannerVars, phase, query, plan, completed, evidence, round, batch>>

\* Mutant: the threads are given the shared list of evidence.
FinishRetrievalShared(c, k) ==
    /\ k \in batch[c] /\ status[c][k] = "running"
    /\ \E s \in {"completed", "failed"} : Record(c, k, s)
    /\ UNCHANGED <<plannerVars, phase, query, plan, round, batch>>

\* It ends with its own list of evidence; nothing is merged yet.
FinishRetrieval(c, k) ==
    /\ k \in batch[c] /\ status[c][k] = "running"
    /\ \E s \in {"completed", "failed"} : status' = [status EXCEPT ![c][k] = s]
    /\ UNCHANGED <<plannerVars, phase, query, plan, completed, evidence, round, batch>>

\* A sequence lists a set of steps in plan order, each once.
Lists(s, S) ==
    /\ \A j, k \in DOMAIN s : j < k => s[j] < s[k]
    /\ {s[k] : k \in DOMAIN s} = S
InPlanOrder(S) == {s \in [1..Cardinality(S) -> S] : Lists(s, S)}

\* Mutant: completed[step.step_id] is set outside the if.
MergeBatchBlindly(c) ==
    LET good == {k \in batch[c] : status[c][k] = "completed"} IN
    /\ batch[c] # {}
    /\ \A k \in batch[c] : status[c][k] \in {"completed", "failed"}
    /\ \E s \in InPlanOrder(good) : evidence' = [evidence EXCEPT ![c] = @ \o s]
    /\ completed' = [completed EXCEPT ![c] = @ \cup {plan[c][k].id : k \in batch[c]}]
    /\ round' = [round EXCEPT ![c] = @ \ batch[c]]
    /\ batch' = [batch EXCEPT ![c] = {}]
    /\ UNCHANGED <<plannerVars, phase, query, plan, status>>

\* Every future has a result: the outcomes are merged in plan order.
MergeBatch(c) ==
    LET good == {k \in batch[c] : status[c][k] = "completed"} IN
    /\ batch[c] # {}
    /\ \A k \in batch[c] : status[c][k] \in {"completed", "failed"}
    /\ \E s \in InPlanOrder(good) : evidence' = [evidence EXCEPT ![c] = @ \o s]
    /\ completed' = [completed EXCEPT ![c] = @ \cup {plan[c][k].id : k \in good}]
    /\ round' = [round EXCEPT ![c] = @ \ batch[c]]
    /\ batch' = [batch EXCEPT ![c] = {}]
    /\ UNCHANGED <<plannerVars, phase, query, plan, status>>

\* The rest of the round on the caller's thread: retrievals, then other steps.
RoundStep(c) ==
    LET left == round[c]
        k == First(IF Retrievals(c, left) # {} THEN Retrievals(c, left) ELSE left)
    IN
    /\ batch[c] = {} /\ left # {}
    /\ ExecuteStep(c, k)
    /\ round' = [round EXCEPT ![c] = @ \ {k}]
    /\ UNCHANGED <<plannerVars, phase, query, plan, batch>>

\* output_from_evidence
Return(c) ==
    /\ phase[c] = "run"
    /\ Pending(c) = {} /\ round[c] = {}
    /\ phase' = [phase EXCEPT ![c] = "done"]
    /\ UNCHANGED <<plannerVars, query, plan, runVars>>

-----------------------------------------------------------------------------
Serve(c) ==
    \/ PlanStep(c) \/ PlanEnd(c) \/ RagStep(c) \/ SequentialStep(c) \/ ToolStep(c)
    \/ RoundBegin(c) \/ MergeBatch(c) \/ RoundStep(c) \/ Return(c)

PoolThread(c) == TakeRetrieval(c) \/ \E k \in Steps(c) : FinishRetrieval(c, k)

PlanNext == \E c \in Clients : PlanBegin(c) \/ Serve(c) \/ PoolThread(c)

PlanSpec == PlanInit /\ [][PlanNext]_planVars

\* Requests that were begun are served, and retrievals return.
PlanFairness == \A c \in Clients : WF_planVars(Serve(c)) /\ WF_planVars(PoolThread(c))

-----------------------------------------------------------------------------
(* Properties.                                                             *)

\* Type invariant: every step has a status, a batch is part of its round.
PlanTypeOK ==
    /\ planLock \in Clients \cup {NoClient}
    /\ counter \in Nat \ {0}
    /\ phase \in [Clients -> {"idle", "plan", "run", "done"}]
    /\ query \in [Clients -> Asked]
    /\ \A c \in Clients :
          /\ Len(status[c]) = Len(plan[c])
          /\ \A k \in Steps(c) : status[c][k] \in
                {"pending", "running", "completed", "failed", "skipped"}
          /\ batch[c] \subseteq round[c] /\ round[c] \subseteq Steps(c)

\* A plan's ids are its own, in order, and a step depends on steps before it,
\* although all requests share one counter ("prevents request plans from
\* corrupting step IDs", query_planner.py:60).
PlanWellFormed ==
    \A c \in Clients : \A k \in Steps(c) :
        plan[c][k].id = k /\ \A d \in plan[c][k].deps : d \in 1..(k - 1)

\* A request that was executed returns the evidence of the retrievals that
\* succeeded, each once and in plan order, whatever the threads' timing
\* ("completion timing cannot change citations or reasoning").
Good(c) == {k \in Steps(c) : status[c][k] = "completed"}
EvidenceInPlanOrder ==
    \A c \in Clients : phase[c] = "done" =>
        Lists(evidence[c], Retrievals(c, Good(c)))

\* A step is skipped exactly when something it depends on did not complete
\* ("truthful SKIPPED results"), in every strategy that runs the whole plan.
SkippedTruthfully ==
    \A c \in Clients :
        phase[c] = "done" /\ Strategy(query[c]) \in {"rag", "multi_step", "parallel"} =>
            \A k \in Steps(c) : status[c][k] = "skipped" <=> ~(plan[c][k].deps \subseteq Good(c))

\* Every request that got its plan returns, however many steps fail.
PlansEnd == \A c \in Clients : phase[c] # "idle" ~> phase[c] = "done"

\* A question about documents, a comparison or research is answered from the
\* retrievals its plan has.
PlannedRetrievalRuns ==
    \A c \in Clients :
        phase[c] = "done" /\ query[c].task \in {"document_qa", "research", "comparison"}
            => \A k \in Retrievals(c, Steps(c)) : status[c][k] # "pending"
=============================================================================
