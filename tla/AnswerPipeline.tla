--------------------------- MODULE AnswerPipeline ---------------------------
(***************************************************************************)
(* One thread of the agent, turn after turn: the three nodes of the        *)
(* LangGraph graph over the thread's checkpoint, and inside the execute    *)
(* node run_rag with routing, workflow, execution and the model call.      *)
(*                                                                         *)
(* A channel of the checkpoint carries the turn that wrote it: a new turn  *)
(* starts from the checkpoint the last one left, however it ended.  What a *)
(* strategy's handler does to its steps is PlanExecution's subject; here a *)
(* plan is the outcome of its retrievals and tool calls.                   *)
(***************************************************************************)
EXTENDS QueryPlanning, FiniteSets

CONSTANTS
    AnswerQuestions, \* questions of the turns
    Registered,      \* providers, in the order of their registration
    Deployment,      \* providers with a key in the deployment's environment
    LLMProvider,     \* LLM_PROVIDER
    UserSettings,    \* [configs, default]; no configs: nothing was set
    MaxRetry,        \* _max_retry of the adapters
    Mentions,        \* what the text of an error may say beside its status
    MaxTurns         \* bound on the turns

ASSUME AnswerAssumption ==
    /\ AnswerQuestions \subseteq [task : TaskType, companies : Nat, years : Nat, metric : BOOLEAN]
    /\ Registered \in Seq({"deepseek", "gemini", "openai", "anthropic", "doubao"})
    /\ MaxRetry \in Nat \ {0} /\ MaxTurns \in Nat

ASSUME MentionsAssumption ==
    /\ {} \in Mentions
    /\ Mentions \subseteq SUBSET {"401", "402", "404", "429", "500", "connection", "permission",
                                  "resource exhausted", "nameresolution"}

VARIABLES
    turn,     \* turns of the thread so far
    node,     \* where the turn is
    chan,     \* the channels of the thread's checkpoint
    run,      \* locals of the turn: question, settings, provider, ...
    llmCalls, \* outcomes of the requests to the provider in this turn
    given     \* what run_agent returned or raised last

answerVars == <<turn, node, chan, run, llmCalls, given>>

Nodes == {"idle", "plan", "route", "workflow", "dispatch", "answer", "call", "execute", "finalize"}

NoRun == [q |-> [task |-> "chat", companies |-> 0, years |-> 0, metric |-> FALSE],
          settings |-> [configs |-> {}, default |-> LLMProvider],
          provider |-> "", key |-> "", workflow |-> "", workflowTools |-> <<>>,
          steps |-> <<>>, cites |-> 0, report |-> ""]

\* AgentGraphState; the channels that only copy another one are left out.
Empty == [strategy |-> "", steps |-> <<>>, citations |-> 0, report |-> "", routing |-> "",
          answer |-> "", sources |-> 0, tools |-> {}, quality |-> 0]

AnswerInit ==
    /\ turn = 0 /\ node = "idle" /\ run = NoRun /\ llmCalls = <<>>
    /\ chan = [n \in DOMAIN Empty |-> [turn |-> 0, val |-> Empty[n]]]
    /\ given = [turn |-> 0, outcome |-> "none", state |-> chan]

(* ------------------------------- routing ------------------------------- *)

\* _match: the planner asks for no capability, so only a chat has a favourite.
Match(q, default, p) == IF q.task = "chat" /\ p = default THEN 85 ELSE 50

\* _route_by_capability: the first of the most confident, among the providers
\* at some places of the registration.
RouteByCapability(q, default, places) ==
    LET conf(i) == Match(q, default, Registered[i])
    IN  Registered[CHOOSE i \in places :
            \A j \in places : conf(j) < conf(i) \/ (conf(j) = conf(i) /\ i <= j)]

\* _get_request_runtime: whose configurations and default the router has.
OwnRouter(s) == s.configs # {}

\* Mutant: the router of a request knows every provider.
AllProviders(s) == DOMAIN Registered
\* ModelRouter.route: what is registered and available.
AvailableProviders(s) ==
    {i \in DOMAIN Registered : OwnRouter(s) => Registered[i] \in s.configs}

\* _build_config: a provider without overrides takes LLM_API_KEY.
BuildConfig(s, p) ==
    IF OwnRouter(s) THEN (IF p \in s.configs THEN "user" ELSE "deployment")
    ELSE (IF p \in Deployment THEN "deployment" ELSE "")

(* ------------------------------ workflow ------------------------------- *)

\* _STRATEGY_TO_WORKFLOW
WorkflowType(strategy) ==
    [direct_llm |-> "direct_chat", rag |-> "rag", multi_step |-> "multi_step",
     parallel |-> "parallel", tool_calling |-> "tool_pipeline"][strategy]

\* The steps of each workflow, by the tool in their metadata.
DirectChatWorkflow == <<"">>
ToolPipelineWorkflow == <<"">>
RagWorkflow == <<"retrieval", "", "">>
ComparisonWorkflow == <<"retrieval", "retrieval", "", "">>
ResearchWorkflow == <<"", "retrieval", "python", "", "">>
WorkflowTools(type) ==
    [direct_chat |-> DirectChatWorkflow, tool_pipeline |-> ToolPipelineWorkflow,
     rag |-> RagWorkflow, parallel |-> ComparisonWorkflow, multi_step |-> ResearchWorkflow][type]

\* ToolBridge.to_tool_context: the step's metadata, and nothing of the request.
BridgedContext == [tenant |-> FALSE, query |-> FALSE, adapter |-> FALSE]

\* _execute_workflow_tools: the retrieval contract refuses such a context and
\* python is disabled; an exception would be dropped.
WorkflowToolResult(tool) ==
    IF tool = "retrieval"
    THEN IF BridgedContext.tenant /\ BridgedContext.query /\ BridgedContext.adapter
         THEN "success" ELSE "failed"
    ELSE "skipped"

\* WorkflowExecutor: every step runs all the tools of the workflow; none raises.
WorkflowExecute(type) ==
    LET tools == SelectSeq(WorkflowTools(type), LAMBDA t : t # "") IN
    [k \in DOMAIN WorkflowTools(type) |-> [i \in DOMAIN tools |-> WorkflowToolResult(tools[i])]]

(* ----------------------------- execution ------------------------------- *)

UseRetrieval(strategy) == strategy \in {"rag", "multi_step", "parallel"}

\* The retrievals and tool calls of the plan, by their place in it.
Observable(q) == {k \in DOMAIN StepTypes(q) : StepTypes(q)[k] \in {"retrieve", "tool_call"}}

\* What the handler of the strategy may leave: the direct one touches nothing,
\* the tool handler skips what is no tool call and returns no evidence.
Outputs(q) ==
    LET strategy == Strategy(q)
        fates(type) ==
            CASE strategy = "direct_llm" -> {"pending"}
              [] strategy = "tool_calling" /\ type # "tool_call" -> {"skipped"}
              [] OTHER -> {"completed", "failed"}
    IN {o \in [steps : [Observable(q) -> {"pending", "skipped", "completed", "failed"}], cites : 0 .. 1] :
            /\ \A k \in Observable(q) : o.steps[k] \in fates(StepTypes(q)[k])
            /\ o.cites > 0 => UseRetrieval(strategy) /\ \E k \in Observable(q) : o.steps[k] = "completed"}

(* ------------------------------ providers ------------------------------ *)

\* What a request to a provider comes to: a body, or an exception with a status and
\* the phrases found in its text.  The SDKs write the number of an HTTP status into the
\* text ("500" is 500 or 503, "401" also unauthorized, "404" also model not found,
\* "connection" also timeout); the rest is the provider's and the network's wording.
StatusInText ==
    [unauthorized |-> {"401"}, balance |-> {"402"}, rate_limit |-> {"429"}, not_found |-> {"404"},
     server |-> {"500"}, forbidden |-> {}, network |-> {}, gateway |-> {}, bad_request |-> {}]
LLMOutcomes ==
    [status : {"text", "blank"}, text : {{}}]
    \cup {[status |-> s, text |-> StatusInText[s] \cup m] : s \in DOMAIN StatusInText, m \in Mentions}
Body(o) == o.status \in {"text", "blank"}
Transient(o) == o.status \in {"network", "server", "gateway"}

\* What each adapter's chat tries again.  DeepSeek and Gemini search the text of the
\* exception, so that a permanent error that mentions a phrase is tried again too and
\* a timeout worded otherwise is not; what they recognise as an error of the key, the
\* quota or the model they raise first.  The others go by the status; 429 is in their
\* lists of retryable errors, but raised before the list is used.
DeepSeekRetries(o) ==
    /\ o.text \cap {"401", "402", "429", "404"} = {}
    /\ o.text \cap {"connection", "nameresolution", "500"} # {}
GeminiRetries(o) ==
    /\ o.text \cap {"401", "permission", "429", "resource exhausted", "404"} = {}
    /\ o.text \cap {"connection", "500"} # {}
OpenAIRetries(o) == Transient(o)
ClaudeRetries(o) == Transient(o)
DoubaoRetries(o) == Transient(o)
Retryable(p, o) ==
    \/ p = "deepseek" /\ DeepSeekRetries(o)
    \/ p = "gemini" /\ GeminiRetries(o)
    \/ p = "openai" /\ OpenAIRetries(o)
    \/ p = "anthropic" /\ ClaudeRetries(o)
    \/ p = "doubao" /\ DoubaoRetries(o)

(* ------------------------------ the graph ------------------------------ *)

\* A node's return value goes into the checkpoint.
Written(updates) ==
    [n \in DOMAIN chan |-> IF n \in DOMAIN updates THEN [turn |-> turn, val |-> updates[n]]
                           ELSE chan[n]]

\* run_agent: graph.invoke with the new question on the thread.
Invoke(q, s) ==
    /\ node = "idle" /\ turn < MaxTurns
    /\ turn' = turn + 1 /\ node' = "plan"
    /\ run' = [NoRun EXCEPT !.q = q, !.settings = s]
    /\ llmCalls' = <<>>
    /\ UNCHANGED <<chan, given>>

\* An exception leaves the graph: the channels keep what they had.
Raise ==
    /\ node' = "idle"
    /\ given' = [turn |-> turn, outcome |-> "error", state |-> chan]
    /\ UNCHANGED <<turn, chan, run>>

PlanNode ==
    /\ node = "plan" /\ node' = "route"
    /\ UNCHANGED <<turn, chan, run, llmCalls, given>>

\* AgentRuntime.run: planning, then routing.
RouteRequest ==
    /\ node = "route"
    /\ LET s == run.settings
           providers == AvailableProviders(s)
           p == RouteByCapability(run.q, s.default, providers) IN
       IF providers = {} THEN Raise
       ELSE /\ node' = "workflow"
            /\ run' = [run EXCEPT !.provider = p, !.key = BuildConfig(s, p)]
            /\ UNCHANGED <<turn, chan, given>>
    /\ UNCHANGED llmCalls

RunWorkflow ==
    /\ node = "workflow" /\ node' = "dispatch"
    /\ LET type == WorkflowType(Strategy(run.q)) IN
       run' = [run EXCEPT !.workflow = type, !.workflowTools = WorkflowExecute(type)]
    /\ UNCHANGED <<turn, chan, llmCalls, given>>

Dispatch(o) ==
    /\ node = "dispatch" /\ node' = "answer"
    /\ run' = [run EXCEPT !.steps = o.steps, !.cites = o.cites]
    /\ UNCHANGED <<turn, chan, llmCalls, given>>

\* run_rag after the runtime returned: a tool's result is the answer, a chat is
\* answered by the model, anything else only with citations (DEBUG_MODE, a constant
\* FALSE, would return the prompt).
Answer ==
    LET tool == Strategy(run.q) = "tool_calling"
        done == \E k \in DOMAIN run.steps : run.steps[k] = "completed"
        model == run.workflow = "direct_chat" \/ run.cites > 0
    IN
    /\ node = "answer"
    /\ node' = IF ~tool /\ model THEN "call" ELSE "execute"
    /\ run' = [run EXCEPT !.report = CASE tool /\ done -> "tool_result"
                                       [] tool /\ ~done -> "tool_failed"
                                       [] ~tool /\ ~model -> "no_evidence"
                                       [] OTHER -> ""]
    /\ UNCHANGED <<turn, chan, llmCalls, given>>

\* call_llm and the provider's chat: one attempt.  A blank body becomes
\* _empty_answer_for_question; without a key no request is made.
Call(o) ==
    /\ node = "call" /\ run.key # ""
    /\ llmCalls' = Append(llmCalls, o)
    /\ CASE Body(o) -> /\ node' = "execute"
                       /\ run' = [run EXCEPT !.report = IF o.status = "text" THEN "text" ELSE "empty_notice"]
                       /\ UNCHANGED <<turn, chan, given>>
         [] Retryable(run.provider, o) /\ Len(llmCalls) + 1 < MaxRetry ->
                       UNCHANGED <<turn, node, chan, run, given>>
         [] OTHER -> Raise

CallWithoutKey ==
    /\ node = "call" /\ run.key = ""
    /\ Raise /\ UNCHANGED llmCalls

\* Mutant: a turn without citations leaves the channel alone.
ExecuteNodeSparse ==
    /\ node = "execute" /\ node' = "finalize"
    /\ LET all == [strategy |-> Strategy(run.q), steps |-> run.steps, citations |-> run.cites,
                   report |-> run.report, routing |-> run.provider]
       IN chan' = Written([n \in {m \in DOMAIN all : m # "citations" \/ run.cites > 0} |-> all[n]])
    /\ UNCHANGED <<turn, run, llmCalls, given>>

\* _execute_node: what it returns.
ExecuteNode ==
    /\ node = "execute" /\ node' = "finalize"
    /\ chan' = Written([strategy |-> Strategy(run.q), steps |-> run.steps,
                        citations |-> IF run.workflow \in {"direct_chat", "tool_pipeline"} THEN 0 ELSE run.cites,
                        report |-> run.report, routing |-> run.provider])
    /\ UNCHANGED <<turn, run, llmCalls, given>>

\* _actual_tools_used
ActualToolsUsed(q, steps, citations, strategy) ==
    {IF StepTypes(q)[k] = "retrieve" THEN "retrieval" ELSE "financial_metrics" :
        k \in {i \in DOMAIN steps : steps[i] = "completed"}}
    \cup (IF citations > 0 /\ UseRetrieval(strategy) THEN {"retrieval"} ELSE {})

\* _finalize_node, from the checkpoint, and the result of run_agent.
FinalizeNode ==
    /\ node = "finalize" /\ node' = "idle"
    /\ LET st(n) == chan[n].val IN
       chan' = Written([answer |-> st("report"), sources |-> st("citations"),
                        tools |-> ActualToolsUsed(run.q, st("steps"), st("citations"), st("strategy")),
                        quality |-> IF st("report") # "" /\ (UseRetrieval(st("strategy")) => st("citations") > 0)
                                    THEN 1 ELSE 0])
    /\ given' = [turn |-> turn, outcome |-> "answer", state |-> chan']
    /\ UNCHANGED <<turn, run, llmCalls>>

\* The process dies; what was checkpointed stays.
Die ==
    /\ node # "idle" /\ node' = "idle"
    /\ UNCHANGED <<turn, chan, run, llmCalls, given>>

AnswerNext ==
    \/ \E q \in AnswerQuestions, s \in UserSettings : Invoke(q, s)
    \/ PlanNode \/ RouteRequest \/ RunWorkflow
    \/ \E o \in Outputs(run.q) : Dispatch(o)
    \/ Answer \/ (\E o \in LLMOutcomes : Call(o)) \/ CallWithoutKey
    \/ ExecuteNode \/ FinalizeNode \/ Die

AnswerSpec == AnswerInit /\ [][AnswerNext]_answerVars

(* ----------------------------- properties ------------------------------ *)

\* Type invariant.
AnswerTypeOK ==
    /\ turn \in 0 .. MaxTurns /\ node \in Nodes
    /\ DOMAIN chan = DOMAIN Empty /\ \A n \in DOMAIN chan : chan[n].turn \in 0 .. turn
    /\ run.key \in {"", "user", "deployment"} /\ Len(llmCalls) <= MaxRetry
    /\ given.outcome \in {"none", "answer", "error"}

\* What run_agent returns for a turn was written in that turn, whatever earlier
\* turns of the thread left in its checkpoint when they failed or died: the
\* answer, its sources, tools, routing and quality belong together.  A quality
\* of 1 and a tool in tools_used are about this turn's execution.
TurnIsolated ==
    given.outcome = "answer" =>
        LET s == given.state IN
        /\ \A n \in DOMAIN s : s[n].turn = given.turn
        /\ s.answer.val # "" /\ s.sources.val = s.citations.val
        /\ s.sources.val > 0 => s.answer.val \in {"text", "empty_notice"} /\ "retrieval" \in s.tools.val
        /\ s.quality.val = 0 <=> s.answer.val = "no_evidence"
        /\ "financial_metrics" \in s.tools.val <=> s.answer.val = "tool_result"

\* Errors after which asking once more can be defended.
Repeatable(p, o) ==
    /\ o.status \notin {"unauthorized", "not_found", "rate_limit"}
    /\ p = "deepseek" => o.status # "balance"
    /\ Transient(o) \/ (/\ p \in {"deepseek", "gemini"}
                       /\ o.text \cap {"connection", "nameresolution", "500"} # {})

\* A model is asked only for a chat or over citations, never about a tool's
\* result; never with the deployment's key in place of the user's, and only a
\* provider the user configured, if he configured any.  It is asked at most MaxRetry
\* times, and never again after an error of the key, the quota or the model (401, 404,
\* 429 and DeepSeek's 402), whatever else its text says; after another error only if
\* it was transient or, with DeepSeek and Gemini, if its text sounds so.
CallsJustified ==
    llmCalls # <<>> =>
        /\ Strategy(run.q) = "direct_llm" \/ run.cites > 0
        /\ Strategy(run.q) # "tool_calling"
        /\ run.settings.configs # {} => run.provider \in run.settings.configs /\ run.key = "user"
        /\ run.settings.configs = {} => run.provider \in Deployment /\ run.key = "deployment"
        /\ \A i \in 1 .. Len(llmCalls) - 1 : Repeatable(run.provider, llmCalls[i])
        /\ Len(llmCalls) <= MaxRetry
============================================================================
