--------------------------- MODULE PlatformProofs ---------------------------
(***************************************************************************)
(* Proofs about what an answer rests on: the answer pipeline of a thread,  *)
(* for any questions, settings and number of turns; the tools, for any     *)
(* lines of a client and any allowlist; the retrieval, for any chunks,     *)
(* contexts, weights and changes of the store.  And, on top of them, all   *)
(* components of the platform side by side, as the run `platform' has them.*)
(***************************************************************************)
EXTENDS MCPlatform, OperationsProofs, ServiceProofs, ChunkProofs, SequenceTheorems,
        FiniteSetTheorems, WellFoundedInduction, TLAPS

-----------------------------------------------------------------------------
(* The answer pipeline: planning, routing and the model call.              *)

Strategies == {"tool_calling", "rag", "parallel", "multi_step", "direct_llm"}
KnownProviders == {"deepseek", "gemini", "openai", "anthropic", "doubao"}

\* A strategy is one of five, and tool calling is the one of the tool questions.
LEMMA StrategyIs ==
    ASSUME NEW q
    PROVE  /\ Strategy(q) \in Strategies
           /\ Strategy(q) = "tool_calling" => ToolCallingSupports(q)
           /\ ToolCallingSupports(q) => Strategy(q) = "tool_calling"
  BY DEF Strategy, Strategies

\* A plan of another strategy only retrieves.
LEMMA OnlyRetrieves ==
    ASSUME NEW q \in AnswerQuestions, Strategy(q) # "tool_calling", NEW k \in Observable(q)
    PROVE  StepTypes(q)[k] = "retrieve"
<1>1. ~ToolCallingSupports(q)
  BY StrategyIs
<1>2. ~q.metric
  BY <1>1 DEF ToolCallingSupports
<1>3. q.companies \in Nat
  BY AnswerAssumption
<1>4. k \in DOMAIN StepTypes(q) /\ StepTypes(q)[k] \in {"retrieve", "tool_call"}
  BY DEF Observable
<1>5. CASE q.task = "comparison"
  <2> DEFINE r == Retrieves(q.companies)
             t == r \o <<"compare", "synthesis">>
  <2>1. StepTypes(q) = t
    BY <1>2, <1>5 DEF StepTypes
  <2>2. r \in Seq({"retrieve"}) /\ Len(r) = q.companies
    BY <1>3 DEF Retrieves
  <2>3. t \in Seq({"retrieve", "compare", "synthesis"})
    BY <2>2
  <2> QED BY <1>4, <2>1, <2>3
<1>6. CASE q.task # "comparison"
  <2>1. StepTypes(q) \in {<<"retrieve", "reasoning">>, <<"retrieve", "synthesis">>, <<"retrieve">>}
    BY <1>2, <1>6 DEF StepTypes
  <2> QED BY <1>4, <2>1
<1> QED BY <1>5, <1>6

\* The router finds a provider among the places it may look at.
LEMMA RouteFinds ==
    ASSUME NEW q, NEW default, NEW places, places \subseteq Nat, places # {}
    PROVE  \E i \in places : RouteByCapability(q, default, places) = Registered[i]
<1> DEFINE Less == {p \in Nat \X Nat : p[1] < p[2]}
           conf(i) == Match(q, default, Registered[i])
           best == {i \in places : \A j \in places : conf(j) <= conf(i)}
<1>1. IsWellFoundedOn(Less, Nat)
  BY NatLessThanWellFounded DEF OpToRel
<1>2. \A i : conf(i) \in {85, 50}
  BY DEF Match
<1>3. best # {} /\ best \subseteq Nat
  <2>1. CASE \E i \in places : conf(i) = 85
    <3>1. PICK i \in places : conf(i) = 85
      BY <2>1
    <3>2. \A j \in places : conf(j) <= conf(i)
      BY <1>2, <3>1
    <3> QED BY <3>2
  <2>2. CASE ~\E i \in places : conf(i) = 85
    <3>1. PICK i \in places : TRUE
      OBVIOUS
    <3>2. \A j \in places : conf(j) = 50
      BY <1>2, <2>2
    <3>3. \A j \in places : conf(j) <= conf(i)
      BY <3>2
    <3> QED BY <3>3
  <2> QED BY <2>1, <2>2
<1>4. PICK x \in best : \A y \in best : ~(<<y, x>> \in Less)
  <2> HIDE DEF Less, best
  <2> QED BY <1>1, <1>3, WFMin
<1>5. \A y \in best : x <= y
  <2> TAKE y \in best
  <2>1. x \in Nat /\ y \in Nat
    BY <1>3
  <2>2. y < x => <<y, x>> \in Less
    BY <2>1
  <2> HIDE DEF Less, best
  <2> QED BY <1>4, <2>1, <2>2
<1>6. \A j \in places : conf(j) < conf(x) \/ (conf(j) = conf(x) /\ x <= j)
  <2> TAKE j \in places
  <2>1. conf(j) \in Int /\ conf(x) \in Int /\ conf(j) <= conf(x)
    BY <1>2
  <2>2. CASE conf(j) = conf(x)
    <3>1. j \in best
      BY <2>2
    <3> QED BY <1>5, <2>2, <3>1
  <2> HIDE DEF conf
  <2>3. CASE conf(j) # conf(x)
    BY <2>1, <2>3
  <2> QED BY <2>2, <2>3
<1>7. x \in places
  OBVIOUS
<1> QED BY <1>6, <1>7 DEF RouteByCapability

-----------------------------------------------------------------------------
(* What a turn has behind it at each place.                                *)

Executing == {"execute", "finalize"}
AfterDispatch == {"answer", "call"} \cup Executing
AfterWorkflow == {"dispatch"} \cup AfterDispatch
AfterRouting == {"workflow"} \cup AfterWorkflow

\* The turn's locals.
Locals ==
    /\ run = [q |-> run.q, settings |-> run.settings, provider |-> run.provider, key |-> run.key,
              workflow |-> run.workflow, workflowTools |-> run.workflowTools,
              steps |-> run.steps, cites |-> run.cites, report |-> run.report]
    /\ node # "idle" => run.q \in AnswerQuestions
    /\ node \in Nodes

\* The provider is one the request may use, with its key.
Routed ==
    node \in AfterRouting =>
        /\ run.provider \in KnownProviders /\ run.key = BuildConfig(run.settings, run.provider)
        /\ run.settings.configs # {} => run.provider \in run.settings.configs

Worked == node \in AfterWorkflow => run.workflow = WorkflowType(Strategy(run.q))

\* The plan's outcome: citations only of a retrieving strategy, and the tool
\* handler completes nothing but tool calls.
Executed ==
    node \in AfterDispatch =>
        /\ run.cites \in 0 .. 1 /\ (run.cites > 0 => UseRetrieval(Strategy(run.q)))
        /\ DOMAIN run.steps = Observable(run.q)
        /\ Strategy(run.q) = "tool_calling" =>
              \A k \in Observable(run.q) :
                  run.steps[k] = "completed" => StepTypes(run.q)[k] = "tool_call"

\* The model is asked once the plan is done, and again while attempts are left.
Asking ==
    /\ llmCalls \in Seq(LLMOutcomes)
    /\ node \in {"plan", "route", "workflow", "dispatch", "answer"} => llmCalls = <<>>
    /\ node = "call" =>
        /\ Strategy(run.q) # "tool_calling" /\ (Strategy(run.q) = "direct_llm" \/ run.cites > 0)
        /\ \A i \in 1 .. Len(llmCalls) : Repeatable(run.provider, llmCalls[i])
        /\ Len(llmCalls) < MaxRetry

\* The report says what the turn came to.
Reported ==
    node \in Executing =>
        IF Strategy(run.q) = "tool_calling"
        THEN run.report = IF \E k \in DOMAIN run.steps : run.steps[k] = "completed"
                          THEN "tool_result" ELSE "tool_failed"
        ELSE IF Strategy(run.q) = "direct_llm" \/ run.cites > 0
             THEN run.report \in {"text", "empty_notice"} ELSE run.report = "no_evidence"

\* The checkpoint; the last node reads what this turn's execution wrote.
Now(v) == [turn |-> turn, val |-> v]
Checkpoint ==
    /\ DOMAIN chan = {"strategy", "steps", "citations", "report", "routing", "answer",
                      "sources", "tools", "quality"}
    /\ node = "finalize" =>
        /\ chan["strategy"] = Now(Strategy(run.q)) /\ chan["steps"] = Now(run.steps)
        /\ chan["citations"] = Now(run.cites) /\ chan["report"] = Now(run.report)
        /\ chan["routing"] = Now(run.provider)

AnswerInv ==
    /\ Locals /\ Routed /\ Worked /\ Executed /\ Asking /\ Reported /\ Checkpoint
    /\ CallsJustified /\ TurnIsolated

\* The initial state: no turn yet.
LEMMA InitAnswer == AnswerInit => AnswerInv
<1> SUFFICES ASSUME AnswerInit PROVE AnswerInv
  OBVIOUS
<1>1. Locals
  BY DEF AnswerInit, Locals, NoRun, Nodes
<1>2. Routed /\ Worked /\ Executed /\ Asking /\ Reported
  BY DEF AnswerInit, Routed, Worked, Executed, Asking, Reported, Executing, AfterDispatch,
     AfterWorkflow, AfterRouting
<1>3. Checkpoint /\ CallsJustified /\ TurnIsolated
  BY DEF AnswerInit, Checkpoint, Empty, CallsJustified, TurnIsolated
<1> QED BY <1>1, <1>2, <1>3 DEF AnswerInv

\* Steps that only move on or end the turn.
LEMMA PlainSteps ==
    ASSUME AnswerInv, UNCHANGED <<run, chan, llmCalls>>,
           \/ node' = "idle" /\ UNCHANGED turn /\ (UNCHANGED given \/ given'.outcome = "error")
           \/ UNCHANGED <<node, turn, given>>
           \/ node = "plan" /\ node' = "route" /\ UNCHANGED <<turn, given>>
    PROVE  AnswerInv'
<1> USE DEF AnswerInv
<1>1. Locals'
  BY DEF Locals, Nodes
<1>2. Routed' /\ Worked' /\ Executed' /\ Reported'
  BY DEF Routed, Worked, Executed, Reported, Executing, AfterDispatch, AfterWorkflow, AfterRouting
<1>3. Asking'
  BY DEF Asking
<1>4. Checkpoint'
  BY DEF Checkpoint, Now
<1>5. CallsJustified'
  BY DEF CallsJustified
<1>6. TurnIsolated'
  BY DEF TurnIsolated
<1> QED BY <1>1, <1>2, <1>3, <1>4, <1>5, <1>6

\* A new turn: the locals are new, the checkpoint is the one of the thread.
LEMMA InvokeStep ==
    ASSUME AnswerInv, NEW q \in AnswerQuestions, NEW s \in UserSettings, Invoke(q, s)
    PROVE  AnswerInv'
<1> USE DEF AnswerInv, Invoke
<1>1. run' = [NoRun EXCEPT !.q = q, !.settings = s] /\ node' = "plan" /\ llmCalls' = <<>>
  OBVIOUS
<1>2. run'.q = q
  BY <1>1 DEF NoRun
<1>3. Locals'
  BY <1>1, <1>2 DEF Locals, NoRun, Nodes
<1>4. Routed' /\ Worked' /\ Executed' /\ Reported'
  BY <1>1 DEF Routed, Worked, Executed, Reported, Executing, AfterDispatch, AfterWorkflow,
     AfterRouting
<1>5. Asking' /\ CallsJustified'
  BY <1>1 DEF Asking, CallsJustified
<1>6. Checkpoint'
  BY <1>1 DEF Checkpoint
<1>7. TurnIsolated'
  BY DEF TurnIsolated
<1> QED BY <1>3, <1>4, <1>5, <1>6, <1>7

\* Routing: the place found is that of a registered provider, and of one the
\* user configured when he configured any.
LEMMA RouteStep ==
    ASSUME AnswerInv, RouteRequest
    PROVE  AnswerInv'
<1> DEFINE s == run.settings
           places == AvailableProviders(s)
           p == RouteByCapability(run.q, s.default, places)
<1>1. CASE places = {}
  <2>1. Raise /\ UNCHANGED llmCalls
    BY <1>1 DEF RouteRequest
  <2> QED BY <2>1, PlainSteps DEF Raise
<1>2. CASE places # {}
  <2>1. /\ node = "route" /\ node' = "workflow"
        /\ run' = [run EXCEPT !.provider = p, !.key = BuildConfig(s, p)]
        /\ UNCHANGED <<turn, chan, given, llmCalls>>
    BY <1>2 DEF RouteRequest
  <2>2. places \subseteq Nat /\ places \subseteq DOMAIN Registered
    BY AnswerAssumption DEF AvailableProviders
  <2>3. PICK i \in places : p = Registered[i]
    <3> HIDE DEF places
    <3> QED BY <1>2, <2>2, RouteFinds
  <2>4. p \in KnownProviders /\ (s.configs # {} => p \in s.configs)
    BY <2>2, <2>3, AnswerAssumption DEF AvailableProviders, OwnRouter, KnownProviders
  <2> HIDE DEF p
  <2>5. /\ run' = [q |-> run.q, settings |-> s, provider |-> p, key |-> BuildConfig(s, p),
                   workflow |-> run.workflow, workflowTools |-> run.workflowTools,
                   steps |-> run.steps, cites |-> run.cites, report |-> run.report]
        /\ run.q \in AnswerQuestions
    BY <2>1 DEF AnswerInv, Locals
  <2>6. Locals'
    BY <2>1, <2>5 DEF Locals, Nodes
  <2>7. Routed'
    BY <2>4, <2>5 DEF Routed
  <2>8. Worked' /\ Executed' /\ Reported'
    BY <2>1 DEF Worked, Executed, Reported, Executing, AfterDispatch, AfterWorkflow
  <2>9. Asking' /\ CallsJustified'
    BY <2>1 DEF AnswerInv, Asking, CallsJustified
  <2>10. Checkpoint' /\ TurnIsolated'
    BY <2>1 DEF AnswerInv, Checkpoint, TurnIsolated
  <2> QED BY <2>6, <2>7, <2>8, <2>9, <2>10 DEF AnswerInv
<1> QED BY <1>1, <1>2

\* The workflow and its tools.
LEMMA WorkflowStep ==
    ASSUME AnswerInv, RunWorkflow
    PROVE  AnswerInv'
<1> DEFINE type == WorkflowType(Strategy(run.q))
<1>1. /\ node = "workflow" /\ node' = "dispatch" /\ UNCHANGED <<turn, chan, llmCalls, given>>
      /\ run' = [run EXCEPT !.workflow = type, !.workflowTools = WorkflowExecute(type)]
  BY DEF RunWorkflow
<1> HIDE DEF type
<1>2. /\ run' = [q |-> run.q, settings |-> run.settings, provider |-> run.provider,
                 key |-> run.key, workflow |-> type, workflowTools |-> WorkflowExecute(type),
                 steps |-> run.steps, cites |-> run.cites, report |-> run.report]
      /\ run.q \in AnswerQuestions
  BY <1>1 DEF AnswerInv, Locals
<1>3. Locals'
  BY <1>1, <1>2 DEF Locals, Nodes
<1>4. Routed'
  BY <1>1, <1>2 DEF AnswerInv, Routed, AfterRouting
<1>5. Worked'
  BY <1>2 DEF Worked, type
<1>6. Executed' /\ Reported'
  BY <1>1 DEF Executed, Reported, Executing, AfterDispatch
<1>7. Asking' /\ CallsJustified'
  BY <1>1 DEF AnswerInv, Asking, CallsJustified
<1>8. Checkpoint' /\ TurnIsolated'
  BY <1>1 DEF AnswerInv, Checkpoint, TurnIsolated
<1> QED BY <1>3, <1>4, <1>5, <1>6, <1>7, <1>8 DEF AnswerInv

\* The strategy's handler.
LEMMA DispatchStep ==
    ASSUME AnswerInv, NEW o \in Outputs(run.q), Dispatch(o)
    PROVE  AnswerInv'
<1>1. /\ node = "dispatch" /\ node' = "answer" /\ UNCHANGED <<turn, chan, llmCalls, given>>
      /\ run' = [run EXCEPT !.steps = o.steps, !.cites = o.cites]
  BY DEF Dispatch
<1>2. /\ run' = [q |-> run.q, settings |-> run.settings, provider |-> run.provider,
                 key |-> run.key, workflow |-> run.workflow, workflowTools |-> run.workflowTools,
                 steps |-> o.steps, cites |-> o.cites, report |-> run.report]
      /\ run.q \in AnswerQuestions
  BY <1>1 DEF AnswerInv, Locals
<1>3. Locals'
  BY <1>1, <1>2 DEF Locals, Nodes
<1>4. Routed' /\ Worked'
  BY <1>1, <1>2 DEF AnswerInv, Routed, Worked, AfterRouting, AfterWorkflow
<1>5. Executed'
  <2>1. /\ o.cites \in 0 .. 1 /\ (o.cites > 0 => UseRetrieval(Strategy(run.q)))
        /\ o.steps \in [Observable(run.q) -> {"pending", "skipped", "completed", "failed"}]
    BY DEF Outputs
  <2>2. ASSUME Strategy(run.q) = "tool_calling", NEW k \in Observable(run.q),
               StepTypes(run.q)[k] # "tool_call"
        PROVE  o.steps[k] = "skipped"
    BY <2>2 DEF Outputs
  <2> QED BY <1>2, <2>1, <2>2 DEF Executed
<1>6. Reported'
  BY <1>1 DEF Reported, Executing
<1>7. Asking' /\ CallsJustified'
  BY <1>1 DEF AnswerInv, Asking, CallsJustified
<1>8. Checkpoint' /\ TurnIsolated'
  BY <1>1 DEF AnswerInv, Checkpoint, TurnIsolated
<1> QED BY <1>3, <1>4, <1>5, <1>6, <1>7, <1>8 DEF AnswerInv

\* The workflow names the strategy.
LEMMA WorkflowIs ==
    ASSUME NEW q
    PROVE  /\ WorkflowType(Strategy(q)) = "direct_chat" <=> Strategy(q) = "direct_llm"
           /\ WorkflowType(Strategy(q)) = "tool_pipeline" <=> Strategy(q) = "tool_calling"
  BY StrategyIs DEF WorkflowType, Strategies

\* run_rag decides who answers.
LEMMA AnswerStep ==
    ASSUME AnswerInv, Answer
    PROVE  AnswerInv'
<1> DEFINE tool == Strategy(run.q) = "tool_calling"
           done == \E k \in DOMAIN run.steps : run.steps[k] = "completed"
           model == run.workflow = "direct_chat" \/ run.cites > 0
           report == CASE tool /\ done -> "tool_result"
                       [] tool /\ ~done -> "tool_failed"
                       [] ~tool /\ ~model -> "no_evidence"
                       [] OTHER -> ""
<1>1. /\ node = "answer" /\ node' = IF ~tool /\ model THEN "call" ELSE "execute"
      /\ run' = [run EXCEPT !.report = report]
      /\ UNCHANGED <<turn, chan, llmCalls, given>>
  BY DEF Answer
<1>2. /\ ~tool /\ model <=> ~tool /\ (Strategy(run.q) = "direct_llm" \/ run.cites > 0)
      /\ tool => report = IF done THEN "tool_result" ELSE "tool_failed"
      /\ ~tool /\ ~model => report = "no_evidence"
  BY <1>1, WorkflowIs DEF AnswerInv, Worked, AfterWorkflow, AfterDispatch
<1> HIDE DEF report, model
<1>3. /\ run' = [q |-> run.q, settings |-> run.settings, provider |-> run.provider,
                 key |-> run.key, workflow |-> run.workflow, workflowTools |-> run.workflowTools,
                 steps |-> run.steps, cites |-> run.cites, report |-> report]
      /\ run.q \in AnswerQuestions
  BY <1>1 DEF AnswerInv, Locals
<1>4. Locals'
  BY <1>1, <1>3 DEF Locals, Nodes
<1>5. Routed' /\ Worked' /\ Executed'
  BY <1>1, <1>3 DEF AnswerInv, Routed, Worked, Executed, AfterRouting, AfterWorkflow,
     AfterDispatch
<1>6. Asking'
  BY <1>1, <1>2, <1>3, AnswerAssumption DEF AnswerInv, Asking
<1>7. CallsJustified'
  BY <1>1 DEF AnswerInv, Asking, CallsJustified
<1>8. Reported'
  BY <1>1, <1>2, <1>3 DEF Reported, Executing
<1>9. Checkpoint' /\ TurnIsolated'
  BY <1>1 DEF AnswerInv, Checkpoint, TurnIsolated
<1> QED BY <1>4, <1>5, <1>6, <1>7, <1>8, <1>9 DEF AnswerInv

\* An adapter tries again only what can be defended: the phrases of the errors of the key,
\* the quota and the model are looked for first, and their status is in the text.
LEMMA RetriesRepeatable ==
    ASSUME NEW o \in LLMOutcomes, NEW p, Retryable(p, o)
    PROVE  Repeatable(p, o)
<1>1. /\ o.status = "unauthorized" => "401" \in o.text
      /\ o.status = "balance" => "402" \in o.text
      /\ o.status = "rate_limit" => "429" \in o.text
      /\ o.status = "not_found" => "404" \in o.text
  BY DEF LLMOutcomes, StatusInText
<1>2. CASE p = "deepseek" /\ DeepSeekRetries(o)
  BY <1>1, <1>2 DEF DeepSeekRetries, Repeatable
<1>3. CASE p = "gemini" /\ GeminiRetries(o)
  BY <1>1, <1>3 DEF GeminiRetries, Repeatable
<1>4. CASE p \in {"openai", "anthropic", "doubao"} /\ Transient(o)
  BY <1>4 DEF Transient, Repeatable
<1> QED BY <1>2, <1>3, <1>4 DEF Retryable, OpenAIRetries, ClaudeRetries, DoubaoRetries

\* A request to the provider: whatever it comes to, the calls so far are
\* justified, and it is tried again only while attempts are left.
LEMMA CallStep ==
    ASSUME AnswerInv, NEW o \in LLMOutcomes, Call(o)
    PROVE  AnswerInv'
<1>1. /\ node = "call" /\ run.key # "" /\ llmCalls' = Append(llmCalls, o)
      /\ UNCHANGED <<turn, chan>>
      /\ \/ /\ node' = "execute" /\ UNCHANGED given
            /\ run' = [run EXCEPT !.report = IF o.status = "text" THEN "text" ELSE "empty_notice"]
         \/ /\ Retryable(run.provider, o) /\ Len(llmCalls) + 1 < MaxRetry
            /\ UNCHANGED <<node, run, given>>
         \/ node' = "idle" /\ given'.outcome = "error" /\ UNCHANGED run
  <2>1. CASE Body(o)
    BY <2>1 DEF Call
  <2>2. CASE ~Body(o) /\ Retryable(run.provider, o) /\ Len(llmCalls) + 1 < MaxRetry
    BY <2>2 DEF Call
  <2>3. CASE ~Body(o) /\ ~(Retryable(run.provider, o) /\ Len(llmCalls) + 1 < MaxRetry)
    <3>1. Raise /\ node = "call" /\ run.key # "" /\ llmCalls' = Append(llmCalls, o)
      BY <2>3 DEF Call, Body, Retryable
    <3> QED BY <3>1 DEF Raise
  <2> QED BY <2>1, <2>2, <2>3
<1>2. /\ llmCalls \in Seq(LLMOutcomes) /\ Len(llmCalls) < MaxRetry
      /\ \A i \in 1 .. Len(llmCalls) : Repeatable(run.provider, llmCalls[i])
      /\ Strategy(run.q) # "tool_calling" /\ (Strategy(run.q) = "direct_llm" \/ run.cites > 0)
  BY <1>1 DEF AnswerInv, Asking
<1>3. /\ run.provider \in KnownProviders /\ run.key = BuildConfig(run.settings, run.provider)
      /\ run.settings.configs # {} => run.provider \in run.settings.configs
      /\ run.q \in AnswerQuestions
  BY <1>1 DEF AnswerInv, Routed, AfterRouting, AfterWorkflow, AfterDispatch, Locals
<1>4. PICK report :
         run' = [q |-> run.q, settings |-> run.settings, provider |-> run.provider,
                 key |-> run.key, workflow |-> run.workflow, workflowTools |-> run.workflowTools,
                 steps |-> run.steps, cites |-> run.cites, report |-> report]
         /\ (node' = "execute" => report \in {"text", "empty_notice"})
  <2>1. CASE node' = "execute"
    BY <1>1, <2>1 DEF AnswerInv, Locals
  <2>2. CASE UNCHANGED run /\ node' # "execute"
    BY <2>2 DEF AnswerInv, Locals
  <2> QED BY <1>1, <2>1, <2>2
<1>5. llmCalls' \in Seq(LLMOutcomes) /\ Len(llmCalls') = Len(llmCalls) + 1
      /\ llmCalls'[Len(llmCalls')] = o
      /\ \A i \in 1 .. Len(llmCalls') - 1 : Repeatable(run.provider, llmCalls'[i])
  <2>0. llmCalls' = Append(llmCalls, o) /\ llmCalls \in Seq(LLMOutcomes)
    BY <1>1, <1>2
  <2>1. llmCalls' \in Seq(LLMOutcomes) /\ Len(llmCalls') = Len(llmCalls) + 1
    BY <2>0
  <2>2. llmCalls'[Len(llmCalls) + 1] = o /\ \A i \in 1 .. Len(llmCalls) : llmCalls'[i] = llmCalls[i]
    BY <2>0
  <2>3. Len(llmCalls) \in Nat
    BY <1>2
  <2> QED BY <1>2, <2>1, <2>2, <2>3
<1>6. node' \in {"call", "execute", "idle"}
  BY <1>1
<1>7. Locals'
  BY <1>3, <1>4, <1>6 DEF Locals, Nodes
<1>8. Routed' /\ Worked' /\ Executed'
  BY <1>1, <1>4, <1>6 DEF AnswerInv, Routed, Worked, Executed, AfterRouting, AfterWorkflow,
     AfterDispatch, Executing
<1>9. Asking'
  <2>1. CASE node' = "call"
    <3>1. Retryable(run.provider, o) /\ Len(llmCalls) + 1 < MaxRetry /\ UNCHANGED run
      BY <1>1, <2>1
    <3>2. Repeatable(run.provider, o)
      BY <3>1, RetriesRepeatable
    <3>3. \A i \in 1 .. Len(llmCalls') : Repeatable(run.provider, llmCalls'[i])
      BY <1>2, <1>5, <3>2
    <3> QED BY <1>2, <1>5, <2>1, <3>1, <3>3 DEF Asking
  <2>2. CASE node' # "call"
    BY <1>5, <1>6, <2>2 DEF Asking
  <2> QED BY <2>1, <2>2
<1>10. Reported'
  BY <1>2, <1>4, <1>6 DEF Reported, Executing
<1>11. Checkpoint'
  BY <1>1, <1>6 DEF AnswerInv, Checkpoint
<1>12. CallsJustified'
  <2>1. /\ run.settings.configs # {} => run.key = "user"
        /\ run.settings.configs = {} => run.provider \in Deployment /\ run.key = "deployment"
    BY <1>1, <1>3 DEF BuildConfig, OwnRouter
  <2>2. Len(llmCalls') <= MaxRetry
    BY <1>2, <1>5, AnswerAssumption
  <2> QED BY <1>2, <1>3, <1>4, <1>5, <2>1, <2>2 DEF CallsJustified
<1>13. TurnIsolated'
  BY <1>1 DEF AnswerInv, TurnIsolated
<1> QED BY <1>7, <1>8, <1>9, <1>10, <1>11, <1>12, <1>13 DEF AnswerInv

\* The execute node: five channels now carry this turn.
LEMMA ExecuteStep ==
    ASSUME AnswerInv, ExecuteNode
    PROVE  AnswerInv'
<1> DEFINE cites == IF run.workflow \in {"direct_chat", "tool_pipeline"} THEN 0 ELSE run.cites
           updates == [strategy |-> Strategy(run.q), steps |-> run.steps, citations |-> cites,
                       report |-> run.report, routing |-> run.provider]
<1>1. /\ node = "execute" /\ node' = "finalize" /\ UNCHANGED <<turn, run, llmCalls, given>>
      /\ chan' = Written(updates)
  BY DEF ExecuteNode
<1>2. cites = run.cites
  <2>1. run.cites \in 0 .. 1 /\ (run.cites > 0 => UseRetrieval(Strategy(run.q)))
    BY <1>1 DEF AnswerInv, Executed, AfterDispatch, Executing
  <2>2. run.workflow = WorkflowType(Strategy(run.q))
    BY <1>1 DEF AnswerInv, Worked, AfterWorkflow, AfterDispatch, Executing
  <2> QED BY <2>1, <2>2, WorkflowIs DEF UseRetrieval
<1> HIDE DEF cites
<1>3. Checkpoint'
  BY <1>1, <1>2 DEF AnswerInv, Checkpoint, Written, Now
<1>4. Locals'
  BY <1>1 DEF AnswerInv, Locals, Nodes
<1>5. Routed' /\ Worked' /\ Executed' /\ Reported'
  BY <1>1 DEF AnswerInv, Routed, Worked, Executed, Reported, AfterRouting, AfterWorkflow,
     AfterDispatch, Executing
<1>6. Asking' /\ CallsJustified' /\ TurnIsolated'
  BY <1>1 DEF AnswerInv, Asking, CallsJustified, TurnIsolated
<1> QED BY <1>3, <1>4, <1>5, <1>6 DEF AnswerInv

\* The finalize node: the other four channels, and the result.
LEMMA FinalizeStep ==
    ASSUME AnswerInv, FinalizeNode
    PROVE  AnswerInv'
<1> DEFINE strategy == Strategy(run.q)
           used == ActualToolsUsed(run.q, run.steps, run.cites, strategy)
           good == IF run.report # "" /\ (UseRetrieval(strategy) => run.cites > 0) THEN 1 ELSE 0
           updates == [answer |-> run.report, sources |-> run.cites, tools |-> used,
                       quality |-> good]
<1>0. node = "finalize" /\ node' = "idle" /\ UNCHANGED <<turn, run, llmCalls>>
  BY DEF FinalizeNode
<1>1. /\ chan["strategy"].val = strategy /\ chan["steps"].val = run.steps
      /\ chan["citations"].val = run.cites /\ chan["report"].val = run.report
  BY <1>0 DEF AnswerInv, Checkpoint, Now
<1>2. /\ chan' = Written(updates)
      /\ given' = [turn |-> turn, outcome |-> "answer", state |-> chan']
  BY <1>1 DEF FinalizeNode
<1>3. /\ run.q \in AnswerQuestions /\ run.cites \in 0 .. 1
      /\ run.cites > 0 => UseRetrieval(strategy)
      /\ DOMAIN run.steps = Observable(run.q)
      /\ strategy = "tool_calling" =>
            \A k \in Observable(run.q) :
                run.steps[k] = "completed" => StepTypes(run.q)[k] = "tool_call"
  BY <1>0 DEF AnswerInv, Executed, AfterDispatch, Executing, Locals
<1>4. IF strategy = "tool_calling"
      THEN run.report = IF \E k \in DOMAIN run.steps : run.steps[k] = "completed"
                        THEN "tool_result" ELSE "tool_failed"
      ELSE IF strategy = "direct_llm" \/ run.cites > 0
           THEN run.report \in {"text", "empty_notice"} ELSE run.report = "no_evidence"
  BY <1>0 DEF AnswerInv, Reported, Executing
<1>5. run.report # "" /\ (run.cites > 0 => run.report \in {"text", "empty_notice"})
  BY <1>3, <1>4 DEF UseRetrieval
<1>6. good = 0 <=> run.report = "no_evidence"
  <2>1. (good = 0) <=> (UseRetrieval(strategy) /\ ~(run.cites > 0))
    <3>0. run.report # ""
      BY <1>5
    <3>1. run.cites = 0 \/ run.cites = 1
      BY <1>3
    <3>2. CASE UseRetrieval(strategy) /\ run.cites = 0
      <4>1. good = 0
        BY <3>2
      <4> QED BY <3>2, <4>1
    <3>3. CASE ~UseRetrieval(strategy) \/ run.cites = 1
      <4>1. UseRetrieval(strategy) => run.cites > 0
        BY <3>3
      <4>2. good = 1
        BY <3>0, <4>1, Zenon
      <4> HIDE DEF good
      <4>3. good # 0
        BY <4>2
      <4> QED BY <4>1, <4>3, Zenon
    <3> QED BY <3>1, <3>2, <3>3
  <2>2. strategy \in Strategies
    BY StrategyIs
  <2>3. CASE strategy = "tool_calling" \/ strategy = "direct_llm"
    BY <1>4, <2>1, <2>3 DEF UseRetrieval
  <2>4. CASE strategy \in {"rag", "parallel", "multi_step"}
    BY <1>4, <2>1, <2>4 DEF UseRetrieval
  <2> QED BY <2>2, <2>3, <2>4 DEF Strategies
<1>7. run.cites > 0 => "retrieval" \in used
  BY <1>3 DEF ActualToolsUsed
<1>8. "financial_metrics" \in used <=> run.report = "tool_result"
  <2>1. "financial_metrics" \in used <=>
           \E k \in Observable(run.q) : run.steps[k] = "completed" /\ StepTypes(run.q)[k] # "retrieve"
    BY <1>3 DEF ActualToolsUsed
  <2>2. CASE strategy = "tool_calling"
    BY <1>3, <1>4, <2>1, <2>2
  <2>3. CASE strategy # "tool_calling"
    <3>1. \A k \in Observable(run.q) : StepTypes(run.q)[k] = "retrieve"
      BY <1>3, <2>3, OnlyRetrieves
    <3>2. run.report # "tool_result"
      BY <1>4, <2>3
    <3> QED BY <2>1, <3>1, <3>2
  <2> QED BY <2>2, <2>3
<1> HIDE DEF strategy, used, good
<1>9. DOMAIN chan' = {"strategy", "steps", "citations", "report", "routing", "answer",
                      "sources", "tools", "quality"}
  BY <1>2 DEF Written, AnswerInv, Checkpoint
<1>10. /\ chan'["answer"] = Now(run.report) /\ chan'["sources"] = Now(run.cites)
       /\ chan'["tools"] = Now(used) /\ chan'["quality"] = Now(good)
       /\ chan'["citations"] = Now(run.cites) /\ chan'["strategy"].turn = turn
       /\ chan'["steps"].turn = turn /\ chan'["report"].turn = turn /\ chan'["routing"].turn = turn
  BY <1>0, <1>2 DEF Written, AnswerInv, Checkpoint, Now
<1>11. TurnIsolated'
  <2> DEFINE s == chan'
  <2>1. given'.state = s /\ given'.turn = turn
    BY <1>2
  <2>2. \A n \in DOMAIN s : s[n].turn = turn
    BY <1>9, <1>10 DEF Now
  <2>3. /\ s["answer"].val = run.report /\ s["sources"].val = run.cites
        /\ s["citations"].val = run.cites /\ s["tools"].val = used /\ s["quality"].val = good
    BY <1>10 DEF Now
  <2> HIDE DEF s
  <2> QED BY <1>5, <1>6, <1>7, <1>8, <2>1, <2>2, <2>3 DEF TurnIsolated
<1>12. Checkpoint' /\ Locals'
  BY <1>0, <1>9 DEF AnswerInv, Checkpoint, Locals, Nodes
<1>13. Routed' /\ Worked' /\ Executed' /\ Reported'
  BY <1>0 DEF Routed, Worked, Executed, Reported, AfterRouting, AfterWorkflow,
     AfterDispatch, Executing
<1>14. Asking' /\ CallsJustified'
  BY <1>0 DEF AnswerInv, Asking, CallsJustified
<1> QED BY <1>11, <1>12, <1>13, <1>14 DEF AnswerInv

\* Every step keeps the invariant.
LEMMA StepAnswer == AnswerInv /\ [AnswerNext]_answerVars => AnswerInv'
<1> SUFFICES ASSUME AnswerInv, [AnswerNext]_answerVars PROVE AnswerInv'
  OBVIOUS
<1>1. CASE PlanNode \/ CallWithoutKey \/ Die \/ UNCHANGED answerVars
  <2>1. CASE PlanNode
    BY <2>1, PlainSteps DEF PlanNode
  <2>2. CASE CallWithoutKey
    BY <2>2, PlainSteps DEF CallWithoutKey, Raise
  <2>3. CASE Die
    BY <2>3, PlainSteps DEF Die
  <2>4. CASE UNCHANGED answerVars
    BY <2>4, PlainSteps DEF answerVars
  <2> QED BY <1>1, <2>1, <2>2, <2>3, <2>4
<1>2. CASE \E q \in AnswerQuestions, s \in UserSettings : Invoke(q, s)
  BY <1>2, InvokeStep
<1>3. CASE \E o \in Outputs(run.q) : Dispatch(o)
  BY <1>3, DispatchStep
<1>4. CASE \E o \in LLMOutcomes : Call(o)
  BY <1>4, CallStep
<1>5. CASE RouteRequest \/ RunWorkflow \/ Answer
  BY <1>5, RouteStep, WorkflowStep, AnswerStep
<1>6. CASE ExecuteNode \/ FinalizeNode
  BY <1>6, ExecuteStep, FinalizeStep
<1> QED BY <1>1, <1>2, <1>3, <1>4, <1>5, <1>6 DEF AnswerNext

\* A result belongs to its turn: whatever earlier turns of the thread left in
\* the checkpoint, run_agent returns what this turn's nodes wrote.
THEOREM TurnsIsolated == AnswerSpec => []TurnIsolated
<1>1. AnswerInv => TurnIsolated
  BY DEF AnswerInv
<1> QED BY <1>1, InitAnswer, StepAnswer, PTL DEF AnswerSpec

\* A model is asked only for a chat or over citations, with the user's key and
\* provider when he has any, and again only after a transient error and at
\* most MaxRetry times.
THEOREM CallsAreJustified == AnswerSpec => []CallsJustified
<1>1. AnswerInv => CallsJustified
  BY DEF AnswerInv
<1> QED BY <1>1, InitAnswer, StepAnswer, PTL DEF AnswerSpec

-----------------------------------------------------------------------------
(* The tool server.  ToolGoverned in three parts: the executions, which    *)
(* request an answer is for, and what a success says.                      *)

SaysNothing(p) ==
    \E x \in DOMAIN p : p[x].word = "blank" \/ \E i \in DOMAIN p[x].items : p[x].items[i].word = "blank"

\* An execution, seen from the lines received so far.
Governed(r) ==
    /\ r.tenant = TenantId
    /\ r.entry = "agent" => r.tool = "financial_metrics"
    /\ r.entry = "mcp" =>
        /\ r.at \in 1 .. Len(received) /\ Shook(r.at) /\ r.tool \in allowed
        /\ DOMAIN r.params \subseteq DOMAIN Schema[r.tool].props
        /\ r.tool = "retrieval" /\ ~RequestFromContext(r.tenant, r.params) => SaysNothing(r.params)

RunsGoverned == \A r \in runs : Governed(r)

\* A line that is a request.
Asked(x) == x.kind = "message" /\ x.id

\* An answer carries the number of its line, or 0 for a line without an id.
AnswersMatch ==
    /\ \A i \in DOMAIN out : out[i].id # 0 => out[i].id \in DOMAIN received /\ Asked(received[out[i].id])
    /\ \A k \in DOMAIN received : Asked(received[k]) => \E i \in DOMAIN out : out[i].id = k
    /\ \A i, j \in DOMAIN out : out[i].id # 0 /\ out[j].id # 0 /\ i < j => out[i].id < out[j].id

SuccessReal ==
    \A i \in DOMAIN out :
        /\ out[i].id = 0 => out[i].kind = "error"
        /\ out[i].kind = "result" /\ received[out[i].id].method = "tools/call" =>
              \E r \in runs : r.at = out[i].id /\ r.status = "success"

\* The handshake as far as the phase says.
Opened(x) == x.kind = "message" /\ x.method = "initialize" /\ x.valid
Handshake ==
    /\ phase = "awaiting_initialized" => \E i \in 1 .. Len(received) : Opened(received[i])
    /\ phase = "ready" => Shook(Len(received) + 1)

ToolShape ==
    /\ allowed \subseteq Supported /\ received \in Seq(Lines)
    /\ out \in Seq([id : Nat, kind : {"result", "tool_error", "error"}, code : Int])

ToolInv == ToolShape /\ Handshake /\ RunsGoverned /\ AnswersMatch /\ SuccessReal

\* The parts are the property.
LEMMA GovernedIs == ToolInv => ToolGoverned
<1> SUFFICES ASSUME ToolInv PROVE ToolGoverned
  OBVIOUS
<1> DEFINE asked == {i \in DOMAIN received : received[i].kind = "message" /\ received[i].id}
           ids == {i \in DOMAIN out : out[i].id # 0}
<1>1. \A r \in runs :
        /\ r.tenant = TenantId
        /\ r.entry = "agent" => r.tool = "financial_metrics"
        /\ r.entry = "mcp" =>
            /\ Shook(r.at) /\ r.tool \in allowed
            /\ DOMAIN r.params \subseteq DOMAIN Schema[r.tool].props
            /\ r.tool = "retrieval" /\ ~RequestFromContext(r.tenant, r.params) =>
                  \E p \in DOMAIN r.params : \/ r.params[p].word = "blank"
                                             \/ \E i \in DOMAIN r.params[p].items :
                                                    r.params[p].items[i].word = "blank"
  BY DEF ToolInv, RunsGoverned, Governed, SaysNothing
<1>2. {out[i].id : i \in ids} = asked
  <2>1. ASSUME NEW i \in ids PROVE out[i].id \in asked
    BY DEF ToolInv, AnswersMatch, Asked
  <2>2. ASSUME NEW k \in asked PROVE \E i \in ids : out[i].id = k
    <3>1. k \in DOMAIN received /\ Asked(received[k]) /\ k # 0
      BY DEF Asked, ToolInv, ToolShape
    <3> QED BY <3>1 DEF ToolInv, AnswersMatch
  <2> QED BY <2>1, <2>2
<1>3. \A i, j \in ids : i < j => out[i].id < out[j].id
  BY DEF ToolInv, AnswersMatch
<1>4. \A i \in DOMAIN out :
        out[i].kind = "result" /\ received[out[i].id].method = "tools/call" =>
            \E r \in runs : r.at = out[i].id /\ r.status = "success"
  BY DEF ToolInv, SuccessReal
<1> QED BY <1>1, <1>2, <1>3, <1>4 DEF ToolGoverned

\* What the schema of retrieval lets through, the contract refuses for a blank.
LEMMA ContractRefuses ==
    ASSUME NEW args, ValidateArguments("retrieval", args), ~RequestFromContext(TenantId, args)
    PROVE  SaysNothing(args)
<1> DEFINE P == [query |-> Property("string", 1 .. MaxQuery),
                 top_k |-> Property("integer", 1 .. MaxTopK),
                 company |-> Property("string", Nat \ {0}),
                 document_ids |-> Property("array", 0 .. 100),
                 filters |-> Property("object", Nat),
                 include_public |-> Property("boolean", 0 .. 1)]
<1>1. Schema["retrieval"] = [required |-> "query", props |-> P]
  BY DEF Schema
<1>2. /\ "query" \in DOMAIN args
      /\ \A p \in DOMAIN args :
            /\ p \in {"query", "top_k", "company", "document_ids", "filters", "include_public"}
            /\ Valid(args[p], P[p])
  <2>1. ValidateObject([required |-> "query", props |-> P], args)
    BY <1>1 DEF ValidateArguments
  <2>2. "query" \in DOMAIN args /\ \A p \in DOMAIN args : p \in DOMAIN P /\ Valid(args[p], P[p])
    <3> HIDE DEF P
    <3> QED BY <2>1 DEF ValidateObject
  <2>3. DOMAIN P = {"query", "top_k", "company", "document_ids", "filters", "include_public"}
    OBVIOUS
  <2> QED BY <2>2, <2>3
<1>3. /\ P["query"].type = "string" /\ P["query"].range = 1 .. MaxQuery
      /\ P["top_k"].type = "integer" /\ P["top_k"].range = 1 .. MaxTopK
      /\ P["company"].type = "string" /\ P["document_ids"].type = "array"
      /\ P["filters"].type = "object" /\ P["include_public"].type = "boolean"
  BY DEF Property
<1> HIDE DEF P
<1>4. \A v, s : Valid(v, s) /\ s.type \notin {"number", "enum"} =>
         /\ v.type = s.type /\ v.size \in s.range
         /\ \A i \in DOMAIN v.items : v.items[i].type = "string"
  BY DEF Valid, MatchesType, InBounds, ItemsValid
<1>5. /\ args["query"].type = "string" /\ args["query"].size \in 1 .. MaxQuery
      /\ "top_k" \in DOMAIN args =>
            args["top_k"].type = "integer" /\ args["top_k"].size \in 1 .. MaxTopK
      /\ "company" \in DOMAIN args => args["company"].type = "string"
      /\ "document_ids" \in DOMAIN args =>
            /\ args["document_ids"].type = "array"
            /\ \A i \in DOMAIN args["document_ids"].items :
                  args["document_ids"].items[i].type = "string"
      /\ "filters" \in DOMAIN args => args["filters"].type = "object"
      /\ "include_public" \in DOMAIN args => args["include_public"].type = "boolean"
      /\ "tenant_id" \notin DOMAIN args
  <2>1. \A p \in DOMAIN args : P[p].type \notin {"number", "enum"} =>
           /\ args[p].type = P[p].type /\ args[p].size \in P[p].range
           /\ \A i \in DOMAIN args[p].items : args[p].items[i].type = "string"
    BY <1>2, <1>4
  <2>2. args["query"].type = "string" /\ args["query"].size \in 1 .. MaxQuery
    BY <1>2, <1>3, <2>1
  <2>3. "top_k" \in DOMAIN args =>
            args["top_k"].type = "integer" /\ args["top_k"].size \in 1 .. MaxTopK
    BY <1>3, <2>1
  <2>4. "company" \in DOMAIN args => args["company"].type = "string"
    BY <1>3, <2>1
  <2>5. "document_ids" \in DOMAIN args =>
            /\ args["document_ids"].type = "array"
            /\ \A i \in DOMAIN args["document_ids"].items :
                  args["document_ids"].items[i].type = "string"
    BY <1>3, <2>1
  <2>6. "filters" \in DOMAIN args => args["filters"].type = "object"
    BY <1>3, <2>1
  <2>7. "include_public" \in DOMAIN args => args["include_public"].type = "boolean"
    BY <1>3, <2>1
  <2>8. "tenant_id" \notin DOMAIN args
    BY <1>2
  <2> QED BY <2>2, <2>3, <2>4, <2>5, <2>6, <2>7, <2>8
<1> QED BY <1>2, <1>5, ToolAssumption DEF RequestFromContext, Has, Text, SaysNothing

\* A call that is not refused passed the allowlist and the schema.
LEMMA RefusalIs ==
    ASSUME NEW m, Refusal(m) = 0
    PROVE  m.name \in allowed /\ ValidateArguments(m.name, m.args)
<1>1. m.name \notin allowed => Refusal(m) # 0
  BY DEF Refusal, ValidateArguments
<1>2. ~ValidateArguments(m.name, m.args) => Refusal(m) # 0
  BY DEF Refusal, ValidateArguments
<1> QED BY <1>1, <1>2

\* A line is a step of the handshake, a refusal, or a call that passed
\* allowlist and schema after the handshake.
LEMMA HandleIs ==
    ASSUME allowed \subseteq Supported, NEW m, NEW world, NEW h, h = Handle(m, world)
    PROVE  /\ \/ h.phase = phase
              \/ /\ WellFormed(m) /\ m.method = "initialize" /\ m.valid
                 /\ h.phase = "awaiting_initialized"
              \/ /\ WellFormed(m) /\ m.method = "notifications/initialized"
                 /\ phase = "awaiting_initialized" /\ h.phase = "ready"
           /\ \/ h.run = {}
              \/ /\ WellFormed(m) /\ phase = "ready" /\ m.name \in allowed
                 /\ ValidateArguments(m.name, m.args)
                 /\ \E status : h.run = Run(m, status)
           /\ h.reply \in [kind : {"result", "tool_error", "error"}, code : Int]
           /\ ~WellFormed(m) => h.reply.kind = "error"
           /\ h.reply.kind = "result" /\ m.method = "tools/call" => h.run = Run(m, "success")
<1>0. \A kind \in {"result", "tool_error", "error"}, code \in Int :
         /\ Reply(kind, code) \in [kind : {"result", "tool_error", "error"}, code : Int]
         /\ Reply(kind, code).kind = kind
  BY DEF Reply
<1>1. /\ -32600 \in Int /\ -32602 \in Int /\ -32002 \in Int /\ -32601 \in Int
      /\ -32001 \in Int /\ -32000 \in Int
  OBVIOUS
<1>a. /\ Reply("result", 0) \in [kind : {"result", "tool_error", "error"}, code : Int]
      /\ \A code \in {-32600, -32602, -32002, -32601, -32001, -32000} :
            ErrorReply(code) \in [kind : {"result", "tool_error", "error"}, code : Int]
  BY <1>0, <1>1 DEF ErrorReply
<1>2. CASE ~WellFormed(m)
  <2>1. h = [phase |-> phase, reply |-> ErrorReply(-32600), run |-> {}]
    BY <1>2 DEF Handle
  <2> QED BY <1>0, <1>1, <1>2, <2>1 DEF ErrorReply
<1>3. CASE WellFormed(m) /\ m.method = "initialize"
  <2>1. /\ h.phase = Initialize(phase, m) /\ h.run = {}
        /\ h.reply \in {Reply("result", 0), ErrorReply(-32600), ErrorReply(-32602)}
    BY <1>3 DEF Handle
  <2>2. \/ Initialize(phase, m) = phase
        \/ m.valid /\ Initialize(phase, m) = "awaiting_initialized"
    BY DEF Initialize
  <2>3. h.reply \in [kind : {"result", "tool_error", "error"}, code : Int]
    BY <1>a, <2>1
  <2> QED BY <1>3, <2>1, <2>2, <2>3
<1>4. CASE WellFormed(m) /\ m.method = "notifications/initialized"
  <2>1. /\ h.phase = MarkReady(phase) /\ h.run = {}
        /\ h.reply \in {Reply("result", 0), ErrorReply(-32600), ErrorReply(-32602)}
    BY <1>4 DEF Handle
  <2>2. \/ MarkReady(phase) = phase
        \/ phase = "awaiting_initialized" /\ MarkReady(phase) = "ready"
    BY DEF MarkReady
  <2>3. h.reply \in [kind : {"result", "tool_error", "error"}, code : Int]
    BY <1>a, <2>1
  <2> QED BY <1>4, <2>1, <2>2, <2>3
<1>5. CASE WellFormed(m) /\ m.method = "ping"
  <2>1. h = [phase |-> phase, reply |-> Reply("result", 0), run |-> {}]
    BY <1>5 DEF Handle
  <2> QED BY <1>0, <1>5, <2>1
<1>6. CASE WellFormed(m) /\ m.method \notin {"initialize", "notifications/initialized", "ping"}
  <2>1. CASE phase # "ready"
    <3>1. h = [phase |-> phase, reply |-> ErrorReply(-32002), run |-> {}]
      BY <1>6, <2>1 DEF Handle
    <3> QED BY <1>0, <1>1, <3>1 DEF ErrorReply
  <2>2. CASE phase = "ready"
    <3> DEFINE a == AdapterHandle(m, world)
    <3>1. h = [phase |-> phase, reply |-> a.reply, run |-> a.run]
      BY <1>6, <2>2 DEF Handle
    <3>2. CASE m.method # "tools/call"
      <4>1. a.run = {} /\ a.reply \in {Reply("result", 0), ErrorReply(-32601)}
        BY <3>2 DEF AdapterHandle
      <4> HIDE DEF a
      <4>2. h.reply \in [kind : {"result", "tool_error", "error"}, code : Int]
        BY <1>a, <3>1, <4>1
      <4>3. h.phase = phase /\ h.run = {}
        BY <3>1, <4>1
      <4> QED BY <1>6, <3>2, <4>2, <4>3
    <3>3. CASE m.method = "tools/call" /\ Refusal(m) # 0
      <4>1. a.run = {} /\ a.reply = ErrorReply(Refusal(m)) /\ Refusal(m) \in Int
        <5>1. a.run = {} /\ a.reply = ErrorReply(Refusal(m))
          BY <3>3 DEF AdapterHandle
        <5>2. Refusal(m) \in {-32602, -32001, 0}
          BY DEF Refusal
        <5> QED BY <1>1, <5>1, <5>2
      <4> HIDE DEF a
      <4> QED BY <1>0, <1>6, <3>1, <4>1 DEF ErrorReply
    <3>4. CASE m.method = "tools/call" /\ Refusal(m) = 0
      <4> DEFINE status == EngineExecute(m.name, TenantId, m.args, "retrieval" \in allowed,
                                         FALSE, world)
      <4>1. m.name \in allowed /\ ValidateArguments(m.name, m.args)
        BY <3>4, RefusalIs
      <4>2. /\ a.run = Run(m, status)
            /\ a.reply = CASE status \in {"unsupported", "raised"} -> ErrorReply(-32000)
                           [] status = "success" -> Reply("result", 0)
                           [] OTHER -> Reply("tool_error", 0)
        BY <3>4 DEF AdapterHandle
      <4> HIDE DEF a, status
      <4>3. /\ a.reply \in {ErrorReply(-32000), Reply("result", 0), Reply("tool_error", 0)}
            /\ a.reply = Reply("result", 0) => status = "success"
        BY <1>0, <1>1, <4>2 DEF ErrorReply
      <4> QED BY <1>0, <1>1, <1>6, <2>2, <3>1, <4>1, <4>2, <4>3 DEF ErrorReply
    <3> QED BY <3>2, <3>3, <3>4
  <2> QED BY <2>1, <2>2
<1> QED BY <1>2, <1>3, <1>4, <1>5, <1>6

\* The lines received stay where they are.
LEMMA ShookKept ==
    ASSUME received \in Seq(Lines), NEW m \in Lines, received' = Append(received, m),
           NEW at \in 1 .. Len(received) + 1, Shook(at)
    PROVE  Shook(at)'
<1>1. \A i \in 1 .. Len(received) : received'[i] = received[i]
  OBVIOUS
<1>2. \A i \in 1 .. at - 1 : i \in 1 .. Len(received)
  OBVIOUS
<1> QED BY <1>1, <1>2 DEF Shook

\* The initial state: a new connection.
LEMMA InitTool == ToolInit => ToolInv
  BY DEF ToolInit, ToolInv, ToolShape, Handshake, RunsGoverned, AnswersMatch, SuccessReal

\* A line of the client.
LEMMA ServeStep ==
    ASSUME ToolInv, NEW m \in Lines, NEW world \in Worlds, ServeLine(m, world)
    PROVE  ToolInv'
<1>0. PICK n : n = Len(received) + 1
  OBVIOUS
<1> DEFINE g == [phase |-> phase, reply |-> ErrorReply(-32700), run |-> {}]
           h == IF m.kind = "garbage" THEN g ELSE Handle(m, world)
<1>1. /\ received' = Append(received, m) /\ UNCHANGED <<allowed, steps>>
      /\ phase' = IF m.kind = "blank" THEN phase ELSE h.phase
      /\ runs' = IF m.kind = "blank" THEN runs ELSE runs \cup h.run
      /\ out' = IF m.kind = "blank" \/ IsNotification(m) THEN out
                ELSE Append(out, [id |-> IF m.kind = "message" THEN n ELSE 0,
                                  kind |-> h.reply.kind, code |-> h.reply.code])
  BY <1>0 DEF ServeLine
<1>2. /\ received \in Seq(Lines) /\ allowed \subseteq Supported
      /\ out \in Seq([id : Nat, kind : {"result", "tool_error", "error"}, code : Int])
  BY DEF ToolInv, ToolShape
<1>3. /\ n \in Nat \ {0} /\ DOMAIN received = 1 .. n - 1 /\ DOMAIN received' = 1 .. n
      /\ received'[n] = m /\ \A i \in 1 .. n - 1 : received'[i] = received[i]
      /\ received' \in Seq(Lines) /\ Len(received') = n /\ Len(received) = n - 1
  BY <1>0, <1>1, <1>2
<1>4. /\ \/ h.phase = phase
         \/ /\ m.kind = "message" /\ m.method = "initialize" /\ m.valid
            /\ h.phase = "awaiting_initialized"
         \/ /\ m.kind = "message" /\ m.method = "notifications/initialized"
            /\ phase = "awaiting_initialized" /\ h.phase = "ready"
      /\ \/ h.run = {}
         \/ /\ m.kind = "message" /\ phase = "ready" /\ m.name \in allowed
            /\ ValidateArguments(m.name, m.args)
            /\ \E status : h.run = Run(m, status)
      /\ h.reply \in [kind : {"result", "tool_error", "error"}, code : Int]
      /\ m.kind # "message" => h.reply.kind = "error"
      /\ h.reply.kind = "result" /\ m.method = "tools/call" => h.run = Run(m, "success")
  <2>1. CASE m.kind = "garbage"
    <3>1. h.phase = phase /\ h.run = {} /\ h.reply = [kind |-> "error", code |-> -32700]
      BY <2>1 DEF ErrorReply, Reply
    <3> HIDE DEF h
    <3> QED BY <2>1, <3>1
  <2>2. CASE m.kind # "garbage"
    <3>1. h = Handle(m, world)
      BY <2>2
    <3> HIDE DEF h
    <3> QED BY <1>2, <3>1, HandleIs DEF WellFormed
  <2> QED BY <2>1, <2>2
<1> HIDE DEF h, g
<1>5. ToolShape'
  <2>1. CASE UNCHANGED out
    BY <1>1, <1>2, <1>3, <2>1 DEF ToolShape
  <2>2. CASE ~UNCHANGED out
    <3> DEFINE e == [id |-> IF m.kind = "message" THEN n ELSE 0,
                     kind |-> h.reply.kind, code |-> h.reply.code]
    <3>1. out' = Append(out, e)
      BY <1>1, <2>2
    <3>2. e \in [id : Nat, kind : {"result", "tool_error", "error"}, code : Int]
      BY <1>3, <1>4
    <3> HIDE DEF e
    <3>3. out' \in Seq([id : Nat, kind : {"result", "tool_error", "error"}, code : Int])
      BY <1>2, <3>1, <3>2
    <3> QED BY <1>1, <1>2, <1>3, <3>3 DEF ToolShape
  <2> QED BY <2>1, <2>2
<1>6. phase = "ready" => Shook(n)
  BY <1>0 DEF ToolInv, Handshake
<1>7. \A at \in 1 .. n : Shook(at) => Shook(at)'
  BY <1>0, <1>1, <1>2, ShookKept
<1>8. Handshake'
  <2>1. phase' = phase \/ phase' = h.phase
    BY <1>1
  <2>2. phase' = "awaiting_initialized" => \E i \in 1 .. Len(received') : Opened(received'[i])
    <3>1. CASE phase = "awaiting_initialized"
      <4>1. PICK i \in 1 .. n - 1 : Opened(received[i])
        BY <1>3, <3>1 DEF ToolInv, Handshake
      <4>2. i \in 1 .. n /\ Opened(received'[i])
        BY <1>3, <4>1 DEF Opened
      <4> QED BY <1>3, <4>2
    <3>2. CASE phase # "awaiting_initialized" /\ phase' = "awaiting_initialized"
      <4>1. m.kind = "message" /\ m.method = "initialize" /\ m.valid
        BY <1>4, <2>1, <3>2
      <4>2. n \in 1 .. n /\ Opened(received'[n])
        BY <1>3, <4>1 DEF Opened
      <4> QED BY <1>3, <4>2
    <3> QED BY <3>1, <3>2
  <2>3. phase' = "ready" => Shook(n + 1)'
    <3>1. CASE phase = "ready"
      <4>1. Shook(n)'
        BY <1>3, <1>6, <1>7, <3>1
      <4> QED BY <1>3, <4>1 DEF Shook
    <3>2. CASE phase # "ready" /\ phase' = "ready"
      <4>1. /\ m.kind = "message" /\ m.method = "notifications/initialized"
            /\ phase = "awaiting_initialized"
        BY <1>4, <2>1, <3>2
      <4>2. PICK i \in 1 .. n - 1 : Opened(received[i])
        BY <1>3, <4>1 DEF ToolInv, Handshake
      <4>3. /\ i < n /\ i \in 1 .. n + 1 - 1 /\ n \in 1 .. n + 1 - 1
            /\ received'[i] = received[i] /\ received'[n] = m
        BY <1>3
      <4> QED BY <4>1, <4>2, <4>3 DEF Opened, Shook
    <3> QED BY <3>1, <3>2
  <2> QED BY <1>3, <2>2, <2>3 DEF Handshake
<1>9. RunsGoverned'
  <2> SUFFICES ASSUME NEW r \in runs' PROVE Governed(r)'
    BY DEF RunsGoverned
  <2>1. CASE r \in runs
    <3>1. Governed(r)
      BY <2>1 DEF ToolInv, RunsGoverned
    <3>2. r.entry = "mcp" => r.at \in 1 .. n - 1 /\ r.at \in 1 .. n /\ Shook(r.at)'
      BY <1>3, <1>7, <3>1 DEF Governed
    <3> QED BY <1>1, <1>3, <3>1, <3>2 DEF Governed
  <2>2. CASE r \notin runs
    <3>1. r \in h.run
      BY <1>1, <2>2
    <3>2. PICK status : r \in Run(m, status)
      BY <1>4, <3>1
    <3>3. /\ r.entry = "mcp" /\ r.at = n /\ r.tool = m.name /\ r.tenant = TenantId
          /\ r.params = m.args
      BY <1>0, <3>2 DEF Run
    <3>4. phase = "ready" /\ m.name \in allowed /\ ValidateArguments(m.name, m.args)
      BY <1>4, <3>1
    <3>5. n \in 1 .. n /\ Shook(n)'
      BY <1>3, <1>6, <1>7, <3>4
    <3>6. DOMAIN m.args \subseteq DOMAIN Schema[m.name].props
      BY <3>4 DEF ValidateArguments, ValidateObject
    <3>7. m.name = "retrieval" /\ ~RequestFromContext(TenantId, m.args) => SaysNothing(m.args)
      BY <3>4, ContractRefuses
    <3> QED BY <1>1, <1>3, <3>3, <3>4, <3>5, <3>6, <3>7 DEF Governed
  <2> QED BY <2>1, <2>2
<1>10. \/ ~Asked(m) /\ UNCHANGED out
       \/ \E e : /\ out' = Append(out, e) /\ e.kind = h.reply.kind
                 /\ (e.id = n /\ Asked(m)) \/ (e.id = 0 /\ ~Asked(m) /\ m.kind # "message")
  <2>1. CASE m.kind = "blank" \/ IsNotification(m)
    <3>1. ~(m.kind = "message" /\ m.id)
      BY <2>1 DEF IsNotification
    <3> QED BY <1>1, <1>3, <2>1, <3>1 DEF Asked
  <2>2. CASE ~(m.kind = "blank" \/ IsNotification(m))
    <3> DEFINE e == [id |-> IF m.kind = "message" THEN n ELSE 0,
                     kind |-> h.reply.kind, code |-> h.reply.code]
    <3>1. out' = Append(out, e)
      BY <1>1, <2>2
    <3>2. m.kind = "message" => m.id
      BY <2>2 DEF IsNotification
    <3>3. e.kind = h.reply.kind /\ e.id = IF m.kind = "message" THEN n ELSE 0
      OBVIOUS
    <3> HIDE DEF e
    <3>4. Asked(m) <=> m.kind = "message"
      BY <1>3, <3>2 DEF Asked
    <3> QED BY <3>1, <3>3, <3>4
  <2> QED BY <2>1, <2>2
<1>11. AnswersMatch' /\ SuccessReal'
  <2>1. \A k \in 1 .. n - 1 : received'[k] = received[k]
    BY <1>3 DEF Asked
  <2>2. runs \subseteq runs'
    BY <1>1
  <2>3. \A i \in DOMAIN out : out[i].id \in 0 .. n - 1
    BY <1>2, <1>3 DEF ToolInv, AnswersMatch
  <2>4. CASE ~Asked(m) /\ UNCHANGED out
    <3>1. AnswersMatch'
      BY <1>3, <2>1, <2>4 DEF ToolInv, AnswersMatch
    <3>2. SuccessReal'
      BY <1>3, <2>2, <2>3, <2>4 DEF ToolInv, SuccessReal
    <3> QED BY <3>1, <3>2
  <2>5. ASSUME NEW e, out' = Append(out, e), e.kind = h.reply.kind,
               (e.id = n /\ Asked(m)) \/ (e.id = 0 /\ ~Asked(m) /\ m.kind # "message")
        PROVE  AnswersMatch' /\ SuccessReal'
    <3> DEFINE l == Len(out) + 1
    <3>1. /\ l \in Nat /\ DOMAIN out = 1 .. l - 1 /\ DOMAIN out' = 1 .. l
          /\ out'[l] = e /\ \A i \in 1 .. l - 1 : out'[i] = out[i]
      BY <1>2, <2>5
    <3> HIDE DEF l
    <3>2. AnswersMatch'
      <4>1. \A i \in DOMAIN out' :
               out'[i].id # 0 => out'[i].id \in DOMAIN received' /\ Asked(received'[out'[i].id])
        <5> TAKE i \in DOMAIN out'
        <5>1. CASE i = l
          BY <1>3, <2>5, <3>1, <5>1
        <5>2. CASE i # l
          <6>1. i \in DOMAIN out /\ out'[i] = out[i]
            BY <3>1, <5>2
          <6>2. out[i].id # 0 => out[i].id \in 1 .. n - 1 /\ Asked(received[out[i].id])
            BY <1>3, <6>1 DEF ToolInv, AnswersMatch
          <6> QED BY <1>3, <2>1, <6>1, <6>2
        <5> QED BY <5>1, <5>2
      <4>2. \A k \in DOMAIN received' : Asked(received'[k]) => \E i \in DOMAIN out' : out'[i].id = k
        <5> TAKE k \in DOMAIN received'
        <5>1. CASE k = n
          BY <1>3, <2>5, <3>1, <5>1
        <5>2. CASE k # n
          <6>1. k \in DOMAIN received /\ k \in 1 .. n - 1
            BY <1>3, <5>2
          <6> QED BY <2>1, <3>1, <6>1 DEF ToolInv, AnswersMatch
        <5> QED BY <5>1, <5>2
      <4>3. \A i, j \in DOMAIN out' :
               out'[i].id # 0 /\ out'[j].id # 0 /\ i < j => out'[i].id < out'[j].id
        <5> SUFFICES ASSUME NEW i \in DOMAIN out', NEW j \in DOMAIN out', out'[i].id # 0,
                            out'[j].id # 0, i < j
                     PROVE  out'[i].id < out'[j].id
          OBVIOUS
        <5>1. i \in DOMAIN out /\ out'[i] = out[i] /\ out[i].id \in 0 .. n - 1
          BY <2>3, <3>1
        <5>2. CASE j = l
          BY <1>3, <2>5, <3>1, <5>1, <5>2
        <5>3. CASE j # l
          BY <3>1, <5>1, <5>3 DEF ToolInv, AnswersMatch
        <5> QED BY <5>2, <5>3
      <4> QED BY <4>1, <4>2, <4>3 DEF AnswersMatch
    <3>3. SuccessReal'
      <4> SUFFICES ASSUME NEW i \in DOMAIN out'
                   PROVE  /\ out'[i].id = 0 => out'[i].kind = "error"
                          /\ out'[i].kind = "result" /\ received'[out'[i].id].method = "tools/call" =>
                                \E r \in runs' : r.at = out'[i].id /\ r.status = "success"
        BY DEF SuccessReal
      <4>1. CASE i = l
        <5>1. e.id = 0 => e.kind = "error"
          BY <1>3, <1>4, <2>5
        <5>2. ASSUME e.kind = "result", received'[e.id].method = "tools/call"
              PROVE  \E r \in runs' : r.at = e.id /\ r.status = "success"
          <6>1. e.id = n /\ Asked(m) /\ m.method = "tools/call"
            BY <1>3, <2>5, <5>1, <5>2
          <6>2. h.run = Run(m, "success") /\ m.kind = "message"
            BY <1>3, <1>4, <2>5, <5>2, <6>1 DEF Asked
          <6>3. h.run \subseteq runs'
            BY <1>1, <6>2
          <6> QED BY <1>0, <6>1, <6>2, <6>3 DEF Run
        <5> QED BY <3>1, <4>1, <5>1, <5>2
      <4>2. CASE i # l
        <5>1. i \in DOMAIN out /\ out'[i] = out[i]
          BY <3>1, <4>2
        <5>2. out[i].id \in 1 .. n - 1 => received'[out[i].id] = received[out[i].id]
          BY <1>3
        <5>3. out[i].id = 0 \/ out[i].id \in 1 .. n - 1
          BY <1>3, <2>3, <5>1
        <5> QED BY <2>2, <5>1, <5>2, <5>3 DEF ToolInv, SuccessReal
      <4> QED BY <4>1, <4>2
    <3> QED BY <3>2, <3>3
  <2> QED BY <1>10, <2>4, <2>5
<1> QED BY <1>5, <1>8, <1>9, <1>11 DEF ToolInv

\* A tool step of the agent.
LEMMA AgentStep ==
    ASSUME ToolInv, NEW s \in AgentSteps, AgentToolStep(s)
    PROVE  ToolInv'
<1>1. /\ UNCHANGED <<allowed, phase, received, out>>
      /\ \/ UNCHANGED runs
         \/ \E status :
              /\ ~Denied(s)
              /\ runs' = runs \cup {[entry |-> "agent", at |-> 0, tool |-> s.tool,
                                     tenant |-> TenantId, params |-> s.params, status |-> status]}
  BY DEF AgentToolStep, EngineExecute
<1>2. ToolShape' /\ Handshake' /\ AnswersMatch'
  BY <1>1 DEF ToolInv, ToolShape, Handshake, Shook, Opened, AnswersMatch, Asked
<1>3. SuccessReal'
  <2>1. runs \subseteq runs'
    BY <1>1
  <2> QED BY <1>1, <2>1 DEF ToolInv, SuccessReal
<1>4. RunsGoverned'
  <2> SUFFICES ASSUME NEW r \in runs' PROVE Governed(r)'
    BY DEF RunsGoverned
  <2>1. CASE r \in runs
    BY <1>1, <2>1 DEF ToolInv, RunsGoverned, Governed, Shook
  <2>2. CASE r \notin runs
    <3>1. r.entry = "agent" /\ r.tool = s.tool /\ r.tenant = TenantId /\ ~Denied(s)
      BY <1>1, <2>2
    <3> QED BY <3>1 DEF Governed, Denied
  <2> QED BY <2>1, <2>2
<1> QED BY <1>2, <1>3, <1>4 DEF ToolInv

\* Every step keeps the invariant.
LEMMA StepTool == ToolInv /\ [ToolNext]_toolVars => ToolInv'
<1> SUFFICES ASSUME ToolInv, [ToolNext]_toolVars PROVE ToolInv'
  OBVIOUS
<1>1. CASE UNCHANGED toolVars
  BY <1>1 DEF toolVars, ToolInv, ToolShape, Handshake, RunsGoverned, Governed, Shook, Opened,
     AnswersMatch, Asked, SuccessReal
<1> QED BY <1>1, ServeStep, AgentStep DEF ToolNext

\* Whatever lines a client sends, in whatever order: a tool runs over MCP only
\* after the handshake, if it is allowed, with arguments of its schema and for
\* the server's tenant; the agent runs financial_metrics alone; every request
\* has one answer, in order, and a success is one of the tool.
THEOREM ToolsGoverned == ToolSpec => []ToolGoverned
  BY InitTool, StepTool, GovernedIs, PTL DEF ToolSpec

(* -------------------------------- types -------------------------------- *)

\* What the locals of a turn, its calls and its result may be.
AnswerCounted ==
    /\ turn \in 0 .. MaxTurns /\ \A n \in DOMAIN chan : chan[n].turn \in 0 .. turn
    /\ run.key \in {"", "user", "deployment"} /\ given.outcome \in {"none", "answer", "error"}

\* The bounds are numbers.
LEMMA AnswerBounds == MaxTurns \in Nat /\ MaxRetry \in Nat
BY AnswerAssumption

\* A node's return value is of this turn.
LEMMA WrittenTurns ==
    ASSUME AnswerCounted, NEW u, chan' = Written(u), UNCHANGED turn
    PROVE  DOMAIN chan' = DOMAIN chan /\ \A n \in DOMAIN chan' : chan'[n].turn \in 0 .. turn
<1>1. turn \in 0 .. turn
  <2>1. turn \in 0 .. MaxTurns
    BY DEF AnswerCounted
  <2> QED BY <2>1, AnswerBounds
<1>2. DOMAIN chan' = DOMAIN chan
  BY DEF Written
<1>3. ASSUME NEW n \in DOMAIN chan PROVE chan'[n].turn \in 0 .. turn
  <2>1. chan'[n] = IF n \in DOMAIN u THEN [turn |-> turn, val |-> u[n]] ELSE chan[n]
    BY DEF Written
  <2>2. [turn |-> turn, val |-> u[n]].turn = turn
    OBVIOUS
  <2>3. CASE n \in DOMAIN u
    BY <1>1, <2>1, <2>2, <2>3
  <2>4. CASE n \notin DOMAIN u
    BY <2>1, <2>4 DEF AnswerCounted
  <2> QED BY <2>3, <2>4
<1> QED BY <1>2, <1>3

\* The graph's state keeps its types: no channel is of a turn to come, and no provider
\* is asked more than MaxRetry times in a turn.
THEOREM AnswerTypes == AnswerSpec => []AnswerTypeOK
<1>1. ASSUME AnswerInit PROVE AnswerCounted
  <2>1. turn \in 0 .. MaxTurns
    BY <1>1, AnswerBounds DEF AnswerInit
  <2>2. ASSUME NEW n \in DOMAIN chan PROVE chan[n].turn \in 0 .. turn
    <3>1. chan[n].turn = 0 /\ turn = 0
      BY <1>1, <2>2 DEF AnswerInit
    <3> QED BY <3>1
  <2>3. run.key = "" /\ given.outcome = "none"
    BY <1>1 DEF AnswerInit, NoRun
  <2> QED BY <2>1, <2>2, <2>3 DEF AnswerCounted
<1>2. ASSUME AnswerInv, AnswerCounted, [AnswerNext]_answerVars PROVE AnswerCounted'
  <2>0. run = [q |-> run.q, settings |-> run.settings, provider |-> run.provider, key |-> run.key,
               workflow |-> run.workflow, workflowTools |-> run.workflowTools,
               steps |-> run.steps, cites |-> run.cites, report |-> run.report]
    BY <1>2 DEF AnswerInv, Locals
  <2>1. ASSUME NEW q \in AnswerQuestions, NEW s \in UserSettings, Invoke(q, s) PROVE AnswerCounted'
    <3>1. turn' = turn + 1 /\ turn < MaxTurns /\ UNCHANGED <<chan, given>> /\ run'.key = ""
      BY <2>1 DEF Invoke, NoRun
    <3>2. turn \in 0 .. MaxTurns /\ MaxTurns \in Nat
      BY <1>2, AnswerBounds DEF AnswerCounted
    <3>9. turn \in Nat
      BY <3>2
    <3>7. turn' = turn + 1 /\ turn < MaxTurns
      BY <2>1 DEF Invoke
    <3>8. turn + 1 \in 0 .. MaxTurns /\ \A i \in 0 .. turn : i \in 0 .. turn + 1
      BY <3>2, <3>7, <3>9
    <3>4. turn' \in 0 .. MaxTurns /\ \A i \in 0 .. turn : i \in 0 .. turn'
      BY <3>7, <3>8
    <3>5. \A n \in DOMAIN chan : chan[n].turn \in 0 .. turn
      BY <1>2 DEF AnswerCounted
    <3>6. chan' = chan
      BY <3>1
    <3>3. \A n \in DOMAIN chan' : chan'[n].turn \in 0 .. turn'
      BY <3>4, <3>5, <3>6
    <3> QED BY <1>2, <3>1, <3>4, <3>3 DEF AnswerCounted
  <2>2. ASSUME Raise PROVE AnswerCounted'
    BY <1>2, <2>2 DEF AnswerCounted, Raise
  <2>3. CASE PlanNode \/ Die \/ CallWithoutKey
    BY <1>2, <2>2, <2>3 DEF PlanNode, Die, CallWithoutKey, AnswerCounted
  <2>4. CASE RouteRequest
    <3>1. CASE Raise
      BY <2>2, <3>1
    <3>2. CASE ~Raise
      <4>1. /\ UNCHANGED <<turn, chan, given>>
            /\ \E s, p, q : run' = [run EXCEPT !.provider = q, !.key = BuildConfig(s, p)]
        BY <2>4, <3>2 DEF RouteRequest
      <4>2. \A s, p : BuildConfig(s, p) \in {"", "user", "deployment"}
        BY DEF BuildConfig
      <4>3. run'.key \in {"", "user", "deployment"}
        BY <2>0, <4>1, <4>2
      <4> QED BY <1>2, <4>1, <4>3 DEF AnswerCounted
    <3> QED BY <3>1, <3>2
  <2>5. ASSUME UNCHANGED <<turn, chan, given>>, run'.key = run.key PROVE AnswerCounted'
    BY <1>2, <2>5 DEF AnswerCounted
  <2>6. CASE RunWorkflow \/ Answer
    BY <2>0, <2>5, <2>6 DEF RunWorkflow, Answer
  <2>7. ASSUME NEW o, Dispatch(o) PROVE AnswerCounted'
    BY <2>0, <2>5, <2>7 DEF Dispatch
  <2>8. ASSUME NEW o \in LLMOutcomes, Call(o) PROVE AnswerCounted'
    <3>1. Raise \/ (UNCHANGED <<turn, chan, given>> /\ run'.key = run.key)
      <4>1. CASE Body(o)
        BY <2>0, <2>8, <4>1 DEF Call
      <4>2. CASE ~Body(o) /\ Retryable(run.provider, o) /\ Len(llmCalls) + 1 < MaxRetry
        BY <2>8, <4>2 DEF Call
      <4>3. CASE ~Body(o) /\ ~(Retryable(run.provider, o) /\ Len(llmCalls) + 1 < MaxRetry)
        BY <2>8, <4>3 DEF Call
      <4> QED BY <4>1, <4>2, <4>3
    <3> QED BY <2>2, <2>5, <3>1
  <2>9. CASE ExecuteNode
    <3>1. UNCHANGED <<turn, run, given>> /\ \E u : chan' = Written(u)
      BY <2>9 DEF ExecuteNode
    <3>2. \A n \in DOMAIN chan' : chan'[n].turn \in 0 .. turn
      BY <1>2, <3>1, WrittenTurns
    <3> QED BY <1>2, <3>1, <3>2 DEF AnswerCounted
  <2>10. CASE FinalizeNode
    <3>1. UNCHANGED <<turn, run>> /\ given'.outcome = "answer" /\ \E u : chan' = Written(u)
      BY <2>10 DEF FinalizeNode
    <3>2. \A n \in DOMAIN chan' : chan'[n].turn \in 0 .. turn
      BY <1>2, <3>1, WrittenTurns
    <3> QED BY <1>2, <3>1, <3>2 DEF AnswerCounted
  <2>11. CASE UNCHANGED answerVars
    BY <1>2, <2>11 DEF answerVars, AnswerCounted
  <2> QED BY <1>2, <2>1, <2>3, <2>4, <2>6, <2>7, <2>8, <2>9, <2>10, <2>11 DEF AnswerNext
<1>3. ASSUME AnswerInv, AnswerCounted PROVE AnswerTypeOK
  <2>1. Len(llmCalls) <= MaxRetry
    <3>1. MaxRetry \in Nat
      BY AnswerBounds
    <3>2. CASE llmCalls = <<>>
      BY <3>1, <3>2
    <3>3. CASE llmCalls # <<>>
      BY <1>3, <3>3 DEF AnswerInv, CallsJustified
    <3> QED BY <3>2, <3>3
  <2>2. DOMAIN chan = DOMAIN Empty
    BY <1>3 DEF AnswerInv, Checkpoint, Empty
  <2>3. node \in Nodes
    BY <1>3 DEF AnswerInv, Locals
  <2> QED BY <1>3, <2>1, <2>2, <2>3 DEF AnswerCounted, AnswerTypeOK
<1> QED BY <1>1, <1>2, <1>3, InitAnswer, StepAnswer, PTL DEF AnswerSpec

\* How far a connection and the agent's steps are.
Connected ==
    /\ phase \in {"new", "awaiting_initialized", "ready"}
    /\ Len(received) <= MaxLines
    /\ steps \in Seq([tool : {s.tool : s \in AgentSteps}, success : BOOLEAN]) /\ Len(steps) <= MaxSteps
    /\ \A r \in runs : r.entry \in {"mcp", "agent"}

\* The connection keeps its types: phase, lines, answers and executions.
THEOREM ToolTypes == ToolSpec => []ToolTypeOK
<1>1. ToolInit => Connected
  BY ToolAssumption DEF ToolInit, Connected
<1>2. ASSUME ToolInv, Connected, [ToolNext]_toolVars PROVE Connected'
  <2>1. ASSUME NEW m \in Lines, NEW world \in Worlds, ServeLine(m, world) PROVE Connected'
    <3> DEFINE g == [phase |-> phase, reply |-> ErrorReply(-32700), run |-> {}]
               h == IF m.kind = "garbage" THEN g ELSE Handle(m, world)
    <3>1. /\ received' = Append(received, m) /\ UNCHANGED steps /\ Len(received) < MaxLines
          /\ phase' = phase \/ phase' = h.phase
          /\ runs' = runs \/ runs' = runs \cup h.run
      BY <2>1 DEF ServeLine
    <3>2. /\ h.phase \in {phase, "awaiting_initialized", "ready"}
          /\ h.run = {} \/ \E status : h.run = Run(m, status)
      <4>1. CASE m.kind = "garbage"
        BY <4>1
      <4>2. CASE m.kind # "garbage"
        <5>1. h = Handle(m, world) /\ allowed \subseteq Supported
          BY <1>2, <4>2 DEF ToolInv, ToolShape
        <5> HIDE DEF h
        <5> QED BY <5>1, HandleIs
      <4> QED BY <4>1, <4>2
    <3> HIDE DEF h, g
    <3>3. Len(received') <= MaxLines
      <4>1. received \in Seq(Lines) /\ MaxLines \in Nat
        BY <1>2, ToolAssumption DEF ToolInv, ToolShape
      <4>2. Len(received) \in Nat /\ Len(received') = Len(received) + 1
        BY <2>1, <3>1, <4>1
      <4> QED BY <3>1, <4>1, <4>2
    <3>4. \A r \in runs' : r.entry \in {"mcp", "agent"}
      BY <1>2, <3>1, <3>2 DEF Connected, Run
    <3>5. phase' \in {"new", "awaiting_initialized", "ready"}
      BY <1>2, <3>1, <3>2 DEF Connected
    <3> QED BY <1>2, <3>1, <3>3, <3>4, <3>5 DEF Connected
  <2>2. ASSUME NEW s \in AgentSteps, AgentToolStep(s) PROVE Connected'
    <3>1. UNCHANGED <<phase, received>> /\ Len(steps) < MaxSteps
      BY <2>2 DEF AgentToolStep
    <3> DEFINE status == EngineExecute(s.tool, TenantId, s.params, FALSE, Denied(s), "raises")
               b == status = "success"
    <3>7. steps' = Append(steps, [tool |-> s.tool, success |-> b])
      BY <2>2, Zenon DEF AgentToolStep
    <3>8. b \in BOOLEAN
      BY Zenon
    <3> HIDE DEF b
    <3>2. \A r \in runs' : r.entry \in {"mcp", "agent"}
      <4> DEFINE x == [entry |-> "agent", at |-> 0, tool |-> s.tool, tenant |-> TenantId,
                       params |-> s.params, status |-> status]
      <4>1. runs' = runs \/ runs' = runs \cup {x}
        BY <2>2, Zenon DEF AgentToolStep
      <4>2. x.entry = "agent"
        OBVIOUS
      <4>3. \A r \in runs : r.entry \in {"mcp", "agent"}
        BY <1>2 DEF Connected
      <4> HIDE DEF x
      <4> QED BY <4>1, <4>2, <4>3
    <3> DEFINE T == [tool : {u.tool : u \in AgentSteps}, success : BOOLEAN]
    <3>3. PICK e \in T : steps' = Append(steps, e)
      <4>2. s.tool \in {u.tool : u \in AgentSteps}
        BY <2>2
      <4>3. [tool |-> s.tool, success |-> b] \in T
        BY <3>8, <4>2
      <4> QED BY <3>7, <4>3
    <3>4. steps \in Seq(T) /\ MaxSteps \in Nat
      BY <1>2, ToolAssumption DEF Connected
    <3> HIDE DEF T
    <3>5. steps' \in Seq(T) /\ Len(steps') = Len(steps) + 1 /\ Len(steps) \in Nat
      BY <3>3, <3>4
    <3>6. Len(steps') <= MaxSteps
      BY <3>1, <3>4, <3>5
    <3> QED BY <1>2, <3>1, <3>2, <3>5, <3>6 DEF Connected, T
  <2>3. CASE UNCHANGED toolVars
    BY <1>2, <2>3 DEF toolVars, Connected
  <2> QED BY <1>2, <2>1, <2>2, <2>3 DEF ToolNext
<1>3. ASSUME ToolInv, Connected PROVE ToolTypeOK
  <2>1. \A i \in DOMAIN out : out[i].kind \in {"result", "tool_error", "error"}
    <3>1. out \in Seq([id : Nat, kind : {"result", "tool_error", "error"}, code : Int])
      BY <1>3 DEF ToolInv, ToolShape
    <3>2. ASSUME NEW i \in DOMAIN out
          PROVE  out[i] \in [id : Nat, kind : {"result", "tool_error", "error"}, code : Int]
      <4> DEFINE R == [id : Nat, kind : {"result", "tool_error", "error"}, code : Int]
      <4>1. out \in Seq(R)
        BY <3>1
      <4> HIDE DEF R
      <4>2. out[i] \in R
        BY <3>2, <4>1
      <4> QED BY <4>2 DEF R
    <3> QED BY <3>2
  <2>2. \A r \in runs : r.tool \in Supported
    BY <1>3 DEF ToolInv, ToolShape, RunsGoverned, Governed, Connected, Supported
  <2> QED BY <1>3, <2>1, <2>2 DEF ToolInv, ToolShape, Connected, ToolTypeOK
<1> QED BY <1>1, <1>2, <1>3, InitTool, StepTool, PTL DEF ToolSpec

-----------------------------------------------------------------------------
(* Sorting a finite set by ranks.                                          *)

\* R orders S strictly and totally.
Orders(R, S) ==
    /\ \A x \in S : <<x, x>> \notin R
    /\ \A x, y, z \in S : <<x, y>> \in R /\ <<y, z>> \in R => <<x, z>> \in R
    /\ \A x, y \in S : x # y => <<x, y>> \in R \/ <<y, x>> \in R

Below(S, R, x) == {y \in S : <<y, x>> \in R}

\* The ranks of a finite ordered set are 0 .. n - 1, each taken once.
LEMMA RanksSort ==
    ASSUME NEW S, NEW R, IsFiniteSet(S), Orders(R, S)
    PROVE  /\ Cardinality(S) \in Nat
           /\ \A x \in S : Cardinality(Below(S, R, x)) \in 0 .. Cardinality(S) - 1
           /\ \A x, y \in S :
                Cardinality(Below(S, R, x)) = Cardinality(Below(S, R, y)) => x = y
           /\ \A k \in 0 .. Cardinality(S) - 1 :
                \E x \in S : Cardinality(Below(S, R, x)) = k
<1> DEFINE n == Cardinality(S)
           Rank == [x \in S |-> Cardinality(Below(S, R, x))]
<1>1. n \in Nat
  BY FS_CardinalityType
<1>2. ASSUME NEW x \in S
      PROVE  Cardinality(Below(S, R, x)) \in 0 .. n - 1
  <2> DEFINE B == Below(S, R, x)
  <2>1. B \in SUBSET S /\ x \notin B
    BY DEF Below, Orders
  <2> HIDE DEF B
  <2>2. IsFiniteSet(B) /\ Cardinality(B) <= n /\ (n = Cardinality(B) => S = B)
    BY <2>1, FS_Subset
  <2>3. Cardinality(B) \in Nat
    BY <2>2, FS_CardinalityType
  <2>4. Cardinality(B) # n
    BY <2>1, <2>2
  <2> QED BY <1>1, <2>2, <2>3, <2>4 DEF B
<1>3. ASSUME NEW x \in S, NEW y \in S, <<x, y>> \in R
      PROVE  Cardinality(Below(S, R, x)) # Cardinality(Below(S, R, y))
  <2> DEFINE B == Below(S, R, x)
             C == Below(S, R, y)
  <2>1. B \in SUBSET C /\ x \in C /\ x \notin B /\ C \in SUBSET S
    BY <1>3 DEF Below, Orders
  <2> HIDE DEF B, C
  <2>2. IsFiniteSet(C)
    BY <2>1, FS_Subset
  <2>3. Cardinality(C) = Cardinality(B) => C = B
    BY <2>1, <2>2, FS_Subset
  <2> QED BY <2>1, <2>3 DEF B, C
<1>4. \A x, y \in S : Cardinality(Below(S, R, x)) = Cardinality(Below(S, R, y)) => x = y
  BY <1>3 DEF Orders
<1>5. Rank \in Injection(S, 0 .. n - 1)
  BY <1>2, <1>4 DEF Injection, IsInjective
<1>6. IsFiniteSet(0 .. n - 1) /\ Cardinality(0 .. n - 1) = n
  BY <1>1, FS_Interval
<1>7. Rank \in Surjection(S, 0 .. n - 1)
  <2> HIDE DEF Rank
  <2> QED BY <1>5, <1>6, FS_Injection
<1>8. \A k \in 0 .. n - 1 : \E x \in S : Rank[x] = k
  BY <1>7 DEF Surjection
<1> QED BY <1>1, <1>2, <1>4, <1>8

\* Sorting lists every element once, and the smaller one first.
LEMMA SortedFacts ==
    ASSUME NEW S, NEW R, IsFiniteSet(S), Orders(R, S)
    PROVE  /\ Sorted(S, R) \in Seq(S) /\ Len(Sorted(S, R)) = Cardinality(S)
           /\ \A x \in S : \E k \in 1 .. Len(Sorted(S, R)) : Sorted(S, R)[k] = x
           /\ \A j, k \in 1 .. Len(Sorted(S, R)) :
                j < k => <<Sorted(S, R)[j], Sorted(S, R)[k]>> \in R
           /\ \A j, k \in 1 .. Len(Sorted(S, R)) : Sorted(S, R)[j] = Sorted(S, R)[k] => j = k
<1> DEFINE n == Cardinality(S)
           s == Sorted(S, R)
           rk(x) == Cardinality(Below(S, R, x))
<1>0. n \in Nat
  BY RanksSort
<1>1. ASSUME NEW k \in 1 .. n PROVE s[k] \in S /\ rk(s[k]) = k - 1
  <2>1. k - 1 \in 0 .. n - 1
    BY <1>0
  <2>2. \E x \in S : rk(x) = k - 1
    BY <2>1, RanksSort
  <2>3. s[k] = CHOOSE x \in S : rk(x) = k - 1
    BY DEF Sorted, Below
  <2> QED BY <2>2, <2>3
<1>2. s \in [1 .. n -> S]
  BY <1>1 DEF Sorted
<1>3. s \in Seq(S) /\ Len(s) = n
  BY <1>0, <1>2
<1> HIDE DEF s
<1>4. ASSUME NEW x \in S PROVE \E k \in 1 .. n : s[k] = x
  <2> DEFINE k == rk(x) + 1
  <2>1. rk(x) \in 0 .. n - 1
    BY RanksSort
  <2>2. k \in 1 .. n /\ k - 1 = rk(x)
    BY <1>0, <2>1
  <2>3. s[k] \in S /\ rk(s[k]) = rk(x)
    BY <1>1, <2>2
  <2>4. s[k] = x
    BY <2>3, RanksSort
  <2> QED BY <2>2, <2>4
<1>5. ASSUME NEW j \in 1 .. n, NEW k \in 1 .. n, j < k PROVE <<s[j], s[k]>> \in R
  <2>1. s[j] \in S /\ s[k] \in S /\ rk(s[j]) = j - 1 /\ rk(s[k]) = k - 1
    BY <1>1
  <2>2. s[j] # s[k]
    BY <2>1, <1>0, <1>5
  <2>3. ASSUME <<s[k], s[j]>> \in R PROVE FALSE
    <3> DEFINE B == Below(S, R, s[k])
               C == Below(S, R, s[j])
    <3>1. B \in SUBSET C /\ C \in SUBSET S
      BY <2>1, <2>3 DEF Below, Orders
    <3> HIDE DEF B, C
    <3>2. IsFiniteSet(C) /\ Cardinality(B) <= Cardinality(C)
      BY <3>1, FS_Subset
    <3>3. Cardinality(B) = k - 1 /\ Cardinality(C) = j - 1
      BY <2>1 DEF B, C
    <3> QED BY <1>0, <1>5, <3>2, <3>3
  <2> QED BY <2>1, <2>2, <2>3 DEF Orders
<1>6. ASSUME NEW j \in 1 .. n, NEW k \in 1 .. n, s[j] = s[k] PROVE j = k
  BY <1>0, <1>1, <1>6
<1> QED BY <1>3, <1>4, <1>5, <1>6 DEF s

\* The entries e are those of s at I, one for each.
Selects(e, s, I) ==
    \E place \in [1 .. Len(e) -> I] :
        /\ \A k \in 1 .. Len(e) : e[k] = s[place[k]]
        /\ \A j, k \in 1 .. Len(e) : place[j] = place[k] => j = k
        /\ \A i \in I : \E k \in 1 .. Len(e) : place[k] = i

\* The chosen entries of a sequence: nothing else, each chosen place once.
LEMMA EntriesFacts ==
    ASSUME NEW T, NEW s \in Seq(T), NEW I \in SUBSET DOMAIN s
    PROVE  Entries(s, I) \in Seq(T) /\ Selects(Entries(s, I), s, I)
<1> DEFINE R == {p \in I \X I : p[1] < p[2]}
           place == Sorted(I, R)
           e == Entries(s, I)
<1>1. I \in SUBSET (1 .. Len(s)) /\ Len(s) \in Nat
  BY LenProperties
<1>2. IsFiniteSet(I)
  BY <1>1, FS_Interval, FS_Subset
<1>3. Orders(R, I)
  BY <1>1 DEF Orders
<1> HIDE DEF R
<1>4. /\ place \in Seq(I) /\ Len(place) = Cardinality(I)
      /\ \A x \in I : \E k \in 1 .. Len(place) : place[k] = x
      /\ \A j, k \in 1 .. Len(place) : place[j] = place[k] => j = k
  BY <1>2, <1>3, SortedFacts
<1>5. e = [k \in 1 .. Cardinality(I) |-> s[place[k]]] /\ Cardinality(I) \in Nat
  BY <1>2, FS_CardinalityType DEF Entries, R
<1> HIDE DEF place, e
<1>6. place \in [1 .. Cardinality(I) -> I]
  BY <1>4, LenProperties
<1>7. \A k \in 1 .. Cardinality(I) : s[place[k]] \in T
  BY <1>1, <1>6, ElementOfSeq
<1>8. e \in Seq(T) /\ Len(e) = Cardinality(I)
  BY <1>5, <1>7
<1>9. \A k \in 1 .. Len(e) : e[k] = s[place[k]]
  BY <1>5, <1>8
<1>10. /\ place \in [1 .. Len(e) -> I]
       /\ \A k \in 1 .. Len(e) : e[k] = s[place[k]]
       /\ \A j, k \in 1 .. Len(e) : place[j] = place[k] => j = k
       /\ \A i \in I : \E k \in 1 .. Len(e) : place[k] = i
  BY <1>4, <1>6, <1>8, <1>9
<1>11. Selects(e, s, I)
  BY <1>10, Zenon DEF Selects
<1> QED BY <1>8, <1>11 DEF e

\* The first k entries.
LEMMA FirstKFacts ==
    ASSUME NEW T, NEW s \in Seq(T), NEW k \in Nat
    PROVE  /\ FirstK(s, k) \in Seq(T)
           /\ Len(FirstK(s, k)) = IF Len(s) < k THEN Len(s) ELSE k
           /\ Len(FirstK(s, k)) <= k /\ Len(FirstK(s, k)) <= Len(s)
           /\ \A i \in 1 .. Len(FirstK(s, k)) : FirstK(s, k)[i] = s[i]
<1> DEFINE n == IF Len(s) < k THEN Len(s) ELSE k
<1>1. Len(s) \in Nat /\ n \in Int /\ n >= 0 /\ n <= k /\ n <= Len(s)
  BY LenProperties
<1>2. \A i \in 1 .. n : s[i] \in T
  BY <1>1, ElementOfSeq
<1> HIDE DEF n
<1>3. /\ SubSeq(s, 1, n) \in Seq(T)
      /\ Len(SubSeq(s, 1, n)) = IF 1 <= n THEN n - 1 + 1 ELSE 0
      /\ \A i \in 1 .. n - 1 + 1 : SubSeq(s, 1, n)[i] = s[1 + i - 1]
  BY <1>1, <1>2, SubSeqProperties
<1>4. Len(SubSeq(s, 1, n)) = n
  BY <1>1, <1>3
<1>5. \A i \in 1 .. n : SubSeq(s, 1, n)[i] = s[i]
  BY <1>1, <1>3
<1> QED BY <1>1, <1>3, <1>4, <1>5 DEF FirstK, n

-----------------------------------------------------------------------------
(* The steps of a channel.                                                 *)

\* Scoping returns the entries in scope that pass the filters, all of them.
LEMMA ScopedFacts ==
    ASSUME NEW T, NEW s \in Seq(T), NEW t
    PROVE  /\ Scoped(s, t) \in Seq(T)
           /\ \A k \in 1 .. Len(Scoped(s, t)) :
                /\ InScope(Scoped(s, t)[k], t) /\ ApplyFilters(Scoped(s, t)[k])
                /\ \E i \in 1 .. Len(s) : Scoped(s, t)[k] = s[i]
           /\ \A i \in 1 .. Len(s) : InScope(s[i], t) /\ ApplyFilters(s[i]) =>
                \E k \in 1 .. Len(Scoped(s, t)) : Scoped(s, t)[k] = s[i]
<1> DEFINE I == {i \in DOMAIN s : InScope(s[i], t) /\ ApplyFilters(s[i])}
           e == Entries(s, I)
<1>0. DOMAIN s = 1 .. Len(s)
  BY LenProperties
<1>1. I \in SUBSET DOMAIN s
  OBVIOUS
<1>2. \A i \in I : InScope(s[i], t) /\ ApplyFilters(s[i])
  OBVIOUS
<1>3. \A i \in 1 .. Len(s) : InScope(s[i], t) /\ ApplyFilters(s[i]) => i \in I
  BY <1>0
<1>4. Scoped(s, t) = e
  BY DEF Scoped
<1> HIDE DEF I
<1>5. e \in Seq(T) /\ Selects(e, s, I)
  BY <1>1, EntriesFacts
<1> HIDE DEF e
<1>6. PICK place \in [1 .. Len(e) -> I] :
        /\ \A k \in 1 .. Len(e) : e[k] = s[place[k]]
        /\ \A j, k \in 1 .. Len(e) : place[j] = place[k] => j = k
        /\ \A i \in I : \E k \in 1 .. Len(e) : place[k] = i
  BY <1>5, Zenon DEF Selects
<1>7. \A k \in 1 .. Len(e) :
        /\ InScope(e[k], t) /\ ApplyFilters(e[k])
        /\ \E i \in 1 .. Len(s) : e[k] = s[i]
  BY <1>0, <1>1, <1>2, <1>6
<1>8. \A i \in I : \E k \in 1 .. Len(e) : e[k] = s[i]
  BY <1>6
<1> QED BY <1>3, <1>4, <1>5, <1>7, <1>8

\* Deduplication returns entries, one of every key there is.
LEMMA RetrievalDeduplicate ==
    ASSUME NEW T, NEW s \in Seq(T)
    PROVE  /\ Deduplicate(s) \in Seq(T)
           /\ \A k \in 1 .. Len(Deduplicate(s)) : \E i \in 1 .. Len(s) : Deduplicate(s)[k] = s[i]
           /\ \A j, k \in 1 .. Len(Deduplicate(s)) :
                Key(Deduplicate(s)[j]) = Key(Deduplicate(s)[k]) => j = k
           /\ \A i \in 1 .. Len(s) : \E k \in 1 .. Len(Deduplicate(s)) :
                Key(Deduplicate(s)[k]) = Key(s[i])
<1> DEFINE I == {i \in DOMAIN s : \A j \in 1 .. i - 1 : Key(s[j]) # Key(s[i])}
           e == Entries(s, I)
<1>0. DOMAIN s = 1 .. Len(s) /\ Len(s) \in Nat
  BY LenProperties
<1>1. I \in SUBSET (1 .. Len(s)) /\ I \in SUBSET DOMAIN s
  BY <1>0
<1>2. \A i, j \in I : Key(s[i]) = Key(s[j]) => i = j
  BY <1>0
<1>3. ASSUME NEW i \in 1 .. Len(s) PROVE \E j \in I : Key(s[j]) = Key(s[i])
  <2> DEFINE J == {j \in 1 .. Len(s) : Key(s[j]) = Key(s[i])}
  <2>1. J \in SUBSET Nat /\ i \in J
    BY <1>0
  <2>2. PICK j \in J : \A m \in J : j <= m
    <3> HIDE DEF J
    <3> QED BY <2>1, Least
  <2>3. \A m \in J : ~ (m < j)
    BY <2>1, <2>2
  <2>4. \A m \in 1 .. j - 1 : m \in 1 .. Len(s) /\ m < j
    BY <1>0
  <2>5. \A m \in 1 .. j - 1 : Key(s[m]) # Key(s[j])
    BY <2>3, <2>4
  <2>6. j \in I /\ Key(s[j]) = Key(s[i])
    BY <1>0, <2>5
  <2> QED BY <2>6
<1>4. Deduplicate(s) = e
  BY DEF Deduplicate
<1> HIDE DEF I
<1>5. e \in Seq(T) /\ Selects(e, s, I)
  BY <1>1, EntriesFacts
<1> HIDE DEF e
<1>6. PICK place \in [1 .. Len(e) -> I] :
        /\ \A k \in 1 .. Len(e) : e[k] = s[place[k]]
        /\ \A j, k \in 1 .. Len(e) : place[j] = place[k] => j = k
        /\ \A i \in I : \E k \in 1 .. Len(e) : place[k] = i
  BY <1>5, Zenon DEF Selects
<1>7. \A k \in 1 .. Len(e) : \E i \in 1 .. Len(s) : e[k] = s[i]
  BY <1>1, <1>6
<1>8. \A j, k \in 1 .. Len(e) : Key(e[j]) = Key(e[k]) => j = k
  BY <1>2, <1>6
<1>9. \A i \in I : \E k \in 1 .. Len(e) : Key(e[k]) = Key(s[i])
  BY <1>6
<1> QED BY <1>3, <1>4, <1>5, <1>7, <1>8, <1>9

\* Ranking the scopes' results together returns the same entries.
LEMMA GloballyRankedFacts ==
    ASSUME NEW s \in Seq(Chunks)
    PROVE  /\ GloballyRanked(s) \in Seq(Chunks)
           /\ \A k \in 1 .. Len(GloballyRanked(s)) : \E i \in 1 .. Len(s) : GloballyRanked(s)[k] = s[i]
<1> DEFINE D == DOMAIN s
           R == {p \in D \X D : \/ s[p[1]].dist < s[p[2]].dist
                                \/ s[p[1]].dist = s[p[2]].dist /\ p[1] < p[2]}
           order == Sorted(D, R)
           g == GloballyRanked(s)
<1>0. D = 1 .. Len(s) /\ Len(s) \in Nat
  BY LenProperties
<1>1. \A i \in D : s[i] \in Chunks /\ s[i].dist \in Int
  BY ElementOfSeq, RetrievalAssumption
<1>2. IsFiniteSet(D) /\ Cardinality(D) = Len(s)
  BY <1>0, FS_Interval
<1>3. Orders(R, D)
  <2> HIDE DEF D
  <2> QED BY <1>0, <1>1 DEF Orders
<1>4. g = [i \in D |-> s[order[i]]]
  BY DEF GloballyRanked
<1> HIDE DEF R, D
<1>5. order \in Seq(D) /\ Len(order) = Len(s)
  BY <1>2, <1>3, SortedFacts
<1> HIDE DEF order
<1>6. \A i \in D : order[i] \in D
  BY <1>0, <1>5, ElementOfSeq
<1>7. g \in [1 .. Len(s) -> Chunks]
  BY <1>0, <1>1, <1>4, <1>6
<1>8. g \in Seq(Chunks) /\ Len(g) = Len(s)
  BY <1>0, <1>7
<1> QED BY <1>0, <1>4, <1>6, <1>8

\* The orders of the store, the corpus and the lexical search are total.
LEMMA ChunkOrders ==
    ASSUME NEW S \in SUBSET Chunks
    PROVE  Orders(Closer, S) /\ Orders(ById, S) /\ Orders(Better, S) /\ IsFiniteSet(S)
<1>1. \A c \in S : c \in Chunks /\ c.id \in Int /\ c.dist \in Int /\ c.bm25 \in Int
  BY RetrievalAssumption
<1>2. \A c, d \in S : c.id = d.id => c = d
  BY RetrievalAssumption
<1>3. Orders(Closer, S)
  BY <1>1, <1>2 DEF Orders, Closer
<1>4. Orders(ById, S)
  BY <1>1, <1>2 DEF Orders, ById
<1>5. Orders(Better, S)
  BY <1>1, <1>2 DEF Orders, Better
<1>6. IsFiniteSet(S)
  BY RetrievalAssumption, FS_Subset
<1> QED BY <1>3, <1>4, <1>5, <1>6

\* The number of candidates is positive when results are asked for.
LEMMA Candidates ==
    ASSUME ctx \in Contexts, ctx.topk > 0
    PROVE  ctx.topk \in Nat \ {0} /\ CandidateK \in Nat \ {0}
<1>1. ctx.topk \in Nat \ {0} /\ Multiplier \in Nat \ {0}
  BY RetrievalAssumption
<1>2. \A a, b \in Nat \ {0} : a * b \in Nat \ {0}
  OBVIOUS
<1> QED BY <1>1, <1>2 DEF CandidateK

\* The store's answer holds stored chunks of the tenant.
LEMMA SimilaritySearchFacts ==
    ASSUME stored \subseteq Chunks, ctx \in Contexts, ctx.topk > 0, NEW t
    PROVE  SimilaritySearch(t) \in Seq(Chunks)
<1> DEFINE S == {c \in stored : c.tenant = t}
<1>1. S \in SUBSET Chunks
  OBVIOUS
<1>2. SimilaritySearch(t) = FirstK(Sorted(S, Closer), CandidateK)
  BY DEF SimilaritySearch
<1> HIDE DEF S
<1>3. Sorted(S, Closer) \in Seq(S)
  BY <1>1, ChunkOrders, SortedFacts
<1>4. Sorted(S, Closer) \in Seq(Chunks)
  BY <1>1, <1>3, LenProperties, ElementOfSeq, SeqDef
<1> QED BY <1>2, <1>4, Candidates, FirstKFacts

\* The search returns chunks of the corpus, each once, and one if any shares a word.
LEMMA LexicalSearchFacts ==
    ASSUME ctx \in Contexts, ctx.topk > 0, NEW s \in Seq(Chunks)
    PROVE  /\ LexicalSearch(s) \in Seq(Chunks)
           /\ \A k \in 1 .. Len(LexicalSearch(s)) : \E i \in 1 .. Len(s) : LexicalSearch(s)[k] = s[i]
           /\ (\E i \in 1 .. Len(s) : s[i].bm25 > 0) => LexicalSearch(s) # <<>>
<1> DEFINE S == {c \in ToSet(s) : c.bm25 > 0}
           o == Sorted(S, Better)
           f == FirstK(o, CandidateK)
<1>0. DOMAIN s = 1 .. Len(s) /\ Len(s) \in Nat
  BY LenProperties
<1>1. S \in SUBSET Chunks /\ \A c \in S : \E i \in 1 .. Len(s) : c = s[i]
  BY <1>0, ElementOfSeq DEF ToSet
<1>2. LexicalSearch(s) = f
  BY DEF LexicalSearch
<1>3. (\E i \in 1 .. Len(s) : s[i].bm25 > 0) => S # {}
  BY <1>0 DEF ToSet
<1> HIDE DEF S
<1>4. Orders(Better, S) /\ IsFiniteSet(S)
  BY <1>1, ChunkOrders
<1>5. o \in Seq(S) /\ \A x \in S : \E k \in 1 .. Len(o) : o[k] = x
  BY <1>4, SortedFacts
<1> HIDE DEF o
<1>6. o \in Seq(Chunks) /\ Len(o) \in Nat /\ \A k \in 1 .. Len(o) : o[k] \in S
  BY <1>1, <1>5, LenProperties, ElementOfSeq, SeqMonotonic
<1>7. /\ f \in Seq(Chunks) /\ Len(f) <= Len(o)
      /\ Len(f) = IF Len(o) < CandidateK THEN Len(o) ELSE CandidateK
      /\ \A i \in 1 .. Len(f) : f[i] = o[i]
  BY <1>6, Candidates, FirstKFacts
<1> HIDE DEF f
<1>8. \A k \in 1 .. Len(f) : f[k] \in S
  BY <1>6, <1>7, LenProperties
<1>9. S # {} => Len(f) # 0
  BY <1>5, <1>6, <1>7, Candidates
<1> QED BY <1>1, <1>2, <1>3, <1>7, <1>8, <1>9, EmptySeq

-----------------------------------------------------------------------------
(* The fusion.                                                             *)

\* The common denominator of the scores is a number.
LEMMA ScaleIsNat ==
    ASSUME ctx \in Contexts, ctx.topk > 0
    PROVE  Scale \in Nat
<1> DEFINE N == CandidateK
           Product(f, n) ==
                /\ f[0] = 1
                /\ \A i \in 1 .. n : f[i] = (RrfK + i) * f[i - 1]
           product[n \in 0 .. N] == IF n = 0 THEN 1 ELSE (RrfK + n) * product[n - 1]
<1>0. N \in Nat /\ RrfK \in Nat
  BY Candidates, RetrievalAssumption
<1>1. Scale = product[N]
  BY DEF Scale
<1> HIDE DEF N
<1>2. \E f \in [0 .. N -> Nat] : Product(f, N)
  <2> DEFINE Bad == {n \in Nat : ~ \E f \in [0 .. n -> Nat] : Product(f, n)}
  <2>1. SUFFICES ASSUME Bad # {} PROVE FALSE
    BY <1>0
  <2>2. PICK m \in Bad : \A n \in Bad : m <= n
    <3>1. Bad \subseteq Nat
      OBVIOUS
    <3> HIDE DEF Bad
    <3> QED BY <2>1, <3>1, Least
  <2>3. m # 0
    <3> DEFINE f == [n \in 0 .. 0 |-> 1]
    <3>1. f \in [0 .. 0 -> Nat] /\ Product(f, 0)
      OBVIOUS
    <3> QED BY <3>1
  <2>4. m - 1 \in Nat /\ m - 1 \notin Bad
    <3>1. m \in Nat
      OBVIOUS
    <3> HIDE DEF Bad
    <3> QED BY <2>2, <2>3, <3>1
  <2>5. PICK f \in [0 .. m - 1 -> Nat] : Product(f, m - 1)
    BY <2>4
  <2> DEFINE g == [n \in 0 .. m |-> IF n = m THEN (RrfK + m) * f[m - 1] ELSE f[n]]
  <2>6. f[m - 1] \in Nat /\ (RrfK + m) * f[m - 1] \in Nat
    BY <1>0, <2>4
  <2>7. g \in [0 .. m -> Nat]
    BY <2>4, <2>6
  <2>8. g[0] = 1
    BY <2>3, <2>4, <2>5
  <2>9. ASSUME NEW i \in 1 .. m PROVE g[i] = (RrfK + i) * g[i - 1]
    <3>1. g[i - 1] = f[i - 1]
      BY <2>4
    <3>2. CASE i = m
      BY <3>1, <3>2, <2>4
    <3>3. CASE i # m
      <4>1. i \in 1 .. m - 1 /\ g[i] = f[i]
        BY <3>3, <2>4
      <4> QED BY <3>1, <4>1, <2>5
    <3> QED BY <3>2, <3>3
  <2> QED BY <2>2, <2>7, <2>8, <2>9
<1>3. PICK p \in [0 .. N -> Nat] : Product(p, N)
  BY <1>2
<1>4. p = [n \in 0 .. N |-> IF n = 0 THEN 1 ELSE (RrfK + n) * p[n - 1]]
  <2>1. \A n \in 0 .. N : p[n] = IF n = 0 THEN 1 ELSE (RrfK + n) * p[n - 1]
    BY <1>0, <1>3
  <2> QED BY <2>1
<1>5. product = [n \in 0 .. N |-> IF n = 0 THEN 1 ELSE (RrfK + n) * product[n - 1]]
  BY <1>4 DEF product
<1> HIDE DEF product
<1>6. \A n \in 0 .. N : product[n] = IF n = 0 THEN 1 ELSE (RrfK + n) * product[n - 1]
  BY <1>5
<1>7. \A n \in 0 .. N : product[n] \in Nat
  <2> DEFINE Bad == {n \in 0 .. N : product[n] \notin Nat}
  <2>1. SUFFICES ASSUME Bad # {} PROVE FALSE
    OBVIOUS
  <2>2. PICK m \in Bad : \A n \in Bad : m <= n
    <3>1. Bad \subseteq Nat
      BY <1>0
    <3> HIDE DEF Bad
    <3> QED BY <2>1, <3>1, Least
  <2>3. m # 0
    BY <1>6, <1>0
  <2>4. m - 1 \in 0 .. N /\ product[m - 1] \in Nat
    BY <1>0, <2>2, <2>3
  <2>5. product[m] = (RrfK + m) * product[m - 1] /\ m \in Nat
    BY <1>0, <1>6, <2>3
  <2>6. \A a, b \in Nat : a * b \in Nat
    OBVIOUS
  <2>7. product[m] \in Nat
    BY <1>0, <2>4, <2>5, <2>6
  <2> QED BY <2>7
<1> QED BY <1>0, <1>1, <1>7

\* A key's rank is the place of its first entry, 0 without one.
LEMMA RankInFacts ==
    ASSUME NEW s \in Seq(Chunks), NEW k
    PROVE  /\ RankIn(s, k) \in 0 .. Len(s)
           /\ RankIn(s, k) # 0 => RankIn(s, k) \in 1 .. Len(s) /\ Key(s[RankIn(s, k)]) = k
           /\ (\E i \in 1 .. Len(s) : Key(s[i]) = k) => RankIn(s, k) # 0
<1> DEFINE J == {i \in 1 .. Len(s) : Key(s[i]) = k}
<1>0. DOMAIN s = 1 .. Len(s) /\ Len(s) \in Nat
  BY LenProperties
<1>1. CASE J = {}
  <2>1. RankIn(s, k) = 0
    BY <1>0, <1>1 DEF RankIn
  <2> QED BY <1>0, <1>1, <2>1
<1>2. CASE J # {}
  <2>1. PICK i \in J : \A j \in J : i <= j
    <3>1. J \subseteq Nat
      BY <1>0
    <3> HIDE DEF J
    <3> QED BY <1>2, <3>1, Least
  <2>2. i \in 1 .. Len(s) /\ Key(s[i]) = k
    OBVIOUS
  <2>3. ASSUME NEW j \in 1 .. i - 1 PROVE Key(s[j]) # k
    <3>1. j \in 1 .. Len(s) /\ ~ (i <= j)
      BY <1>0, <2>2
    <3> QED BY <2>1, <3>1
  <2>4. RankIn(s, k) = CHOOSE x \in DOMAIN s :
            Key(s[x]) = k /\ \A j \in 1 .. x - 1 : Key(s[j]) # k
    BY <1>0, <2>2 DEF RankIn
  <2>5. RankIn(s, k) \in DOMAIN s /\ Key(s[RankIn(s, k)]) = k
    BY <1>0, <2>2, <2>3, <2>4
  <2> QED BY <1>0, <2>5
<1> QED BY <1>1, <1>2

\* Scores are numbers.
LEMMA FusedIsInt ==
    ASSUME ctx \in Contexts, ctx.topk > 0, vec \in Seq(Chunks), lex \in Seq(Chunks), NEW k
    PROVE  Fused(k) \in Int
<1>1. Scale \in Int /\ RrfK \in Nat \ {0} /\ VectorWeight \in Int /\ LexicalShare \in Int
  BY ScaleIsNat, RetrievalAssumption DEF LexicalShare
<1>2. ASSUME NEW w \in Int, NEW r \in Nat PROVE Contribution(w, r) \in Int
  <2>1. Scale \div (RrfK + r) \in Int
    BY <1>1
  <2>2. w * (Scale \div (RrfK + r)) \in Int
    BY <2>1
  <2> QED BY <2>2 DEF Contribution
<1>3. RankIn(vec, k) \in Nat /\ RankIn(lex, k) \in Nat
  BY RankInFacts, LenProperties
<1>4. /\ Contribution(VectorWeight, RankIn(vec, k)) \in Int
      /\ Contribution(LexicalShare, RankIn(lex, k)) \in Int
  BY <1>1, <1>2, <1>3
<1>5. \A a, b \in Int : a + b \in Int
  OBVIOUS
<1> QED BY <1>4, <1>5, Zenon DEF Fused

Unrepeated(s) == \A i, j \in 1 .. Len(s) : Key(s[i]) = Key(s[j]) => i = j

\* The order of the fusion is total: two keys differ in one of the ranks, and
\* the rank of a missing key is no rank of a found one.
LEMMA FusionOrder ==
    ASSUME ctx \in Contexts, ctx.topk > 0, vec \in Seq(Chunks), lex \in Seq(Chunks),
           Unrepeated(vec)
    PROVE  /\ IsFiniteSet(Keys)
           /\ Orders({p \in Keys \X Keys : FusedBefore(p[1], p[2])}, Keys)
<1> DEFINE S == ToSet(vec) \cup ToSet(lex)
           K == Keys
<1>0. /\ DOMAIN vec = 1 .. Len(vec) /\ Len(vec) \in Nat
      /\ DOMAIN lex = 1 .. Len(lex) /\ Len(lex) \in Nat
  BY LenProperties
<1>1. IsFiniteSet(Keys) /\ Cardinality(Keys) \in Nat
  <2>1. S \in SUBSET Chunks
    BY <1>0, ElementOfSeq DEF ToSet
  <2>2. [c \in S |-> Key(c)] \in Surjection(S, Keys)
    BY DEF Keys, Surjection
  <2> HIDE DEF S
  <2>3. IsFiniteSet(S)
    BY <2>1, RetrievalAssumption, FS_Subset
  <2>4. IsFiniteSet(Keys)
    BY <2>2, <2>3, FS_Surjection
  <2> QED BY <2>4, FS_CardinalityType
<1>2. Len(vec) <= Cardinality(Keys)
  <2> DEFINE D == 1 .. Len(vec)
             f == [i \in D |-> Key(vec[i])]
  <2>1. \A i \in D : Key(vec[i]) \in Keys
    BY <1>0 DEF Keys, ToSet
  <2>2. f \in Injection(D, Keys)
    <3>1. f \in [D -> Keys]
      BY <2>1
    <3>2. \A i, j \in D : f[i] = f[j] => i = j
      BY DEF Unrepeated
    <3> HIDE DEF f, D
    <3> QED BY <3>1, <3>2 DEF Injection, IsInjective
  <2>3. Cardinality(D) = Len(vec)
    <3> DEFINE n == Len(vec)
    <3>1. n \in Nat
      BY <1>0
    <3> HIDE DEF n
    <3>2. Cardinality(1 .. n) = n
      BY <3>1, FS_Interval
    <3> QED BY <3>2 DEF n
  <2> HIDE DEF D, f
  <2>4. Cardinality(D) <= Cardinality(Keys)
    BY <1>1, <2>2, FS_Injection
  <2> QED BY <2>3, <2>4
<1>3. ASSUME NEW k \in Keys
      PROVE  /\ Fused(k) \in Int /\ RankOrLast(vec, k) \in Int /\ RankOrLast(lex, k) \in Int
             /\ RankIn(vec, k) # 0 \/ RankIn(lex, k) # 0
  <2>1. RankIn(vec, k) \in Int /\ RankIn(lex, k) \in Int
    BY RankInFacts, <1>0
  <2>2. (\E i \in 1 .. Len(vec) : Key(vec[i]) = k) \/ (\E i \in 1 .. Len(lex) : Key(lex[i]) = k)
    BY <1>0 DEF Keys, ToSet
  <2>3. RankIn(vec, k) # 0 \/ RankIn(lex, k) # 0
    BY <2>2, RankInFacts
  <2> QED BY <1>1, <2>1, <2>3, FusedIsInt DEF RankOrLast
<1>4. ASSUME NEW k \in Keys, NEW l \in Keys,
             RankOrLast(vec, k) = RankOrLast(vec, l), RankOrLast(lex, k) = RankOrLast(lex, l)
      PROVE  k = l
  <2>1. CASE RankIn(vec, k) # 0 /\ RankIn(vec, l) # 0
    <3>1. RankIn(vec, k) = RankIn(vec, l)
      BY <1>4, <2>1 DEF RankOrLast
    <3> QED BY <2>1, <3>1, RankInFacts
  <2>2. CASE RankIn(vec, k) = 0 /\ RankIn(vec, l) = 0
    <3>1. RankIn(lex, k) # 0 /\ RankIn(lex, l) # 0
      BY <1>3, <2>2
    <3>2. RankIn(lex, k) = RankIn(lex, l)
      BY <1>4, <3>1 DEF RankOrLast
    <3> QED BY <3>1, <3>2, RankInFacts
  <2>3. ASSUME NEW x \in {k, l}, NEW y \in {k, l}, RankIn(vec, x) # 0, RankIn(vec, y) = 0
        PROVE  FALSE
    <3>1. RankIn(vec, x) \in 0 .. Len(vec)
      BY RankInFacts
    <3>2. RankIn(vec, x) = Cardinality(Keys) + 1
      BY <1>4, <2>3 DEF RankOrLast
    <3> QED BY <1>0, <1>1, <1>2, <3>1, <3>2
  <2> QED BY <2>1, <2>2, <2>3
<1>5. \A k, l \in Keys : FusedBefore(k, l) <=>
        \/ Fused(k) > Fused(l)
        \/ Fused(k) = Fused(l) /\ RankOrLast(vec, k) < RankOrLast(vec, l)
        \/ /\ Fused(k) = Fused(l) /\ RankOrLast(vec, k) = RankOrLast(vec, l)
           /\ RankOrLast(lex, k) < RankOrLast(lex, l)
  BY DEF FusedBefore
<1> DEFINE R == {p \in Keys \X Keys : FusedBefore(p[1], p[2])}
<1>6. \A k, l \in Keys : <<k, l>> \in R <=> FusedBefore(k, l)
  OBVIOUS
<1> HIDE DEF R
<1>7. \A k \in Keys : <<k, k>> \notin R
  BY <1>3, <1>5, <1>6
<1>8. \A k, l, m \in Keys : <<k, l>> \in R /\ <<l, m>> \in R => <<k, m>> \in R
  <2> SUFFICES ASSUME NEW k \in Keys, NEW l \in Keys, NEW m \in Keys,
                      FusedBefore(k, l), FusedBefore(l, m)
               PROVE  FusedBefore(k, m)
    BY <1>6
  <2> QED BY <1>3, <1>5
<1>9. \A k, l \in Keys : k # l => <<k, l>> \in R \/ <<l, k>> \in R
  <2> SUFFICES ASSUME NEW k \in Keys, NEW l \in Keys, k # l
               PROVE  FusedBefore(k, l) \/ FusedBefore(l, k)
    BY <1>6
  <2>1. RankOrLast(vec, k) # RankOrLast(vec, l) \/ RankOrLast(lex, k) # RankOrLast(lex, l)
    BY <1>4
  <2> QED BY <1>3, <1>5, <2>1
<1> QED BY <1>1, <1>7, <1>8, <1>9 DEF Orders, R

\* The fusion returns results of the channels, within top_k, each key once.
LEMMA FusionFacts ==
    ASSUME ctx \in Contexts, ctx.topk > 0, vec \in Seq(Chunks), lex \in Seq(Chunks),
           Unrepeated(vec)
    PROVE  /\ ReciprocalRankFusion \in Seq(Chunks)
           /\ Len(ReciprocalRankFusion) <= ctx.topk
           /\ Unrepeated(ReciprocalRankFusion)
           /\ \A i \in 1 .. Len(ReciprocalRankFusion) :
                \/ \E j \in 1 .. Len(vec) : ReciprocalRankFusion[i] = vec[j]
                \/ \E j \in 1 .. Len(lex) : ReciprocalRankFusion[i] = lex[j]
           /\ lex # <<>> => ReciprocalRankFusion # <<>>
<1> DEFINE R == {p \in Keys \X Keys : FusedBefore(p[1], p[2])}
           o == Sorted(Keys, R)
           f == FirstK(o, ctx.topk)
           r == ReciprocalRankFusion
<1>0. /\ DOMAIN vec = 1 .. Len(vec) /\ Len(vec) \in Nat
      /\ DOMAIN lex = 1 .. Len(lex) /\ Len(lex) \in Nat
  BY LenProperties
<1>1. r = [i \in DOMAIN f |-> FusedResult(f[i])]
  BY DEF ReciprocalRankFusion
<1>2. IsFiniteSet(Keys) /\ Orders(R, Keys)
  BY FusionOrder
<1> HIDE DEF R
<1>3. /\ o \in Seq(Keys)
      /\ \A x \in Keys : \E k \in 1 .. Len(o) : o[k] = x
      /\ \A j, k \in 1 .. Len(o) : o[j] = o[k] => j = k
  BY <1>2, SortedFacts
<1> HIDE DEF o
<1>4. ctx.topk \in Nat \ {0} /\ Len(o) \in Nat
  BY <1>3, Candidates, LenProperties
<1>5. /\ f \in Seq(Keys) /\ Len(f) <= ctx.topk /\ Len(f) <= Len(o)
      /\ Len(f) = IF Len(o) < ctx.topk THEN Len(o) ELSE ctx.topk
      /\ \A i \in 1 .. Len(f) : f[i] = o[i]
  <2> DEFINE n == ctx.topk
  <2>1. n \in Nat /\ f = FirstK(o, n)
    BY <1>4
  <2> HIDE DEF n, f
  <2>2. /\ f \in Seq(Keys) /\ Len(f) <= n /\ Len(f) <= Len(o)
        /\ Len(f) = IF Len(o) < n THEN Len(o) ELSE n
        /\ \A i \in 1 .. Len(f) : f[i] = o[i]
    BY <1>3, <2>1, FirstKFacts
  <2> QED BY <2>2 DEF n
<1> HIDE DEF f
<1>6. Len(f) \in Nat /\ DOMAIN f = 1 .. Len(f) /\ \A i \in 1 .. Len(f) : f[i] \in Keys
  BY <1>5, LenProperties, ElementOfSeq
<1>7. \A i, j \in 1 .. Len(f) : f[i] = f[j] => i = j
  <2>1. \A i \in 1 .. Len(f) : i \in 1 .. Len(o)
    BY <1>4, <1>5, <1>6
  <2> QED BY <1>3, <1>5, <2>1
<1>8. ASSUME NEW k \in Keys
      PROVE  /\ \/ \E j \in 1 .. Len(vec) : FusedResult(k) = vec[j]
                \/ \E j \in 1 .. Len(lex) : FusedResult(k) = lex[j]
             /\ Key(FusedResult(k)) = k
             /\ FusedResult(k) \in Chunks
  <2>1. CASE RankIn(vec, k) # 0
    <3>1. RankIn(vec, k) \in 1 .. Len(vec) /\ Key(vec[RankIn(vec, k)]) = k
      BY <2>1, RankInFacts
    <3>2. FusedResult(k) = vec[RankIn(vec, k)]
      BY <2>1 DEF FusedResult
    <3>3. vec[RankIn(vec, k)] \in Chunks
      BY <3>1, ElementOfSeq
    <3> QED BY <3>1, <3>2, <3>3
  <2>2. CASE RankIn(vec, k) = 0
    <3>1. (\E i \in 1 .. Len(vec) : Key(vec[i]) = k) \/ (\E i \in 1 .. Len(lex) : Key(lex[i]) = k)
      BY <1>0 DEF Keys, ToSet
    <3>2. RankIn(lex, k) # 0
      BY <2>2, <3>1, RankInFacts
    <3>3. RankIn(lex, k) \in 1 .. Len(lex) /\ Key(lex[RankIn(lex, k)]) = k
      BY <3>2, RankInFacts
    <3>4. FusedResult(k) = lex[RankIn(lex, k)]
      BY <2>2 DEF FusedResult
    <3>5. lex[RankIn(lex, k)] \in Chunks
      BY <3>3, ElementOfSeq
    <3> QED BY <3>3, <3>4, <3>5
  <2> QED BY <2>1, <2>2
<1>9. r \in [1 .. Len(f) -> Chunks]
  BY <1>1, <1>6, <1>8
<1>10. r \in Seq(Chunks) /\ Len(r) = Len(f)
  BY <1>6, <1>9
<1>11. \A i \in 1 .. Len(f) : r[i] = FusedResult(f[i])
  BY <1>1, <1>6
<1> HIDE DEF r
<1>12. Unrepeated(r)
  BY <1>6, <1>7, <1>8, <1>10, <1>11 DEF Unrepeated
<1>13. ASSUME lex # <<>> PROVE r # <<>>
  <2>1. Len(lex) # 0
    BY <1>13, EmptySeq
  <2>2. Key(lex[1]) \in Keys
    <3>1. 1 \in DOMAIN lex
      BY <1>0, <2>1
    <3>2. lex[1] \in ToSet(lex)
      BY <3>1 DEF ToSet
    <3> QED BY <3>2 DEF Keys
  <2>3. Len(o) # 0
    <3>1. PICK k \in 1 .. Len(o) : o[k] = Key(lex[1])
      BY <1>3, <2>2
    <3> QED BY <1>4
  <2>4. Len(r) # 0
    BY <1>4, <1>5, <1>10, <2>3
  <2> QED BY <2>4
<1> QED BY <1>5, <1>6, <1>8, <1>10, <1>11, <1>12, <1>13 DEF r

-----------------------------------------------------------------------------
(* The inductive invariant.                                                *)

Fusing == {"fuse", "tool", "rehydrate", "done"}
Ended == {"tool", "rehydrate", "done"}

RetrievalTyped ==
    /\ RetrievalTypeOK
    /\ vec \in Seq(Chunks) /\ lex \in Seq(Chunks) /\ output \in Seq(Chunks)
    /\ scopes \in Seq({ctx.tenant, 0})

\* What the branches and the fusion hold are stored chunks.
LEMMA ChunkEntries == \A s \in Seq(Chunks) : \A i \in DOMAIN s : s[i] \in Chunks
BY LenProperties, ElementOfSeq

\* While scopes are left to read, each is the tenant's or the public one asked for.
Scoping ==
    /\ step \in {"vector", "lexical"} \cup Fusing => ctx.topk > 0
    /\ step \in {"vector", "lexical"} => scopes # <<>>
    /\ \A i \in 1 .. Len(scopes) : scopes[i] = ctx.tenant \/ (ctx.public /\ scopes[i] = 0)

\* Neither channel holds anything the tenant may not see.
Sees(s) == \A i \in 1 .. Len(s) : Visible(s[i])
Isolated == Sees(vec) /\ Sees(lex) /\ Sees(output)

\* Before and after the lexical search, if the store has stood still: every
\* visible chunk of the scopes read is in the corpus; a match was found.
Listed(c) == \E i \in 1 .. Len(lex) : lex[i] = c
Still == changes = 0 /\ LexicalWeight > 0
CorpusScoped ==
    /\ step \in {"request", "vector"} => lex = <<>>
    /\ Still /\ step = "lexical" =>
        /\ \A i \in 1 .. Len(lex) : lex[i] \in stored
        /\ \A c \in stored : Visible(c) =>
                Listed(c) \/ \E i \in 1 .. Len(scopes) : scopes[i] = c.tenant
    /\ Still /\ step = "fuse" /\ (\E c \in stored : Visible(c) /\ Matches(c)) => lex # <<>>

\* What the result is worth once it is there.
Result ==
    /\ step \in {"lexical"} \cup Fusing => Unrepeated(vec)
    /\ step \in Ended =>
        /\ Len(output) <= ctx.topk /\ Unrepeated(output)
        /\ Still /\ (\E c \in stored : Visible(c) /\ Matches(c)) => output # <<>>
    /\ step \in {"rehydrate", "done"} => NormaliseEvidence(output)

RetrievalInv == RetrievalTyped /\ Scoping /\ Isolated /\ CorpusScoped /\ Result

\* A concatenation holds the entries of both.
LEMMA ConcatFacts ==
    ASSUME NEW s \in Seq(Chunks), NEW t \in Seq(Chunks)
    PROVE  /\ s \o t \in Seq(Chunks)
           /\ \A i \in 1 .. Len(s \o t) :
                \/ \E j \in 1 .. Len(s) : (s \o t)[i] = s[j]
                \/ \E j \in 1 .. Len(t) : (s \o t)[i] = t[j]
           /\ \A j \in 1 .. Len(s) : \E i \in 1 .. Len(s \o t) : (s \o t)[i] = s[j]
           /\ \A j \in 1 .. Len(t) : \E i \in 1 .. Len(s \o t) : (s \o t)[i] = t[j]
<1>1. /\ s \o t \in Seq(Chunks) /\ Len(s \o t) = Len(s) + Len(t)
      /\ \A i \in 1 .. Len(s) + Len(t) :
            (s \o t)[i] = IF i <= Len(s) THEN s[i] ELSE t[i - Len(s)]
  BY ConcatProperties
<1>2. Len(s) \in Nat /\ Len(t) \in Nat
  BY LenProperties
<1>3. ASSUME NEW i \in 1 .. Len(s \o t)
      PROVE  \/ \E j \in 1 .. Len(s) : (s \o t)[i] = s[j]
             \/ \E j \in 1 .. Len(t) : (s \o t)[i] = t[j]
  <2>1. CASE i <= Len(s)
    BY <1>1, <1>2, <2>1
  <2>2. CASE ~ (i <= Len(s))
    <3>1. i - Len(s) \in 1 .. Len(t) /\ (s \o t)[i] = t[i - Len(s)]
      BY <1>1, <1>2, <2>2
    <3> QED BY <3>1
  <2> QED BY <2>1, <2>2
<1>4. ASSUME NEW j \in 1 .. Len(s) PROVE j \in 1 .. Len(s \o t) /\ (s \o t)[j] = s[j]
  BY <1>1, <1>2
<1>5. ASSUME NEW j \in 1 .. Len(t)
      PROVE  Len(s) + j \in 1 .. Len(s \o t) /\ (s \o t)[Len(s) + j] = t[j]
  <2>1. Len(s) + j \in 1 .. Len(s) + Len(t) /\ ~ (Len(s) + j <= Len(s)) /\ Len(s) + j - Len(s) = j
    BY <1>2
  <2> QED BY <1>1, <2>1
<1> QED BY <1>1, <1>3, <1>4, <1>5

\* The scopes that are read, and that they are all a visible chunk can be in.
LEMMA TenantScopesFacts ==
    /\ TenantScopes \in Seq({ctx.tenant, 0}) /\ TenantScopes # <<>>
    /\ \A i \in 1 .. Len(TenantScopes) :
            TenantScopes[i] = ctx.tenant \/ (ctx.public /\ TenantScopes[i] = 0)
    /\ \A c : Visible(c) => \E i \in 1 .. Len(TenantScopes) : TenantScopes[i] = c.tenant
<1>1. CASE ctx.public /\ ctx.tenant # 0
  <2>1. TenantScopes = <<ctx.tenant, 0>>
    BY <1>1 DEF TenantScopes
  <2> QED BY <1>1, <2>1 DEF Visible
<1>2. CASE ~ (ctx.public /\ ctx.tenant # 0)
  <2>1. TenantScopes = <<ctx.tenant>>
    BY <1>2 DEF TenantScopes
  <2> QED BY <1>2, <2>1 DEF Visible
<1> QED BY <1>1, <1>2

\* A request of the tool sets the scopes the tenant may read.
LEMMA RequestKeeps ==
    ASSUME RetrievalInv, ToolRequest
    PROVE  RetrievalInv'
<1>1. UNCHANGED <<stored, ctx, vec, lex, output, changes>>
  BY DEF ToolRequest
<1>2. RetrievalTyped'
  BY <1>1, TenantScopesFacts DEF RetrievalInv, RetrievalTyped, RetrievalTypeOK, ToolRequest
<1>3. Scoping'
  BY <1>1, TenantScopesFacts DEF RetrievalInv, Scoping, ToolRequest, Fusing
<1>4. Isolated'
  BY <1>1 DEF RetrievalInv, Isolated, Sees, Visible, ApplyFilters
<1>5. CorpusScoped'
  BY <1>1 DEF RetrievalInv, CorpusScoped, ToolRequest
<1>6. Result'
  BY <1>1 DEF RetrievalInv, Result, ToolRequest, Fusing, Ended
<1> QED BY <1>2, <1>3, <1>4, <1>5, <1>6 DEF RetrievalInv

\* Reading one scope adds chunks the tenant may see.
LEMMA VectorKeeps ==
    ASSUME RetrievalInv, VectorScope
    PROVE  RetrievalInv'
<1> DEFINE t == Head(scopes)
           found == Scoped(SimilaritySearch(t), t)
           all == vec \o found
           ranked == GloballyRanked(all)
           unique == Deduplicate(ranked)
           cut == FirstK(unique, CandidateK)
           last == Len(scopes) = 1
<1>0. /\ stored \subseteq Chunks /\ ctx \in Contexts /\ ctx.topk > 0 /\ step = "vector"
      /\ vec \in Seq(Chunks) /\ scopes \in Seq({ctx.tenant, 0}) /\ scopes # <<>>
      /\ Sees(vec) /\ lex = <<>>
      /\ UNCHANGED <<stored, ctx, lex, output, changes>>
  BY DEF RetrievalInv, RetrievalTyped, RetrievalTypeOK, Scoping, Isolated, CorpusScoped, VectorScope
<1>1. /\ vec' = IF last THEN cut ELSE all
      /\ step' = IF last THEN "lexical" ELSE step
      /\ scopes' = IF last THEN TenantScopes ELSE Tail(scopes)
  BY DEF VectorScope
<1>2. Len(scopes) \in Nat \ {0} /\ t = scopes[1]
  BY <1>0, EmptySeq
<1>3. t = ctx.tenant \/ (ctx.public /\ t = 0)
  BY <1>2 DEF RetrievalInv, Scoping
<1> HIDE DEF t
<1>4. SimilaritySearch(t) \in Seq(Chunks)
  BY <1>0, SimilaritySearchFacts
<1>5. /\ found \in Seq(Chunks)
      /\ \A k \in 1 .. Len(found) : InScope(found[k], t) /\ ApplyFilters(found[k])
  BY <1>4, ScopedFacts
<1>6. Sees(found)
  BY <1>3, <1>5 DEF Sees, Visible, InScope
<1> HIDE DEF found
<1>7. all \in Seq(Chunks) /\ Sees(all)
  <2>1. /\ all \in Seq(Chunks)
        /\ \A i \in 1 .. Len(all) :
                \/ \E j \in 1 .. Len(vec) : all[i] = vec[j]
                \/ \E j \in 1 .. Len(found) : all[i] = found[j]
    BY <1>0, <1>5, ConcatFacts
  <2> HIDE DEF all
  <2> QED BY <1>0, <1>6, <2>1 DEF Sees
<1> HIDE DEF all
<1>8. ranked \in Seq(Chunks) /\ Sees(ranked)
  <2>1. ranked \in Seq(Chunks) /\ \A k \in 1 .. Len(ranked) : \E i \in 1 .. Len(all) : ranked[k] = all[i]
    BY <1>7, GloballyRankedFacts
  <2> HIDE DEF ranked
  <2> QED BY <1>7, <2>1 DEF Sees
<1> HIDE DEF ranked
<1>9. unique \in Seq(Chunks) /\ Sees(unique) /\ Unrepeated(unique)
  <2>1. /\ unique \in Seq(Chunks)
        /\ \A k \in 1 .. Len(unique) : \E i \in 1 .. Len(ranked) : unique[k] = ranked[i]
        /\ \A j, k \in 1 .. Len(unique) : Key(unique[j]) = Key(unique[k]) => j = k
    BY <1>8, RetrievalDeduplicate
  <2> HIDE DEF unique
  <2> QED BY <1>8, <2>1 DEF Sees, Unrepeated
<1> HIDE DEF unique
<1>10. cut \in Seq(Chunks) /\ Sees(cut) /\ Unrepeated(cut)
  <2>1. CandidateK \in Nat
    BY <1>0, Candidates
  <2>2. /\ cut \in Seq(Chunks) /\ Len(cut) <= Len(unique)
        /\ \A i \in 1 .. Len(cut) : cut[i] = unique[i]
    BY <1>9, <2>1, FirstKFacts
  <2> HIDE DEF cut
  <2>3. \A i \in 1 .. Len(cut) : i \in 1 .. Len(unique)
    BY <1>9, <2>2, LenProperties
  <2> QED BY <1>9, <2>2, <2>3 DEF Sees, Unrepeated
<1> HIDE DEF cut
<1>11. vec' \in Seq(Chunks) /\ Sees(vec')
  BY <1>1, <1>7, <1>10
<1>12. Tail(scopes) \in Seq({ctx.tenant, 0}) /\ Len(Tail(scopes)) = Len(scopes) - 1
       /\ \A i \in 1 .. Len(Tail(scopes)) : Tail(scopes)[i] = scopes[i + 1]
  BY <1>0, HeadTailProperties
<1>13. \A i \in 1 .. Len(Tail(scopes)) :
            Tail(scopes)[i] = ctx.tenant \/ (ctx.public /\ Tail(scopes)[i] = 0)
  <2>1. \A i \in 1 .. Len(Tail(scopes)) : i + 1 \in 1 .. Len(scopes)
    BY <1>2, <1>12
  <2> QED BY <1>12, <2>1 DEF RetrievalInv, Scoping
<1>14. ~last => Tail(scopes) # <<>>
  <2>1. ~last => Len(Tail(scopes)) # 0
    BY <1>2, <1>12
  <2> QED BY <2>1
<1>15. RetrievalTyped'
  <2>1. scopes' \in Seq({ctx'.tenant, 0})
    BY <1>0, <1>1, <1>12, TenantScopesFacts
  <2>2. step' \in {"vector", "lexical"}
    BY <1>0, <1>1
  <2>3. lex' \in Seq(Chunks) /\ output' \in Seq(Chunks) /\ changes' \in 0 .. MaxChanges + 1
    BY <1>0 DEF RetrievalInv, RetrievalTyped, RetrievalTypeOK
  <2>4. stored' \subseteq Chunks /\ ctx' \in Contexts
    BY <1>0
  <2> QED BY <1>11, <2>1, <2>2, <2>3, <2>4, ChunkEntries DEF RetrievalTyped, RetrievalTypeOK
<1>16. Scoping'
  BY <1>0, <1>1, <1>13, <1>14, TenantScopesFacts DEF RetrievalInv, Scoping, Fusing
<1>17. Isolated'
  BY <1>0, <1>11 DEF RetrievalInv, Isolated, Sees, Visible, ApplyFilters
<1>18. CorpusScoped'
  <2>1. Len(lex) = 0
    BY <1>0
  <2>2. \A c : Visible(c)' <=> Visible(c)
    BY <1>0 DEF Visible, ApplyFilters
  <2>3. step' = "lexical" => scopes' = TenantScopes
    BY <1>0, <1>1
  <2> QED BY <1>0, <1>1, <2>1, <2>2, <2>3, TenantScopesFacts DEF CorpusScoped, Listed
<1>19. Result'
  BY <1>0, <1>1, <1>10 DEF Result, Fusing, Ended, Unrepeated
<1> QED BY <1>15, <1>16, <1>17, <1>18, <1>19 DEF RetrievalInv

\* Reading one scope of the corpus: nothing visible in it is left out, and the
\* search after the last one finds a match if there is one.
LEMMA LexicalKeeps ==
    ASSUME RetrievalInv, LexicalScope
    PROVE  RetrievalInv'
<1> DEFINE t == Head(scopes)
           S == {c \in stored : c.tenant = t}
           searched == Sorted(S, ById)
           found == Scoped(searched, t)
           all == lex \o found
           unique == Deduplicate(all)
           matches == LexicalSearch(unique)
           last == Len(scopes) = 1
<1>0. /\ stored \subseteq Chunks /\ ctx \in Contexts /\ ctx.topk > 0 /\ step = "lexical"
      /\ lex \in Seq(Chunks) /\ scopes \in Seq({ctx.tenant, 0}) /\ scopes # <<>>
      /\ Sees(lex) /\ Unrepeated(vec)
      /\ UNCHANGED <<stored, ctx, vec, output, changes>>
  BY DEF RetrievalInv, RetrievalTyped, RetrievalTypeOK, Scoping, Isolated, Result, LexicalScope,
         Fusing
<1>1. /\ lex' = IF last THEN matches ELSE all
      /\ step' = IF last THEN "fuse" ELSE step
      /\ scopes' = IF last THEN <<>> ELSE Tail(scopes)
  BY DEF LexicalScope
<1>2. Len(scopes) \in Nat \ {0} /\ t = scopes[1]
  BY <1>0, EmptySeq
<1>3. t = ctx.tenant \/ (ctx.public /\ t = 0)
  BY <1>2 DEF RetrievalInv, Scoping
<1> HIDE DEF t
<1>4. /\ searched \in Seq(Chunks) /\ \A i \in 1 .. Len(searched) : searched[i] \in S
      /\ \A c \in S : \E i \in 1 .. Len(searched) : searched[i] = c
  <2>1. S \in SUBSET Chunks
    BY <1>0
  <2> HIDE DEF S
  <2>2. Orders(ById, S) /\ IsFiniteSet(S)
    BY <2>1, ChunkOrders
  <2>3. searched \in Seq(S) /\ \A c \in S : \E i \in 1 .. Len(searched) : searched[i] = c
    BY <2>2, SortedFacts
  <2> HIDE DEF searched
  <2> QED BY <2>1, <2>3, SeqMonotonic, ElementOfSeq
<1> HIDE DEF searched
<1>5. /\ found \in Seq(Chunks)
      /\ \A k \in 1 .. Len(found) :
            /\ InScope(found[k], t) /\ ApplyFilters(found[k])
            /\ \E i \in 1 .. Len(searched) : found[k] = searched[i]
      /\ \A i \in 1 .. Len(searched) : InScope(searched[i], t) /\ ApplyFilters(searched[i]) =>
            \E k \in 1 .. Len(found) : found[k] = searched[i]
  BY <1>4, ScopedFacts
<1>6. \A k \in 1 .. Len(found) : found[k] \in stored
  BY <1>4, <1>5
<1>7. \A c \in stored : c.tenant = t /\ Visible(c) => \E k \in 1 .. Len(found) : found[k] = c
  <2> SUFFICES ASSUME NEW c \in stored, c.tenant = t, Visible(c)
               PROVE  \E k \in 1 .. Len(found) : found[k] = c
    OBVIOUS
  <2>1. PICK i \in 1 .. Len(searched) : searched[i] = c
    BY <1>4
  <2>2. InScope(searched[i], t) /\ ApplyFilters(searched[i])
    BY <2>1 DEF InScope, Visible
  <2> QED BY <1>5, <2>1, <2>2
<1>8. Sees(found)
  BY <1>3, <1>5 DEF Sees, Visible, InScope
<1> HIDE DEF found
<1>9. /\ all \in Seq(Chunks) /\ Sees(all)
      /\ \A i \in 1 .. Len(all) :
            \/ \E j \in 1 .. Len(lex) : all[i] = lex[j]
            \/ \E j \in 1 .. Len(found) : all[i] = found[j]
      /\ \A j \in 1 .. Len(lex) : \E i \in 1 .. Len(all) : all[i] = lex[j]
      /\ \A j \in 1 .. Len(found) : \E i \in 1 .. Len(all) : all[i] = found[j]
  <2>1. /\ all \in Seq(Chunks)
        /\ \A i \in 1 .. Len(all) :
                \/ \E j \in 1 .. Len(lex) : all[i] = lex[j]
                \/ \E j \in 1 .. Len(found) : all[i] = found[j]
        /\ \A j \in 1 .. Len(lex) : \E i \in 1 .. Len(all) : all[i] = lex[j]
        /\ \A j \in 1 .. Len(found) : \E i \in 1 .. Len(all) : all[i] = found[j]
    BY <1>0, <1>5, ConcatFacts
  <2> HIDE DEF all
  <2>2. Sees(all)
    BY <1>0, <1>8, <2>1 DEF Sees
  <2> QED BY <2>1, <2>2
<1> HIDE DEF all
<1>10. /\ unique \in Seq(Chunks) /\ Sees(unique)
       /\ \A k \in 1 .. Len(unique) : \E i \in 1 .. Len(all) : unique[k] = all[i]
       /\ \A i \in 1 .. Len(all) : \E k \in 1 .. Len(unique) : Key(unique[k]) = Key(all[i])
  <2>1. /\ unique \in Seq(Chunks)
        /\ \A k \in 1 .. Len(unique) : \E i \in 1 .. Len(all) : unique[k] = all[i]
        /\ \A i \in 1 .. Len(all) : \E k \in 1 .. Len(unique) : Key(unique[k]) = Key(all[i])
    BY <1>9, RetrievalDeduplicate
  <2> HIDE DEF unique
  <2>2. Sees(unique)
    BY <1>9, <2>1 DEF Sees
  <2> QED BY <2>1, <2>2
<1> HIDE DEF unique
<1>11. /\ matches \in Seq(Chunks) /\ Sees(matches)
       /\ (\E i \in 1 .. Len(unique) : unique[i].bm25 > 0) => matches # <<>>
  <2>1. /\ matches \in Seq(Chunks)
        /\ \A k \in 1 .. Len(matches) : \E i \in 1 .. Len(unique) : matches[k] = unique[i]
        /\ (\E i \in 1 .. Len(unique) : unique[i].bm25 > 0) => matches # <<>>
    BY <1>0, <1>10, LexicalSearchFacts
  <2> HIDE DEF matches
  <2>2. Sees(matches)
    BY <1>10, <2>1 DEF Sees
  <2> QED BY <2>1, <2>2
<1> HIDE DEF matches
<1>12. Tail(scopes) \in Seq({ctx.tenant, 0}) /\ Len(Tail(scopes)) = Len(scopes) - 1
       /\ \A i \in 1 .. Len(Tail(scopes)) : Tail(scopes)[i] = scopes[i + 1]
  BY <1>0, HeadTailProperties
<1>13. \A i \in 1 .. Len(Tail(scopes)) : i + 1 \in 1 .. Len(scopes)
  BY <1>2, <1>12
<1>14. \A i \in 1 .. Len(Tail(scopes)) :
            Tail(scopes)[i] = ctx.tenant \/ (ctx.public /\ Tail(scopes)[i] = 0)
  BY <1>12, <1>13 DEF RetrievalInv, Scoping
<1>15. ~last => Tail(scopes) # <<>>
  <2>1. ~last => Len(Tail(scopes)) # 0
    BY <1>2, <1>12
  <2> QED BY <2>1
<1>16. lex' \in Seq(Chunks) /\ Sees(lex')
  BY <1>1, <1>9, <1>11
<1>17. RetrievalTyped'
  <2>1. scopes' \in Seq({ctx'.tenant, 0})
    BY <1>0, <1>1, <1>12, EmptySeq
  <2>2. step' \in {"lexical", "fuse"}
    BY <1>0, <1>1
  <2>3. vec' \in Seq(Chunks) /\ output' \in Seq(Chunks) /\ changes' \in 0 .. MaxChanges + 1
    BY <1>0 DEF RetrievalInv, RetrievalTyped, RetrievalTypeOK
  <2>4. stored' \subseteq Chunks /\ ctx' \in Contexts
    BY <1>0
  <2> QED BY <1>16, <2>1, <2>2, <2>3, <2>4, ChunkEntries DEF RetrievalTyped, RetrievalTypeOK
<1>18. Scoping'
  <2>1. step' \in {"lexical", "fuse"} /\ (step' = "lexical" => ~last)
    BY <1>0, <1>1
  <2> QED BY <1>0, <1>1, <1>14, <1>15, <2>1 DEF Scoping
<1>19. Isolated'
  BY <1>0, <1>16 DEF RetrievalInv, Isolated, Sees, Visible, ApplyFilters
<1>20. Result'
  BY <1>0, <1>1 DEF Result, Ended, Unrepeated
<1>21. ASSUME Still, NEW c \in stored, Visible(c)
       PROVE  \/ \E i \in 1 .. Len(all) : all[i] = c
              \/ \E i \in 1 .. Len(Tail(scopes)) : Tail(scopes)[i] = c.tenant
  <2>1. Listed(c) \/ \E i \in 1 .. Len(scopes) : scopes[i] = c.tenant
    BY <1>0, <1>21 DEF RetrievalInv, CorpusScoped
  <2>2. CASE Listed(c)
    BY <1>9, <2>2 DEF Listed
  <2>3. CASE c.tenant = t
    <3>1. PICK k \in 1 .. Len(found) : found[k] = c
      BY <1>7, <1>21, <2>3
    <3> QED BY <1>9, <3>1
  <2>4. ASSUME NEW i \in 1 .. Len(scopes), scopes[i] = c.tenant, c.tenant # t
        PROVE  \E j \in 1 .. Len(Tail(scopes)) : Tail(scopes)[j] = c.tenant
    <3>1. i # 1
      BY <1>2, <2>4
    <3>2. i - 1 \in 1 .. Len(Tail(scopes)) /\ (i - 1) + 1 = i
      BY <1>2, <1>12, <3>1
    <3> QED BY <1>12, <2>4, <3>2
  <2> QED BY <2>1, <2>2, <2>3, <2>4
<1>22. \A i \in 1 .. Len(all) : Still => all[i] \in stored
  BY <1>0, <1>6, <1>9 DEF RetrievalInv, CorpusScoped
<1>23. (Still' <=> Still) /\ \A c : (Visible(c)' <=> Visible(c)) /\ (Matches(c)' <=> Matches(c))
  BY <1>0 DEF Still, Visible, ApplyFilters, Matches
<1>24. ASSUME ~last PROVE CorpusScoped'
  <2>1. lex' = all /\ step' = "lexical" /\ scopes' = Tail(scopes)
    BY <1>0, <1>1, <1>24
  <2>2. stored' = stored
    BY <1>0
  <2>3. ASSUME Still PROVE \A c \in stored : Visible(c) =>
            (\E i \in 1 .. Len(all) : all[i] = c) \/ \E i \in 1 .. Len(Tail(scopes)) : Tail(scopes)[i] = c.tenant
    BY <1>21, <2>3
  <2> QED BY <1>22, <1>23, <2>1, <2>2, <2>3 DEF CorpusScoped, Listed
<1>25. ASSUME last PROVE CorpusScoped'
  <2>1. lex' = matches /\ step' = "fuse" /\ stored' = stored
    BY <1>0, <1>1, <1>25
  <2>2. Len(Tail(scopes)) = 0
    BY <1>12, <1>25
  <2>3. ASSUME Still, NEW c \in stored, Visible(c), Matches(c) PROVE matches # <<>>
    <3>1. PICK i \in 1 .. Len(all) : all[i] = c
      BY <1>21, <2>2, <2>3
    <3>2. PICK k \in 1 .. Len(unique) : Key(unique[k]) = Key(c)
      BY <1>10, <3>1
    <3>3. unique[k] \in stored
      BY <1>10, <1>22, <2>3
    <3>4. unique[k].bm25 > 0
      BY <2>3, <3>2, <3>3 DEF Matches
    <3> QED BY <1>11, <3>4
  <2> QED BY <1>23, <2>1, <2>3 DEF CorpusScoped
<1> QED BY <1>17, <1>18, <1>19, <1>20, <1>24, <1>25 DEF RetrievalInv

\* Without the corpus: the store no longer counts as having stood still.
LEMMA LexicalFailsKeeps ==
    ASSUME RetrievalInv, LexicalFails
    PROVE  RetrievalInv'
<1>1. /\ UNCHANGED <<stored, ctx, vec, output>> /\ step = "lexical" /\ step' = "fuse"
      /\ lex' = <<>> /\ scopes' = <<>> /\ changes' = MaxChanges + 1 /\ MaxChanges \in Nat
  BY RetrievalAssumption DEF LexicalFails
<1>2. RetrievalTyped'
  BY <1>1, EmptySeq, ChunkEntries DEF RetrievalInv, RetrievalTyped, RetrievalTypeOK
<1>3. Scoping'
  BY <1>1 DEF RetrievalInv, Scoping
<1>4. Isolated'
  BY <1>1 DEF RetrievalInv, Isolated, Sees, Visible, ApplyFilters
<1>5. ~Still'
  BY <1>1 DEF Still
<1>6. CorpusScoped' /\ Result'
  BY <1>1, <1>5 DEF RetrievalInv, CorpusScoped, Result, Ended, Fusing, Unrepeated
<1> QED BY <1>2, <1>3, <1>4, <1>6 DEF RetrievalInv

\* The result is cut from the vector channel or fused from both.
LEMMA FuseKeeps ==
    ASSUME RetrievalInv, Fuse
    PROVE  RetrievalInv'
<1> DEFINE first == FirstK(vec, ctx.topk)
<1>0. /\ ctx \in Contexts /\ ctx.topk > 0 /\ step = "fuse" /\ step' = "tool"
      /\ vec \in Seq(Chunks) /\ lex \in Seq(Chunks) /\ Sees(vec) /\ Sees(lex) /\ Unrepeated(vec)
      /\ UNCHANGED <<stored, ctx, scopes, vec, lex, changes>>
      /\ output' = IF lex = <<>> THEN first ELSE ReciprocalRankFusion
  BY DEF RetrievalInv, RetrievalTyped, RetrievalTypeOK, Scoping, Isolated, Result, Fuse, Fusing
<1>1. first \in Seq(Chunks) /\ Len(first) <= ctx.topk /\ Sees(first) /\ Unrepeated(first)
  <2>1. ctx.topk \in Nat
    BY <1>0, Candidates
  <2>2. /\ first \in Seq(Chunks) /\ Len(first) <= ctx.topk /\ Len(first) <= Len(vec)
        /\ \A i \in 1 .. Len(first) : first[i] = vec[i]
    BY <1>0, <2>1, FirstKFacts
  <2> HIDE DEF first
  <2>3. \A i \in 1 .. Len(first) : i \in 1 .. Len(vec)
    BY <1>0, <2>2, LenProperties
  <2> QED BY <1>0, <2>2, <2>3 DEF Sees, Unrepeated
<1> HIDE DEF first
<1> DEFINE r == ReciprocalRankFusion
<1>2. /\ r \in Seq(Chunks) /\ Len(r) <= ctx.topk /\ Unrepeated(r) /\ Sees(r)
      /\ lex # <<>> => r # <<>>
  <2>1. /\ r \in Seq(Chunks) /\ Len(r) <= ctx.topk /\ Unrepeated(r)
        /\ \A i \in 1 .. Len(r) :
                \/ \E j \in 1 .. Len(vec) : r[i] = vec[j]
                \/ \E j \in 1 .. Len(lex) : r[i] = lex[j]
        /\ lex # <<>> => r # <<>>
    BY <1>0, FusionFacts
  <2> HIDE DEF r
  <2>2. Sees(r)
    BY <1>0, <2>1 DEF Sees
  <2> QED BY <2>1, <2>2
<1> HIDE DEF r
<1>3. output' \in Seq(Chunks) /\ Len(output') <= ctx.topk /\ Unrepeated(output') /\ Sees(output')
  BY <1>0, <1>1, <1>2 DEF r
<1>4. lex # <<>> => output' # <<>>
  BY <1>0, <1>2 DEF r
<1>5. (Still' <=> Still) /\ \A c : (Visible(c)' <=> Visible(c)) /\ (Matches(c)' <=> Matches(c))
  BY <1>0 DEF Still, Visible, ApplyFilters, Matches
<1>6. RetrievalTyped'
  BY <1>0, <1>3, ChunkEntries DEF RetrievalInv, RetrievalTyped, RetrievalTypeOK
<1>7. Scoping'
  BY <1>0 DEF RetrievalInv, Scoping, Fusing
<1>8. Isolated'
  BY <1>0, <1>3, <1>5 DEF Isolated, Sees
<1>9. CorpusScoped'
  BY <1>0 DEF CorpusScoped
<1>10. Result'
  <2>1. Unrepeated(vec)' /\ Unrepeated(output)'
    BY <1>0, <1>3 DEF Unrepeated
  <2>2. Still /\ (\E c \in stored : Visible(c) /\ Matches(c)) => lex # <<>>
    BY <1>0 DEF RetrievalInv, CorpusScoped
  <2>3. (Still /\ \E c \in stored : Visible(c) /\ Matches(c))' => output' # <<>>
    BY <1>0, <1>4, <1>5, <2>2
  <2>4. Len(output') <= ctx'.topk
    BY <1>0, <1>3
  <2> QED BY <1>0, <2>1, <2>3, <2>4 DEF Result
<1> QED BY <1>6, <1>7, <1>8, <1>9, <1>10 DEF RetrievalInv

\* Steps that only move on with what there is.
LEMMA MovesOnKeeps ==
    ASSUME RetrievalInv, ToolExecute \/ EvidenceFromToolOutput \/ AdapterFails
    PROVE  RetrievalInv'
<1>1. /\ UNCHANGED <<stored, ctx, scopes, vec, lex, output, changes>>
      /\ \/ step = "tool" /\ step' = "rehydrate" /\ NormaliseEvidence(output)
         \/ step = "rehydrate" /\ step' = "done"
         \/ step \in {"tool", "vector"} /\ step' = "failed"
  BY DEF ToolExecute, EvidenceFromToolOutput, AdapterFails
<1>2. (Still' <=> Still) /\ \A c : (Visible(c)' <=> Visible(c)) /\ (Matches(c)' <=> Matches(c))
  BY <1>1 DEF Still, Visible, ApplyFilters, Matches
<1>3. RetrievalTyped'
  BY <1>1 DEF RetrievalInv, RetrievalTyped, RetrievalTypeOK
<1>4. Scoping'
  BY <1>1 DEF RetrievalInv, Scoping, Fusing
<1>5. Isolated'
  BY <1>1, <1>2 DEF RetrievalInv, Isolated, Sees
<1>6. CorpusScoped'
  BY <1>1 DEF RetrievalInv, CorpusScoped
<1>7. Result'
  BY <1>1, <1>2 DEF RetrievalInv, Result, Fusing, Ended, Unrepeated, NormaliseEvidence
<1> QED BY <1>3, <1>4, <1>5, <1>6, <1>7 DEF RetrievalInv

\* A change of the store while a channel reads it.
LEMMA StoreChangeKeeps ==
    ASSUME RetrievalInv, StoreChange
    PROVE  RetrievalInv'
<1>1. /\ UNCHANGED <<ctx, step, scopes, vec, lex, output>> /\ step \in {"vector", "lexical"}
      /\ changes' = changes + 1 /\ changes < MaxChanges /\ changes \in Nat /\ MaxChanges \in Nat
      /\ stored' \subseteq Chunks
  BY RetrievalAssumption DEF StoreChange, RetrievalInv, RetrievalTyped, RetrievalTypeOK
<1>2. ~Still'
  BY <1>1 DEF Still
<1>3. RetrievalTyped'
  BY <1>1 DEF RetrievalInv, RetrievalTyped, RetrievalTypeOK
<1>4. Scoping'
  BY <1>1 DEF RetrievalInv, Scoping
<1>5. Isolated'
  BY <1>1 DEF RetrievalInv, Isolated, Sees, Visible, ApplyFilters
<1>6. CorpusScoped'
  BY <1>1, <1>2 DEF RetrievalInv, CorpusScoped
<1>7. Result'
  BY <1>1 DEF RetrievalInv, Result, Ended, Fusing, Unrepeated
<1> QED BY <1>3, <1>4, <1>5, <1>6, <1>7 DEF RetrievalInv

-----------------------------------------------------------------------------
(* The theorems.                                                           *)

\* The invariant holds in every state of a retrieval.
LEMMA RetrievalInvariant == RetrievalSpec => []RetrievalInv
<1>1. RetrievalInit => RetrievalInv
  <2> SUFFICES ASSUME RetrievalInit PROVE RetrievalInv
    OBVIOUS
  <2>1. MaxChanges \in Nat
    BY RetrievalAssumption
  <2>2. Len(vec) = 0 /\ Len(lex) = 0 /\ Len(output) = 0 /\ Len(scopes) = 0
    BY DEF RetrievalInit
  <2>3. RetrievalTyped
    BY <2>1, EmptySeq, ChunkEntries DEF RetrievalInit, RetrievalTyped, RetrievalTypeOK
  <2> QED BY <2>2, <2>3
       DEF RetrievalInit, RetrievalInv, Scoping, Isolated, Sees, CorpusScoped, Result, Fusing, Ended
<1>2. RetrievalInv /\ [RetrievalNext]_retrVars => RetrievalInv'
  <2> SUFFICES ASSUME RetrievalInv, [RetrievalNext]_retrVars PROVE RetrievalInv'
    OBVIOUS
  <2>1. CASE RetrievalNext
    BY <2>1, RequestKeeps, VectorKeeps, LexicalKeeps, LexicalFailsKeeps, FuseKeeps, MovesOnKeeps,
       StoreChangeKeeps DEF RetrievalNext
  <2>2. CASE UNCHANGED retrVars
    <3> USE <2>2 DEF retrVars
    <3>1. (Still' <=> Still) /\ \A c : (Visible(c)' <=> Visible(c)) /\ (Matches(c)' <=> Matches(c))
      BY DEF Still, Visible, ApplyFilters, Matches
    <3>2. RetrievalTyped' /\ Scoping'
      BY DEF RetrievalInv, RetrievalTyped, RetrievalTypeOK, Scoping
    <3>3. Isolated'
      BY <3>1 DEF RetrievalInv, Isolated, Sees
    <3>4. CorpusScoped'
      BY <3>1 DEF RetrievalInv, CorpusScoped, Listed
    <3>5. Result'
      BY <3>1 DEF RetrievalInv, Result, Unrepeated, NormaliseEvidence
    <3> QED BY <3>2, <3>3, <3>4, <3>5 DEF RetrievalInv
  <2> QED BY <2>1, <2>2
<1> QED BY <1>1, <1>2, PTL DEF RetrievalSpec

\* The variables of a retrieval have their types.
THEOREM RetrievalTypes == RetrievalSpec => []RetrievalTypeOK
<1>1. RetrievalInv => RetrievalTypeOK
  BY DEF RetrievalInv, RetrievalTyped
<1> QED BY <1>1, RetrievalInvariant, PTL

\* A retrieval returns only what the tenant may see and the filters accept, named
\* by its source, each text of a document once and within top_k, and is not empty
\* because of the vector channel alone (retrieve, _reciprocal_rank_fusion).
THEOREM RetrievalIsSound == RetrievalSpec => []RetrievalSound
<1>1. RetrievalInv => RetrievalSound
  <2> SUFFICES ASSUME RetrievalInv, step = "done" PROVE RetrievalSound
    BY DEF RetrievalSound
  <2>1. output \in Seq(Chunks) /\ DOMAIN output = 1 .. Len(output)
    BY LenProperties DEF RetrievalInv, RetrievalTyped
  <2>2. \A i \in DOMAIN output : Visible(output[i]) /\ output[i].sourced
    BY <2>1 DEF RetrievalInv, Isolated, Sees, Result, NormaliseEvidence
  <2>3. \A i, j \in DOMAIN output : Key(output[i]) = Key(output[j]) => i = j
    BY <2>1 DEF RetrievalInv, Result, Ended, Unrepeated
  <2> QED BY <2>2, <2>3 DEF RetrievalSound, RetrievalInv, Result, Ended, Still
<1> QED BY <1>1, RetrievalInvariant, PTL

-----------------------------------------------------------------------------
(* All components side by side.                                            *)

\* A step of the composition is a step of one component and leaves the variables
\* of the others alone.
LEMMA PlatformSteps ==
    ASSUME [PlatformNext]_platformVars
    PROVE  /\ [BackupNext]_backupVars
           /\ [HealthNext]_healthVars
           /\ [GateNext]_gateVars
           /\ [ChatNext]_chatVars
           /\ [SettingsNext]_setVars
           /\ [RetrievalNext]_retrVars
           /\ [ChunkNext]_chunkVars
           /\ [KnowledgeNext]_knowVars
           /\ [ToolNext]_toolVars
           /\ [AnswerNext]_answerVars
           /\ [TrainingNext]_trainVars
<1>1. CASE Backups
  BY <1>1 DEF Backups, operations, accounts, knowledge, answers
<1>2. CASE Health
  BY <1>2 DEF Health, operations, accounts, knowledge, answers
<1>3. CASE Gates
  BY <1>3 DEF Gates, operations, accounts, knowledge, answers
<1>4. CASE Chats
  BY <1>4 DEF Chats, operations, accounts, knowledge, answers
<1>5. CASE Settings
  BY <1>5 DEF Settings, operations, accounts, knowledge, answers
<1>6. CASE Retrievals
  BY <1>6 DEF Retrievals, operations, accounts, knowledge, answers
<1>7. CASE Chunking
  BY <1>7 DEF Chunking, operations, accounts, knowledge, answers
<1>8. CASE Knowledge
  BY <1>8 DEF Knowledge, operations, accounts, knowledge, answers
<1>9. CASE Tools
  BY <1>9 DEF Tools, operations, accounts, knowledge, answers
<1>10. CASE Answers
  BY <1>10 DEF Answers, operations, accounts, knowledge, answers
<1>11. CASE Training
  BY <1>11 DEF Training, operations, accounts, knowledge, answers
<1>12. CASE UNCHANGED platformVars
  BY <1>12 DEF platformVars, operations, accounts, knowledge, answers
<1> QED BY <1>1, <1>2, <1>3, <1>4, <1>5, <1>6, <1>7, <1>8, <1>9, <1>10, <1>11, <1>12 DEF PlatformNext

\* So a behaviour of the composition is one of each component.
LEMMA PlatformBehaviours ==
    PlatformSpec => /\ BackupSpec /\ HealthSpec /\ GateSpec /\ ChatSpec /\ SettingsSpec
                    /\ RetrievalSpec /\ ChunkSpec /\ KnowledgeSpec /\ ToolSpec /\ AnswerSpec
                    /\ TrainingSpec
<1>1. PlatformInit => /\ BackupInit /\ HealthInit /\ GateInit /\ ChatInit /\ SettingsInit
                      /\ RetrievalInit /\ ChunkInit /\ KnowledgeInit /\ ToolInit /\ AnswerInit
                      /\ TrainingInit
  BY DEF PlatformInit
<1> QED BY <1>1, PlatformSteps, PTL
       DEF PlatformSpec, BackupSpec, HealthSpec, GateSpec, ChatSpec, SettingsSpec, RetrievalSpec,
           ChunkSpec, KnowledgeSpec, ToolSpec, AnswerSpec, TrainingSpec

\* PlatformTypeOK: the backups, the request gate, the worker's health, usage and bills,
\* settings, knowledge, retrieval, tools, answers and training keep their types as the
\* run has them, and with them what each promises on its own.
THEOREM PlatformIsSafe ==
    PlatformSpec => /\ []PlatformTypeOK
                    /\ [](RetainedRestorable /\ RestoreSafe /\ HealthTruthful /\ BoundedBurst)
                    /\ [](BilledOnce /\ RevisionIdentifies /\ PromotionEarned)
                    /\ [](ChunksFaithful /\ RetrievalSound /\ KnowledgeKept)
                    /\ [](ToolGoverned /\ TurnIsolated /\ CallsJustified)
<1>1. /\ BackupTypeOK /\ HealthTypeOK /\ GateTypeOK /\ ChatTypeOK /\ SettingsTypeOK
      /\ RetrievalTypeOK /\ ChunkTypeOK /\ KnowledgeTypeOK /\ ToolTypeOK /\ AnswerTypeOK
      /\ TrainingTypeOK
      => PlatformTypeOK
  BY DEF PlatformTypeOK
<1>2. ChunkSpec => []ChunksFaithful
  BY ChunksAreFaithful, ChunkSettings
<1>3. PlatformSpec => []PlatformTypeOK
  BY <1>1, PlatformBehaviours, BackupTypes, HealthTypes, GateTypes, ChatTypes, SettingsTypes,
     RetrievalTypes, ChunkTypes, KnowledgeTypes, ToolTypes, AnswerTypes, TrainingTypes, PTL
<1>4. PlatformSpec => [](RetainedRestorable /\ RestoreSafe /\ HealthTruthful /\ BoundedBurst)
  BY PlatformBehaviours, BackupsKept, RestoresSafe, HealthIsTruthful, BurstBounded, PTL
<1>5. PlatformSpec => [](BilledOnce /\ RevisionIdentifies /\ PromotionEarned)
  BY PlatformBehaviours, BillsAddUp, RevisionsIdentify, PromotionsEarned, PTL
<1>6. PlatformSpec => [](ChunksFaithful /\ RetrievalSound /\ KnowledgeKept)
  BY <1>2, PlatformBehaviours, RetrievalIsSound, KnowledgeIsKept, PTL
<1>7. PlatformSpec => [](ToolGoverned /\ TurnIsolated /\ CallsJustified)
  BY PlatformBehaviours, ToolsGoverned, TurnsIsolated, CallsAreJustified, PTL
<1> QED BY <1>3, <1>4, <1>5, <1>6, <1>7
=============================================================================
