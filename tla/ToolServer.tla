----------------------------- MODULE ToolServer -----------------------------
(***************************************************************************)
(* The two ways to a tool.  The MCP server reads JSON-RPC messages from    *)
(* one client, line by line, keeps the state of the connection and passes  *)
(* tools/call through allowlist, schema and engine for the one tenant it   *)
(* was started with.  The agent's tool step uses the same engine behind an *)
(* authorization hook.                                                     *)
(*                                                                         *)
(* A JSON value is its type, its size (length of a string or array, value  *)
(* of a number), a word for what the tools tell apart in it, and the items *)
(* of an array.  Arguments are functions from names to values.             *)
(***************************************************************************)
EXTENDS Integers, Sequences, FiniteSets

CONSTANTS
    Lines,          \* what a client may send, one record per line
    AgentSteps,     \* tool steps the planner produces: [tool, params]
    TenantId,       \* --tenant-id
    MaxQuery,       \* MAX_QUERY_LENGTH, and maxLength of the schema
    MaxTopK,        \* MAX_TOP_K, and maximum of the schema
    MaxLines,       \* bound on the lines of a connection
    MaxSteps        \* bound on the agent's tool steps

ASSUME ToolAssumption ==
    /\ TenantId \in Nat \ {0} /\ MaxQuery \in Nat \ {0} /\ MaxTopK \in Nat \ {0}
    /\ MaxLines \in Nat /\ MaxSteps \in Nat

VARIABLES
    allowed,    \* --allow-tool
    phase,      \* "new", "awaiting_initialized", "ready"
    received,   \* lines so far
    out,        \* responses so far: [id, kind, code]
    runs,       \* tool executions: [entry, at, tool, tenant, params, status]
    steps       \* results of the agent's tool steps

toolVars == <<allowed, phase, received, out, runs, steps>>

Supported == {"financial_metrics", "retrieval"}
Operations == {"growth_rate", "margin", "ratio", "cagr"}
NoParams == [p \in {} |-> 0]

ToolTypeOK ==
    /\ allowed \subseteq Supported
    /\ phase \in {"new", "awaiting_initialized", "ready"}
    /\ Len(received) <= MaxLines /\ Len(steps) <= MaxSteps
    /\ \A i \in DOMAIN out : out[i].kind \in {"result", "tool_error", "error"}
    /\ \A r \in runs : r.tool \in Supported \cup {"python"} /\ r.entry \in {"mcp", "agent"}

\* build_mcp_server: unsupported tools are refused when the process starts.
ToolInit ==
    /\ allowed \in SUBSET Supported /\ phase = "new"
    /\ received = <<>> /\ out = <<>> /\ runs = {} /\ steps = <<>>

(* ------------------------------- schema -------------------------------- *)

Property(type, range) == [type |-> type, range |-> range]
Schema == [
    retrieval |-> [
        required |-> "query",
        props |-> [
            query |-> Property("string", 1 .. MaxQuery),
            top_k |-> Property("integer", 1 .. MaxTopK),
            company |-> Property("string", Nat \ {0}),
            document_ids |-> Property("array", 0 .. 100),
            filters |-> Property("object", Nat),
            include_public |-> Property("boolean", 0 .. 1)]],
    financial_metrics |-> [
        required |-> "operation",
        props |-> [
            p \in {"operation", "current", "previous", "numerator", "denominator",
                   "starting_value", "ending_value", "periods", "precision"} |->
            IF p = "operation" THEN Property("enum", Nat)
            ELSE IF p = "precision" THEN Property("integer", 0 .. 10)
            ELSE Property("number", Int)]]]

\* _matches_type: no coercion; an integer is a number, a boolean is neither.
MatchesType(v, type) ==
    CASE type = "number" -> v.type \in {"integer", "number"}
      [] type = "enum" -> v.type = "string"
      [] OTHER -> v.type = type

\* _validate_string, _validate_number, _validate_array: size and items.
InBounds(v, s) == v.size \in s.range
ItemsValid(v) == \A i \in DOMAIN v.items : v.items[i].type = "string" /\ v.items[i].size >= 1

\* _validate of one property: its type, its enum, its bounds.
Valid(v, s) ==
    /\ MatchesType(v, s.type)
    /\ s.type = "enum" => v.word \in Operations
    /\ InBounds(v, s) /\ ItemsValid(v)

\* _validate_object: additionalProperties is FALSE at the top, TRUE in filters.
ValidateObject(s, args) ==
    /\ s.required \in DOMAIN args
    /\ \A p \in DOMAIN args : p \in DOMAIN s.props /\ Valid(args[p], s.props[p])

\* validate_arguments
ValidateArguments(tool, args) == ValidateObject(Schema[tool], args)

(* -------------------------------- tools -------------------------------- *)

Has(p, name) == name \in DOMAIN p
\* _number: a finite number, not a boolean.
Number(p, name) == Has(p, name) /\ p[name].type \in {"integer", "number"} /\ p[name].word # "nan"
Abs(n) == IF n < 0 THEN -n ELSE n

\* The growth is beyond the floats: not finite, or more than math.pow can hold.
Operand(p, words) ==
    \E q \in {"starting_value", "ending_value", "periods"} : Has(p, q) /\ p[q].word \in words

\* _calculate: the value as a fraction, <<>> for an exception `execute' catches.
\* The root that cagr takes is left as its radicand and its degree; a result that
\* is not finite is a ValueError.
Calculate(op, p) ==
    LET n(name) == p[name].size IN
    CASE op = "growth_rate" ->
            IF Number(p, "current") /\ Number(p, "previous") /\ n("previous") # 0
            THEN <<100 * (n("current") - n("previous")), Abs(n("previous"))>> ELSE <<>>
      [] op \in {"margin", "ratio"} ->
            IF Number(p, "numerator") /\ Number(p, "denominator") /\ n("denominator") # 0
            THEN <<(IF op = "margin" THEN 100 ELSE 1) * n("numerator"), n("denominator")>>
            ELSE <<>>
      [] OTHER ->
            IF /\ \A q \in {"starting_value", "ending_value", "periods"} : Number(p, q)
               /\ n("starting_value") > 0 /\ n("ending_value") > 0 /\ n("periods") > 0
               /\ ~Operand(p, {"infinite"})
            THEN <<n("ending_value"), n("starting_value"), n("periods")>> ELSE <<>>

MetricsSupports(p) == Has(p, "operation") /\ p["operation"].word \in Operations
\* FinancialMetricsTool.execute: the OverflowError of math.pow is none of those it
\* catches, and nothing before the adapter or the step handler does.
MetricsExecute(p) ==
    IF \/ Has(p, "precision") /\ ~(p["precision"].type = "integer" /\ p["precision"].size \in 0 .. 10)
       \/ Calculate(p["operation"].word, p) = <<>>
    THEN "failed"
    ELSE IF p["operation"].word = "cagr" /\ Operand(p, {"huge"}) THEN "raised" ELSE "success"

\* RetrievalRequest.from_context: the tenant is the context's; strings are
\* stripped before they are tested for being empty.
Text(v) == v.type = "string" /\ v.word # "blank"
RequestFromContext(tenant, p) ==
    /\ tenant >= 0
    /\ Has(p, "tenant_id") => p["tenant_id"].size = tenant
    /\ Has(p, "query") /\ Text(p["query"]) /\ p["query"].size \in 1 .. MaxQuery
    /\ Has(p, "top_k") => p["top_k"].type = "integer" /\ p["top_k"].size \in 1 .. MaxTopK
    /\ Has(p, "company") => Text(p["company"])
    /\ Has(p, "document_ids") => /\ p["document_ids"].type \in {"array", "string"}
                                 /\ \A i \in DOMAIN p["document_ids"].items : Text(p["document_ids"].items[i])
    /\ Has(p, "filters") => p["filters"].type = "object"
    /\ Has(p, "include_public") => p["include_public"].type = "boolean"

\* RetrievalTool.execute: only the evidence of a trusted adapter that keeps to
\* the contract is a success; `world' is what the adapter does.
Worlds == {"evidence", "raises", "malformed"}
RetrievalExecute(tenant, p, adapter, world) ==
    IF RequestFromContext(tenant, p) /\ adapter /\ world = "evidence"
    THEN "success" ELSE "failed"

\* ToolEngine.execute: the hook, then supports, then the tool.
EngineExecute(tool, tenant, p, adapter, denied, world) ==
    IF denied THEN "skipped"
    ELSE IF tool = "financial_metrics"
    THEN IF MetricsSupports(p) THEN MetricsExecute(p) ELSE "unsupported"
    ELSE RetrievalExecute(tenant, p, adapter, world)

(* ----------------------------- MCP server ------------------------------ *)

Reply(kind, code) == [kind |-> kind, code |-> code]
ErrorReply(code) == Reply("error", code)
Run(m, status) ==
    {[entry |-> "mcp", at |-> Len(received) + 1, tool |-> m.name, tenant |-> TenantId,
      params |-> m.args, status |-> status]}

\* LocalMCPAdapter.call_tool: the allowlist comes before anything is said
\* about the tool.  No arguments, or null, are an empty object.
Refusal(m) ==
    IF m.name = "" \/ m.argsType \notin {"object", "null"} THEN -32602
    ELSE IF m.name \notin allowed THEN -32001
    ELSE IF ~ValidateArguments(m.name, m.args) THEN -32602
    ELSE 0

\* LocalMCPAdapter.handle on a message that is well formed.
AdapterHandle(m, world) ==
    IF m.method = "tools/list" THEN [reply |-> Reply("result", 0), run |-> {}]
    ELSE IF m.method # "tools/call" THEN [reply |-> ErrorReply(-32601), run |-> {}]
    ELSE IF Refusal(m) # 0 THEN [reply |-> ErrorReply(Refusal(m)), run |-> {}]
    ELSE LET status == EngineExecute(m.name, TenantId, m.args, "retrieval" \in allowed,
                                     FALSE, world) IN
         [reply |-> CASE status \in {"unsupported", "raised"} -> ErrorReply(-32000)
                      [] status = "success" -> Reply("result", 0)
                      [] OTHER -> Reply("tool_error", 0),
          run |-> Run(m, status)]

\* Mutant: initialized is accepted in any phase.
MarkReadyAlways(p) == "ready"
\* _mark_ready
MarkReady(p) == IF p = "awaiting_initialized" THEN "ready" ELSE p
\* _initialize
Initialize(p, m) == IF p = "new" /\ m.valid THEN "awaiting_initialized" ELSE p

WellFormed(m) == m.kind = "message" /\ m.jsonrpc

\* MCPServer.handle: the new phase, the answer before it is suppressed, and
\* the executions.
Handle(m, world) ==
    LET done(p, reply) == [phase |-> p, reply |-> reply, run |-> {}]
        outcome(p) == IF p # phase THEN Reply("result", 0) ELSE ErrorReply(-32600)
    IN IF ~WellFormed(m) THEN done(phase, ErrorReply(-32600))
       ELSE CASE m.method = "initialize" -> done(Initialize(phase, m),
                     IF phase = "new" /\ ~m.valid THEN ErrorReply(-32602)
                     ELSE outcome(Initialize(phase, m)))
              [] m.method = "notifications/initialized" ->
                     done(MarkReady(phase), outcome(MarkReady(phase)))
              [] m.method = "ping" -> done(phase, Reply("result", 0))
              [] OTHER -> IF phase # "ready" THEN done(phase, ErrorReply(-32002))
                          ELSE LET a == AdapterHandle(m, world) IN
                               [phase |-> phase, reply |-> a.reply, run |-> a.run]

\* A message without an id is a notification; what is no object has none.
IsNotification(m) == m.kind = "message" /\ ~m.id

\* serve_stdio: one line, one answer at most, in order.
ServeLine(m, world) ==
    /\ Len(received) < MaxLines
    /\ received' = Append(received, m)
    /\ LET h == IF m.kind = "garbage"
                THEN [phase |-> phase, reply |-> ErrorReply(-32700), run |-> {}]
                ELSE Handle(m, world) IN
       /\ phase' = IF m.kind = "blank" THEN phase ELSE h.phase
       /\ runs' = IF m.kind = "blank" THEN runs ELSE runs \cup h.run
       /\ out' = IF m.kind = "blank" \/ IsNotification(m) THEN out
                 ELSE Append(out, [id |-> IF m.kind = "message" THEN Len(received) + 1 ELSE 0,
                                   kind |-> h.reply.kind, code |-> h.reply.code])
    /\ UNCHANGED <<allowed, steps>>

(* ------------------------------ the agent ------------------------------ *)

\* authorize_financial_metrics_tool
Denied(s) == s.tool # "financial_metrics" \/ ~MetricsSupports(s.params)

\* FinancialMetricsStepHandler: anything but a success fails the step.
AgentToolStep(s) ==
    LET status == EngineExecute(s.tool, TenantId, s.params, FALSE, Denied(s), "raises") IN
    /\ Len(steps) < MaxSteps
    /\ steps' = Append(steps, [tool |-> s.tool, success |-> status = "success"])
    /\ runs' = IF status = "skipped" THEN runs
               ELSE runs \cup {[entry |-> "agent", at |-> 0, tool |-> s.tool,
                                tenant |-> TenantId, params |-> s.params, status |-> status]}
    /\ UNCHANGED <<allowed, phase, received, out>>

ToolNext ==
    \/ \E m \in Lines, world \in Worlds : ServeLine(m, world)
    \/ \E s \in AgentSteps : AgentToolStep(s)

ToolSpec == ToolInit /\ [][ToolNext]_toolVars

(* ----------------------------- properties ------------------------------ *)

Shook(at) ==
    \E i, j \in 1 .. at - 1 :
        /\ i < j
        /\ received[i].kind = "message" /\ received[i].method = "initialize" /\ received[i].valid
        /\ received[j].kind = "message" /\ received[j].method = "notifications/initialized"

\* A tool runs over MCP only for a client that has completed the handshake,
\* only if the operator allowed it, with no argument the tool's schema does
\* not declare, for the tenant of the server, whether or not the client wants
\* an answer; the agent runs financial_metrics alone.  What the schema lets
\* through, the retrieval contract refuses only for being blank.
\* And the client can match the answers: exactly one for every request, in
\* order, and a success only if the tool had one.
ToolGoverned ==
    /\ \A r \in runs :
        /\ r.tenant = TenantId
        /\ r.entry = "agent" => r.tool = "financial_metrics"
        /\ r.entry = "mcp" =>
            /\ Shook(r.at) /\ r.tool \in allowed
            /\ DOMAIN r.params \subseteq DOMAIN Schema[r.tool].props
            /\ r.tool = "retrieval" /\ ~RequestFromContext(r.tenant, r.params) =>
                  \E p \in DOMAIN r.params : \/ r.params[p].word = "blank"
                                             \/ \E i \in DOMAIN r.params[p].items :
                                                    r.params[p].items[i].word = "blank"
    /\ LET asked == {i \in DOMAIN received : received[i].kind = "message" /\ received[i].id}
           ids == {i \in DOMAIN out : out[i].id # 0} IN
       /\ {out[i].id : i \in ids} = asked
       /\ \A i, j \in ids : i < j => out[i].id < out[j].id
    /\ \A i \in DOMAIN out :
        out[i].kind = "result" /\ received[out[i].id].method = "tools/call" =>
            \E r \in runs : r.at = out[i].id /\ r.status = "success"
============================================================================
