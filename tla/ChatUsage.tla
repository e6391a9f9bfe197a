----------------------------- MODULE ChatUsage -----------------------------
(***************************************************************************)
(* Plans, quotas, usage rows and billing rows around a chat request.       *)
(*                                                                         *)
(* The quota counts the usage rows of the day and is read before the agent *)
(* runs; the row is written after it, by the route itself or, for a queued *)
(* task, by the handler.  The handler's SUCCESS, its usage row and its     *)
(* billing row are three transactions, and a failed attempt is repeated.   *)
(* A failure is written down by the handler's except clause, and by the    *)
(* worker if that fails, and either write can fail like any other.         *)
(* One tenant, the days of one month; the worker's retry rule is that of   *)
(* TaskRepository.                                                         *)
(***************************************************************************)
EXTENDS Integers, Sequences, FiniteSets, Functions

CONSTANTS
    Requests,      \* requests of one tenant
    Route,         \* request -> "chat", "anonymous", "agent_chat", "agent_task"
    Spent,         \* request -> tokens in and out and tool calls of its answer
    Slugs,         \* plans of which the tenant may have one ("none": no row)
    DailyLimit,    \* the plan rows: slug -> max_chats_per_day
    ChatRetries,   \* MAX_RETRY
    LastChatDay,   \* bound on the days that pass
    MaxChatFaults  \* bound on failures of the agent and of the database

ASSUME ChatAssumption ==
    /\ Route \in [Requests -> {"chat", "anonymous", "agent_chat", "agent_task"}]
    /\ Spent \in [Requests -> [input : Nat, output : Nat, tools : Nat]]
    /\ ChatRetries \in Nat
    /\ LastChatDay \in Nat /\ MaxChatFaults \in Nat

VARIABLES
    chatDay,     \* the clock
    plan,        \* slug of the active subscription
    limited,     \* CHAT_PLAN_LIMITS_ENABLED and no evaluation bypass
    req,         \* request -> control state, task status, retry_count, kills
    usageRows,   \* usage_records of event chat_request: [req, day]
    bills,       \* billing_records: [req, amount]
    chatFaults

chatVars == <<chatDay, plan, limited, req, usageRows, bills, chatFaults>>

ChatTypeOK ==
    /\ chatDay \in 0 .. LastChatDay /\ plan \in Slugs /\ limited \in BOOLEAN
    /\ \A r \in Requests :
        /\ req[r].pc \in {"new", "refused", "queued", "running", "record", "bill",
                          "exit", "except", "mark", "reap", "adrift", "done"}
        /\ req[r].status \in {"none", "pending", "running", "success", "failed"}
        /\ req[r].retries \in 0 .. ChatRetries
        /\ req[r].status # "none" => Route[r] = "agent_task"
    /\ chatFaults \in 0 .. MaxChatFaults

ChatInit ==
    /\ chatDay = 0 /\ plan \in Slugs /\ limited \in BOOLEAN
    /\ req = [r \in Requests |-> [pc |-> "new", status |-> "none", retries |-> 0,
                                  kills |-> 0]]
    /\ usageRows = <<>> /\ bills = <<>> /\ chatFaults = 0

ChatFault == chatFaults < MaxChatFaults /\ chatFaults' = chatFaults + 1

(* ------------------------------- plans --------------------------------- *)

\* _get_tenant_plan: the active subscription's plan, else the free plan, and 50
\* chats a day where there is no row of that plan.
TenantPlan == IF plan = "none" THEN "free" ELSE plan
MaxChatsPerDay == IF TenantPlan \in DOMAIN DailyLimit THEN DailyLimit[TenantPlan] ELSE 50

\* check_plan_limit(..., "chats"): rows since midnight.
ChatsToday == Cardinality({i \in DOMAIN usageRows : usageRows[i].day = chatDay})
CheckPlanLimit == ChatsToday < MaxChatsPerDay
CanChat == ~limited \/ CheckPlanLimit

\* calculate_cost, in units of 10^-7 dollars, rounded to six decimals (a tie goes
\* up here, in the code wherever the float lies).
CalculateCost(u) == 10 * ((15 * u.input + 60 * u.output + 10000 * u.tools + 5) \div 10)

\* get_usage_summary of the dashboard: the tenant's cost of the month.
TotalCost == SumFunction([i \in DOMAIN bills |-> bills[i].amount])

(* ------------------------------ requests ------------------------------- *)

\* The routes: 429, or run the agent, or create a task and publish it.
ChatRequest(r) ==
    /\ req[r].pc = "new"
    /\ req' = [req EXCEPT ![r] =
         IF Route[r] # "anonymous" /\ ~CanChat THEN [@ EXCEPT !.pc = "refused"]
         ELSE IF Route[r] = "agent_task"
         THEN [@ EXCEPT !.pc = "queued", !.status = "pending"]
         ELSE [@ EXCEPT !.pc = "running"]]
    /\ UNCHANGED <<chatDay, plan, limited, usageRows, bills, chatFaults>>

\* A route: the answer, then the usage row of a known user; an exception of
\* the agent leaves the route before it.
RouteAnswer(r) ==
    /\ req[r].pc = "running" /\ Route[r] # "agent_task"
    /\ \/ /\ req' = [req EXCEPT ![r].pc =
                        IF Route[r] = "anonymous" THEN "done" ELSE "record"]
          /\ UNCHANGED chatFaults
       \/ ChatFault /\ req' = [req EXCEPT ![r].pc = "done"]
    /\ UNCHANGED <<chatDay, plan, limited, usageRows, bills>>

\* The worker claims the task.
TaskClaim(r) ==
    /\ req[r].pc = "queued"
    /\ req' = [req EXCEPT ![r] = [@ EXCEPT !.pc = "running", !.status = "running"]]
    /\ UNCHANGED <<chatDay, plan, limited, usageRows, bills, chatFaults>>

Killed(q) == [q EXCEPT !.kills = @ + 1]
Requeued(q) == [q EXCEPT !.pc = "queued", !.status = "pending"]

\* Mutant: one retry too many.
FailedOnceMore(q) ==
    IF q.retries <= ChatRetries THEN [Requeued(q) EXCEPT !.retries = @ + 1]
    ELSE [q EXCEPT !.pc = "done", !.status = "failed"]
\* A task that is FAILED: a charged retry while the budget lasts.
Failed(q) ==
    IF q.retries < ChatRetries THEN [Requeued(q) EXCEPT !.retries = @ + 1]
    ELSE [q EXCEPT !.pc = "done", !.status = "failed"]

\* agent_task_handler: SUCCESS is visible before usage and billing.
TaskAnswer(r) ==
    /\ req[r].pc = "running" /\ Route[r] = "agent_task"
    /\ \/ /\ req' = [req EXCEPT ![r] = [@ EXCEPT !.pc = "record", !.status = "success"]]
          /\ UNCHANGED chatFaults
       \/ ChatFault /\ req' = [req EXCEPT ![r].pc = "except"]
    /\ UNCHANGED <<chatDay, plan, limited, usageRows, bills>>

\* record_usage: an error is logged and swallowed.
RecordUsage(r) ==
    /\ req[r].pc = "record"
    /\ req' = [req EXCEPT ![r].pc = IF Route[r] = "agent_task" THEN "bill" ELSE "done"]
    /\ \/ /\ usageRows' = Append(usageRows, [req |-> r, day |-> chatDay])
          /\ UNCHANGED chatFaults
       \/ ChatFault /\ UNCHANGED usageRows
    /\ UNCHANGED <<chatDay, plan, limited, bills>>

\* Mutant: an error of the billing row is swallowed like one of the usage row.
BillSwallowed(r) ==
    /\ req[r].pc = "bill"
    /\ req' = [req EXCEPT ![r].pc = "exit"]
    /\ \/ /\ bills' = Append(bills, [req |-> r, amount |-> CalculateCost(Spent[r])])
          /\ UNCHANGED chatFaults
       \/ ChatFault /\ UNCHANGED bills
    /\ UNCHANGED <<chatDay, plan, limited, usageRows>>
\* The billing row; its failure reaches the handler's except clause.
Bill(r) ==
    /\ req[r].pc = "bill"
    /\ \/ /\ bills' = Append(bills, [req |-> r, amount |-> CalculateCost(Spent[r])])
          /\ req' = [req EXCEPT ![r].pc = "exit"]
          /\ UNCHANGED chatFaults
       \/ ChatFault /\ req' = [req EXCEPT ![r].pc = "except"] /\ UNCHANGED bills
    /\ UNCHANGED <<chatDay, plan, limited, usageRows>>

\* The except clause writes FAILED over RUNNING or SUCCESS.  The database that has
\* failed before may fail again (here and below no fault is charged for that):
\* then the handler's process ends with an error.
ExceptClause(r) ==
    /\ req[r].pc = "except"
    /\ \/ req' = [req EXCEPT ![r] = [@ EXCEPT !.pc = "reap", !.status = "failed"]]
       \/ req' = [req EXCEPT ![r].pc = "mark"]
    /\ UNCHANGED <<chatDay, plan, limited, usageRows, bills, chatFaults>>

\* Nobody works for the task any more: if it is RUNNING it is recovered later,
\* without a charge, otherwise nobody looks at it again.
Abandoned(q, p) == IF q.status = "running" THEN Requeued(q) ELSE [q EXCEPT !.pc = p]

\* The worker writes FAILED for a handler that ended with an error.  If that fails
\* too the exception leaves _execute_task; a SUCCESS is then left standing.
WorkerMarks(r) ==
    /\ req[r].pc = "mark"
    /\ \/ req' = [req EXCEPT ![r] = [@ EXCEPT !.pc = "reap", !.status = "failed"]]
       \/ req' = [req EXCEPT ![r] = Abandoned(@, "adrift")]
    /\ UNCHANGED <<chatDay, plan, limited, usageRows, bills, chatFaults>>

\* The charge and PENDING, or an error on the way (a charge already committed by then
\* makes no difference to a task that is not run again).
WorkerReaps(r) ==
    /\ req[r].pc = "reap"
    /\ \/ req' = [req EXCEPT ![r] = Failed(@)]
       \/ req' = [req EXCEPT ![r] = Abandoned(@, "done")]
    /\ UNCHANGED <<chatDay, plan, limited, usageRows, bills, chatFaults>>

\* The handler process has ended before its deadline, with exit code 0.
HandlerExit(r) ==
    /\ req[r].pc = "exit"
    /\ req' = [req EXCEPT ![r].pc = "done"]
    /\ UNCHANGED <<chatDay, plan, limited, usageRows, bills, chatFaults>>

\* The deadline terminates the handler, or its process dies: the attempt has
\* failed, whatever it has written, its bill too.
TaskDeadline(r) ==
    /\ req[r].pc \in {"running", "record", "bill", "exit", "except"}
    /\ Route[r] = "agent_task"
    /\ ChatFault
    /\ req' = [req EXCEPT ![r] = Killed([@ EXCEPT !.pc = "mark"])]
    /\ UNCHANGED <<chatDay, plan, limited, usageRows, bills>>

\* The API process or the worker with its handler dies: a route's request is
\* gone, a task is abandoned.
ProcessDies(r) ==
    /\ req[r].pc \in {"running", "record", "bill", "exit", "except", "mark", "reap"}
    /\ ChatFault
    /\ req' = [req EXCEPT ![r] = Killed(Abandoned(@, "done"))]
    /\ UNCHANGED <<chatDay, plan, limited, usageRows, bills>>

Midnight ==
    /\ chatDay < LastChatDay
    /\ chatDay' = chatDay + 1
    /\ UNCHANGED <<plan, limited, req, usageRows, bills, chatFaults>>

ChatNext ==
    \/ \E r \in Requests :
        \/ ChatRequest(r) \/ RouteAnswer(r) \/ TaskClaim(r) \/ TaskAnswer(r)
        \/ RecordUsage(r) \/ Bill(r) \/ ExceptClause(r) \/ WorkerMarks(r) \/ WorkerReaps(r)
        \/ HandlerExit(r) \/ TaskDeadline(r) \/ ProcessDies(r)
    \/ Midnight

ChatSpec == ChatInit /\ [][ChatNext]_chatVars

(* ----------------------------- properties ------------------------------ *)

Answered == {r \in Requests : req[r].pc = "done" /\ req[r].status = "success"}
Settled == \A r \in Requests : req[r].pc \in {"new", "refused", "done", "adrift"}

\* Row by row: a bill has the price of its task; a task whose handler nobody
\* killed is billed once if it ended in SUCCESS and not at all if it failed or was
\* set adrift, and each kill can add one bill at most.
BillsOf(r) == {i \in DOMAIN bills : bills[i].req = r}
BillsFair ==
    \A r \in Requests :
        /\ \A i \in BillsOf(r) : bills[i].amount = CalculateCost(Spent[r])
        /\ Cardinality(BillsOf(r)) <= 1 + req[r].kills
        /\ req[r].pc \in {"done", "adrift"} /\ req[r].kills = 0 =>
              Cardinality(BillsOf(r)) = IF r \in Answered THEN 1 ELSE 0

\* When nothing is in flight and no handler was killed in the middle, the
\* dashboard's cost is the cost of exactly the tasks that ended in SUCCESS: no
\* retry bills twice, and an answer that stays visible is free only if the writes
\* of its bill and of both FAILEDs that should have followed failed one after the
\* other ("adrift").  Killed or not, every task's bills are fair.
BilledOnce ==
    /\ Settled /\ (\A r \in Requests : req[r].kills = 0) =>
        TotalCost = SumFunction([r \in Answered |-> CalculateCost(Spent[r])])
    /\ BillsFair
============================================================================
