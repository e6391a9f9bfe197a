--------------------------- MODULE TaskLifecycle ---------------------------
(***************************************************************************)
(* What a client that polls GET /tasks/{id} may rely on: the moves one task*)
(* row makes between two polls, whatever the workers do.  A SUCCESS is not *)
(* final (the steps after it may still fail the task), a FAILED task is    *)
(* tried again only after one unit of its retry budget is spent, and       *)
(* PENDING is left only by being claimed.                                  *)
(***************************************************************************)
EXTENDS Integers

CONSTANTS Tasks, MaxRetry

VARIABLES status, retry
vars == <<status, retry>>

Init ==
    /\ status = [t \in Tasks |-> "absent"]
    /\ retry = [t \in Tasks |-> 0]

Move(t, from, to) ==
    /\ status[t] = from
    /\ status' = [status EXCEPT ![t] = to]
    /\ UNCHANGED retry

Create(t) == Move(t, "absent", "pending")
Start(t) == Move(t, "pending", "running")
Succeed(t) == Move(t, "running", "success")
Fail(t) == Move(t, "running", "failed") \/ Move(t, "success", "failed")

\* One unit of the budget is spent before the task goes back to PENDING.
SpendRetry(t) ==
    /\ status[t] = "failed"
    /\ retry[t] < MaxRetry
    /\ retry' = [retry EXCEPT ![t] = @ + 1]
    /\ UNCHANGED status

Retry(t) == Move(t, "failed", "pending") /\ retry[t] > 0

\* Tasks whose worker died are put back together; nothing else moves.
Recover ==
    \E S \in SUBSET Tasks :
        /\ \A t \in S : status[t] = "running"
        /\ status' = [t \in Tasks |-> IF t \in S THEN "pending" ELSE status[t]]
        /\ UNCHANGED retry

Next ==
    \/ \E t \in Tasks : Create(t) \/ Start(t) \/ Succeed(t) \/ Fail(t)
                          \/ SpendRetry(t) \/ Retry(t)
    \/ Recover

Spec == Init /\ [][Next]_vars
=============================================================================
