--------------------------- MODULE TaskRepository ---------------------------
(***************************************************************************)
(* The task table of tasks/repository.py and models/task.py: the columns   *)
(* the workers and the polling client read (status, retry_count and the    *)
(* time since started_at), and the writes the repository offers.  Every    *)
(* operator below is one committed transaction on one row or, for recovery,*)
(* on a set of rows; the callers decide how transactions interleave.       *)
(*                                                                         *)
(* A public id is a number and rows are created in that order, so the row  *)
(* ORDER BY created_at ASC picks is the smallest pending one.              *)
(***************************************************************************)
EXTENDS Integers, FiniteSets

CONSTANTS NumTasks,    \* how many tasks clients create
          MaxRetry,    \* MAX_RETRY of tasks/retry.py
          StaleAfter   \* MAX_TASK_RUNTIME + grace, in ticks

ASSUME RepositoryAssumption ==
    /\ NumTasks \in Nat \ {0}
    /\ MaxRetry \in Nat
    /\ StaleAfter \in Nat

VARIABLES status,     \* TaskModel.status; "absent" before the row exists
          retry,      \* TaskModel.retry_count
          age,        \* ticks since started_at while the row is RUNNING, else 0
          claims,     \* how often the row went PENDING -> RUNNING (history)
          recovered   \* how often stale recovery reset it (history)

repoVars == <<status, retry, age, claims, recovered>>

Tasks == 1..NumTasks
Status == {"absent", "pending", "running", "success", "failed"}

RepoInit ==
    /\ status = [t \in Tasks |-> "absent"]
    /\ retry = [t \in Tasks |-> 0]
    /\ age = [t \in Tasks |-> 0]
    /\ claims = [t \in Tasks |-> 0]
    /\ recovered = [t \in Tasks |-> 0]

Pending == {t \in Tasks : status[t] = "pending"}

\* create_task: a new row, PENDING, after every row created before it.
CreateRow(t) ==
    /\ status[t] = "absent"
    /\ \A u \in Tasks : u < t => status[u] # "absent"
    /\ status' = [status EXCEPT ![t] = "pending"]
    /\ UNCHANGED <<retry, age, claims, recovered>>

\* Mutant: the SELECT lacks status = 'pending'.
ClaimRowUnguarded(t) ==
    /\ status' = [status EXCEPT ![t] = "running"]
    /\ age' = [age EXCEPT ![t] = 0]
    /\ claims' = [claims EXCEPT ![t] = @ + 1]
    /\ UNCHANGED <<retry, recovered>>

\* claim_task: SELECT ... WHERE status = 'pending' FOR UPDATE SKIP LOCKED,
\* then RUNNING with a fresh started_at.
ClaimRow(t) ==
    /\ status[t] = "pending"
    /\ status' = [status EXCEPT ![t] = "running"]
    /\ age' = [age EXCEPT ![t] = 0]
    /\ claims' = [claims EXCEPT ![t] = @ + 1]
    /\ UNCHANGED <<retry, recovered>>

\* claim_task() without an id: the oldest pending row.
OldestPending(t) == t \in Pending /\ \A u \in Pending : t <= u

\* update_task(status = s): the write has no guard on the old status or on the
\* worker that makes it.
UpdateStatus(t, s) ==
    /\ status' = [status EXCEPT ![t] = s]
    /\ age' = [age EXCEPT ![t] = 0]
    /\ UNCHANGED <<retry, claims, recovered>>

\* Mutant: <= for <.
ShouldRetryOnceMore(t) == retry[t] <= MaxRetry

\* should_retry and get_retry_count of tasks/retry.py.
ShouldRetry(t) == retry[t] < MaxRetry

\* Mutant: the incremented retry_count is not committed.
BumpRetryLost(t) == t \in Tasks /\ UNCHANGED repoVars

\* updated_task.retry_count = retry_count + 1; commit.
BumpRetry(t) ==
    /\ retry' = [retry EXCEPT ![t] = @ + 1]
    /\ UNCHANGED <<status, age, claims, recovered>>

\* Mutant: started_at <= cutoff for started_at < cutoff.
StaleTasksInclusive == {t \in Tasks : status[t] = "running" /\ age[t] >= StaleAfter}

\* The SELECT of recover_stale_tasks: RUNNING rows with an old started_at.
StaleTasks == {t \in Tasks : status[t] = "running" /\ age[t] > StaleAfter}

\* The UPDATE of recover_stale_tasks: every selected row goes back to PENDING,
\* whatever became of it since the SELECT; retry_count is not charged.
ResetRows(S) ==
    /\ status' = [t \in Tasks |-> IF t \in S THEN "pending" ELSE status[t]]
    /\ age' = [t \in Tasks |-> IF t \in S THEN 0 ELSE age[t]]
    /\ recovered' = [t \in Tasks |->
                        IF t \in S THEN recovered[t] + 1 ELSE recovered[t]]
    /\ UNCHANGED <<retry, claims>>

\* Time passes for the rows that are RUNNING; ages beyond the limit are alike.
AgeRows ==
    /\ age' = [t \in Tasks |->
                  IF status[t] = "running" /\ age[t] <= StaleAfter
                  THEN age[t] + 1 ELSE age[t]]
    /\ UNCHANGED <<status, retry, claims, recovered>>

RepoTypeOK ==
    /\ status \in [Tasks -> Status]
    /\ retry \in [Tasks -> 0..MaxRetry]
    /\ age \in [Tasks -> 0..(StaleAfter + 1)]
    /\ claims \in [Tasks -> Nat]
    /\ recovered \in [Tasks -> Nat]
=============================================================================
