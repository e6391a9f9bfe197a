----------------------------- MODULE TaskWorker -----------------------------
(***************************************************************************)
(* The worker pool of tasks/worker.py over the task table and the stream:  *)
(* every worker process runs threads through _run_thread, each thread runs *)
(* at most one task at a time in a spawned handler process.                *)
(*                                                                         *)
(* Faults the code handles or survives, at most MaxFaults of them: a worker*)
(* process is killed or told to stop, a database call raises, a Redis call *)
(* fails or its reply is lost.  A handler may fail, hang or die at no cost.*)
(*                                                                         *)
(* Time: a tick is the unit of MAX_TASK_RUNTIME.  Between a claim and the  *)
(* start of its process, between the deadline and the death of the process,*)
(* and between that and the FAILED write, a live thread takes at most Delay*)
(* ticks each; the grace of STALE_RECOVERY_GRACE_SECONDS covers all three. *)
(***************************************************************************)
EXTENDS TaskRepository, TaskBroker

CONSTANTS Workers, Threads, workerOf,
          MaxRuntime, Grace, Delay,
          Handled,          \* tasks whose type is a key of _HANDLERS
          OrphansSurvive,   \* a handler process may outlive its killed worker
          SerialRecovery,   \* no two recoveries overlap
          MaxFaults

ASSUME WorkerAssumption ==
    /\ workerOf \in [Threads -> Workers]
    /\ MaxRuntime \in Nat \ {0}
    /\ Grace \in Nat
    /\ Delay \in Nat
    /\ 3 * Delay <= Grace
    /\ StaleAfter = MaxRuntime + Grace
    /\ Handled \subseteq Tasks
    /\ OrphansSurvive \in BOOLEAN
    /\ SerialRecovery \in BOOLEAN
    /\ MaxFaults \in Nat

VARIABLES pc,          \* where each thread is in _run_thread
          cur,         \* task_public_id in hand, 0 if none
          msg,         \* _message_id in hand, 0 if none (already_claimed)
          clock,       \* ticks spent at a timed pc
          stage,       \* what the thread's handler process has done
          scan,        \* rows the thread's recovery has selected
          life,        \* "up", "stopping" (_running = False) or "down"
          redisOn,     \* TaskBroker._enabled of the process
          backlog,     \* _pending_messages, popped in stream order
          reclaimDue,  \* _next_pending_reclaim has passed
          recoverDue,  \* _last_recovery is old enough
          unpublished, \* rows committed by the API, publish_task still to come
          orphans,     \* handler processes without a worker
          faults

threadVars == <<pc, cur, msg, clock, stage, scan>>
workerVars == <<life, redisOn, backlog, reclaimDue, recoverDue>>
envVars == <<unpublished, orphans, faults>>
vars == <<repoVars, brokerVars, threadVars, workerVars, envVars>>

Pcs == {"top", "recover", "fetch", "poll", "recheck", "lookup", "claim",
        "lock", "run", "kill", "fail", "check", "requeue", "publish", "ack",
        "off"}
Stages == {"none", "body", "tail", "exit"}

\* A live thread between its claim and the write that ends its attempt.
Holding == {"recheck", "lock", "run", "kill", "fail", "check", "requeue"}
Holds(i, t) == pc[i] \in Holding /\ cur[i] = t

\* How long a live thread stays at a pc where its row is RUNNING.
Limit(p) == IF p = "run" THEN MaxRuntime ELSE Delay
Timed == {"recheck", "lock", "run", "kill", "fail"}

Init ==
    /\ RepoInit
    /\ BrokerInit
    /\ pc = [i \in Threads |-> "top"]
    /\ cur = [i \in Threads |-> 0]
    /\ msg = [i \in Threads |-> 0]
    /\ clock = [i \in Threads |-> 0]
    /\ stage = [i \in Threads |-> "none"]
    /\ scan = [i \in Threads |-> {}]
    /\ life = [w \in Workers |-> "up"]
    /\ redisOn = [w \in Workers |-> TRUE]
    /\ backlog = [w \in Workers |-> {}]
    /\ reclaimDue = [w \in Workers |-> TRUE]
    /\ recoverDue = [w \in Workers |-> FALSE]
    /\ unpublished = {}
    /\ orphans = {}
    /\ faults = 0

Fault == faults < MaxFaults /\ faults' = faults + 1

-----------------------------------------------------------------------------
(* Moves of one thread's registers.                                        *)

\* From p to q with the same task in hand; a new pc starts a new clock.
Step(i, p, q) ==
    /\ pc[i] = p
    /\ pc' = [pc EXCEPT ![i] = q]
    /\ clock' = [clock EXCEPT ![i] = 0]
    /\ UNCHANGED <<cur, msg, stage, scan>>

\* Take up task t, delivered by message m, at pc q.
TakeUp(i, t, m, q) ==
    /\ pc' = [pc EXCEPT ![i] = q]
    /\ cur' = [cur EXCEPT ![i] = t]
    /\ msg' = [msg EXCEPT ![i] = m]
    /\ clock' = [clock EXCEPT ![i] = 0]
    /\ UNCHANGED <<stage, scan>>

\* Back to the head of the loop with empty hands.
Drop(i, q) ==
    /\ pc' = [pc EXCEPT ![i] = q]
    /\ cur' = [cur EXCEPT ![i] = 0]
    /\ msg' = [msg EXCEPT ![i] = 0]
    /\ clock' = [clock EXCEPT ![i] = 0]
    /\ stage' = [stage EXCEPT ![i] = "none"]
    /\ scan' = [scan EXCEPT ![i] = {}]

-----------------------------------------------------------------------------
(* The API: create_task commits, then publish_task.                        *)

Create(t) ==
    /\ CreateRow(t)
    /\ unpublished' = unpublished \cup {t}
    /\ UNCHANGED <<brokerVars, threadVars, workerVars, orphans, faults>>

Publish(t) ==
    /\ t \in unpublished
    /\ unpublished' = unpublished \ {t}
    /\ XAdd(t)
    /\ UNCHANGED <<repoVars, threadVars, workerVars, orphans, faults>>

\* publish_task returns False, or the API process dies before it is called.
PublishFails(t) ==
    /\ t \in unpublished
    /\ Fault
    /\ unpublished' = unpublished \ {t}
    /\ UNCHANGED <<repoVars, brokerVars, threadVars, workerVars, orphans>>

-----------------------------------------------------------------------------
(* _run_thread and _recover_stale_if_needed.                               *)

\* while self._running
LoopEnds(i) ==
    /\ pc[i] = "top"
    /\ life[workerOf[i]] # "up"
    /\ Drop(i, "off")
    /\ UNCHANGED <<repoVars, brokerVars, workerVars, envVars>>

\* The interval has passed: the gate closes and stale rows are selected.
RecoverScan(i) ==
    /\ pc[i] = "top"
    /\ life[workerOf[i]] = "up"
    /\ recoverDue[workerOf[i]]
    /\ SerialRecovery => \A j \in Threads : pc[j] # "recover"
    /\ recoverDue' = [recoverDue EXCEPT ![workerOf[i]] = FALSE]
    /\ pc' = [pc EXCEPT ![i] = IF StaleTasks = {} THEN "fetch" ELSE "recover"]
    /\ scan' = [scan EXCEPT ![i] = StaleTasks]
    /\ UNCHANGED <<repoVars, brokerVars, cur, msg, clock, stage, life, redisOn,
                   backlog, reclaimDue, envVars>>

\* Mutant: the reset rows are not committed.
RecoverForgotten(i) ==
    /\ pc[i] = "recover"
    /\ pc' = [pc EXCEPT ![i] = "fetch"]
    /\ scan' = [scan EXCEPT ![i] = {}]
    /\ UNCHANGED <<repoVars, brokerVars, cur, msg, clock, stage, workerVars, envVars>>

\* The selected rows are reset and committed.
RecoverCommit(i) ==
    /\ pc[i] = "recover"
    /\ ResetRows(scan[i])
    /\ pc' = [pc EXCEPT ![i] = "fetch"]
    /\ scan' = [scan EXCEPT ![i] = {}]
    /\ UNCHANGED <<brokerVars, cur, msg, clock, stage, workerVars, envVars>>

-----------------------------------------------------------------------------
(* _process_next_task and _claim_pending_message.                          *)

AtFetch(i) ==
    \/ pc[i] = "fetch"
    \/ /\ pc[i] = "top"
       /\ life[workerOf[i]] = "up"
       /\ ~recoverDue[workerOf[i]]

First(S, m) == m \in S /\ \A n \in S : m <= n

\* self._pending_messages.popleft()
FetchBacklog(i) ==
    LET w == workerOf[i] IN
    /\ AtFetch(i)
    /\ redisOn[w]
    /\ \E m \in backlog[w] :
         /\ First(backlog[w], m)
         /\ backlog' = [backlog EXCEPT ![w] = @ \ {m}]
         /\ TakeUp(i, stream[m], m, "lookup")
    /\ UNCHANGED <<repoVars, brokerVars, life, redisOn, reclaimDue, recoverDue,
                   envVars>>

\* The backlog is empty and the reclaim interval has passed: take over every
\* idle delivery, run the first one and keep the others.
FetchReclaim(i) ==
    LET w == workerOf[i] IN
    /\ AtFetch(i)
    /\ redisOn[w]
    /\ backlog[w] = {}
    /\ reclaimDue[w]
    /\ \E m \in Reclaimable :
         /\ First(Reclaimable, m)
         /\ XClaim(Reclaimable)
         /\ backlog' = [backlog EXCEPT ![w] = Reclaimable \ {m}]
         /\ TakeUp(i, stream[m], m, "lookup")
    /\ reclaimDue' = [reclaimDue EXCEPT ![w] = FALSE]
    /\ UNCHANGED <<repoVars, life, redisOn, recoverDue, envVars>>

\* Nothing to take over, so consume_task; an attempt to reclaim shuts the gate.
FetchNew(i) ==
    LET w == workerOf[i] IN
    /\ AtFetch(i)
    /\ redisOn[w]
    /\ backlog[w] = {}
    /\ reclaimDue[w] => Reclaimable = {}
    /\ reclaimDue' = [reclaimDue EXCEPT ![w] = FALSE]
    /\ HasNew
    /\ XReadGroup
    /\ TakeUp(i, stream[delivered + 1], delivered + 1, "lookup")
    /\ UNCHANGED <<repoVars, life, redisOn, backlog, recoverDue, envVars>>

FetchNothing(i) ==
    LET w == workerOf[i] IN
    /\ AtFetch(i)
    /\ redisOn[w]
    /\ backlog[w] = {}
    /\ reclaimDue[w] => Reclaimable = {}
    /\ ~HasNew
    /\ reclaimDue' = [reclaimDue EXCEPT ![w] = FALSE]
    /\ pc' = [pc EXCEPT ![i] = "poll"]
    /\ UNCHANGED <<repoVars, brokerVars, cur, msg, clock, stage, scan, life,
                   redisOn, backlog, recoverDue, envVars>>

\* broker.enabled is False: the database is the only source of work.
FetchNoBroker(i) ==
    /\ AtFetch(i)
    /\ ~redisOn[workerOf[i]]
    /\ pc' = [pc EXCEPT ![i] = "poll"]
    /\ UNCHANGED <<repoVars, brokerVars, cur, msg, clock, stage, scan,
                   workerVars, envVars>>

\* A Redis call raises and the worker sees no message.  What the server did
\* before the reply was lost stays done: nothing, a delivery, or a claim.  After
\* the call that reclaims comes consume_task, after that the database.
FetchLost(i) ==
    LET w == workerOf[i] IN
    /\ AtFetch(i)
    /\ redisOn[w]
    /\ backlog[w] = {}
    /\ Fault
    /\ \/ /\ reclaimDue[w] /\ pc' = [pc EXCEPT ![i] = "fetch"]
          /\ UNCHANGED brokerVars \/ (Reclaimable # {} /\ XClaim(Reclaimable))
       \/ /\ reclaimDue[w] => Reclaimable = {}
          /\ UNCHANGED brokerVars \/ (HasNew /\ XReadGroup)
          /\ pc' = [pc EXCEPT ![i] = "poll"]
    /\ reclaimDue' = [reclaimDue EXCEPT ![w] = FALSE]
    /\ UNCHANGED <<repoVars, cur, msg, clock, stage, scan, life, redisOn,
                   backlog, recoverDue, unpublished, orphans>>

\* repo.claim_task(): the oldest pending row, or a sleep.
PollClaims(i) ==
    /\ pc[i] = "poll"
    /\ \E t \in Pending :
         /\ OldestPending(t)
         /\ ClaimRow(t)
         /\ TakeUp(i, t, 0, "recheck")
    /\ UNCHANGED <<brokerVars, workerVars, envVars>>

PollFindsNothing(i) ==
    /\ pc[i] = "poll"
    /\ Pending = {}
    /\ Drop(i, "top")
    /\ UNCHANGED <<repoVars, brokerVars, workerVars, envVars>>

-----------------------------------------------------------------------------
(* _execute_task.                                                          *)

\* already_claimed: the row is read again and must still be RUNNING.  The clock
\* goes on: it counts from the claim to the start of the process.
Recheck(i) ==
    /\ pc[i] = "recheck"
    /\ \/ /\ status[cur[i]] = "running"
          /\ pc' = [pc EXCEPT ![i] = "lock"]
          /\ UNCHANGED <<cur, msg, clock, stage, scan>>
       \/ status[cur[i]] # "running" /\ Drop(i, "top")
    /\ UNCHANGED <<repoVars, brokerVars, workerVars, envVars>>

\* Mutant: the early return does not ack.
LookupNoAck(i) ==
    /\ pc[i] = "lookup"
    /\ \/ status[cur[i]] = "pending" /\ Step(i, "lookup", "claim")
       \/ status[cur[i]] # "pending" /\ Drop(i, "top")
    /\ UNCHANGED <<repoVars, brokerVars, workerVars, envVars>>

\* From a message: a row that is not PENDING only needs the message acked.  (So
\* does one that is gone; no caller deletes tasks.)
Lookup(i) ==
    /\ pc[i] = "lookup"
    /\ \/ status[cur[i]] = "pending" /\ Step(i, "lookup", "claim")
       \/ status[cur[i]] # "pending" /\ Step(i, "lookup", "ack")
    /\ UNCHANGED <<repoVars, brokerVars, workerVars, envVars>>

\* repo.claim_task(id): someone else may have taken the row since Lookup.
Claim(i) ==
    /\ pc[i] = "claim"
    /\ \/ ClaimRow(cur[i]) /\ Step(i, "claim", "lock")
       \/ /\ status[cur[i]] # "pending"
          /\ UNCHANGED repoVars
          /\ Step(i, "claim", "ack")
    /\ UNCHANGED <<brokerVars, workerVars, envVars>>

\* worker_id and locked_at are committed and the handler process starts.
StartHandler(i) ==
    /\ pc[i] = "lock"
    /\ cur[i] \in Handled
    /\ pc' = [pc EXCEPT ![i] = "run"]
    /\ clock' = [clock EXCEPT ![i] = 0]
    /\ stage' = [stage EXCEPT ![i] = "body"]
    /\ UNCHANGED <<repoVars, brokerVars, cur, msg, scan, workerVars, envVars>>

\* No handler for the type, or process.start() raises: on to the FAILED write.
NoHandler(i) ==
    /\ Step(i, "lock", "fail")
    /\ UNCHANGED <<repoVars, brokerVars, workerVars, envVars>>

\* The process is gone and reported success: whatever it wrote stands.
Reap(i) ==
    /\ pc[i] = "run"
    /\ stage[i] = "exit"
    /\ pc' = [pc EXCEPT ![i] = "check"]
    /\ clock' = [clock EXCEPT ![i] = 0]
    /\ stage' = [stage EXCEPT ![i] = "none"]
    /\ UNCHANGED <<repoVars, brokerVars, cur, msg, scan, workerVars, envVars>>

\* The process died without a result.
ReapDead(i) ==
    /\ stage[i] = "none"
    /\ Step(i, "run", "fail")
    /\ UNCHANGED <<repoVars, brokerVars, workerVars, envVars>>

\* The deadline passes, or the worker is stopping, while the process is alive:
\* it is terminated, and may still write until it is dead.
Timeout(i) ==
    /\ clock[i] = MaxRuntime \/ life[workerOf[i]] # "up"
    /\ stage[i] \in {"body", "tail"}
    /\ Step(i, "run", "kill")
    /\ UNCHANGED <<repoVars, brokerVars, workerVars, envVars>>

Terminated(i) ==
    /\ pc[i] = "kill"
    /\ pc' = [pc EXCEPT ![i] = "fail"]
    /\ clock' = [clock EXCEPT ![i] = 0]
    /\ stage' = [stage EXCEPT ![i] = "none"]
    /\ UNCHANGED <<repoVars, brokerVars, cur, msg, scan, workerVars, envVars>>

\* update_task(FAILED) in the except branch and for a missing handler.
MarkFailed(i) ==
    /\ Step(i, "fail", "check")
    /\ UpdateStatus(cur[i], "failed")
    /\ UNCHANGED <<brokerVars, workerVars, envVars>>

\* The row is read back; a FAILED one with budget left is charged one retry.
CheckRetry(i) ==
    /\ pc[i] = "check"
    /\ \/ /\ status[cur[i]] = "failed" /\ ShouldRetry(cur[i])
          /\ BumpRetry(cur[i])
          /\ Step(i, "check", "requeue")
       \/ /\ ~(status[cur[i]] = "failed" /\ ShouldRetry(cur[i]))
          /\ UNCHANGED repoVars
          /\ Step(i, "check", "ack")
    /\ UNCHANGED <<brokerVars, workerVars, envVars>>

\* update_task(PENDING), a transaction of its own.
Requeue(i) ==
    /\ Step(i, "requeue", "publish")
    /\ UpdateStatus(cur[i], "pending")
    /\ UNCHANGED <<brokerVars, workerVars, envVars>>

\* broker.retry_task; with the broker disabled, or failing, nothing is sent.
Republish(i) ==
    /\ Step(i, "publish", "ack")
    /\ \/ redisOn[workerOf[i]] /\ XAdd(cur[i]) /\ UNCHANGED faults
       \/ ~redisOn[workerOf[i]] /\ UNCHANGED <<brokerVars, faults>>
       \/ redisOn[workerOf[i]] /\ Fault /\ UNCHANGED brokerVars
    /\ UNCHANGED <<repoVars, workerVars, unpublished, orphans>>

\* broker.ack_task; without a message id it does nothing.
Ack(i) ==
    /\ pc[i] = "ack"
    /\ Drop(i, "top")
    /\ \/ msg[i] # 0 /\ XAck(msg[i]) /\ UNCHANGED faults
       \/ msg[i] = 0 /\ UNCHANGED <<brokerVars, faults>>
       \/ msg[i] # 0 /\ Fault /\ UNCHANGED brokerVars
    /\ UNCHANGED <<repoVars, workerVars, unpublished, orphans>>

\* A database call raises: _run_thread logs it and goes on; nothing is acked.
DatabaseRaises(i) ==
    /\ pc[i] \in {"recover", "poll", "recheck", "lookup", "claim", "lock",
                  "fail", "check", "requeue"}
    /\ Fault
    /\ Drop(i, "top")
    /\ UNCHANGED <<repoVars, brokerVars, workerVars, unpublished, orphans>>

-----------------------------------------------------------------------------
(* The handler process: agent_task_handler or process_document_task.  The  *)
(* body ends with a SUCCESS or FAILED write; after SUCCESS come usage,     *)
(* billing or the document's status, and if one raises, FAILED.            *)

Alive(i) == pc[i] \in {"run", "kill"}

HandlerSucceeds(i) ==
    /\ Alive(i) /\ stage[i] = "body"
    /\ UpdateStatus(cur[i], "success")
    /\ stage' = [stage EXCEPT ![i] = "tail"]
    /\ UNCHANGED <<brokerVars, pc, cur, msg, clock, scan, workerVars, envVars>>

HandlerFails(i) ==
    /\ Alive(i) /\ stage[i] \in {"body", "tail"}
    /\ UpdateStatus(cur[i], "failed")
    /\ stage' = [stage EXCEPT ![i] = "exit"]
    /\ UNCHANGED <<brokerVars, pc, cur, msg, clock, scan, workerVars, envVars>>

HandlerReturns(i) ==
    /\ Alive(i) /\ stage[i] = "tail"
    /\ stage' = [stage EXCEPT ![i] = "exit"]
    /\ UNCHANGED <<repoVars, brokerVars, pc, cur, msg, clock, scan, workerVars,
                   envVars>>

HandlerDies(i) ==
    /\ Alive(i) /\ stage[i] \in {"body", "tail"}
    /\ stage' = [stage EXCEPT ![i] = "none"]
    /\ UNCHANGED <<repoVars, brokerVars, pc, cur, msg, clock, scan, workerVars,
                   envVars>>

\* A handler process whose worker is gone: nobody waits for it, nobody stops it.
OrphanSucceeds(o) ==
    /\ o \in orphans /\ o[2] = "body"
    /\ UpdateStatus(o[1], "success")
    /\ orphans' = (orphans \ {o}) \cup {<<o[1], "tail">>}
    /\ UNCHANGED <<brokerVars, threadVars, workerVars, unpublished, faults>>

OrphanFails(o) ==
    /\ o \in orphans
    /\ UpdateStatus(o[1], "failed")
    /\ orphans' = orphans \ {o}
    /\ UNCHANGED <<brokerVars, threadVars, workerVars, unpublished, faults>>

OrphanEnds(o) ==
    /\ o \in orphans
    /\ orphans' = orphans \ {o}
    /\ UNCHANGED <<repoVars, brokerVars, threadVars, workerVars, unpublished,
                   faults>>

-----------------------------------------------------------------------------
(* The worker process.                                                     *)

\* stop(): _running = False; the threads notice on their own.
Stop(w) ==
    /\ life[w] = "up"
    /\ Fault
    /\ life' = [life EXCEPT ![w] = "stopping"]
    /\ UNCHANGED <<repoVars, brokerVars, threadVars, redisOn, backlog,
                   reclaimDue, recoverDue, unpublished, orphans>>

Children(w) ==
    {<<cur[i], stage[i]>> : i \in {j \in Threads :
        workerOf[j] = w /\ Alive(j) /\ stage[j] \in {"body", "tail"}}}

\* The process ends: killed at any moment, or after stop() joined its threads
\* or gave up on them.  Handler processes die with the container, or survive.
Exit(w) ==
    /\ life[w] # "down"
    /\ IF life[w] = "up" THEN Fault ELSE UNCHANGED faults
    /\ life' = [life EXCEPT ![w] = "down"]
    /\ pc' = [i \in Threads |-> IF workerOf[i] = w THEN "off" ELSE pc[i]]
    /\ cur' = [i \in Threads |-> IF workerOf[i] = w THEN 0 ELSE cur[i]]
    /\ msg' = [i \in Threads |-> IF workerOf[i] = w THEN 0 ELSE msg[i]]
    /\ clock' = [i \in Threads |-> IF workerOf[i] = w THEN 0 ELSE clock[i]]
    /\ stage' = [i \in Threads |-> IF workerOf[i] = w THEN "none" ELSE stage[i]]
    /\ scan' = [i \in Threads |-> IF workerOf[i] = w THEN {} ELSE scan[i]]
    /\ backlog' = [backlog EXCEPT ![w] = {}]
    /\ \/ UNCHANGED orphans
       \/ OrphansSurvive /\ orphans' = orphans \cup Children(w)
    /\ UNCHANGED <<repoVars, brokerVars, redisOn, reclaimDue, recoverDue,
                   unpublished>>

\* restart: unless-stopped; __init__ and start().  A failed first ping turns
\* the broker off for the life of the process.
Restart(w) ==
    /\ life[w] = "down"
    /\ life' = [life EXCEPT ![w] = "up"]
    /\ pc' = [i \in Threads |-> IF workerOf[i] = w THEN "top" ELSE pc[i]]
    /\ scan' = [i \in Threads |-> IF workerOf[i] = w THEN {} ELSE scan[i]]
    /\ reclaimDue' = [reclaimDue EXCEPT ![w] = TRUE]
    /\ recoverDue' = [recoverDue EXCEPT ![w] = FALSE]
    /\ \/ redisOn' = [redisOn EXCEPT ![w] = TRUE] /\ UNCHANGED faults
       \/ redisOn' = [redisOn EXCEPT ![w] = FALSE] /\ Fault
    /\ UNCHANGED <<repoVars, brokerVars, cur, msg, clock, stage, backlog,
                   unpublished, orphans>>

\* One tick: rows, deliveries and clocks age, the interval gates open.  Live
\* threads are never later than their limits.
Tick ==
    /\ \A i \in Threads : pc[i] \in Timed => clock[i] < Limit(pc[i])
    /\ AgeRows
    /\ AgePel
    /\ clock' = [i \in Threads |->
                    IF pc[i] \in Timed THEN clock[i] + 1 ELSE clock[i]]
    /\ reclaimDue' = [w \in Workers |-> reclaimDue[w] \/ life[w] = "up"]
    /\ recoverDue' = [w \in Workers |-> recoverDue[w] \/ life[w] = "up"]
    /\ UNCHANGED <<pc, cur, msg, stage, scan, life, redisOn, backlog, envVars>>

-----------------------------------------------------------------------------
Execute(i) ==
    \/ Recheck(i) \/ Lookup(i) \/ Claim(i)
    \/ StartHandler(i) \/ NoHandler(i)
    \/ Reap(i) \/ ReapDead(i) \/ Timeout(i) \/ Terminated(i)
    \/ MarkFailed(i) \/ CheckRetry(i) \/ Requeue(i)
    \/ Republish(i) \/ Ack(i)

Fetch(i) ==
    \/ FetchBacklog(i) \/ FetchReclaim(i) \/ FetchNew(i) \/ FetchNothing(i)
    \/ FetchNoBroker(i) \/ PollClaims(i) \/ PollFindsNothing(i)

Loop(i) == LoopEnds(i) \/ RecoverScan(i) \/ RecoverCommit(i)

Handler(i) ==
    HandlerSucceeds(i) \/ HandlerFails(i) \/ HandlerReturns(i) \/ HandlerDies(i)

Orphan(o) == OrphanSucceeds(o) \/ OrphanFails(o) \/ OrphanEnds(o)

Client(t) == Create(t) \/ Publish(t) \/ PublishFails(t)

Process(w) == Stop(w) \/ Exit(w) \/ Restart(w)

Next ==
    \/ \E t \in Tasks : Client(t)
    \/ \E i \in Threads : Loop(i) \/ Fetch(i) \/ FetchLost(i) \/ Execute(i)
                            \/ DatabaseRaises(i) \/ Handler(i)
    \/ \E o \in orphans : Orphan(o)
    \/ \E w \in Workers : Process(w)
    \/ Tick

Spec == Init /\ [][Next]_vars

\* Threads are scheduled, time passes, a stopped process exits and a dead one is
\* restarted.  Nothing is assumed of clients, handlers or orphans.
Fairness ==
    /\ \A i \in Threads : WF_vars(Loop(i) \/ Fetch(i) \/ Execute(i))
    /\ \A t \in Tasks : WF_vars(Publish(t))
    /\ \A w \in Workers : WF_vars(Restart(w)) /\ WF_vars(life[w] = "stopping" /\ Exit(w))
    /\ WF_vars(Tick)

FairSpec == Spec /\ Fairness

-----------------------------------------------------------------------------
(* Properties.                                                             *)

\* Type invariant of the table, the stream, the threads and the processes.
ThreadTypeOK ==
    /\ pc \in [Threads -> Pcs]
    /\ cur \in [Threads -> Tasks \cup {0}]
    /\ msg \in [Threads -> Nat]
    /\ clock \in [Threads -> Nat]
    /\ stage \in [Threads -> Stages]
    /\ scan \in [Threads -> SUBSET Tasks]

WorkerTypeOK ==
    /\ life \in [Workers -> {"up", "stopping", "down"}]
    /\ redisOn \in [Workers -> BOOLEAN]
    /\ backlog \in [Workers -> SUBSET Nat]
    /\ \A w \in Workers : backlog[w] \subseteq 1..delivered
    /\ reclaimDue \in [Workers -> BOOLEAN]
    /\ recoverDue \in [Workers -> BOOLEAN]

EnvTypeOK ==
    /\ unpublished \in SUBSET Tasks
    /\ orphans \in SUBSET (Tasks \X {"body", "tail"})
    /\ faults \in 0..MaxFaults

TypeOK ==
    RepoTypeOK /\ BrokerTypeOK(Tasks) /\ ThreadTypeOK /\ WorkerTypeOK /\ EnvTypeOK

\* Two live threads never work on the same task between the claim and the write
\* that ends the attempt, whatever is reclaimed, redelivered or recovered
\* meanwhile (claim_task, _recover_stale_if_needed, claim_pending_tasks).
OneHolder ==
    \A i, j \in Threads : \A t \in Tasks :
        Holds(i, t) /\ Holds(j, t) => i = j

\* Every attempt is paid for: a row is claimed once for its creation, once for
\* each retry charged to it and once for each recovery, so duplicate messages
\* and the database poll never start an attempt of their own (_execute_task).
AttemptsAccounted ==
    \A t \in Tasks : claims[t] <= 1 + retry[t] + recovered[t]

\* A row whose thread is alive is never selected by stale recovery: the grace
\* covers start-up, termination and the FAILED write (worker.py:41).
NeverStaleWhileHeld ==
    \A i \in Threads : \A t \in Tasks : Holds(i, t) => t \notin StaleTasks

\* The rows move only as a polling client may expect (TaskLifecycle).
Lifecycle == INSTANCE TaskLifecycle
LifecycleSpec == Lifecycle!Spec

\* Every created task comes to rest in SUCCESS or FAILED, whatever crashes, hangs
\* or is lost on the way (database poll, timeout, stale recovery, restart).
Settles ==
    \A t \in Tasks : <>[](status[t] \in {"absent", "success", "failed"})

\* No message stays pending for ever while some worker reaches Redis (the
\* comment of _execute_task: ack "to prevent a permanent pending message").
Drains ==
    <>[](\E w \in Workers : redisOn[w]) => <>[](pel = {} /\ ~HasNew)

\* A failed task has used up its retries ("retry handled by worker").
FailedOnlyWhenExhausted ==
    \A t \in Tasks : <>[](status[t] = "failed" => retry[t] = MaxRetry)
-----------------------------------------------------------------------------
(* The inductive invariant behind OneHolder, AttemptsAccounted and         *)
(* NeverStaleWhileHeld, in named parts.                                    *)

\* Past the fetch a thread has a task in hand.
Busy == Holding \cup {"lookup", "claim", "publish", "ack"}
InHand == \A i \in Threads : pc[i] \in Busy => cur[i] \in Tasks

\* The most a row can have aged when its thread arrives at p.
AgeOnArrival(p) ==
    CASE p \in {"recheck", "lock"} -> 0
      [] p = "run" -> Delay
      [] p = "kill" -> Delay + MaxRuntime
      [] OTHER -> 2 * Delay + MaxRuntime

\* A held row is not up for grabs, and while it is RUNNING its age is explained
\* by the limits of the steps since the claim.
HeldRow(i, t) ==
    /\ status[t] \in {"running", "success", "failed"}
    /\ status[t] = "running" =>
          /\ pc[i] \in Timed
          /\ age[t] <= AgeOnArrival(pc[i]) + clock[i]
    /\ pc[i] \in {"run", "kill"} /\ stage[i] \in {"tail", "exit"} =>
          status[t] # "running"
HeldRows == \A i \in Threads : \A t \in Tasks : Holds(i, t) => HeldRow(i, t)

\* Live threads are never late.
InTime == \A i \in Threads : pc[i] \in Timed => clock[i] <= Limit(pc[i])

\* What recovery has selected nobody holds, and nobody can claim.
Scanned ==
    \A i \in Threads :
        /\ scan[i] # {} => pc[i] = "recover"
        /\ \A t \in scan[i] :
              /\ status[t] \in {"running", "success", "failed"}
              /\ ~OrphansSurvive => status[t] = "running"
              /\ \A j \in Threads : ~Holds(j, t)

\* Recoveries do not overlap.
OneRecovery ==
    \A i, j \in Threads : pc[i] = "recover" /\ pc[j] = "recover" => i = j

\* A row that can be claimed still has a claim to its credit, and so has the row
\* a thread is about to put back.
Credit ==
    \A t \in Tasks :
        /\ claims[t] <= 1 + retry[t] + recovered[t]
        /\ status[t] \in {"absent", "pending"} =>
              claims[t] <= retry[t] + recovered[t]
        /\ \A i \in Threads : pc[i] = "requeue" /\ cur[i] = t =>
              claims[t] <= retry[t] + recovered[t]

\* Handler processes outlive their worker only where that can happen.
OrphansAllowed == orphans # {} => OrphansSurvive

\* What the thread's place says of the row it holds, where nobody but the holder
\* and its handler process writes it.
Tracks(i, t) ==
    /\ pc[i] \in {"recheck", "lock"} => status[t] = "running"
    /\ pc[i] \in {"run", "kill"} /\ stage[i] = "body" => status[t] = "running"
    /\ pc[i] \in {"run", "kill"} /\ stage[i] = "tail" => status[t] = "success"
    /\ pc[i] = "requeue" => status[t] = "failed" /\ retry[t] > 0
Tracked == \A i \in Threads : \A t \in Tasks : Holds(i, t) => Tracks(i, t)

IInv ==
    /\ TypeOK /\ InHand /\ InTime /\ OneHolder /\ HeldRows
    /\ Scanned /\ OneRecovery /\ Credit /\ OrphansAllowed
=============================================================================
