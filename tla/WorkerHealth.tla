---------------------------- MODULE WorkerHealth ----------------------------
(***************************************************************************)
(* The worker's heartbeat: a row in the database, then a file that the     *)
(* container's health check reads.  One container: worker processes follow  *)
(* each other, the file outlives them, and a pid may be given to a later   *)
(* process.                                                                *)
(***************************************************************************)
EXTENDS Integers

CONSTANTS
    Pids,          \* process ids of the container
    BeatInterval,  \* HEARTBEAT_INTERVAL
    MaxAge,        \* WORKER_HEALTH_MAX_AGE
    Lag,           \* longest time a heartbeat takes, in clock steps
    LastTick       \* bound on the clock

ASSUME HealthAssumption ==
    /\ BeatInterval \in Nat /\ MaxAge \in Nat /\ Lag \in Nat /\ LastTick \in Nat
    \* The default is max(60, 3 * HEARTBEAT_INTERVAL).  WORKER_HEALTH_MAX_AGE may be
    \* any positive number; one below this makes a living worker look dead.
    /\ BeatInterval + 2 * Lag <= MaxAge
    /\ 0 \notin Pids

VARIABLES
    clock,      \* time
    worker,     \* process: state, pid
    beat,       \* heartbeat thread: where it is and since when
    dbUp,       \* does the database answer?
    signal,     \* the health file: pid and timestamp, pid 0 when absent
    running,    \* pids of processes that exist
    lastBeat,   \* time of the last committed heartbeat (for the properties)
    steadyFrom  \* since when the worker runs undisturbed (likewise)

healthVars == <<clock, worker, beat, dbUp, signal, running, lastBeat, steadyFrom>>

NoSignal == [pid |-> 0, at |-> 0]

HealthTypeOK ==
    /\ clock \in 0 .. LastTick /\ dbUp \in BOOLEAN /\ running \subseteq Pids
    /\ worker.state \in {"down", "up", "stopping"} /\ worker.pid \in Pids \cup {0}
    /\ beat.at \in {"none", "send", "write", "wait"} /\ beat.since \in 0 .. LastTick
    /\ signal.pid \in Pids \cup {0} /\ signal.at \in 0 .. LastTick

HealthInit ==
    /\ clock = 0 /\ worker = [state |-> "down", pid |-> 0]
    /\ beat = [at |-> "none", since |-> 0] /\ dbUp = TRUE
    /\ signal = NoSignal /\ running = {} /\ lastBeat = -1 /\ steadyFrom = 0

\* TaskWorker.start: the first heartbeat is sent before any thread runs.
WorkerStart ==
    /\ worker.state = "down"
    /\ \E p \in Pids \ running :
        worker' = [state |-> "up", pid |-> p] /\ running' = running \cup {p}
    /\ beat' = [at |-> "send", since |-> clock] /\ steadyFrom' = clock
    /\ UNCHANGED <<clock, dbUp, signal, lastBeat>>

\* Mutant: the file is written whether or not the database took the heartbeat.
SendRegardless ==
    /\ beat.at = "send"
    /\ beat' = [beat EXCEPT !.at = "write"]
    /\ lastBeat' = IF dbUp THEN clock ELSE lastBeat
    /\ UNCHANGED <<clock, worker, dbUp, signal, running, steadyFrom>>
\* _send_with_db: the node is registered or its last_seen moves; a failure is
\* rolled back and no signal is written.
Send ==
    /\ beat.at = "send"
    /\ IF dbUp THEN beat' = [beat EXCEPT !.at = "write"] /\ lastBeat' = clock
       ELSE beat' = [at |-> "wait", since |-> clock] /\ UNCHANGED lastBeat
    /\ UNCHANGED <<clock, worker, dbUp, signal, running, steadyFrom>>

\* _write_health_signal: a temporary file takes the place of the old one.
WriteSignal ==
    /\ beat.at = "write"
    /\ signal' = [pid |-> worker.pid, at |-> clock]
    /\ beat' = [at |-> "wait", since |-> clock]
    /\ UNCHANGED <<clock, worker, dbUp, running, lastBeat, steadyFrom>>
SignalFails ==
    /\ beat.at = "write"
    /\ beat' = [at |-> "wait", since |-> clock] /\ steadyFrom' = clock
    /\ UNCHANGED <<clock, worker, dbUp, signal, running, lastBeat>>

\* _health_loop: the next heartbeat an interval after the last one ended.
BeatDue == beat.at = "wait" /\ clock - beat.since >= BeatInterval
NextBeat ==
    /\ worker.state = "up" /\ BeatDue
    /\ beat' = [at |-> "send", since |-> clock]
    /\ UNCHANGED <<clock, worker, dbUp, signal, running, lastBeat, steadyFrom>>

\* stop: the join of the heartbeat thread gives up after ten seconds, so the
\* thread may still write after the file was removed.
StopClear ==
    /\ worker.state = "up"
    /\ worker' = [worker EXCEPT !.state = "stopping"] /\ signal' = NoSignal
    /\ UNCHANGED <<clock, beat, dbUp, running, lastBeat, steadyFrom>>

\* The process ends, after a stop or by being killed.
WorkerExit ==
    /\ worker.state # "down"
    /\ worker' = [state |-> "down", pid |-> 0] /\ running' = running \ {worker.pid}
    /\ beat' = [at |-> "none", since |-> 0]
    /\ UNCHANGED <<clock, dbUp, signal, lastBeat, steadyFrom>>

\* Another process of the container takes or returns a pid.
OtherProcess ==
    /\ \E p \in Pids \ {worker.pid} :
        running' = IF p \in running THEN running \ {p} ELSE running \cup {p}
    /\ UNCHANGED <<clock, worker, beat, dbUp, signal, lastBeat, steadyFrom>>

Database ==
    /\ dbUp' = ~dbUp /\ steadyFrom' = clock
    /\ UNCHANGED <<clock, worker, beat, signal, running, lastBeat>>

\* Threads of a running process are scheduled: a heartbeat ends within Lag and
\* starts within Lag of being due.
OnTime ==
    worker.state = "up" =>
        /\ beat.at \in {"send", "write"} => clock - beat.since < Lag
        /\ beat.at = "wait" => clock - beat.since < BeatInterval + Lag
HealthTick ==
    /\ clock < LastTick /\ OnTime
    /\ beat.at = "write" => clock - lastBeat < Lag
    /\ clock' = clock + 1
    /\ UNCHANGED <<worker, beat, dbUp, signal, running, lastBeat, steadyFrom>>

HealthNext ==
    \/ WorkerStart \/ Send \/ WriteSignal \/ SignalFails \/ NextBeat
    \/ StopClear \/ WorkerExit \/ OtherProcess \/ Database \/ HealthTick

HealthSpec == HealthInit /\ [][HealthNext]_healthVars

\* read_worker_health: present, not too old, and its process exists.  The clock
\* does not go back, so no signal is from the future, which is refused too.
Healthy ==
    /\ signal.pid # 0
    /\ clock - signal.at <= MaxAge
    /\ signal.pid \in running

(* ----------------------------- properties ------------------------------ *)

\* The health check never vouches for a worker whose last heartbeat in the
\* database is older than the limit and the time one takes, whoever was killed
\* where: a reused pid can lend a dead worker that long and no longer.  And it
\* vouches for every worker that has run undisturbed for one heartbeat.
HealthTruthful ==
    /\ Healthy => lastBeat >= 0 /\ clock - lastBeat <= MaxAge + Lag
    /\ worker.state = "up" /\ dbUp /\ clock - steadyFrom > BeatInterval + 2 * Lag
         => Healthy
============================================================================
