------------------------- MODULE ReliabilityPipeline -------------------------
(***************************************************************************)
(* ReliabilityEngine.execute_pipeline of agent/reliability around the      *)
(* execution of a request: health check, rate limiter, timeout, retry,     *)
(* circuit breaker and fallback, each wrapping the next.  The first two    *)
(* run on the caller's thread.  The timeout submits the rest to an executor*)
(* with a single thread and waits; a caller that gives up leaves its job   *)
(* behind, queued or running.  The mechanisms are shared by all calls and  *)
(* use no lock.  (core_engine.py builds the runtime without a reliability  *)
(* engine; it is there for a composition root that passes one.)            *)
(*                                                                         *)
(* The provider may answer, raise or hang.  Ages are in ticks and stop at  *)
(* the limit they are compared with.                                       *)
(***************************************************************************)
EXTENDS Integers, Sequences, FiniteSets

CONSTANTS Calls,       \* executions of the pipeline
          Interval,    \* HealthCheckPolicy.interval_ms
          MaxRequests, Window,      \* RateLimiterPolicy
          Deadline,    \* TimeoutPolicy.timeout_ms
          MaxRetries,  \* RetryPolicy.max_retries
          Threshold, Recovery,      \* CircuitBreakerPolicy
          Fallbacks    \* the fallback policies to consider

FallbackModes == {"disabled", "unset", "value", "function"}

ASSUME ReliabilityAssumption ==
    /\ Interval \in Nat \ {0} /\ MaxRequests \in Nat /\ Window \in Nat \ {0}
    /\ Deadline \in Nat \ {0} /\ MaxRetries \in Nat
    /\ Threshold \in Nat \ {0} /\ Recovery \in Nat
    /\ Fallbacks \subseteq FallbackModes

VARIABLES place,     \* of each caller
          waited,    \* ticks it has waited for its job
          healthy, checkAge,       \* _is_healthy, time since _last_check_time
          stamps,    \* calls with an entry in _timestamps
          stampAge,  \* time since a call took its timestamp
          fresh,     \* the list a caller has computed and not yet assigned
          queue,     \* of the executor
          job,       \* what the executor has done for a call
          attempt,   \* of the retry loop
          circuit, failures, failAge,   \* the breaker
          fallback,  \* the policy in use
          output,    \* calls whose execution has appended its output
          degraded   \* calls whose fallback stood in

callerVars == <<place, waited>>
healthVars == <<healthy, checkAge>>
limiterVars == <<stamps, stampAge, fresh>>
jobVars == <<queue, job, attempt, output, degraded>>
breakerVars == <<circuit, failures, failAge>>
relVars == <<callerVars, healthVars, limiterVars, jobVars, breakerVars, fallback>>

RelInit ==
    /\ place = [c \in Calls |-> "idle"]
    /\ waited = [c \in Calls |-> 0]
    /\ healthy = TRUE /\ checkAge = Interval
    /\ stamps = {} /\ stampAge = [c \in Calls |-> Window]
    /\ fresh = [c \in Calls |-> {}]
    /\ queue = <<>>
    /\ job = [c \in Calls |-> "none"]
    /\ attempt = [c \in Calls |-> 0]
    /\ circuit = "closed" /\ failures = 0 /\ failAge = Recovery
    /\ fallback \in Fallbacks
    /\ output = {} /\ degraded = {}

GoTo(c, p) == place' = [place EXCEPT ![c] = p]

-----------------------------------------------------------------------------
(* On the caller's thread.                                                 *)

\* HealthCheck: the cached verdict is used until it is Interval old; a due check
\* first takes the new time and then asks.
HealthCached(c) ==
    /\ place[c] = "idle"
    /\ checkAge < Interval
    /\ GoTo(c, IF healthy THEN "limit" ELSE "error")
    /\ UNCHANGED <<waited, healthVars, limiterVars, jobVars, breakerVars, fallback>>

HealthDue(c) ==
    /\ place[c] = "idle"
    /\ checkAge = Interval
    /\ checkAge' = 0
    /\ GoTo(c, "check")
    /\ UNCHANGED <<waited, healthy, limiterVars, jobVars, breakerVars, fallback>>

HealthAnswer(c) ==
    /\ place[c] = "check"
    /\ healthy' \in BOOLEAN
    /\ GoTo(c, IF healthy' THEN "limit" ELSE "error")
    /\ UNCHANGED <<waited, checkAge, limiterVars, jobVars, breakerVars, fallback>>

\* RateLimiter: the list without the old entries is computed ...
LimitRead(c) ==
    /\ place[c] = "limit"
    /\ fresh' = [fresh EXCEPT ![c] = {d \in stamps : stampAge[d] < Window}]
    /\ GoTo(c, "count")
    /\ UNCHANGED <<waited, healthVars, stamps, stampAge, jobVars, breakerVars, fallback>>

\* ... assigned and counted ...
LimitCount(c) ==
    /\ place[c] = "count"
    /\ stamps' = fresh[c]
    /\ fresh' = [fresh EXCEPT ![c] = {}]
    /\ GoTo(c, IF Cardinality(fresh[c]) >= MaxRequests THEN "error" ELSE "admit")
    /\ UNCHANGED <<waited, healthVars, stampAge, jobVars, breakerVars, fallback>>

\* ... and appended to; then the timeout submits the rest of the chain.
Admit(c) ==
    /\ place[c] = "admit"
    /\ stamps' = stamps \cup {c}
    /\ stampAge' = [stampAge EXCEPT ![c] = 0]
    /\ queue' = Append(queue, c)
    /\ job' = [job EXCEPT ![c] = "queued"]
    /\ GoTo(c, "wait")
    /\ UNCHANGED <<waited, healthVars, fresh, attempt, output, degraded, breakerVars,
                   fallback>>

\* Mutant: an unsuccessful result is not raised by the wrapper.
ResultIgnored(c) ==
    /\ place[c] = "wait"
    /\ job[c] \in {"success", "failure"}
    /\ GoTo(c, "ok")
    /\ UNCHANGED <<waited, healthVars, limiterVars, jobVars, breakerVars, fallback>>

\* future.result returns or raises.
Result(c) ==
    /\ place[c] = "wait"
    /\ job[c] \in {"success", "failure"}
    /\ GoTo(c, IF job[c] = "success" THEN "ok" ELSE "error")
    /\ UNCHANGED <<waited, healthVars, limiterVars, jobVars, breakerVars, fallback>>

\* Mutant: future.result() without a timeout.
TimeoutNever(c) == place[c] = "never" /\ UNCHANGED relVars

\* future.result times out; the job is not cancelled.
Timeout(c) ==
    /\ place[c] = "wait"
    /\ job[c] \notin {"success", "failure"}
    /\ waited[c] = Deadline
    /\ GoTo(c, "error")
    /\ UNCHANGED <<waited, healthVars, limiterVars, jobVars, breakerVars, fallback>>

-----------------------------------------------------------------------------
(* On the executor's thread: retry around breaker around fallback.         *)

Running == {c \in Calls : job[c] \in {"attempt", "calling", "backoff"}}

\* Mutant: the executor has as many threads as it likes.
JobStartUnbounded(c) ==
    /\ queue # <<>> /\ Head(queue) = c
    /\ queue' = Tail(queue)
    /\ job' = [job EXCEPT ![c] = "attempt"]
    /\ UNCHANGED <<callerVars, healthVars, limiterVars, attempt, output, degraded,
                   breakerVars, fallback>>

\* _TIMEOUT_EXECUTOR has one thread for the whole process.
JobStart(c) ==
    /\ queue # <<>> /\ Head(queue) = c
    /\ Running = {}
    /\ queue' = Tail(queue)
    /\ job' = [job EXCEPT ![c] = "attempt"]
    /\ UNCHANGED <<callerVars, healthVars, limiterVars, attempt, output, degraded,
                   breakerVars, fallback>>

\* Mutant: one attempt too many.
AttemptFailsOnceMore(c) ==
    job' = [job EXCEPT ![c] = IF attempt[c] <= MaxRetries THEN "backoff" ELSE "failure"]

\* The retry loop after an attempt raised: sleep, or give up.
AttemptFails(c) ==
    job' = [job EXCEPT ![c] = IF attempt[c] < MaxRetries THEN "backoff" ELSE "failure"]

BackoffEnds(c) ==
    /\ job[c] = "backoff"
    /\ attempt' = [attempt EXCEPT ![c] = @ + 1]
    /\ job' = [job EXCEPT ![c] = "attempt"]
    /\ UNCHANGED <<callerVars, healthVars, limiterVars, queue, output, degraded,
                   breakerVars, fallback>>

\* _on_success
OnSuccess ==
    /\ circuit' = "closed"
    /\ failures' = 0
    /\ UNCHANGED failAge

\* _on_failure; counts beyond the threshold are alike.
OnFailure ==
    /\ failures' = IF failures < Threshold THEN failures + 1 ELSE failures
    /\ failAge' = 0
    /\ circuit' = IF circuit = "half_open" \/ failures' = Threshold THEN "open" ELSE circuit

\* What the breaker does with the outcome of the call it let through.
AttemptSucceeds(c) == OnSuccess /\ job' = [job EXCEPT ![c] = "success"]
AttemptRaises(c) == OnFailure /\ AttemptFails(c)

\* The breaker rejects: open, and not for long enough.
Rejected(c) ==
    /\ job[c] = "attempt"
    /\ circuit = "open" /\ failAge < Recovery
    /\ AttemptFails(c)
    /\ UNCHANGED <<callerVars, healthVars, limiterVars, queue, attempt, output, degraded,
                   breakerVars, fallback>>

\* It lets the call through, half-open if it was open.
Admitted(c) ==
    /\ job[c] = "attempt"
    /\ ~(circuit = "open" /\ failAge < Recovery)
    /\ fallback # "disabled"
    /\ circuit' = IF circuit = "open" THEN "half_open" ELSE circuit
    /\ job' = [job EXCEPT ![c] = "calling"]
    /\ UNCHANGED <<callerVars, healthVars, limiterVars, queue, attempt, output, degraded,
                   failures, failAge, fallback>>

\* A disabled fallback reports success and does not call the primary.
Bypassed(c) ==
    /\ job[c] = "attempt"
    /\ ~(circuit = "open" /\ failAge < Recovery)
    /\ fallback = "disabled"
    /\ AttemptSucceeds(c)
    /\ UNCHANGED <<callerVars, healthVars, limiterVars, queue, attempt, output, degraded,
                   fallback>>

Answers(c) ==
    /\ job[c] = "calling"
    /\ output' = output \cup {c}
    /\ AttemptSucceeds(c)
    /\ UNCHANGED <<callerVars, healthVars, limiterVars, queue, attempt, degraded, fallback>>

\* The primary raises: without a fallback, or when that raises too, the attempt
\* has failed; otherwise it has succeeded, without an output.
Raises(c) ==
    /\ job[c] = "calling"
    /\ \/ /\ fallback \in {"unset", "function"}
          /\ AttemptRaises(c)
          /\ UNCHANGED degraded
       \/ /\ fallback \in {"value", "function"}
          /\ AttemptSucceeds(c)
          /\ degraded' = degraded \cup {c}
    /\ UNCHANGED <<callerVars, healthVars, limiterVars, queue, attempt, output, fallback>>

-----------------------------------------------------------------------------
Older(age, limit) == IF age < limit THEN age + 1 ELSE age

\* A tick; a caller does not oversleep its deadline.
TimePasses ==
    /\ \A c \in Calls : place[c] = "wait" => waited[c] < Deadline
    /\ checkAge' = Older(checkAge, Interval)
    /\ failAge' = Older(failAge, Recovery)
    /\ stampAge' = [c \in Calls |-> Older(stampAge[c], Window)]
    /\ waited' = [c \in Calls |-> IF place[c] = "wait" THEN waited[c] + 1 ELSE waited[c]]
    /\ UNCHANGED <<place, healthy, stamps, fresh, jobVars, circuit, failures, fallback>>

Begin(c) == HealthCached(c) \/ HealthDue(c)

Caller(c) ==
    HealthAnswer(c) \/ LimitRead(c) \/ LimitCount(c) \/ Admit(c) \/ Result(c) \/ Timeout(c)

Executor(c) == JobStart(c) \/ BackoffEnds(c) \/ Rejected(c) \/ Admitted(c) \/ Bypassed(c)

Provider(c) == Answers(c) \/ Raises(c)

RelNext ==
    \/ \E c \in Calls : Begin(c) \/ Caller(c) \/ Executor(c) \/ Provider(c)
    \/ TimePasses

RelSpec == RelInit /\ [][RelNext]_relVars

\* Callers are scheduled and time passes.  Nothing is assumed of the provider,
\* and therefore nothing of the executor.
RelFairness ==
    /\ \A c \in Calls : WF_relVars(Caller(c))
    /\ WF_relVars(TimePasses)

-----------------------------------------------------------------------------
(* Properties.                                                             *)

\* Type invariant; the retry loop stays within max_retries.
RelTypeOK ==
    /\ place \in [Calls -> {"idle", "check", "limit", "count", "admit", "wait", "ok",
                            "error"}]
    /\ waited \in [Calls -> 0..Deadline]
    /\ healthy \in BOOLEAN /\ checkAge \in 0..Interval
    /\ stamps \subseteq Calls /\ stampAge \in [Calls -> 0..Window]
    /\ fresh \in [Calls -> SUBSET Calls]
    /\ \A k \in DOMAIN queue : queue[k] \in Calls
    /\ job \in [Calls -> {"none", "queued", "attempt", "calling", "backoff", "success",
                          "failure"}]
    /\ attempt \in [Calls -> 0..MaxRetries]
    /\ circuit \in {"closed", "open", "half_open"}
    /\ failures \in 0..Threshold /\ failAge \in 0..Recovery
    /\ fallback \in FallbackModes
    /\ output \subseteq Calls /\ degraded \subseteq Calls

\* A half-open breaker has one call at the provider and no more ("HALF_OPEN
\* allows one probe call to test recovery"), jobs whose caller gave up included.
OneProbe ==
    circuit = "half_open" => Cardinality({c \in Calls : job[c] = "calling"}) <= 1

\* What a reported success stands for, by the fallback policy.  Without a fallback
\* the call's own execution has left its output, which AgentRuntime.run reads next
\* (_execution_output[0]).  With one, either that, or the fallback stood in after
\* the execution had raised: not both, and then there is no output to read.  With a
\* disabled one the execution was never called, and there is neither.  Late jobs of
\* other calls, timeouts and rejections never become a success.
SuccessExplained ==
    \A c \in Calls : place[c] = "ok" =>
        CASE fallback = "unset"    -> c \in output /\ c \notin degraded
          [] fallback = "disabled" -> c \notin output \cup degraded
          [] OTHER                 -> (c \in output) # (c \in degraded)

\* Every call comes back, also when the provider never answers and the executor's
\* only thread hangs ("protects the entire chain from hanging indefinitely").
CallsAnswered == \A c \in Calls : place[c] # "idle" ~> place[c] \in {"ok", "error"}
=============================================================================
