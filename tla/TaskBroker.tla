----------------------------- MODULE TaskBroker -----------------------------
(***************************************************************************)
(* The Redis stream behind tasks/broker.py: XADD, XREADGROUP ">" with count*)
(* 1, XACK and the XPENDING + XCLAIM pair of claim_pending_tasks, for the  *)
(* one consumer group all workers share.  A message is known by its place  *)
(* in the stream.                                                          *)
(***************************************************************************)
EXTENDS Integers, Sequences, FiniteSets

CONSTANT ReclaimCount   \* entries XPENDING looks at: max(10, 2 * concurrency)

ASSUME BrokerAssumption == ReclaimCount \in Nat \ {0}

VARIABLES stream,      \* the task id of every message ever added
          delivered,   \* the group's last-delivered position
          pel,         \* positions delivered and not yet acknowledged
          idle         \* those whose time_since_delivered reached the minimum

brokerVars == <<stream, delivered, pel, idle>>

BrokerInit == stream = <<>> /\ delivered = 0 /\ pel = {} /\ idle = {}

\* publish_task and retry_task.
XAdd(t) ==
    /\ stream' = Append(stream, t)
    /\ UNCHANGED <<delivered, pel, idle>>

\* consume_task: the next undelivered message enters the pending-entries list.
HasNew == delivered < Len(stream)
XReadGroup ==
    /\ delivered' = delivered + 1
    /\ pel' = pel \cup {delivered + 1}
    /\ UNCHANGED <<stream, idle>>

\* ack_task
XAck(m) ==
    /\ pel' = pel \ {m}
    /\ idle' = idle \ {m}
    /\ UNCHANGED <<stream, delivered>>

\* claim_pending_tasks: XPENDING returns the first ReclaimCount entries of the
\* list, of which the idle ones are claimed.
Reclaimable ==
    {m \in idle : Cardinality({n \in pel : n < m}) < ReclaimCount}
XClaim(S) ==
    /\ idle' = idle \ S
    /\ UNCHANGED <<stream, delivered, pel>>

\* Time passes: every unacknowledged delivery now counts as idle.
AgePel == idle' = pel /\ UNCHANGED <<stream, delivered, pel>>

BrokerTypeOK(T) ==
    /\ stream \in Seq(T)
    /\ delivered \in 0..Len(stream)
    /\ pel \subseteq 1..delivered
    /\ idle \subseteq pel
=============================================================================
