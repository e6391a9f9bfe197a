-------------------------- MODULE TaskWorkerProofs --------------------------
(***************************************************************************)
(* Proofs about TaskWorker, for any number of workers, threads and tasks,  *)
(* and that it implements TaskLifecycle.                                   *)
(***************************************************************************)
EXTENDS TaskWorker, TLAPS

USE RepositoryAssumption, BrokerAssumption, WorkerAssumption

-----------------------------------------------------------------------------
(* Types.                                                                  *)

\* Each write of the repository keeps the table typed.
LEMMA RepoOps ==
    ASSUME RepoTypeOK
    PROVE  /\ \A t \in Tasks : CreateRow(t) => RepoTypeOK'
           /\ \A t \in Tasks : ClaimRow(t) => RepoTypeOK'
           /\ \A t \in Tasks, s \in Status : UpdateStatus(t, s) => RepoTypeOK'
           /\ \A t \in Tasks : ShouldRetry(t) /\ BumpRetry(t) => RepoTypeOK'
           /\ \A S \in SUBSET Tasks : ResetRows(S) => RepoTypeOK'
           /\ AgeRows => RepoTypeOK'
           /\ UNCHANGED repoVars => RepoTypeOK'
<1> USE DEF RepoTypeOK, Status
<1>1. ASSUME NEW t \in Tasks, CreateRow(t) PROVE RepoTypeOK'
  BY <1>1 DEF CreateRow
<1>2. ASSUME NEW t \in Tasks, ClaimRow(t) PROVE RepoTypeOK'
  BY <1>2 DEF ClaimRow
<1>3. ASSUME NEW t \in Tasks, NEW s \in Status, UpdateStatus(t, s) PROVE RepoTypeOK'
  BY <1>3 DEF UpdateStatus
<1>4. ASSUME NEW t \in Tasks, ShouldRetry(t), BumpRetry(t) PROVE RepoTypeOK'
  BY <1>4 DEF ShouldRetry, BumpRetry
<1>5. ASSUME NEW S \in SUBSET Tasks, ResetRows(S) PROVE RepoTypeOK'
  BY <1>5 DEF ResetRows
<1>6. AgeRows => RepoTypeOK'
  BY DEF AgeRows
<1>7. UNCHANGED repoVars => RepoTypeOK'
  BY DEF repoVars
<1> HIDE DEF RepoTypeOK, Status
<1> QED BY <1>1, <1>2, <1>3, <1>4, <1>5, <1>6, <1>7

\* Each command of the broker keeps the stream typed and takes no delivery back.
StreamKept == BrokerTypeOK(Tasks)' /\ delivered <= delivered'

\* What can be reclaimed has been idle.
LEMMA ReclaimableIdle == Reclaimable \subseteq idle
BY ZenonT(10) DEF Reclaimable

\* Every operation of the stream keeps its type, and its count of deliveries only grows.
LEMMA BrokerOps ==
    ASSUME BrokerTypeOK(Tasks)
    PROVE  /\ \A t \in Tasks : XAdd(t) => StreamKept
           /\ HasNew /\ XReadGroup => StreamKept
           /\ \A m \in Nat : XAck(m) => StreamKept
           /\ \A S \in SUBSET Nat : XClaim(S) => StreamKept
           /\ AgePel => StreamKept
           /\ UNCHANGED brokerVars => StreamKept
<1> USE DEF BrokerTypeOK, StreamKept
<1>1. ASSUME NEW t \in Tasks, XAdd(t) PROVE StreamKept
  BY <1>1 DEF XAdd
<1>2. ASSUME HasNew, XReadGroup PROVE StreamKept
  BY <1>2 DEF HasNew, XReadGroup
<1>3. ASSUME NEW m \in Nat, XAck(m) PROVE StreamKept
  BY <1>3 DEF XAck
<1>4. ASSUME NEW S \in SUBSET Nat, XClaim(S) PROVE StreamKept
  BY <1>4 DEF XClaim
<1>5. AgePel => StreamKept
  BY DEF AgePel
<1>6. UNCHANGED brokerVars => StreamKept
  BY DEF brokerVars
<1> HIDE DEF BrokerTypeOK, StreamKept
<1> QED BY <1>1, <1>2, <1>3, <1>4, <1>5, <1>6

\* Every step writes the table through one operation of the repository.
LEMMA RepoType ==
    ASSUME TypeOK, InHand, Next
    PROVE  RepoTypeOK'
<1> USE DEF InHand, Busy, Holding, Status
<1> RepoTypeOK
  BY DEF TypeOK
<1>1. ASSUME NEW t \in Tasks, Client(t) PROVE RepoTypeOK'
  BY <1>1, RepoOps DEF Client, Create, Publish, PublishFails
<1>2. ASSUME NEW i \in Threads, Loop(i) PROVE RepoTypeOK'
  <2>1. scan[i] \in SUBSET Tasks
    BY DEF TypeOK, ThreadTypeOK
  <2> QED BY <2>1, <1>2, RepoOps DEF Loop, LoopEnds, RecoverScan, RecoverCommit
<1>3. ASSUME NEW i \in Threads, Fetch(i) PROVE RepoTypeOK'
  BY <1>3, RepoOps DEF Fetch, FetchBacklog, FetchReclaim, FetchNew, FetchNothing,
     FetchNoBroker, PollClaims, PollFindsNothing, Pending
<1>4. ASSUME NEW i \in Threads, FetchLost(i) PROVE RepoTypeOK'
  BY <1>4, RepoOps DEF FetchLost
<1>5. ASSUME NEW i \in Threads, Execute(i) PROVE RepoTypeOK'
  <2>1. CASE Claim(i)
    BY <2>1, RepoOps DEF Claim
  <2>2. CASE MarkFailed(i)
    BY <2>2, RepoOps DEF MarkFailed, Step
  <2>3. CASE CheckRetry(i)
    BY <2>3, RepoOps DEF CheckRetry
  <2>4. CASE Requeue(i)
    BY <2>4, RepoOps DEF Requeue, Step
  <2> QED
    BY <1>5, <2>1, <2>2, <2>3, <2>4, RepoOps DEF Execute, Recheck, Lookup,
       StartHandler, NoHandler, Reap, ReapDead, Timeout, Terminated, Republish, Ack
<1>6. ASSUME NEW i \in Threads, DatabaseRaises(i) PROVE RepoTypeOK'
  BY <1>6, RepoOps DEF DatabaseRaises
<1>7. ASSUME NEW i \in Threads, Handler(i) PROVE RepoTypeOK'
  BY <1>7, RepoOps DEF Handler, HandlerSucceeds, HandlerFails, HandlerReturns,
     HandlerDies, Alive
<1>8. ASSUME NEW o \in orphans, Orphan(o) PROVE RepoTypeOK'
  <2>1. o[1] \in Tasks
    BY DEF TypeOK, EnvTypeOK
  <2> QED
    BY <1>8, <2>1, RepoOps DEF Orphan, OrphanSucceeds, OrphanFails, OrphanEnds
<1>9. ASSUME NEW w \in Workers, Process(w) PROVE RepoTypeOK'
  BY <1>9, RepoOps DEF Process, Stop, Exit, Restart
<1>10. CASE Tick
  BY <1>10, RepoOps DEF Tick
<1> QED
  BY <1>1, <1>2, <1>3, <1>4, <1>5, <1>6, <1>7, <1>8, <1>9, <1>10 DEF Next

\* Every step uses at most one command of the broker.
LEMMA BrokerType ==
    ASSUME TypeOK, InHand, Next
    PROVE  StreamKept
<1> USE DEF InHand, Busy, Holding
<1> BrokerTypeOK(Tasks)
  BY DEF TypeOK
<1> Reclaimable \in SUBSET Nat
  BY ReclaimableIdle DEF BrokerTypeOK
<1> msg \in [Threads -> Nat]
  BY DEF TypeOK, ThreadTypeOK
<1>1. ASSUME NEW t \in Tasks, Client(t) PROVE StreamKept
  BY <1>1, BrokerOps DEF Client, Create, Publish, PublishFails
<1>2. ASSUME NEW i \in Threads, Loop(i) PROVE StreamKept
  BY <1>2, BrokerOps DEF Loop, LoopEnds, RecoverScan, RecoverCommit
<1>3. ASSUME NEW i \in Threads, Fetch(i) PROVE StreamKept
  BY <1>3, BrokerOps DEF Fetch, FetchBacklog, FetchReclaim, FetchNew, FetchNothing,
     FetchNoBroker, PollClaims, PollFindsNothing
<1>4. ASSUME NEW i \in Threads, FetchLost(i) PROVE StreamKept
  BY <1>4, BrokerOps DEF FetchLost
<1>5. ASSUME NEW i \in Threads, Execute(i) PROVE StreamKept
  <2>1. CASE Republish(i)
    BY <2>1, BrokerOps DEF Republish, Step
  <2>2. CASE Ack(i)
    BY <2>2, BrokerOps DEF Ack
  <2> QED
    BY <1>5, <2>1, <2>2, BrokerOps DEF Execute, Recheck, Lookup, Claim, StartHandler,
       NoHandler, Reap, ReapDead, Timeout, Terminated, MarkFailed, CheckRetry, Requeue
<1>6. ASSUME NEW i \in Threads, DatabaseRaises(i) PROVE StreamKept
  BY <1>6, BrokerOps DEF DatabaseRaises
<1>7. ASSUME NEW i \in Threads, Handler(i) PROVE StreamKept
  BY <1>7, BrokerOps DEF Handler, HandlerSucceeds, HandlerFails, HandlerReturns,
     HandlerDies
<1>8. ASSUME NEW o \in orphans, Orphan(o) PROVE StreamKept
  BY <1>8, BrokerOps DEF Orphan, OrphanSucceeds, OrphanFails, OrphanEnds
<1>9. ASSUME NEW w \in Workers, Process(w) PROVE StreamKept
  BY <1>9, BrokerOps DEF Process, Stop, Exit, Restart
<1>10. CASE Tick
  BY <1>10, BrokerOps DEF Tick
<1> QED
  BY <1>1, <1>2, <1>3, <1>4, <1>5, <1>6, <1>7, <1>8, <1>9, <1>10 DEF Next

\* The registers of the threads.
Registers == ThreadTypeOK /\ InHand

\* Every step keeps the threads' registers.
LEMMA ThreadType ==
    ASSUME TypeOK, InHand, Next
    PROVE  Registers'
<1> USE DEF Registers, ThreadTypeOK, InHand, Busy, Holding, Pcs, Stages
<1> ThreadTypeOK
  BY DEF TypeOK
<1>1. ASSUME NEW t \in Tasks, Client(t) PROVE Registers'
  BY <1>1 DEF Client, Create, Publish, PublishFails, threadVars
<1>2. ASSUME NEW i \in Threads, Loop(i) PROVE Registers'
  <2>1. CASE LoopEnds(i)
    BY <2>1 DEF LoopEnds, Drop
  <2>2. CASE RecoverScan(i)
    BY <2>2 DEF RecoverScan, StaleTasks
  <2>3. CASE RecoverCommit(i)
    BY <2>3 DEF RecoverCommit
  <2> QED BY <1>2, <2>1, <2>2, <2>3 DEF Loop
<1>3. ASSUME NEW i \in Threads, Fetch(i) PROVE Registers'
  <2>a. BrokerTypeOK(Tasks) /\ workerOf[i] \in Workers
    BY DEF TypeOK
  <2>b. /\ \A m \in 1..delivered : m \in Nat /\ stream[m] \in Tasks
        /\ HasNew => stream[delivered + 1] \in Tasks /\ delivered + 1 \in Nat
    BY <2>a DEF BrokerTypeOK, HasNew
  <2>c. Reclaimable \subseteq 1..delivered
    BY <2>a, ReclaimableIdle DEF BrokerTypeOK
  <2>d. backlog[workerOf[i]] \subseteq 1..delivered
    BY <2>a DEF TypeOK, WorkerTypeOK
  <2>1. CASE FetchBacklog(i)
    BY <2>b, <2>d, <2>1 DEF FetchBacklog, TakeUp
  <2>2. CASE FetchReclaim(i)
    BY <2>b, <2>c, <2>2 DEF FetchReclaim, TakeUp
  <2>3. CASE FetchNew(i)
    BY <2>b, <2>3 DEF FetchNew, TakeUp
  <2>4. CASE FetchNothing(i)
    BY <2>4 DEF FetchNothing, AtFetch
  <2>5. CASE FetchNoBroker(i)
    BY <2>5 DEF FetchNoBroker, AtFetch
  <2>6. CASE PollClaims(i)
    BY <2>6 DEF PollClaims, TakeUp, Pending
  <2>7. CASE PollFindsNothing(i)
    BY <2>7 DEF PollFindsNothing, Drop
  <2> QED BY <1>3, <2>1, <2>2, <2>3, <2>4, <2>5, <2>6, <2>7 DEF Fetch
<1>4. ASSUME NEW i \in Threads, FetchLost(i) PROVE Registers'
  BY <1>4 DEF FetchLost, AtFetch
<1>5. ASSUME NEW i \in Threads, Execute(i) PROVE Registers'
  <2>1. ASSUME NEW p \in Busy, NEW q \in Busy, Step(i, p, q) PROVE Registers'
    BY <2>1 DEF Step
  <2>2. ASSUME Drop(i, "top") PROVE Registers'
    BY <2>2 DEF Drop
  <2>3. CASE Recheck(i)
    BY <2>3, <2>2 DEF Recheck
  <2>4. CASE StartHandler(i)
    BY <2>4 DEF StartHandler
  <2>5. CASE Reap(i)
    BY <2>5 DEF Reap
  <2>6. CASE Terminated(i)
    BY <2>6 DEF Terminated
  <2> HIDE DEF Registers
  <2> QED
    BY <1>5, <2>1, <2>2, <2>3, <2>4, <2>5, <2>6 DEF Execute, Lookup, Claim, NoHandler,
       ReapDead, Timeout, MarkFailed, CheckRetry, Requeue, Republish, Ack
<1>6. ASSUME NEW i \in Threads, DatabaseRaises(i) PROVE Registers'
  BY <1>6 DEF DatabaseRaises, Drop
<1>7. ASSUME NEW i \in Threads, Handler(i) PROVE Registers'
  BY <1>7 DEF Handler, HandlerSucceeds, HandlerFails, HandlerReturns, HandlerDies, Alive
<1>8. ASSUME NEW o \in orphans, Orphan(o) PROVE Registers'
  BY <1>8 DEF Orphan, OrphanSucceeds, OrphanFails, OrphanEnds, threadVars
<1>9. ASSUME NEW w \in Workers, Process(w) PROVE Registers'
  <2>1. CASE Stop(w)
    BY <2>1 DEF Stop, threadVars
  <2>2. CASE Exit(w)
    BY <2>2 DEF Exit
  <2>3. CASE Restart(w)
    BY <2>3 DEF Restart
  <2> QED BY <1>9, <2>1, <2>2, <2>3 DEF Process
<1>10. CASE Tick
  BY <1>10 DEF Tick
<1> HIDE DEF Registers
<1> QED
  BY <1>1, <1>2, <1>3, <1>4, <1>5, <1>6, <1>7, <1>8, <1>9, <1>10 DEF Next

\* The state of the worker processes.
LEMMA WorkerType ==
    ASSUME TypeOK, InHand, Next
    PROVE  WorkerTypeOK'
<1> USE DEF WorkerTypeOK
<1> WorkerTypeOK /\ BrokerTypeOK(Tasks)
  BY DEF TypeOK
<1> delivered \in Nat /\ delivered' \in Nat /\ delivered <= delivered'
  BY BrokerType DEF StreamKept, BrokerTypeOK
<1>a. UNCHANGED workerVars => WorkerTypeOK'
  BY DEF workerVars
<1>1. ASSUME NEW t \in Tasks, Client(t) PROVE WorkerTypeOK'
  BY <1>1, <1>a DEF Client, Create, Publish, PublishFails
<1>2. ASSUME NEW i \in Threads, Loop(i) PROVE WorkerTypeOK'
  <2>1. CASE RecoverScan(i)
    BY <2>1 DEF RecoverScan
  <2> QED BY <1>2, <1>a, <2>1 DEF Loop, LoopEnds, RecoverCommit
<1>3. ASSUME NEW i \in Threads, Fetch(i) PROVE WorkerTypeOK'
  <2>1. CASE FetchBacklog(i)
    BY <2>1 DEF FetchBacklog
  <2>2. CASE FetchReclaim(i)
    <3>1. Reclaimable \subseteq 1..delivered
      BY ReclaimableIdle DEF BrokerTypeOK
    <3>2. PICK m \in Reclaimable :
             /\ backlog' = [backlog EXCEPT ![workerOf[i]] = Reclaimable \ {m}]
             /\ UNCHANGED delivered
      BY <2>2 DEF FetchReclaim, XClaim
    <3>3. ASSUME NEW w \in Workers PROVE backlog'[w] \subseteq 1..delivered'
      <4>1. backlog'[w] \subseteq backlog[w] \cup Reclaimable
        BY <3>2
      <4> QED BY <4>1, <3>1, <3>2
    <3>4. backlog' \in [Workers -> SUBSET Nat]
      BY <3>1, <3>2
    <3> QED BY <2>2, <3>3, <3>4 DEF FetchReclaim
  <2>3. CASE FetchNew(i)
    BY <2>3 DEF FetchNew
  <2>4. CASE FetchNothing(i)
    BY <2>4 DEF FetchNothing
  <2> QED
    BY <1>3, <1>a, <2>1, <2>2, <2>3, <2>4 DEF Fetch, FetchNoBroker, PollClaims,
       PollFindsNothing
<1>4. ASSUME NEW i \in Threads, FetchLost(i) PROVE WorkerTypeOK'
  BY <1>4 DEF FetchLost
<1>5. ASSUME NEW i \in Threads, Execute(i) PROVE WorkerTypeOK'
  BY <1>5, <1>a DEF Execute, Recheck, Lookup, Claim, StartHandler, NoHandler, Reap,
     ReapDead, Timeout, Terminated, MarkFailed, CheckRetry, Requeue, Republish, Ack
<1>6. ASSUME NEW i \in Threads, DatabaseRaises(i) PROVE WorkerTypeOK'
  BY <1>6, <1>a DEF DatabaseRaises
<1>7. ASSUME NEW i \in Threads, Handler(i) PROVE WorkerTypeOK'
  BY <1>7, <1>a DEF Handler, HandlerSucceeds, HandlerFails, HandlerReturns, HandlerDies
<1>8. ASSUME NEW o \in orphans, Orphan(o) PROVE WorkerTypeOK'
  BY <1>8, <1>a DEF Orphan, OrphanSucceeds, OrphanFails, OrphanEnds
<1>9. ASSUME NEW w \in Workers, Process(w) PROVE WorkerTypeOK'
  <2>1. CASE Stop(w)
    BY <2>1 DEF Stop
  <2>2. CASE Exit(w)
    <3>1. /\ life' = [life EXCEPT ![w] = "down"]
          /\ backlog' = [backlog EXCEPT ![w] = {}]
          /\ UNCHANGED <<redisOn, reclaimDue, recoverDue>>
      BY <2>2 DEF Exit
    <3> QED BY <3>1
  <2>3. CASE Restart(w)
    <3>1. redisOn' \in [Workers -> BOOLEAN]
      BY <2>3 DEF Restart
    <3>2. reclaimDue' \in [Workers -> BOOLEAN] /\ recoverDue' \in [Workers -> BOOLEAN]
      BY <2>3 DEF Restart
    <3>3. life' \in [Workers -> {"up", "stopping", "down"}] /\ UNCHANGED <<backlog, delivered>>
      BY <2>3 DEF Restart, brokerVars
    <3> QED BY <3>1, <3>2, <3>3
  <2> QED BY <1>9, <2>1, <2>2, <2>3 DEF Process
<1>10. CASE Tick
  BY <1>10 DEF Tick
<1> HIDE DEF WorkerTypeOK
<1> QED
  BY <1>1, <1>2, <1>3, <1>4, <1>5, <1>6, <1>7, <1>8, <1>9, <1>10 DEF Next

\* Clients, orphans and the fault budget.
LEMMA EnvType ==
    ASSUME TypeOK, InHand, Next
    PROVE  EnvTypeOK'
<1> USE DEF EnvTypeOK
<1> EnvTypeOK
  BY DEF TypeOK
<1>a. UNCHANGED envVars => EnvTypeOK'
  BY DEF envVars
<1>b. Fault /\ UNCHANGED <<unpublished, orphans>> => EnvTypeOK'
  BY DEF Fault
<1>c. UNCHANGED <<unpublished, orphans, faults>> => EnvTypeOK'
  OBVIOUS
<1>1. ASSUME NEW t \in Tasks, Client(t) PROVE EnvTypeOK'
  BY <1>1 DEF Client, Create, Publish, PublishFails, Fault
<1>2. ASSUME NEW i \in Threads, Loop(i) PROVE EnvTypeOK'
  BY <1>2, <1>a DEF Loop, LoopEnds, RecoverScan, RecoverCommit
<1>3. ASSUME NEW i \in Threads, Fetch(i) PROVE EnvTypeOK'
  BY <1>3, <1>a DEF Fetch, FetchBacklog, FetchReclaim, FetchNew, FetchNothing,
     FetchNoBroker, PollClaims, PollFindsNothing
<1>4. ASSUME NEW i \in Threads, FetchLost(i) PROVE EnvTypeOK'
  BY <1>4, <1>b DEF FetchLost
<1>5. ASSUME NEW i \in Threads, Execute(i) PROVE EnvTypeOK'
  BY <1>5, <1>a, <1>b, <1>c DEF Execute, Recheck, Lookup, Claim, StartHandler, NoHandler,
     Reap, ReapDead, Timeout, Terminated, MarkFailed, CheckRetry, Requeue, Republish, Ack
<1>6. ASSUME NEW i \in Threads, DatabaseRaises(i) PROVE EnvTypeOK'
  BY <1>6, <1>b DEF DatabaseRaises
<1>7. ASSUME NEW i \in Threads, Handler(i) PROVE EnvTypeOK'
  BY <1>7, <1>a DEF Handler, HandlerSucceeds, HandlerFails, HandlerReturns, HandlerDies
<1>8. ASSUME NEW o \in orphans, Orphan(o) PROVE EnvTypeOK'
  <2>1. CASE OrphanSucceeds(o)
    BY <2>1 DEF OrphanSucceeds
  <2>2. CASE OrphanFails(o)
    BY <2>2 DEF OrphanFails
  <2>3. CASE OrphanEnds(o)
    BY <2>3 DEF OrphanEnds
  <2> QED BY <1>8, <2>1, <2>2, <2>3 DEF Orphan
<1>9. ASSUME NEW w \in Workers, Process(w) PROVE EnvTypeOK'
  <2>1. CASE Stop(w)
    BY <2>1, <1>b DEF Stop
  <2>2. CASE Exit(w)
    <3>1. Children(w) \subseteq Tasks \X {"body", "tail"}
      BY DEF Children, Alive, InHand, Busy, Holding
    <3>2. faults' \in 0..MaxFaults
      BY <2>2 DEF Exit, Fault
    <3> QED BY <2>2, <3>1, <3>2 DEF Exit
  <2>3. CASE Restart(w)
    BY <2>3, <1>b, <1>c DEF Restart
  <2> QED BY <1>9, <2>1, <2>2, <2>3 DEF Process
<1>10. CASE Tick
  BY <1>10, <1>a DEF Tick
<1> HIDE DEF EnvTypeOK
<1> QED
  BY <1>1, <1>2, <1>3, <1>4, <1>5, <1>6, <1>7, <1>8, <1>9, <1>10 DEF Next

\* Every reachable state is typed, for any number of tasks, workers and threads
\* and any budget of faults, and a thread past its fetch has a task in hand.
THEOREM TypeCorrect == Spec => [](TypeOK /\ InHand)
<1>1. Init => TypeOK /\ InHand
  BY DEF Init, RepoInit, BrokerInit, TypeOK, RepoTypeOK, BrokerTypeOK, ThreadTypeOK,
         WorkerTypeOK, EnvTypeOK, InHand, Status, Pcs, Stages, Busy, Holding
<1>2. TypeOK /\ InHand /\ [Next]_vars => (TypeOK /\ InHand)'
  <2> SUFFICES ASSUME TypeOK, InHand, [Next]_vars PROVE TypeOK' /\ InHand'
    OBVIOUS
  <2>1. CASE Next
    BY <2>1, RepoType, BrokerType, ThreadType, WorkerType, EnvType
    DEF TypeOK, StreamKept, Registers
  <2>2. CASE UNCHANGED vars
    BY <2>2 DEF vars, repoVars, brokerVars, threadVars, workerVars, envVars,
       TypeOK, RepoTypeOK, BrokerTypeOK, ThreadTypeOK, WorkerTypeOK, EnvTypeOK, InHand
  <2> QED BY <2>1, <2>2
<1> QED BY <1>1, <1>2, PTL DEF Spec

-----------------------------------------------------------------------------
(* Live threads are never late, and recoveries do not overlap.             *)

\* Every step leaves the live threads in time.
LEMMA InTimeStep ==
    ASSUME TypeOK, InTime, Next
    PROVE  InTime'
<1> USE DEF InTime, Timed, Limit
<1> /\ pc \in [Threads -> Pcs] /\ clock \in [Threads -> Nat]
  BY DEF TypeOK, ThreadTypeOK
<1>a. ASSUME UNCHANGED <<pc, clock>> PROVE InTime'
  BY <1>a
<1>b. ASSUME NEW i \in Threads, NEW q, pc' = [pc EXCEPT ![i] = q],
             q \notin Timed, UNCHANGED clock PROVE InTime'
  BY <1>b
<1>c. ASSUME NEW i \in Threads, NEW q, pc' = [pc EXCEPT ![i] = q],
             clock' = [clock EXCEPT ![i] = 0] PROVE InTime'
  BY <1>c
<1>1. ASSUME NEW t \in Tasks, Client(t) PROVE InTime'
  BY <1>1, <1>a DEF Client, Create, Publish, PublishFails, threadVars
<1>2. ASSUME NEW i \in Threads, Loop(i) PROVE InTime'
  BY <1>2, <1>b, <1>c DEF Loop, LoopEnds, Drop, RecoverScan, RecoverCommit
<1>3. ASSUME NEW i \in Threads, Fetch(i) PROVE InTime'
  BY <1>3, <1>b, <1>c DEF Fetch, FetchBacklog, FetchReclaim, FetchNew, FetchNothing,
     FetchNoBroker, PollClaims, PollFindsNothing, TakeUp, Drop
<1>4. ASSUME NEW i \in Threads, FetchLost(i) PROVE InTime'
  BY <1>4, <1>b DEF FetchLost
<1>5. ASSUME NEW i \in Threads, Execute(i) PROVE InTime'
  <2>1. CASE Recheck(i)
    BY <2>1, <1>c DEF Recheck, Drop
  <2> QED
    BY <1>5, <2>1, <1>c DEF Execute, Lookup, Claim, StartHandler, NoHandler, Reap,
       ReapDead, Timeout, Terminated, MarkFailed, CheckRetry, Requeue, Republish, Ack,
       Step, Drop
<1>6. ASSUME NEW i \in Threads, DatabaseRaises(i) PROVE InTime'
  BY <1>6, <1>c DEF DatabaseRaises, Drop
<1>7. ASSUME NEW i \in Threads, Handler(i) PROVE InTime'
  BY <1>7, <1>a DEF Handler, HandlerSucceeds, HandlerFails, HandlerReturns, HandlerDies
<1>8. ASSUME NEW o \in orphans, Orphan(o) PROVE InTime'
  BY <1>8, <1>a DEF Orphan, OrphanSucceeds, OrphanFails, OrphanEnds, threadVars
<1>9. ASSUME NEW w \in Workers, Process(w) PROVE InTime'
  BY <1>9 DEF Process, Stop, Exit, Restart, threadVars
<1>10. CASE Tick
  BY <1>10 DEF Tick
<1> HIDE DEF InTime
<1> QED
  BY <1>1, <1>2, <1>3, <1>4, <1>5, <1>6, <1>7, <1>8, <1>9, <1>10 DEF Next

\* Only RecoverScan leads to "recover".
LEMMA OneRecoveryStep ==
    ASSUME SerialRecovery, TypeOK, OneRecovery, Next
    PROVE  OneRecovery'
<1> USE DEF OneRecovery
<1> pc \in [Threads -> Pcs]
  BY DEF TypeOK, ThreadTypeOK
<1>a. ASSUME UNCHANGED pc PROVE OneRecovery'
  BY <1>a
<1>b. ASSUME NEW i \in Threads, NEW q, pc' = [pc EXCEPT ![i] = q], q # "recover"
      PROVE OneRecovery'
  BY <1>b
<1>1. ASSUME NEW t \in Tasks, Client(t) PROVE OneRecovery'
  BY <1>1, <1>a DEF Client, Create, Publish, PublishFails, threadVars
<1>2. ASSUME NEW i \in Threads, Loop(i) PROVE OneRecovery'
  BY <1>2, <1>b DEF Loop, LoopEnds, Drop, RecoverScan, RecoverCommit
<1>3. ASSUME NEW i \in Threads, Fetch(i) PROVE OneRecovery'
  BY <1>3, <1>b DEF Fetch, FetchBacklog, FetchReclaim, FetchNew, FetchNothing,
     FetchNoBroker, PollClaims, PollFindsNothing, TakeUp, Drop
<1>4. ASSUME NEW i \in Threads, FetchLost(i) PROVE OneRecovery'
  BY <1>4, <1>b DEF FetchLost
<1>5. ASSUME NEW i \in Threads, Execute(i) PROVE OneRecovery'
  BY <1>5, <1>b DEF Execute, Recheck, Lookup, Claim, StartHandler, NoHandler, Reap,
     ReapDead, Timeout, Terminated, MarkFailed, CheckRetry, Requeue, Republish, Ack,
     Step, Drop
<1>6. ASSUME NEW i \in Threads, DatabaseRaises(i) PROVE OneRecovery'
  BY <1>6, <1>b DEF DatabaseRaises, Drop
<1>7. ASSUME NEW i \in Threads, Handler(i) PROVE OneRecovery'
  BY <1>7, <1>a DEF Handler, HandlerSucceeds, HandlerFails, HandlerReturns, HandlerDies
<1>8. ASSUME NEW o \in orphans, Orphan(o) PROVE OneRecovery'
  BY <1>8, <1>a DEF Orphan, OrphanSucceeds, OrphanFails, OrphanEnds, threadVars
<1>9. ASSUME NEW w \in Workers, Process(w) PROVE OneRecovery'
  BY <1>9 DEF Process, Stop, Exit, Restart, threadVars
<1>10. CASE Tick
  BY <1>10, <1>a DEF Tick
<1> HIDE DEF OneRecovery
<1> QED
  BY <1>1, <1>2, <1>3, <1>4, <1>5, <1>6, <1>7, <1>8, <1>9, <1>10 DEF Next

-----------------------------------------------------------------------------
(* Who holds a row, and what that says of the row.                         *)

Safe == OneHolder /\ HeldRows /\ Scanned /\ Credit

\* A step of thread i leaves the registers of the others alone.
OthersSame(i) ==
    \A j \in Threads : j # i =>
        /\ pc'[j] = pc[j] /\ cur'[j] = cur[j] /\ clock'[j] = clock[j]
        /\ stage'[j] = stage[j] /\ scan'[j] = scan[j]

\* A held row has not been RUNNING for longer than the grace allows.
LEMMA HeldNotStale ==
    ASSUME TypeOK, InTime, HeldRows
    PROVE  NeverStaleWhileHeld
<1> SUFFICES ASSUME NEW i \in Threads, NEW t \in Tasks, Holds(i, t), t \in StaleTasks
             PROVE FALSE
  BY DEF NeverStaleWhileHeld
<1>1. age[t] \in Nat /\ clock[i] \in Nat /\ pc[i] \in Pcs
  BY DEF TypeOK, RepoTypeOK, ThreadTypeOK
<1>2. pc[i] \in Timed /\ age[t] <= AgeOnArrival(pc[i]) + clock[i]
  BY DEF HeldRows, HeldRow, StaleTasks
<1>3. clock[i] <= Limit(pc[i])
  BY <1>2 DEF InTime
<1>4. AgeOnArrival(pc[i]) + Limit(pc[i]) <= MaxRuntime + 3 * Delay
  BY <1>2 DEF AgeOnArrival, Limit, Timed
<1>5. AgeOnArrival(pc[i]) \in Nat /\ Limit(pc[i]) \in Nat
  BY <1>2 DEF AgeOnArrival, Limit, Timed
<1>6. age[t] > MaxRuntime + Grace
  BY DEF StaleTasks
<1> QED BY <1>1, <1>2, <1>3, <1>4, <1>5, <1>6

\* Letting go: thread i ends up holding nothing and the table is untouched.
LEMMA LetGo ==
    ASSUME TypeOK, Safe, NEW i \in Threads, OthersSame(i), UNCHANGED repoVars,
           pc'[i] \notin Holding, scan'[i] = {}
    PROVE  Safe'
<1> USE DEF Safe, OthersSame, repoVars, Holding
<1>1. OneHolder'
  BY DEF OneHolder, Holds
<1>2. HeldRows'
  BY DEF HeldRows, HeldRow, Holds
<1>3. Scanned'
  BY DEF Scanned, Holds
<1>4. Credit'
  BY DEF Credit
<1> QED BY <1>1, <1>2, <1>3, <1>4

\* Going on: thread i keeps its row, and the table is untouched.
LEMMA GoOn ==
    ASSUME TypeOK, Safe, NEW i \in Threads, OthersSame(i), UNCHANGED repoVars,
           pc[i] \in Holding, pc'[i] \in Holding \ {"requeue"},
           cur'[i] = cur[i], scan'[i] = scan[i], cur[i] \in Tasks,
           HeldRow(i, cur[i])'
    PROVE  Safe'
<1> USE DEF Safe, OthersSame, repoVars, Holding
<1>1. OneHolder'
  BY DEF OneHolder, Holds
<1>2. HeldRows'
  BY DEF HeldRows, HeldRow, Holds
<1>3. Scanned'
  BY DEF Scanned, Holds
<1>4. Credit'
  BY DEF Credit
<1> QED BY <1>1, <1>2, <1>3, <1>4

\* Claiming: a pending row is held by nobody and selected by nobody.
LEMMA TakeRow ==
    ASSUME TypeOK, Safe, NEW i \in Threads, NEW t \in Tasks, OthersSame(i), ClaimRow(t),
           pc[i] \notin Holding, pc'[i] \in {"recheck", "lock"}, cur'[i] = t,
           clock'[i] = 0, scan'[i] = {}
    PROVE  Safe'
<1> USE DEF Safe, OthersSame, ClaimRow
<1>0. RepoTypeOK
  BY DEF TypeOK
<1>1. \A j \in Threads : ~Holds(j, t) /\ t \notin scan[j]
  BY DEF HeldRows, HeldRow, Scanned
<1>2. OneHolder'
  BY <1>1 DEF OneHolder, Holds, Holding
<1>3. HeldRows'
  BY <1>0, <1>1 DEF HeldRows, HeldRow, Holds, Holding, Timed, AgeOnArrival, RepoTypeOK
<1>4. Scanned'
  BY <1>0, <1>1 DEF Scanned, Holds, Holding, RepoTypeOK
<1>5. Credit'
  BY <1>0, <1>1 DEF Credit, Holds, Holding, RepoTypeOK
<1> QED BY <1>2, <1>3, <1>4, <1>5

\* Writing an outcome: thread i keeps the row it has written.
LEMMA WriteOutcome ==
    ASSUME TypeOK, Safe, NEW i \in Threads, NEW s \in {"success", "failed"}, OthersSame(i),
           UpdateStatus(cur[i], s), cur[i] \in Tasks,
           pc[i] \in Holding, pc'[i] \in Holding \ {"requeue"},
           cur'[i] = cur[i], scan'[i] = scan[i]
    PROVE  Safe'
<1> USE DEF Safe, OthersSame, UpdateStatus, Holding
<1>0. RepoTypeOK
  BY DEF TypeOK
<1>1. OneHolder'
  BY DEF OneHolder, Holds
<1>2. HeldRows'
  BY <1>0, <1>1 DEF OneHolder, HeldRows, HeldRow, Holds, RepoTypeOK
<1>3. Scanned'
  BY <1>0 DEF Scanned, Holds, RepoTypeOK
<1>4. Credit'
  BY <1>0 DEF Credit, RepoTypeOK
<1> QED BY <1>1, <1>2, <1>3, <1>4

\* The steps of _run_thread and the recovery.
LEMMA LoopSafe ==
    ASSUME TypeOK, InHand, InTime, OneRecovery, Safe, NEW i \in Threads, Loop(i)
    PROVE  Safe'
<1>0. ThreadTypeOK /\ RepoTypeOK
  BY DEF TypeOK
<1>1. CASE LoopEnds(i)
  BY <1>0, <1>1, LetGo DEF LoopEnds, Drop, OthersSame, Holding, ThreadTypeOK
<1>2. CASE RecoverScan(i)
  <2>1. \A j \in Threads, t \in StaleTasks : ~Holds(j, t)
    BY HeldNotStale DEF NeverStaleWhileHeld, Safe, StaleTasks
  <2>2. /\ UNCHANGED <<cur, clock, stage>> /\ UNCHANGED repoVars
        /\ pc' = [pc EXCEPT ![i] = IF StaleTasks = {} THEN "fetch" ELSE "recover"]
        /\ scan' = [scan EXCEPT ![i] = StaleTasks]
        /\ pc[i] = "top"
    BY <1>2 DEF RecoverScan
  <2>3. \A j \in Threads, t \in Tasks : Holds(j, t)' <=> Holds(j, t)
    BY <1>0, <2>2 DEF Holds, Holding, ThreadTypeOK
  <2>4. OneHolder'
    BY <2>3 DEF Safe, OneHolder
  <2>5. HeldRows'
    <3>1. \A j \in Threads, t \in Tasks : Holds(j, t) => pc'[j] = pc[j]
      BY <1>0, <2>2 DEF Holds, Holding, ThreadTypeOK
    <3> QED BY <2>2, <2>3, <3>1 DEF Safe, HeldRows, HeldRow, repoVars
  <2>6. Scanned'
    BY <1>0, <2>1, <2>2, <2>3 DEF Safe, Scanned, StaleTasks, ThreadTypeOK, repoVars
  <2>7. Credit'
    BY <1>0, <2>2 DEF Safe, Credit, repoVars, ThreadTypeOK
  <2> QED BY <2>4, <2>5, <2>6, <2>7 DEF Safe
<1>3. CASE RecoverCommit(i)
  <2>1. /\ UNCHANGED <<cur, clock, stage>> /\ ResetRows(scan[i])
        /\ pc' = [pc EXCEPT ![i] = "fetch"]
        /\ scan' = [scan EXCEPT ![i] = {}]
        /\ pc[i] = "recover"
    BY <1>3 DEF RecoverCommit
  <2>2. \A j \in Threads, t \in Tasks : Holds(j, t)' <=> Holds(j, t)
    BY <1>0, <2>1 DEF Holds, Holding, ThreadTypeOK
  <2>3. \A j \in Threads, t \in Tasks : Holds(j, t) => pc'[j] = pc[j] /\ t \notin scan[i]
    BY <1>0, <2>1 DEF Safe, Scanned, Holds, Holding, ThreadTypeOK
  <2>4. OneHolder'
    BY <2>2 DEF Safe, OneHolder
  <2>5. HeldRows'
    BY <1>0, <2>1, <2>2, <2>3 DEF Safe, HeldRows, HeldRow, ResetRows, RepoTypeOK
  <2>6. \A j \in Threads : scan'[j] = {}
    BY <1>0, <2>1 DEF Safe, Scanned, OneRecovery, ThreadTypeOK
  <2>7. Scanned'
    BY <2>6 DEF Scanned
  <2>8. Credit'
    BY <1>0, <2>1, <2>3 DEF Safe, Credit, ResetRows, RepoTypeOK, ThreadTypeOK
  <2> QED BY <2>4, <2>5, <2>7, <2>8 DEF Safe
<1> QED BY <1>1, <1>2, <1>3 DEF Loop

\* The steps that look for work.
LEMMA FetchSafe ==
    ASSUME TypeOK, InHand, Safe, NEW i \in Threads, Fetch(i) \/ FetchLost(i)
    PROVE  Safe'
<1>0. ThreadTypeOK /\ scan[i] \in SUBSET Tasks
  BY DEF TypeOK, ThreadTypeOK
<1>1. AtFetch(i) \/ pc[i] = "poll" => scan[i] = {} /\ pc[i] \notin Holding
  BY DEF Safe, Scanned, AtFetch, Holding
<1>2. ASSUME NEW t, NEW m, TakeUp(i, t, m, "lookup"), scan[i] = {}, UNCHANGED repoVars
      PROVE Safe'
  BY <1>0, <1>2, LetGo DEF TakeUp, OthersSame, Holding, ThreadTypeOK
<1>3. ASSUME NEW p \in {"fetch", "poll"}, pc' = [pc EXCEPT ![i] = p],
             UNCHANGED <<cur, msg, clock, stage, scan>>, scan[i] = {}, UNCHANGED repoVars
      PROVE Safe'
  BY <1>0, <1>3, LetGo DEF OthersSame, Holding, ThreadTypeOK
<1>4. CASE PollClaims(i)
  <2>1. PICK t \in Tasks : ClaimRow(t) /\ TakeUp(i, t, 0, "recheck")
    BY <1>4 DEF PollClaims, Pending
  <2>2. /\ pc'[i] = "recheck" /\ cur'[i] = t /\ clock'[i] = 0 /\ scan'[i] = {}
        /\ OthersSame(i) /\ pc[i] \notin Holding
    BY <1>0, <1>1, <1>4, <2>1 DEF TakeUp, OthersSame, ThreadTypeOK, PollClaims
  <2> QED BY <2>1, <2>2, TakeRow
<1>5. CASE PollFindsNothing(i)
  BY <1>0, <1>5, LetGo DEF PollFindsNothing, Drop, OthersSame, Holding, ThreadTypeOK
<1>6. CASE FetchLost(i)
  BY <1>1, <1>3, <1>6 DEF FetchLost
<1> QED
  BY <1>1, <1>2, <1>3, <1>4, <1>5, <1>6 DEF Fetch, FetchBacklog, FetchReclaim, FetchNew,
     FetchNothing, FetchNoBroker

\* The steps of _execute_task.
LEMMA ExecuteSafe ==
    ASSUME TypeOK, InHand, InTime, Safe, NEW i \in Threads, Execute(i)
    PROVE  Safe'
<1>0. /\ ThreadTypeOK /\ RepoTypeOK /\ scan[i] \in SUBSET Tasks
      /\ clock[i] \in Nat /\ stage[i] \in Stages
  BY DEF TypeOK, ThreadTypeOK
<1>1. pc[i] \in Busy => cur[i] \in Tasks /\ scan[i] = {}
  BY DEF InHand, Safe, Scanned, Busy, Holding
<1>2. pc[i] \in Holding => HeldRow(i, cur[i])
  BY <1>1 DEF Safe, HeldRows, Holds, Busy
<1>3. ASSUME NEW q, Drop(i, q), q \notin Holding, UNCHANGED repoVars PROVE Safe'
  BY <1>0, <1>3, LetGo DEF Drop, OthersSame, ThreadTypeOK
<1>4. ASSUME NEW p \in Busy, NEW q, Step(i, p, q), q \notin Holding, UNCHANGED repoVars
      PROVE Safe'
  BY <1>0, <1>1, <1>4, LetGo DEF Step, OthersSame, ThreadTypeOK
<1>5. CASE Recheck(i)
  <2>1. CASE status[cur[i]] = "running"
    <3>1. /\ pc[i] = "recheck" /\ pc'[i] = "lock" /\ UNCHANGED repoVars /\ OthersSame(i)
          /\ UNCHANGED <<cur, clock, stage, scan>>
      BY <1>0, <1>5, <2>1 DEF Recheck, OthersSame, ThreadTypeOK, Drop
    <3>2. HeldRow(i, cur[i])'
      BY <1>2, <3>1 DEF HeldRow, Timed, AgeOnArrival, Holding, repoVars
    <3> QED BY <1>1, <3>1, <3>2, GoOn DEF Holding, Busy
  <2>2. CASE status[cur[i]] # "running"
    BY <1>3, <1>5, <2>2 DEF Recheck, Holding
  <2> QED BY <2>1, <2>2
<1>6. CASE Lookup(i)
  BY <1>4, <1>6 DEF Lookup, Busy, Holding
<1>7. CASE Claim(i)
  <2>1. CASE ClaimRow(cur[i]) /\ Step(i, "claim", "lock")
    <3>1. /\ pc[i] \notin Holding /\ pc'[i] = "lock" /\ cur'[i] = cur[i] /\ clock'[i] = 0
          /\ scan'[i] = {} /\ OthersSame(i) /\ cur[i] \in Tasks
      BY <1>0, <1>1, <2>1 DEF Step, OthersSame, ThreadTypeOK, Holding, Busy
    <3> QED BY <2>1, <3>1, TakeRow
  <2> QED BY <1>4, <1>7, <2>1 DEF Claim, Busy, Holding
<1>8. ASSUME pc[i] \in Holding, pc' = [pc EXCEPT ![i] = "fail"], UNCHANGED <<cur, scan>>,
             clock' = [clock EXCEPT ![i] = 0], UNCHANGED repoVars, OthersSame(i),
             pc[i] \in {"lock", "run", "kill"}
      PROVE Safe'
  <2>1. HeldRow(i, cur[i])'
    <3>1. status[cur[i]] = "running" => age[cur[i]] <= 2 * Delay + MaxRuntime
      <4>1. cur[i] \in Tasks /\ age[cur[i]] \in Nat
        BY <1>0, <1>1, <1>8 DEF Busy, RepoTypeOK
      <4>2. clock[i] <= Limit(pc[i])
        BY <1>8 DEF InTime, Timed
      <4>3. status[cur[i]] = "running" => age[cur[i]] <= AgeOnArrival(pc[i]) + clock[i]
        BY <1>2, <1>8 DEF HeldRow
      <4> QED BY <1>0, <1>8, <4>1, <4>2, <4>3 DEF AgeOnArrival, Limit
    <3>2. clock'[i] = 0 /\ pc'[i] = "fail"
      BY <1>0, <1>8 DEF ThreadTypeOK
    <3>3. status[cur[i]] \in {"running", "success", "failed"}
      BY <1>2, <1>8 DEF HeldRow
    <3>4. cur[i] \in Tasks /\ age[cur[i]] \in Nat
      BY <1>0, <1>1, <1>8 DEF Busy, RepoTypeOK
    <3> QED BY <1>8, <3>1, <3>2, <3>3, <3>4 DEF HeldRow, Timed, AgeOnArrival, repoVars
  <2> QED BY <1>0, <1>1, <1>8, <2>1, GoOn DEF Holding, Busy, ThreadTypeOK
<1>9. CASE StartHandler(i)
  <2>1. /\ pc[i] = "lock" /\ pc'[i] = "run" /\ clock'[i] = 0 /\ stage'[i] = "body"
        /\ UNCHANGED <<cur, scan>> /\ UNCHANGED repoVars /\ OthersSame(i)
    BY <1>0, <1>9 DEF StartHandler, OthersSame, ThreadTypeOK
  <2>2. cur[i] \in Tasks /\ age[cur[i]] \in Nat /\ clock[i] <= Delay
    BY <1>0, <1>1, <2>1 DEF Busy, Holding, RepoTypeOK, InTime, Timed, Limit
  <2>3. HeldRow(i, cur[i])'
    BY <1>0, <1>2, <2>1, <2>2 DEF HeldRow, Timed, AgeOnArrival, Holding, repoVars
  <2> QED BY <1>1, <2>1, <2>2, <2>3, GoOn DEF Holding, Busy
<1>10. CASE NoHandler(i)
  BY <1>0, <1>8, <1>10 DEF NoHandler, Step, OthersSame, Holding, ThreadTypeOK
<1>11. CASE Reap(i)
  <2>1. /\ pc[i] = "run" /\ stage[i] = "exit" /\ pc'[i] = "check"
        /\ UNCHANGED <<cur, scan>> /\ UNCHANGED repoVars /\ OthersSame(i)
    BY <1>0, <1>11 DEF Reap, OthersSame, ThreadTypeOK
  <2>2. HeldRow(i, cur[i])'
    BY <1>2, <2>1 DEF HeldRow, Holding, repoVars
  <2> QED BY <1>1, <2>1, <2>2, GoOn DEF Holding, Busy
<1>12. CASE ReapDead(i)
  BY <1>0, <1>8, <1>12 DEF ReapDead, Step, OthersSame, Holding, ThreadTypeOK
<1>13. CASE Timeout(i)
  <2>1. /\ pc[i] = "run" /\ pc'[i] = "kill" /\ clock'[i] = 0
        /\ UNCHANGED <<cur, stage, scan>> /\ UNCHANGED repoVars /\ OthersSame(i)
    BY <1>0, <1>13 DEF Timeout, Step, OthersSame, ThreadTypeOK
  <2>2. cur[i] \in Tasks /\ age[cur[i]] \in Nat /\ clock[i] <= MaxRuntime
    BY <1>0, <1>1, <2>1 DEF Busy, Holding, RepoTypeOK, InTime, Timed, Limit
  <2>3. HeldRow(i, cur[i])'
    BY <1>0, <1>2, <2>1, <2>2 DEF HeldRow, Timed, AgeOnArrival, Holding, repoVars
  <2> QED BY <1>1, <2>1, <2>2, <2>3, GoOn DEF Holding, Busy
<1>14. CASE Terminated(i)
  BY <1>0, <1>8, <1>14 DEF Terminated, OthersSame, Holding, ThreadTypeOK
<1>15. CASE MarkFailed(i)
  <2>1. /\ pc[i] = "fail" /\ pc'[i] = "check" /\ UNCHANGED <<cur, scan>> /\ OthersSame(i)
        /\ UpdateStatus(cur[i], "failed")
    BY <1>0, <1>15 DEF MarkFailed, Step, OthersSame, ThreadTypeOK
  <2> QED BY <1>1, <2>1, WriteOutcome DEF Holding, Busy
<1>16. CASE CheckRetry(i)
  <2>1. CASE /\ status[cur[i]] = "failed" /\ ShouldRetry(cur[i])
             /\ BumpRetry(cur[i]) /\ Step(i, "check", "requeue")
    <3>1. /\ pc[i] = "check" /\ pc'[i] = "requeue" /\ UNCHANGED <<cur, stage, scan>>
          /\ OthersSame(i) /\ cur[i] \in Tasks /\ scan[i] = {}
      BY <1>0, <1>1, <2>1 DEF Step, OthersSame, ThreadTypeOK, Busy, Holding
    <3>2. \A j \in Threads, t \in Tasks : Holds(j, t)' <=> Holds(j, t)
      BY <3>1 DEF Holds, Holding, OthersSame
    <3>3. OneHolder'
      BY <3>2 DEF Safe, OneHolder
    <3>4. HeldRows'
      BY <2>1, <3>1, <3>2 DEF Safe, HeldRows, HeldRow, Holds, OthersSame, BumpRetry
    <3>5. Scanned'
      BY <1>0, <2>1, <3>1, <3>2 DEF Safe, Scanned, OthersSame, BumpRetry, ThreadTypeOK
    <3>6. Credit'
      BY <1>0, <2>1, <3>1 DEF Safe, Credit, OthersSame, BumpRetry, RepoTypeOK, OneHolder,
         Holds, Holding
    <3> QED BY <3>3, <3>4, <3>5, <3>6 DEF Safe
  <2> QED BY <1>4, <1>16, <2>1 DEF CheckRetry, Busy, Holding
<1>17. CASE Requeue(i)
  <2>1. /\ pc[i] = "requeue" /\ pc'[i] = "publish" /\ UNCHANGED <<cur, stage, scan>>
        /\ OthersSame(i) /\ cur[i] \in Tasks /\ UpdateStatus(cur[i], "pending")
        /\ scan[i] = {}
    BY <1>0, <1>1, <1>17 DEF Requeue, Step, OthersSame, ThreadTypeOK, Busy, Holding
  <2>2. \A j \in Threads, t \in Tasks : Holds(j, t)' => Holds(j, t) /\ t # cur[i]
    BY <2>1 DEF Safe, OneHolder, Holds, Holding, OthersSame
  <2>3. \A j \in Threads : cur[i] \notin scan[j]
    BY <2>1 DEF Safe, Scanned, Holds, Holding
  <2>4. OneHolder'
    BY <2>2 DEF Safe, OneHolder
  <2>5. HeldRows'
    BY <1>0, <2>1, <2>2 DEF Safe, HeldRows, HeldRow, Holds, Holding, OthersSame,
       UpdateStatus, RepoTypeOK
  <2>6. Scanned'
    BY <1>0, <2>1, <2>2, <2>3 DEF Safe, Scanned, OthersSame, UpdateStatus, RepoTypeOK,
       ThreadTypeOK
  <2>7. Credit'
    BY <1>0, <2>1 DEF Safe, Credit, OthersSame, UpdateStatus, RepoTypeOK
  <2> QED BY <2>4, <2>5, <2>6, <2>7 DEF Safe
<1>18. CASE Republish(i)
  BY <1>4, <1>18 DEF Republish, Busy, Holding
<1>19. CASE Ack(i)
  BY <1>3, <1>19 DEF Ack, Holding
<1> QED
  BY <1>5, <1>6, <1>7, <1>9, <1>10, <1>11, <1>12, <1>13, <1>14, <1>15, <1>16, <1>17,
     <1>18, <1>19 DEF Execute

\* The handler process writes the row of the thread that waits for it.
LEMMA HandlerSafe ==
    ASSUME TypeOK, InHand, Safe, NEW i \in Threads, Handler(i)
    PROVE  Safe'
<1>0. /\ ThreadTypeOK /\ pc[i] \in {"run", "kill"}
  BY DEF TypeOK, Handler, HandlerSucceeds, HandlerFails, HandlerReturns, HandlerDies, Alive
<1>1. cur[i] \in Tasks /\ HeldRow(i, cur[i])
  BY <1>0 DEF InHand, Busy, Holding, Safe, HeldRows, Holds
<1>2. UNCHANGED <<pc, cur, clock, scan>> /\ OthersSame(i)
  BY <1>0 DEF Handler, HandlerSucceeds, HandlerFails, HandlerReturns, HandlerDies,
     OthersSame, ThreadTypeOK
<1>3. CASE HandlerSucceeds(i) \/ HandlerFails(i)
  BY <1>0, <1>1, <1>2, <1>3, WriteOutcome DEF HandlerSucceeds, HandlerFails, Holding
<1>4. CASE HandlerReturns(i) \/ HandlerDies(i)
  <2>1. HeldRow(i, cur[i])'
    BY <1>0, <1>1, <1>2, <1>4 DEF HandlerReturns, HandlerDies, HeldRow, ThreadTypeOK,
       repoVars
  <2> QED
    BY <1>0, <1>1, <1>2, <1>4, <2>1, GoOn DEF HandlerReturns, HandlerDies, Holding
<1> QED BY <1>3, <1>4 DEF Handler

\* An orphan overwrites a row, but never with a status that can be claimed.
LEMMA OrphanSafe ==
    ASSUME TypeOK, Safe, OrphansSurvive, NEW o \in orphans, Orphan(o)
    PROVE  Safe'
<1>0. RepoTypeOK /\ o[1] \in Tasks
  BY DEF TypeOK, EnvTypeOK
<1>1. UNCHANGED <<pc, cur, clock, stage, scan>>
  BY DEF Orphan, OrphanSucceeds, OrphanFails, OrphanEnds, threadVars
<1>2. CASE UNCHANGED repoVars
  BY <1>1, <1>2 DEF Safe, OneHolder, HeldRows, HeldRow, Scanned, Credit, Holds, repoVars
<1>3. ASSUME NEW s \in {"success", "failed"}, UpdateStatus(o[1], s) PROVE Safe'
  <2> USE <1>0, <1>1, <1>3 DEF Safe, UpdateStatus, RepoTypeOK
  <2>1. OneHolder'
    BY DEF OneHolder, Holds
  <2>2. HeldRows'
    BY DEF HeldRows, HeldRow, Holds
  <2>3. Scanned'
    BY DEF Scanned, Holds
  <2>4. Credit'
    BY DEF Credit
  <2> QED BY <2>1, <2>2, <2>3, <2>4
<1> QED BY <1>2, <1>3 DEF Orphan, OrphanSucceeds, OrphanFails, OrphanEnds

\* The worker process comes and goes.
LEMMA ProcessSafe ==
    ASSUME TypeOK, Safe, NEW w \in Workers, Process(w)
    PROVE  Safe'
<1>0. ThreadTypeOK /\ UNCHANGED repoVars
  BY DEF TypeOK, Process, Stop, Exit, Restart
<1>1. \A i \in Threads :
         \/ /\ pc'[i] = pc[i] /\ cur'[i] = cur[i] /\ clock'[i] = clock[i]
            /\ stage'[i] = stage[i] /\ scan'[i] = scan[i]
         \/ pc'[i] = "off" /\ scan'[i] = {}
         \/ /\ pc'[i] = "top" /\ scan'[i] = {}
            /\ cur'[i] = cur[i]
  <2>1. CASE Stop(w)
    BY <2>1 DEF Stop, threadVars
  <2>2. CASE Exit(w)
    BY <2>2 DEF Exit
  <2>3. CASE Restart(w)
    BY <1>0, <2>3 DEF Restart, ThreadTypeOK
  <2> QED BY <2>1, <2>2, <2>3 DEF Process
<1> USE <1>0, <1>1 DEF Safe, repoVars, Holding
<1>2. OneHolder'
  BY DEF OneHolder, Holds
<1>3. HeldRows'
  BY DEF HeldRows, HeldRow, Holds
<1>4. Scanned'
  BY DEF Scanned, Holds
<1>5. Credit'
  BY DEF Credit
<1> QED BY <1>2, <1>3, <1>4, <1>5

\* A new row is pending, and nobody has claimed it yet.
LEMMA ClientSafe ==
    ASSUME TypeOK, Safe, NEW t \in Tasks, Client(t)
    PROVE  Safe'
<1>0. RepoTypeOK
  BY DEF TypeOK
<1>1. UNCHANGED <<pc, cur, clock, stage, scan>>
  BY DEF Client, Create, Publish, PublishFails, threadVars
<1>2. CASE UNCHANGED repoVars
  BY <1>1, <1>2 DEF Safe, OneHolder, HeldRows, HeldRow, Scanned, Credit, Holds, repoVars
<1>3. CASE CreateRow(t)
  <2> USE <1>0, <1>1, <1>3 DEF Safe, CreateRow, RepoTypeOK
  <2>1. OneHolder'
    BY DEF OneHolder, Holds
  <2>2. HeldRows'
    BY DEF HeldRows, HeldRow, Holds
  <2>3. Scanned'
    BY DEF Scanned, Holds
  <2>4. Credit'
    BY DEF Credit
  <2> QED BY <2>1, <2>2, <2>3, <2>4
<1> QED BY <1>2, <1>3 DEF Client, Create, Publish, PublishFails

\* A tick ages a held row by one and moves its thread's clock by one.
LEMMA TickSafe ==
    ASSUME TypeOK, Safe, Tick
    PROVE  Safe'
<1>0. RepoTypeOK /\ ThreadTypeOK
  BY DEF TypeOK
<1>1. UNCHANGED <<pc, cur, stage, scan, status, retry, claims, recovered>>
  BY DEF Tick, AgeRows
<1>2. OneHolder'
  BY <1>1 DEF Safe, OneHolder, Holds
<1>3. HeldRows'
  <2> SUFFICES ASSUME NEW i \in Threads, NEW t \in Tasks, Holds(i, t)
               PROVE  HeldRow(i, t)'
    BY <1>1 DEF HeldRows, Holds
  <2>1. HeldRow(i, t)
    BY DEF Safe, HeldRows
  <2>2. status[t] = "running" => age'[t] <= age[t] + 1 /\ age'[t] \in Nat
    BY <1>0 DEF Tick, AgeRows, RepoTypeOK
  <2>3. pc[i] \in Timed => clock'[i] = clock[i] + 1
    BY DEF Tick
  <2>4. age[t] \in Nat /\ clock[i] \in Nat /\ AgeOnArrival(pc[i]) \in Nat
    BY <1>0 DEF RepoTypeOK, ThreadTypeOK, AgeOnArrival
  <2>5. AgeOnArrival(pc[i])' = AgeOnArrival(pc[i])
    BY <1>1 DEF AgeOnArrival
  <2>6. status[t] = "running" =>
           pc[i] \in Timed /\ age'[t] <= AgeOnArrival(pc[i]) + clock'[i]
    BY <2>1, <2>2, <2>3, <2>4 DEF HeldRow
  <2> QED BY <1>1, <2>1, <2>5, <2>6 DEF HeldRow
<1>4. Scanned'
  BY <1>1 DEF Safe, Scanned, Holds
<1>5. Credit'
  BY <1>1 DEF Safe, Credit
<1> QED BY <1>2, <1>3, <1>4, <1>5 DEF Safe

\* A database error makes the thread let go of everything.
LEMMA RaiseSafe ==
    ASSUME TypeOK, Safe, NEW i \in Threads, DatabaseRaises(i)
    PROVE  Safe'
<1>0. ThreadTypeOK
  BY DEF TypeOK
<1> QED BY <1>0, LetGo DEF DatabaseRaises, Drop, OthersSame, Holding, ThreadTypeOK

\* Where no handler process outlives its worker there are never any orphans.
LEMMA OrphansStep ==
    ASSUME OrphansAllowed, Next
    PROVE  OrphansAllowed'
<1> USE DEF OrphansAllowed
<1>1. ASSUME NEW t \in Tasks, Client(t) PROVE OrphansAllowed'
  BY <1>1 DEF Client, Create, Publish, PublishFails, envVars
<1>2. ASSUME NEW i \in Threads, Loop(i) \/ Fetch(i) \/ FetchLost(i) PROVE OrphansAllowed'
  BY <1>2 DEF Loop, LoopEnds, RecoverScan, RecoverCommit, Fetch, FetchBacklog,
     FetchReclaim, FetchNew, FetchNothing, FetchNoBroker, PollClaims, PollFindsNothing,
     FetchLost, envVars
<1>3. ASSUME NEW i \in Threads, Execute(i) \/ DatabaseRaises(i) PROVE OrphansAllowed'
  BY <1>3 DEF Execute, Recheck, Lookup, Claim, StartHandler, NoHandler, Reap, ReapDead,
     Timeout, Terminated, MarkFailed, CheckRetry, Requeue, Republish, Ack,
     DatabaseRaises, envVars
<1>4. ASSUME NEW i \in Threads, Handler(i) PROVE OrphansAllowed'
  BY <1>4 DEF Handler, HandlerSucceeds, HandlerFails, HandlerReturns, HandlerDies, envVars
<1>5. ASSUME NEW o \in orphans, Orphan(o) PROVE OrphansAllowed'
  BY <1>5 DEF Orphan, OrphanSucceeds, OrphanFails, OrphanEnds
<1>6. ASSUME NEW w \in Workers, Process(w) PROVE OrphansAllowed'
  BY <1>6 DEF Process, Stop, Exit, Restart
<1>7. CASE Tick
  BY <1>7 DEF Tick, envVars
<1> QED BY <1>1, <1>2, <1>3, <1>4, <1>5, <1>6, <1>7 DEF Next

-----------------------------------------------------------------------------
(* The safety of the pool.                                                 *)

Guarded == InTime /\ OneRecovery /\ OrphansAllowed /\ Safe

\* The inductive invariant holds when recoveries do not overlap.
THEOREM Invariant == ASSUME SerialRecovery PROVE Spec => []IInv
<1>1. Init => Guarded
  BY DEF Init, RepoInit, Tasks, Guarded, InTime, OneRecovery, OrphansAllowed, Safe, OneHolder,
     HeldRows, Scanned, Credit, Holds, Holding, Timed
<1>2. TypeOK /\ InHand /\ Guarded /\ [Next]_vars => Guarded'
  <2> SUFFICES ASSUME TypeOK, InHand, Guarded, [Next]_vars PROVE Guarded'
    OBVIOUS
  <2> USE DEF Guarded
  <2>1. CASE Next
    <3>1. InTime' /\ OneRecovery' /\ OrphansAllowed'
      BY <2>1, InTimeStep, OneRecoveryStep, OrphansStep
    <3>2. ASSUME NEW o \in orphans, Orphan(o) PROVE Safe'
      <4>1. OrphansSurvive
        BY DEF OrphansAllowed
      <4> QED BY <3>2, <4>1, OrphanSafe
    <3>3. Safe'
      BY <2>1, <3>2, ClientSafe, LoopSafe, FetchSafe, ExecuteSafe, RaiseSafe,
         HandlerSafe, ProcessSafe, TickSafe DEF Next
    <3> QED BY <3>1, <3>3
  <2>2. CASE UNCHANGED vars
    BY <2>2 DEF vars, repoVars, threadVars, envVars, InTime, OneRecovery, OrphansAllowed, Safe,
       OneHolder, HeldRows, HeldRow, Scanned, Credit, Holds
  <2> QED BY <2>1, <2>2
<1>3. TypeOK /\ InHand /\ Guarded => IInv
  BY DEF Guarded, Safe, IInv
<1> QED BY <1>1, <1>2, <1>3, TypeCorrect, PTL DEF Spec

\* Two live threads never hold the same task (claim_task, recover_stale_tasks).
THEOREM Exclusive == ASSUME SerialRecovery PROVE Spec => []OneHolder
<1>1. IInv => OneHolder
  BY DEF IInv
<1> QED BY <1>1, Invariant, PTL

\* No attempt is started that was not paid for (_execute_task, claim_task).
THEOREM Accounted == ASSUME SerialRecovery PROVE Spec => []AttemptsAccounted
<1>1. IInv => AttemptsAccounted
  BY DEF IInv, Credit, AttemptsAccounted
<1> QED BY <1>1, Invariant, PTL

\* Recovery never selects the row of a live thread (worker.py:41).
THEOREM GraceSuffices == ASSUME SerialRecovery PROVE Spec => []NeverStaleWhileHeld
<1>1. IInv => NeverStaleWhileHeld
  BY HeldNotStale DEF IInv
<1> QED BY <1>1, Invariant, PTL

-----------------------------------------------------------------------------
(* The worker pool implements TaskLifecycle, when recoveries do not overlap*)
(* and no handler process outlives its worker: status and retry_count move *)
(* as a polling client expects.                                            *)

\* Thread i moves and only row t changes, a row no other thread holds.
LEMMA TrackOne ==
    ASSUME Tracked, NEW i \in Threads, NEW t \in Tasks, OthersSame(i),
           \A u \in Tasks \ {t} : status'[u] = status[u] /\ retry'[u] = retry[u],
           \A j \in Threads \ {i} : ~Holds(j, t),
           pc'[i] \in Holding => cur'[i] = t /\ Tracks(i, t)'
    PROVE  Tracked'
BY DEF Tracked, Tracks, Holds, OthersSame

\* Thread i moves, holding nothing afterwards, and no row changes.
LEMMA TrackNone ==
    ASSUME Tracked, NEW i \in Threads, OthersSame(i), UNCHANGED <<status, retry>>,
           pc'[i] \notin Holding
    PROVE  Tracked'
BY DEF Tracked, Tracks, Holds, OthersSame

\* The registers stay, and rows change only where nobody holds them.
LEMMA TrackFree ==
    ASSUME Tracked, UNCHANGED <<pc, cur, stage>>,
           \A u \in Tasks : (\E j \in Threads : Holds(j, u)) =>
                                status'[u] = status[u] /\ retry'[u] = retry[u]
    PROVE  Tracked'
BY DEF Tracked, Tracks, Holds

\* A step of a thread that is not a claim, an outcome or a retry.
Quiet == UNCHANGED <<status, retry>>

\* The steps of the loop and of the search for work, and what a client sees.
LEMMA LoopRefines ==
    ASSUME IInv, Tracked, ~OrphansSurvive, NEW i \in Threads,
           Loop(i) \/ Fetch(i) \/ FetchLost(i) \/ DatabaseRaises(i)
    PROVE  Tracked' /\ (Lifecycle!Next \/ Quiet)
<1>0. ThreadTypeOK /\ RepoTypeOK /\ scan[i] \in SUBSET Tasks
  BY DEF IInv, TypeOK, ThreadTypeOK
<1>1. ASSUME NEW q, Drop(i, q), q \notin Holding, UNCHANGED repoVars
      PROVE  Tracked' /\ Quiet
  BY <1>0, <1>1, TrackNone DEF Drop, OthersSame, repoVars, Quiet, ThreadTypeOK
<1>2. CASE LoopEnds(i) \/ PollFindsNothing(i) \/ DatabaseRaises(i)
  BY <1>1, <1>2 DEF LoopEnds, PollFindsNothing, DatabaseRaises, Holding
<1>3. CASE RecoverScan(i)
  <2>1. OthersSame(i) /\ pc'[i] \notin Holding /\ Quiet
    BY <1>0, <1>3 DEF RecoverScan, OthersSame, Holding, repoVars, Quiet, ThreadTypeOK
  <2> QED BY <2>1, TrackNone DEF Quiet
<1>4. CASE RecoverCommit(i)
  <2>1. ResetRows(scan[i]) /\ pc[i] = "recover" /\ pc' = [pc EXCEPT ![i] = "fetch"]
        /\ UNCHANGED <<cur, clock, stage>>
    BY <1>4 DEF RecoverCommit
  <2>2. \A t \in scan[i] : status[t] = "running" /\ \A j \in Threads : ~Holds(j, t)
    BY DEF IInv, Scanned
  <2>3. \A j \in Threads, t \in Tasks : Holds(j, t)' => Holds(j, t) /\ pc'[j] = pc[j]
    BY <1>0, <2>1 DEF Holds, Holding, ThreadTypeOK
  <2>4. \A j \in Threads, t \in Tasks :
           Holds(j, t)' => status'[t] = status[t] /\ retry'[t] = retry[t]
    BY <2>1, <2>2, <2>3 DEF ResetRows
  <2>5. Tracked'
    BY <2>1, <2>3, <2>4 DEF Tracked, Tracks
  <2>6. Lifecycle!Recover
    BY <1>0, <2>1, <2>2 DEF Lifecycle!Recover, ResetRows
  <2> QED BY <2>5, <2>6 DEF Lifecycle!Next
<1>5. ASSUME NEW t, NEW m, TakeUp(i, t, m, "lookup"), UNCHANGED repoVars
      PROVE  Tracked' /\ Quiet
  BY <1>0, <1>5, TrackNone DEF TakeUp, OthersSame, Holding, repoVars, Quiet, ThreadTypeOK
<1>6. ASSUME NEW p \in {"fetch", "poll"}, pc' = [pc EXCEPT ![i] = p],
             UNCHANGED <<cur, msg, clock, stage, scan>>, UNCHANGED repoVars
      PROVE  Tracked' /\ Quiet
  BY <1>0, <1>6, TrackNone DEF OthersSame, Holding, repoVars, Quiet, ThreadTypeOK
<1>7. CASE PollClaims(i)
  <2>1. PICK t \in Tasks : ClaimRow(t) /\ TakeUp(i, t, 0, "recheck")
    BY <1>7 DEF PollClaims, Pending
  <2>2. \A j \in Threads : ~Holds(j, t)
    BY <2>1 DEF IInv, HeldRows, HeldRow, ClaimRow
  <2>3. OthersSame(i) /\ pc'[i] = "recheck" /\ cur'[i] = t
    BY <1>0, <2>1 DEF TakeUp, OthersSame, ThreadTypeOK
  <2>4. status'[t] = "running" /\ \A u \in Tasks \ {t} : status'[u] = status[u]
    BY <1>0, <2>1 DEF ClaimRow, RepoTypeOK
  <2>5. Tracked'
    BY <2>1, <2>2, <2>3, <2>4, TrackOne DEF Tracks, ClaimRow
  <2>6. Lifecycle!Start(t)
    BY <2>1 DEF ClaimRow, Lifecycle!Start, Lifecycle!Move
  <2> QED BY <2>5, <2>6 DEF Lifecycle!Next
<1> QED
  BY <1>2, <1>3, <1>4, <1>5, <1>6, <1>7 DEF Loop, Fetch, FetchBacklog, FetchReclaim,
     FetchNew, FetchNothing, FetchNoBroker, FetchLost

\* The steps of _execute_task.
LEMMA ExecuteRefines ==
    ASSUME IInv, Tracked, ~OrphansSurvive, NEW i \in Threads, Execute(i)
    PROVE  Tracked' /\ (Lifecycle!Next \/ Quiet)
<1>0. ThreadTypeOK /\ RepoTypeOK
  BY DEF IInv, TypeOK
<1>1. pc[i] \in Busy => cur[i] \in Tasks
  BY DEF IInv, InHand
<1>2. pc[i] \in Holding =>
         /\ cur[i] \in Tasks
         /\ \A j \in Threads \ {i} : ~Holds(j, cur[i])
         /\ HeldRow(i, cur[i]) /\ Tracks(i, cur[i])
  BY <1>1 DEF IInv, OneHolder, HeldRows, Tracked, Holds, Busy
<1>3. ASSUME NEW p, NEW q, Step(i, p, q), q \notin Holding, UNCHANGED repoVars
      PROVE  Tracked' /\ Quiet
  BY <1>0, <1>3, TrackNone DEF Step, OthersSame, repoVars, Quiet, ThreadTypeOK
<1>4. ASSUME NEW q, Drop(i, q), q \notin Holding, UNCHANGED repoVars
      PROVE  Tracked' /\ Quiet
  BY <1>0, <1>4, TrackNone DEF Drop, OthersSame, repoVars, Quiet, ThreadTypeOK
<1>5. ASSUME pc[i] \in Holding, OthersSame(i), cur'[i] = cur[i], UNCHANGED repoVars,
             Tracks(i, cur[i])'
      PROVE  Tracked' /\ Quiet
  BY <1>2, <1>5, TrackOne DEF repoVars, Quiet
<1>6. CASE Recheck(i)
  <2>1. CASE status[cur[i]] = "running"
    <3>1. /\ pc[i] = "recheck" /\ pc'[i] = "lock" /\ OthersSame(i) /\ cur' = cur
          /\ UNCHANGED repoVars
      BY <1>0, <1>6, <2>1 DEF Recheck, OthersSame, ThreadTypeOK
    <3>2. Tracks(i, cur[i])'
      BY <2>1, <3>1 DEF Tracks, repoVars
    <3> QED BY <1>5, <3>1, <3>2 DEF Holding
  <2>2. CASE status[cur[i]] # "running"
    BY <1>4, <1>6, <2>2 DEF Recheck, Holding
  <2> QED BY <2>1, <2>2
<1>7. CASE Lookup(i)
  BY <1>3, <1>7 DEF Lookup, Holding
<1>8. CASE Claim(i)
  <2>1. CASE ClaimRow(cur[i]) /\ Step(i, "claim", "lock")
    <3>1. /\ OthersSame(i) /\ pc'[i] = "lock" /\ cur'[i] = cur[i] /\ cur[i] \in Tasks
      BY <1>0, <1>1, <2>1 DEF Step, OthersSame, ThreadTypeOK, Busy
    <3>2. \A j \in Threads : ~Holds(j, cur[i])
      BY <2>1, <3>1 DEF IInv, HeldRows, HeldRow, ClaimRow
    <3>3. status'[cur[i]] = "running" /\ \A u \in Tasks \ {cur[i]} : status'[u] = status[u]
      BY <1>0, <2>1, <3>1 DEF ClaimRow, RepoTypeOK
    <3>4. Tracked'
      BY <2>1, <3>1, <3>2, <3>3, TrackOne DEF Tracks, ClaimRow
    <3>5. Lifecycle!Start(cur[i])
      BY <2>1 DEF ClaimRow, Lifecycle!Start, Lifecycle!Move
    <3> QED BY <3>1, <3>4, <3>5 DEF Lifecycle!Next
  <2> QED BY <1>3, <1>8, <2>1 DEF Claim, Holding
<1>9. CASE StartHandler(i)
  <2>1. /\ pc[i] = "lock" /\ pc'[i] = "run" /\ stage'[i] = "body" /\ OthersSame(i)
        /\ cur' = cur /\ UNCHANGED repoVars
    BY <1>0, <1>9 DEF StartHandler, OthersSame, ThreadTypeOK
  <2>2. Tracks(i, cur[i])'
    BY <1>2, <2>1 DEF Tracks, Holding, repoVars
  <2> QED BY <1>5, <2>1, <2>2 DEF Holding
<1>10. CASE NoHandler(i) \/ Reap(i) \/ ReapDead(i) \/ Terminated(i)
  <2>1. /\ pc[i] \in Holding /\ pc'[i] \in {"fail", "check"} /\ OthersSame(i)
        /\ cur' = cur /\ UNCHANGED repoVars
    BY <1>0, <1>10 DEF NoHandler, Reap, ReapDead, Terminated, Step, OthersSame,
       ThreadTypeOK, Holding
  <2>2. Tracks(i, cur[i])'
    BY <2>1 DEF Tracks
  <2> QED BY <1>5, <2>1, <2>2
<1>11. CASE Timeout(i)
  <2>1. /\ pc[i] = "run" /\ pc'[i] = "kill" /\ stage' = stage /\ OthersSame(i)
        /\ cur' = cur /\ UNCHANGED repoVars
    BY <1>0, <1>11 DEF Timeout, Step, OthersSame, ThreadTypeOK
  <2>2. Tracks(i, cur[i])'
    BY <1>2, <2>1 DEF Tracks, Holding, repoVars
  <2> QED BY <1>5, <2>1, <2>2 DEF Holding
<1>12. CASE MarkFailed(i)
  <2>1. /\ pc[i] = "fail" /\ pc'[i] = "check" /\ OthersSame(i) /\ cur' = cur
        /\ UpdateStatus(cur[i], "failed") /\ cur[i] \in Tasks
    BY <1>0, <1>2, <1>12 DEF MarkFailed, Step, OthersSame, ThreadTypeOK, Holding
  <2>2. Tracks(i, cur[i])'
    BY <2>1 DEF Tracks
  <2>3. Tracked'
    BY <1>0, <1>2, <2>1, <2>2, TrackOne DEF UpdateStatus, RepoTypeOK, Holding
  <2>4. status[cur[i]] \in {"running", "success", "failed"}
    BY <1>2, <2>1 DEF HeldRow, Holding
  <2>5. Lifecycle!Fail(cur[i]) \/ Quiet
    BY <1>0, <2>1, <2>4 DEF UpdateStatus, RepoTypeOK, Lifecycle!Fail, Lifecycle!Move, Quiet
  <2> QED BY <2>1, <2>3, <2>5 DEF Lifecycle!Next
<1>13. CASE CheckRetry(i)
  <2>1. CASE /\ status[cur[i]] = "failed" /\ ShouldRetry(cur[i])
             /\ BumpRetry(cur[i]) /\ Step(i, "check", "requeue")
    <3>1. /\ pc[i] = "check" /\ pc'[i] = "requeue" /\ OthersSame(i) /\ cur' = cur
          /\ cur[i] \in Tasks
      BY <1>0, <1>2, <2>1 DEF Step, OthersSame, ThreadTypeOK, Holding
    <3>2. status' = status /\ retry'[cur[i]] > 0
      BY <1>0, <2>1, <3>1 DEF BumpRetry, RepoTypeOK
    <3>3. Tracks(i, cur[i])'
      BY <2>1, <3>1, <3>2 DEF Tracks
    <3>4. Tracked'
      BY <1>0, <1>2, <2>1, <3>1, <3>3, TrackOne DEF BumpRetry, RepoTypeOK, Holding
    <3>5. Lifecycle!SpendRetry(cur[i])
      BY <2>1 DEF BumpRetry, ShouldRetry, Lifecycle!SpendRetry
    <3> QED BY <3>1, <3>4, <3>5 DEF Lifecycle!Next
  <2> QED BY <1>3, <1>13, <2>1 DEF CheckRetry, Holding
<1>14. CASE Requeue(i)
  <2>1. /\ pc[i] = "requeue" /\ pc'[i] = "publish" /\ OthersSame(i)
        /\ UpdateStatus(cur[i], "pending") /\ cur[i] \in Tasks
    BY <1>0, <1>2, <1>14 DEF Requeue, Step, OthersSame, ThreadTypeOK, Holding
  <2>2. Tracked'
    BY <1>0, <1>2, <2>1, TrackOne DEF UpdateStatus, RepoTypeOK, Holding
  <2>3. Lifecycle!Retry(cur[i])
    BY <1>2, <2>1 DEF Tracks, UpdateStatus, Lifecycle!Retry, Lifecycle!Move, Holding
  <2> QED BY <2>1, <2>2, <2>3 DEF Lifecycle!Next
<1>15. CASE Republish(i) \/ Ack(i)
  BY <1>3, <1>4, <1>15 DEF Republish, Ack, Holding
<1> QED
  BY <1>6, <1>7, <1>8, <1>9, <1>10, <1>11, <1>12, <1>13, <1>14, <1>15 DEF Execute

\* The handler process writes its outcome over RUNNING or over its own SUCCESS.
LEMMA HandlerRefines ==
    ASSUME IInv, Tracked, NEW i \in Threads, Handler(i)
    PROVE  Tracked' /\ (Lifecycle!Next \/ Quiet)
<1>0. ThreadTypeOK /\ RepoTypeOK
  BY DEF IInv, TypeOK
<1>1. pc[i] \in {"run", "kill"} /\ OthersSame(i) /\ UNCHANGED <<pc, cur>>
  BY <1>0 DEF Handler, HandlerSucceeds, HandlerFails, HandlerReturns, HandlerDies, Alive,
     OthersSame, ThreadTypeOK
<1>2. /\ cur[i] \in Tasks /\ Tracks(i, cur[i])
      /\ \A j \in Threads \ {i} : ~Holds(j, cur[i])
  BY <1>1 DEF IInv, InHand, OneHolder, Tracked, Holds, Busy, Holding
<1>3. CASE HandlerSucceeds(i)
  <2>1. /\ stage[i] = "body" /\ stage'[i] = "tail" /\ UpdateStatus(cur[i], "success")
        /\ status'[cur[i]] = "success"
    BY <1>0, <1>2, <1>3 DEF HandlerSucceeds, UpdateStatus, ThreadTypeOK, RepoTypeOK
  <2>2. Tracks(i, cur[i])'
    BY <1>1, <2>1 DEF Tracks
  <2>3. Tracked'
    BY <1>0, <1>1, <1>2, <2>1, <2>2, TrackOne DEF UpdateStatus, RepoTypeOK
  <2>4. Lifecycle!Succeed(cur[i])
    BY <1>1, <1>2, <2>1 DEF Tracks, UpdateStatus, Lifecycle!Succeed, Lifecycle!Move
  <2> QED BY <1>2, <2>3, <2>4 DEF Lifecycle!Next
<1>4. CASE HandlerFails(i)
  <2>1. /\ stage[i] \in {"body", "tail"} /\ stage'[i] = "exit"
        /\ UpdateStatus(cur[i], "failed")
    BY <1>0, <1>4 DEF HandlerFails, ThreadTypeOK
  <2>2. Tracks(i, cur[i])'
    BY <1>1, <2>1 DEF Tracks
  <2>3. Tracked'
    BY <1>0, <1>1, <1>2, <2>1, <2>2, TrackOne DEF UpdateStatus, RepoTypeOK
  <2>4. Lifecycle!Fail(cur[i])
    BY <1>1, <1>2, <2>1 DEF Tracks, UpdateStatus, Lifecycle!Fail, Lifecycle!Move
  <2> QED BY <1>2, <2>3, <2>4 DEF Lifecycle!Next
<1>5. CASE HandlerReturns(i) \/ HandlerDies(i)
  <2>1. stage'[i] \in {"exit", "none"} /\ UNCHANGED repoVars
    BY <1>0, <1>5 DEF HandlerReturns, HandlerDies, ThreadTypeOK
  <2>2. Tracks(i, cur[i])'
    BY <1>1, <2>1 DEF Tracks
  <2>3. Tracked'
    BY <1>1, <1>2, <2>1, <2>2, TrackOne DEF repoVars
  <2> QED BY <2>1, <2>3 DEF Quiet, repoVars
<1> QED BY <1>3, <1>4, <1>5 DEF Handler

\* Clients create rows; processes and time touch neither status nor retry_count.
LEMMA RestRefines ==
    ASSUME IInv, Tracked,
           \/ \E t \in Tasks : Client(t)
           \/ \E w \in Workers : Process(w)
           \/ Tick
    PROVE  Tracked' /\ (Lifecycle!Next \/ Quiet)
<1>0. ThreadTypeOK /\ RepoTypeOK
  BY DEF IInv, TypeOK
<1>1. ASSUME NEW t \in Tasks, Client(t) PROVE Tracked' /\ (Lifecycle!Next \/ Quiet)
  <2>1. UNCHANGED <<pc, cur, stage>>
    BY <1>1 DEF Client, Create, Publish, PublishFails, threadVars
  <2>2. CASE CreateRow(t)
    <3>1. \A j \in Threads : ~Holds(j, t)
      BY <2>2 DEF IInv, HeldRows, HeldRow, CreateRow
    <3>2. Tracked'
      BY <1>0, <2>1, <2>2, <3>1, TrackFree DEF CreateRow, RepoTypeOK
    <3>3. Lifecycle!Create(t)
      BY <2>2 DEF CreateRow, Lifecycle!Create, Lifecycle!Move
    <3> QED BY <3>2, <3>3 DEF Lifecycle!Next
  <2>3. CASE UNCHANGED repoVars
    BY <2>1, <2>3, TrackFree DEF repoVars, Quiet
  <2> QED BY <1>1, <2>2, <2>3 DEF Client, Create, Publish, PublishFails
<1>2. ASSUME NEW w \in Workers, Process(w) PROVE Tracked' /\ Quiet
  <2>1. UNCHANGED repoVars
    BY <1>2 DEF Process, Stop, Exit, Restart
  <2>2. \A i \in Threads :
           \/ pc'[i] = pc[i] /\ cur'[i] = cur[i] /\ stage'[i] = stage[i]
           \/ pc'[i] \notin Holding
    BY <1>0, <1>2 DEF Process, Stop, Exit, Restart, threadVars, ThreadTypeOK, Holding
  <2> QED BY <2>1, <2>2 DEF Tracked, Tracks, Holds, repoVars, Quiet
<1>3. CASE Tick
  BY <1>3, TrackFree DEF Tick, AgeRows, Quiet
<1> QED BY <1>1, <1>2, <1>3

\* The pool implements the life cycle a polling client relies on (TaskLifecycle):
\* no crash, timeout, redelivery or recovery moves a row in any other way.
THEOREM Refinement ==
    ASSUME SerialRecovery, ~OrphansSurvive
    PROVE  Spec => LifecycleSpec
<1>1. Init => Lifecycle!Init /\ Tracked
  BY DEF Init, RepoInit, Lifecycle!Init, Tracked, Holds, Holding
<1>2. IInv /\ Tracked /\ [Next]_vars =>
         Tracked' /\ [Lifecycle!Next]_(Lifecycle!vars)
  <2> SUFFICES ASSUME IInv, Tracked, [Next]_vars
               PROVE  Tracked' /\ (Lifecycle!Next \/ Quiet)
    BY DEF Lifecycle!vars, Quiet
  <2>1. CASE Next
    <3>1. orphans = {}
      BY DEF IInv, OrphansAllowed
    <3> QED
      BY <2>1, <3>1, LoopRefines, ExecuteRefines, HandlerRefines, RestRefines DEF Next
  <2>2. CASE UNCHANGED vars
    BY <2>2, TrackFree DEF vars, repoVars, threadVars, Quiet
  <2> QED BY <2>1, <2>2
<1> QED BY <1>1, <1>2, Invariant, PTL DEF Spec, LifecycleSpec, Lifecycle!Spec
=============================================================================
