-------------------------- MODULE OperationsProofs --------------------------
(***************************************************************************)
(* Proofs about what keeps the service running: the worker's health file   *)
(* (WorkerHealth) and the rate limiter (RequestGate), for any number of    *)
(* processes and callers, any interval, limit and window, and any clock;   *)
(* backups and restores (BackupRestore), for any number of jobs, sources   *)
(* and days.                                                               *)
(***************************************************************************)
EXTENDS BackupRestore, WorkerHealth, RequestGate, SequenceTheorems, TLAPS

-----------------------------------------------------------------------------
(* The worker's health file.  The invariant dates what the file says: the  *)
(* heartbeat it was written after, and the heartbeat the thread is in.     *)

HealthTyped ==
    /\ HealthTypeOK
    /\ worker = [state |-> worker.state, pid |-> worker.pid]
    /\ beat = [at |-> beat.at, since |-> beat.since]
    /\ signal = [pid |-> signal.pid, at |-> signal.at]
    /\ lastBeat \in -1 .. clock /\ steadyFrom \in 0 .. clock
    /\ beat.since <= clock /\ signal.at <= clock

\* A signal, written or about to be, follows a heartbeat the database took.
Vouched ==
    /\ beat.at = "write" => lastBeat >= 0 /\ clock - lastBeat <= Lag
    /\ signal.pid # 0 => lastBeat >= 0 /\ signal.at - lastBeat <= Lag

\* A running worker has a heartbeat thread, and that is never late.
Beating ==
    worker.state = "up" =>
        /\ worker.pid \in running /\ worker.pid # 0
        /\ beat.at # "none"
        /\ beat.at \in {"send", "write"} => clock - beat.since <= Lag
        /\ beat.at = "wait" => clock - beat.since <= BeatInterval + Lag

\* Undisturbed, every heartbeat has left its signal.
Signed ==
    worker.state = "up" /\ dbUp =>
        /\ beat.at = "wait" /\ beat.since > steadyFrom =>
              signal.pid = worker.pid /\ signal.at = beat.since
        /\ beat.at \in {"send", "write"} =>
              \/ signal.pid = worker.pid /\ beat.since - signal.at <= BeatInterval + Lag
              \/ beat.since - steadyFrom <= BeatInterval + Lag

HealthInv == HealthTyped /\ Vouched /\ Beating /\ Signed

\* The initial state: no process, no file.
LEMMA InitHealth == HealthInit => HealthInv
BY HealthAssumption
   DEF HealthInit, HealthInv, HealthTyped, HealthTypeOK, Vouched, Beating, Signed, NoSignal

\* Every step of the worker, its thread, its surroundings and the clock.
LEMMA StepHealth ==
    ASSUME HealthInv, [HealthNext]_healthVars
    PROVE  HealthInv'
<1> USE HealthAssumption DEF HealthInv, HealthTyped, HealthTypeOK, Vouched, Beating, Signed
<1>1. CASE WorkerStart
  BY <1>1 DEF WorkerStart
<1>2. CASE Send
  BY <1>2 DEF Send
<1>3. CASE WriteSignal
  BY <1>3 DEF WriteSignal
<1>4. CASE SignalFails
  BY <1>4 DEF SignalFails
<1>5. CASE NextBeat
  BY <1>5 DEF NextBeat, BeatDue
<1>6. CASE StopClear
  BY <1>6 DEF StopClear, NoSignal
<1>7. CASE WorkerExit
  BY <1>7 DEF WorkerExit
<1>8. CASE OtherProcess
  BY <1>8 DEF OtherProcess
<1>9. CASE Database
  BY <1>9 DEF Database
<1>10. CASE HealthTick
  BY <1>10 DEF HealthTick, OnTime
<1>11. CASE UNCHANGED healthVars
  BY <1>11 DEF healthVars
<1> QED
  BY <1>1, <1>2, <1>3, <1>4, <1>5, <1>6, <1>7, <1>8, <1>9, <1>10, <1>11 DEF HealthNext

\* read_worker_health never vouches for a worker whose heartbeat the database has not
\* seen within the limit, whichever process was killed and whose pid was reused, and
\* it vouches for every worker undisturbed for one heartbeat: HealthTruthful.
THEOREM HealthIsTruthful == HealthSpec => []HealthTruthful
<1>1. HealthInv => HealthTruthful
  BY HealthAssumption DEF HealthInv, HealthTyped, HealthTypeOK, Vouched, Beating, Signed,
     HealthTruthful, Healthy
<1> QED BY <1>1, InitHealth, StepHealth, PTL DEF HealthSpec

\* Heartbeat, health file and pids keep their types.
THEOREM HealthTypes == HealthSpec => []HealthTypeOK
<1>1. HealthInv => HealthTypeOK
  BY DEF HealthInv, HealthTyped
<1> QED BY <1>1, InitHealth, StepHealth, PTL DEF HealthSpec

-----------------------------------------------------------------------------
(* The rate limiter.  The invariant counts what was let through since a    *)
(* window began, and in the stretch of a window's length before it.        *)

GateTyped ==
    /\ second \in Nat
    /\ window \in [Callers -> [count : Nat, start : Int]]
    /\ admitted \in [Callers -> Seq(Int)]

Unseen(c) == window[c].start = -1 => admitted[c] = <<>>

\* What was let through since w's start, w's count, and what since a window earlier.
InWindows(c) ==
    \A i \in DOMAIN admitted[c] :
        LET w == window[c]
            later == Len(admitted[c]) - i IN
        /\ admitted[c][i] <= second
        /\ admitted[c][i] <= w.start + WindowLength
        /\ admitted[c][i] >= w.start => later < w.count /\ later < PerWindow
        /\ admitted[c][i] >= w.start - WindowLength => later < PerWindow + w.count

Burst(c) ==
    \A i, j \in DOMAIN admitted[c] :
        admitted[c][j] - admitted[c][i] <= WindowLength => j - i < 2 * PerWindow

GateInv ==
    GateTyped /\ \A c \in Callers : /\ window[c].start <= second /\ Unseen(c)
                                    /\ InWindows(c) /\ Burst(c)

\* The initial state: no request admitted.
LEMMA InitGate == GateInit => GateInv
BY DEF GateInit, GateInv, GateTyped, Unseen, InWindows, Burst

\* What a request does to its caller's counters.
LEMMA CountedIs ==
    ASSUME GateTyped, NEW c \in Callers, window[c].start <= second
    PROVE  /\ Counted(c) \in [count : Nat, start : Int]
           /\ Counted(c).start <= second
           /\ second - Counted(c).start <= WindowLength
           /\ \/ /\ Counted(c).start = window[c].start
                 /\ Counted(c).count = window[c].count + 1
                 /\ window[c].start # -1
              \/ /\ Counted(c).start = second /\ Counted(c).count \in Nat \ {0}
                 /\ window[c].start = -1 \/ second - window[c].start > WindowLength
<1> USE GateAssumption DEF GateTyped
<1>0. window[c] \in [count : Nat, start : Int] /\ second \in Nat
  OBVIOUS
<1>1. CASE window[c].start = -1
  <2>1. Counted(c) = [count |-> 1, start |-> second]
    BY <1>0, <1>1 DEF Counted
  <2> QED BY <1>0, <1>1, <2>1
<1>2. CASE window[c].start # -1 /\ second - window[c].start > WindowLength
  <2>1. Counted(c) = [count |-> 1, start |-> second]
    BY <1>0, <1>2 DEF Counted
  <2> QED BY <1>0, <1>2, <2>1
<1>3. CASE window[c].start # -1 /\ ~(second - window[c].start > WindowLength)
  <2>1. Counted(c) = [window[c] EXCEPT !.count = @ + 1]
    BY <1>0, <1>3 DEF Counted
  <2> QED BY SMTT(30), <1>0, <1>3, <2>1
<1> QED BY <1>1, <1>2, <1>3

\* A request that is let through or refused.
LEMMA StepCaller ==
    ASSUME GateInv, NEW c \in Callers, UNCHANGED second,
           window' = [window EXCEPT ![c] = Counted(c)],
           \/ UNCHANGED admitted
           \/ /\ Counted(c).count <= PerWindow
              /\ admitted' = [admitted EXCEPT ![c] = Append(@, second)]
    PROVE  GateInv'
<1>1. /\ second \in Nat /\ window[c] \in [count : Nat, start : Int]
      /\ admitted[c] \in Seq(Int) /\ window[c].start <= second
      /\ (window[c].start = -1 => Len(admitted[c]) = 0) /\ GateTyped
  BY DEF GateInv, GateTyped, Unseen
<1>2. /\ window'[c] \in [count : Nat, start : Int] /\ window'[c].start <= second
      /\ second - window'[c].start <= WindowLength
      /\ \/ window'[c].start = window[c].start /\ window'[c].count = window[c].count + 1
         \/ /\ window'[c].start = second /\ window'[c].count # 0
            /\ Len(admitted[c]) = 0 \/ second - window[c].start > WindowLength
  <2>1. window'[c] = Counted(c)
    BY <1>1 DEF GateTyped
  <2> QED BY <1>1, <2>1, CountedIs
<1>3. /\ \A d \in Callers \ {c} : window'[d] = window[d] /\ admitted'[d] = admitted[d]
      /\ \/ admitted'[c] = admitted[c]
         \/ /\ window'[c].count <= PerWindow
            /\ admitted'[c] = Append(admitted[c], second)
  BY <1>1 DEF GateTyped
<1>4. GateTyped' /\ admitted'[c] \in Seq(Int)
  <2>1. window' \in [Callers -> [count : Nat, start : Int]]
    BY <1>1, <1>2, CountedIs DEF GateTyped
  <2>2. Append(admitted[c], second) \in Seq(Int)
    BY <1>1
  <2>3. admitted' \in [Callers -> Seq(Int)]
    BY <1>1, <2>2 DEF GateTyped
  <2> QED BY <1>1, <2>1, <2>3 DEF GateTyped
<1>5. InWindows(c) /\ Burst(c)
  BY DEF GateInv
<1> DEFINE k == Len(admitted[c])
           l == Len(admitted'[c])
<1>6. /\ k \in Nat /\ DOMAIN admitted[c] = 1 .. k /\ l \in {k, k + 1}
      /\ DOMAIN admitted'[c] = 1 .. l
      /\ \A i \in 1 .. k : admitted'[c][i] = admitted[c][i] /\ admitted[c][i] \in Int
      /\ l = k + 1 => window'[c].count <= PerWindow /\ admitted'[c][l] = second
  <2>1. k \in Nat /\ DOMAIN admitted[c] = 1 .. k /\ \A i \in 1 .. k : admitted[c][i] \in Int
    BY <1>1
  <2>2. CASE admitted'[c] = admitted[c]
    BY <2>1, <2>2
  <2>3. CASE window'[c].count <= PerWindow /\ admitted'[c] = Append(admitted[c], second)
    BY <1>1, <2>1, <2>3
  <2> QED BY <1>3, <2>2, <2>3
<1>7. /\ window[c].start \in Int /\ window[c].count \in Nat
      /\ window'[c].start \in Int /\ window'[c].count \in Nat
  BY <1>1, <1>2
<1>8. ASSUME NEW i \in 1 .. k
      PROVE  /\ admitted[c][i] <= second /\ admitted[c][i] <= window'[c].start + WindowLength
             /\ admitted[c][i] >= window'[c].start =>
                   l - i < window'[c].count /\ l - i < PerWindow
             /\ admitted[c][i] >= window'[c].start - WindowLength =>
                   l - i < PerWindow + window'[c].count
             /\ l = k + 1 /\ second - admitted[c][i] <= WindowLength => l - i < 2 * PerWindow
  <2>1. /\ admitted[c][i] <= second /\ admitted[c][i] <= window[c].start + WindowLength
        /\ admitted[c][i] >= window[c].start =>
              k - i < window[c].count /\ k - i < PerWindow
        /\ admitted[c][i] >= window[c].start - WindowLength =>
              k - i < PerWindow + window[c].count
    BY <1>5, <1>6 DEF InWindows
  <2> HIDE DEF k, l
  <2>2. /\ second - window'[c].start <= WindowLength /\ window'[c].start <= second
        /\ \/ window'[c].start = window[c].start /\ window'[c].count = window[c].count + 1
           \/ /\ window'[c].start = second /\ window'[c].count # 0
              /\ k = 0 \/ second - window[c].start > WindowLength
    BY <1>2 DEF k
  <2>3. k \in Nat /\ l \in {k, k + 1} /\ admitted[c][i] \in Int
        /\ (l = k + 1 => window'[c].count <= PerWindow)
    BY <1>6
  <2>4. PICK x \in Int, s \in Int, u \in Int, n \in Nat, m \in Nat :
           /\ x = admitted[c][i] /\ s = window[c].start /\ n = window[c].count
           /\ u = window'[c].start /\ m = window'[c].count
    BY <1>7, <2>3
  <2>5. /\ u <= second /\ second - u <= WindowLength
        /\ \/ u = s /\ m = n + 1
           \/ u = second /\ m # 0 /\ (k = 0 \/ second - s > WindowLength)
        /\ (l = k + 1 => m <= PerWindow) /\ x <= second /\ x <= s + WindowLength
        /\ x >= s => k - i < n /\ k - i < PerWindow
        /\ x >= s - WindowLength => k - i < PerWindow + n
    BY <2>1, <2>2, <2>3, <2>4
  <2>6. /\ x <= u + WindowLength
        /\ x >= u => l - i < m /\ l - i < PerWindow
        /\ x >= u - WindowLength => l - i < PerWindow + m
        /\ l = k + 1 /\ second - x <= WindowLength => l - i < 2 * PerWindow
    <3>1. second \in Nat /\ k \in Nat /\ l \in {k, k + 1} /\ i \in 1 .. k
      BY <1>1, <2>3
    <3>2. CASE u = s /\ m = n + 1
      BY <2>5, <3>1, <3>2, GateAssumption
    <3>3. CASE u = second /\ second - s > WindowLength /\ m # 0
      BY <2>5, <3>1, <3>3, GateAssumption
    <3> QED BY <2>5, <3>1, <3>2, <3>3
  <2> QED BY <2>1, <2>4, <2>6
<1>9. window'[c].count > 0 /\ (l = k + 1 => second <= window'[c].start + WindowLength)
  BY <1>1, <1>2, <1>7, GateAssumption
<1>10. InWindows(c)'
  <2> HIDE DEF k, l
  <2>1. ASSUME NEW i \in 1 .. l
        PROVE  /\ admitted'[c][i] <= second
               /\ admitted'[c][i] <= window'[c].start + WindowLength
               /\ admitted'[c][i] >= window'[c].start =>
                     l - i < window'[c].count /\ l - i < PerWindow
               /\ admitted'[c][i] >= window'[c].start - WindowLength =>
                     l - i < PerWindow + window'[c].count
    <3>1. CASE i \in 1 .. k
      BY <1>6, <1>8, <3>1
    <3>2. CASE i \notin 1 .. k
      <4>1. i = l /\ l = k + 1
        BY <1>6, <3>2
      <4> QED BY SMTT(30), <1>1, <1>6, <1>7, <1>9, <4>1, GateAssumption
    <3> QED BY <3>1, <3>2
  <2> QED BY <1>6, <2>1 DEF InWindows, l
<1>11. Burst(c)'
  <2> HIDE DEF k, l
  <2>1. ASSUME NEW i \in 1 .. l, NEW j \in 1 .. l, admitted'[c][j] - admitted'[c][i] <= WindowLength
        PROVE  j - i < 2 * PerWindow
    <3>1. CASE i \in 1 .. k /\ j \in 1 .. k
      BY <1>5, <1>6, <2>1, <3>1 DEF Burst
    <3>2. CASE i \in 1 .. k /\ j \notin 1 .. k
      <4>1. j = l /\ l = k + 1
        BY <1>6, <3>2
      <4> QED BY <1>6, <1>8, <2>1, <3>2, <4>1
    <3>3. CASE i \notin 1 .. k
      <4>1. i = l /\ l = k + 1
        BY <1>6, <3>3
      <4> QED BY <1>6, <4>1, GateAssumption
    <3> QED BY <3>1, <3>2, <3>3
  <2> QED BY <1>6, <2>1 DEF Burst
<1>12. window'[c].start <= second' /\ Unseen(c)'
  <2>1. window'[c].start # -1
    BY <1>1, <1>2, <1>3, <1>7, CountedIs
  <2> QED BY <1>2, <2>1 DEF Unseen
<1>13. \A d \in Callers \ {c} : window'[d].start <= second' /\ (Unseen(d) /\ InWindows(d) /\ Burst(d))'
  BY <1>3 DEF GateInv, Unseen, InWindows, Burst
<1> QED BY <1>4, <1>10, <1>11, <1>12, <1>13 DEF GateInv

\* Every step keeps the invariant.
LEMMA StepGate ==
    ASSUME GateInv, [GateNext]_gateVars
    PROVE  GateInv'
<1>1. ASSUME NEW c \in Callers, NEW route \in Routes, Limited(c, route) PROVE GateInv'
  BY <1>1, StepCaller DEF Limited
<1>2. ASSUME NEW c \in Callers, NEW route \in Routes, NEW cred \in Credentials,
             Passed(c, route, cred)
      PROVE  GateInv'
  <2>1. CASE route = "health"
    BY <1>2, <2>1 DEF Passed, GateInv, GateTyped, Unseen, InWindows, Burst
  <2>2. CASE route # "health"
    <3>1. Counted(c).count <= PerWindow /\ window' = [window EXCEPT ![c] = Counted(c)]
      BY <1>2, <2>2 DEF Passed, GateInv, GateTyped
    <3>2. UNCHANGED admitted \/ admitted' = [admitted EXCEPT ![c] = Append(@, second)]
      BY <1>2, <2>2 DEF Passed, GateInv, GateTyped
    <3> QED BY <1>2, <3>1, <3>2, StepCaller DEF Passed
  <2> QED BY <2>1, <2>2
<1>3. CASE Second
  <2>1. second' = second + 1 /\ second \in Nat /\ UNCHANGED <<window, admitted>>
    BY <1>3 DEF Second, GateInv, GateTyped
  <2>2. GateTyped' /\ \A c \in Callers : window'[c].start <= second' /\ Unseen(c)' /\ Burst(c)'
    BY <2>1 DEF GateInv, GateTyped, Unseen, Burst
  <2>3. \A c \in Callers : InWindows(c)'
    <3>1. ASSUME NEW c \in Callers, NEW i \in DOMAIN admitted[c] PROVE admitted[c][i] \in Int
      BY <3>1, ElementOfSeq, LenProperties DEF GateInv, GateTyped
    <3> QED BY <2>1, <3>1 DEF GateInv, InWindows
  <2> QED BY <2>2, <2>3 DEF GateInv
<1>4. CASE UNCHANGED gateVars
  BY <1>4 DEF gateVars, GateInv, GateTyped, Unseen, InWindows, Burst
<1> QED BY <1>1, <1>2, <1>3, <1>4 DEF GateNext

\* RateLimitMiddleware lets a caller's handlers run at most twice per-window times in any
\* stretch of a window's length, also where two of its fixed windows meet: BoundedBurst.
THEOREM BurstBounded == GateSpec => []BoundedBurst
<1>1. GateInv => BoundedBurst
  BY DEF GateInv, Burst, BoundedBurst
<1> QED BY <1>1, InitGate, StepGate, PTL DEF GateSpec

\* The clock, the windows and the times of admission keep their types: a window starts and a
\* handler runs at a second that has come.
THEOREM GateTypes == GateSpec => []GateTypeOK
<1>1. GateInit => GateTypeOK
  BY GateAssumption DEF GateInit, GateTypeOK
<1>2. ASSUME GateInv, GateTypeOK, [GateNext]_gateVars PROVE GateTypeOK'
  <2>1. /\ second \in 0 .. LastSecond /\ LastSecond \in Nat
        /\ window \in [Callers -> [count : Nat, start : Int]] /\ admitted \in [Callers -> Seq(Int)]
        /\ \A c \in Callers : window[c].start \in -1 .. second
        /\ \A c \in Callers : \A i \in DOMAIN admitted[c] : admitted[c][i] \in 0 .. second
    BY <1>2, GateAssumption DEF GateInv, GateTyped, GateTypeOK
  <2>2. ASSUME NEW c \in Callers, UNCHANGED second, window' = [window EXCEPT ![c] = Counted(c)],
               UNCHANGED admitted \/ admitted' = [admitted EXCEPT ![c] = Append(@, second)]
        PROVE  GateTypeOK'
    <3>1. /\ Counted(c) \in [count : Nat, start : Int]
          /\ Counted(c).start = window[c].start \/ Counted(c).start = second
      BY <1>2, CountedIs DEF GateInv
    <3>2. \A d \in Callers : /\ window'[d].count \in Nat /\ window'[d].start \in -1 .. second
      BY <2>1, <2>2, <3>1
    <3>3. ASSUME NEW d \in Callers, NEW i \in DOMAIN admitted'[d]
          PROVE  admitted'[d][i] \in 0 .. second
      <4>1. CASE admitted'[d] = admitted[d]
        BY <2>1, <3>3, <4>1
      <4>2. CASE admitted'[d] = Append(admitted[d], second)
        <5>0. admitted[d] \in Seq(Int) /\ second \in Int
          BY <2>1
        <5>1. /\ DOMAIN admitted'[d] = 1 .. Len(admitted[d]) + 1 /\ Len(admitted[d]) \in Nat
              /\ DOMAIN admitted[d] = 1 .. Len(admitted[d])
              /\ \A j \in 1 .. Len(admitted[d]) : admitted'[d][j] = admitted[d][j]
              /\ admitted'[d][Len(admitted[d]) + 1] = second
          BY <4>2, <5>0
        <5>2. i \in 1 .. Len(admitted[d]) \/ i = Len(admitted[d]) + 1
          BY <3>3, <5>1
        <5>3. CASE i \in 1 .. Len(admitted[d])
          <6>1. admitted[d][i] \in 0 .. second
            BY <2>1, <5>1, <5>3
          <6> QED BY <5>1, <5>3, <6>1
        <5>4. CASE i = Len(admitted[d]) + 1
          BY <2>1, <5>1, <5>4
        <5> QED BY <5>2, <5>3, <5>4
      <4>3. admitted'[d] = admitted[d] \/ admitted'[d] = Append(admitted[d], second)
        BY <2>1, <2>2, <3>3
      <4> QED BY <4>1, <4>2, <4>3
    <3> QED BY <2>1, <2>2, <3>2, <3>3 DEF GateTypeOK
  <2>3. ASSUME NEW c \in Callers, NEW route \in Routes, Limited(c, route) PROVE GateTypeOK'
    BY <2>2, <2>3 DEF Limited
  <2>4. ASSUME NEW c \in Callers, NEW route \in Routes, NEW cred \in Credentials,
               Passed(c, route, cred)
        PROVE  GateTypeOK'
    <3>1. CASE route = "health"
      BY <1>2, <2>4, <3>1 DEF Passed, GateTypeOK
    <3>2. CASE route # "health"
      <4>1. UNCHANGED admitted \/ admitted' = [admitted EXCEPT ![c] = Append(@, second)]
        BY <2>1, <2>4, <3>2 DEF Passed
      <4> QED BY <2>2, <2>4, <3>2, <4>1 DEF Passed
    <3> QED BY <3>1, <3>2
  <2>5. CASE Second
    <3>1. second' \in 0 .. LastSecond /\ second' = second + 1 /\ UNCHANGED <<window, admitted>>
      BY <2>1, <2>5 DEF Second
    <3> QED BY <1>2, <2>1, <3>1 DEF GateTypeOK
  <2>6. CASE UNCHANGED gateVars
    BY <1>2, <2>6 DEF gateVars, GateTypeOK
  <2> QED BY <1>2, <2>3, <2>4, <2>5, <2>6 DEF GateNext
<1> QED BY <1>1, <1>2, InitGate, StepGate, PTL DEF GateSpec

-----------------------------------------------------------------------------
(* The backup directory.  Every file carries the name of its job, and only *)
(* the cleanup touches another job's files, when they are older than any a *)
(* running job makes.                                                      *)

DumpKinds == {"postgresql", "sqlite", "chroma_local"}
Making == {"paths", "dump", "dumping", "publish", "manifest"}
Cleaning == {"scan", "clean", "unlink"}
Extracting == {"tar_list", "remove", "extract"}
JobType ==
    [pc : {"idle", "pg_restore"} \cup Making \cup Cleaning \cup Extracting,
     todo : Seq(Kinds), name : Names \cup {NoName}, list : SUBSET Names, files : SUBSET Names]

BackupTyped == BackupTypeOK /\ job \in [Jobs -> JobType]

\* A file of a store is one consistent copy, until it is damaged; its sidecar too.
GoodCopy(k, c) == (k \in Stores => c # Torn) /\ (k = "postgresql" => c \in Versions \cup {None})
Copies ==
    /\ \A n \in Names : GoodCopy(n[1], manifest[n])
    /\ live["postgresql"] \in Versions /\ live["chroma_volume"] # Torn

\* A file is safe while it is retained.
Kept(n) == Retained(n) => Restorable(n)

\* What a job that makes a file has done to it, from today, under its own name.
Made(j) ==
    LET n == job[j].name IN
    /\ n \in Names /\ n[2] = day /\ n[3] = j
    /\ job[j].todo # <<>> /\ job[j].list = {}
    /\ \/ job[j].todo \in Seq(DumpKinds) /\ n[1] # "chroma_volume"
       \/ job[j].todo = <<"chroma_volume">> /\ n[1] = "chroma_volume" /\ ~writers
    /\ job[j].pc # "paths" => manifest[n] = None
    /\ job[j].pc \in {"dump", "dumping", "publish"} => artifact[n] = None
    /\ job[j].pc = "publish" => GoodCopy(n[1], partial[n])
    /\ job[j].pc = "manifest" => GoodCopy(n[1], artifact[n])

\* What a restore works on.
Restoring(j) ==
    LET n == job[j].name IN
    /\ n \in Names /\ Kept(n) /\ GoodCopy(n[1], artifact[n])
    /\ job[j].pc = "pg_restore" => n[1] = "postgresql"
    /\ job[j].pc \in Extracting => n[1] = "chroma_volume" /\ ~writers

\* Files a run has made and not reported yet.
Finished(j) ==
    \A n \in job[j].files :
        /\ n[2] = day /\ n[3] = j /\ n \notin reported
        /\ Restorable(n) /\ GoodCopy(n[1], artifact[n])

JobInv(j) ==
    /\ job[j].pc = "idle" => job[j].files = {}
    /\ job[j].pc \in Making => Made(j)
    /\ job[j].pc \in {"pg_restore"} \cup Extracting => Restoring(j)
    /\ job[j].pc \in Cleaning => \A n \in job[j].list : Expired(n)
    /\ job[j].pc = "unlink" => job[j].name \in Names /\ Expired(job[j].name)
    /\ Finished(j)

BackupInv ==
    /\ BackupTyped /\ Copies
    /\ \A j \in Jobs : JobInv(j)
    /\ \A n \in reported : Retained(n) => Restorable(n) /\ GoodCopy(n[1], artifact[n])
    /\ hurt # NoName => Kept(hurt)

-----------------------------------------------------------------------------
(* The steps of the backup programs.                                       *)

\* A step of a job.
JobStep(j) ==
    \/ AtomicArtifactPaths(j) \/ DumpBegin(j) \/ DumpEnd(j) \/ DumpFail(j) \/ PublishArtifact(j)
    \/ WriteManifest(j) \/ ManifestFail(j)
    \/ CleanupScan(j) \/ CleanManifest(j) \/ CleanArtifact(j) \/ CleanLeftovers(j)
    \/ PgRestore(j) \/ TarList(j) \/ TarRemove(j) \/ TarExtract(j)
    \/ KillJob(j) \/ BackupMain(j) \/ VolumeBackup(j) \/ RestorePostgresql(j) \/ RestoreVolume(j)
OtherStep == Damage \/ SwitchWriters \/ ServiceWrite \/ NextDay

\* A step is one of a job or of the surroundings.
LEMMA StepsAre ==
    ASSUME BackupNext
    PROVE  (\E j \in Jobs : JobStep(j)) \/ OtherStep
BY DEF BackupNext, JobStep, OtherStep, Jobs

\* The parts of a name.
LEMMA NameParts ==
    /\ \A n \in Names : n[1] \in Kinds /\ n[2] \in 0 .. LastDay /\ n[3] \in Jobs
    /\ \A k \in Kinds, d \in 0 .. LastDay, j \in Jobs :
          /\ <<k, d, j>> \in Names
          /\ <<k, d, j>>[1] = k /\ <<k, d, j>>[2] = d /\ <<k, d, j>>[3] = j
    /\ NoName \notin Names
BY DEF Names, NoName

\* What a step does to a published file.
LEMMA ArtifactMoves ==
    ASSUME BackupInv, BackupNext, NEW n \in Names, artifact'[n] # artifact[n]
    PROVE  \/ \E j \in Jobs : /\ job[j].pc = "publish" /\ job[j].name = n /\ artifact[n] = None
                              /\ artifact'[n] = partial[n] /\ PublishArtifact(j)
           \/ /\ artifact'[n] = None
              /\ Expired(n) \/ \E j \in Jobs : job[j].pc = "manifest" /\ job[j].name = n
           \/ /\ artifact'[n] = Torn /\ n \in reported /\ n \notin reported' /\ hurt = NoName
              /\ \A j \in Jobs : job[j].name # n
<1> USE DEF files
<1>1. artifact \in [Names -> Contents \cup {None}] /\ \A j \in Jobs : JobInv(j)
  BY DEF BackupInv, BackupTyped, BackupTypeOK
<1>2. ASSUME NEW j \in Jobs, JobStep(j), ~PublishArtifact(j), ~ManifestFail(j), ~CleanArtifact(j)
      PROVE  UNCHANGED artifact
  BY <1>2 DEF JobStep, AtomicArtifactPaths, DumpBegin, DumpEnd, DumpFail, WriteManifest,
       CleanupScan,
     CleanManifest, CleanLeftovers, PgRestore, TarList, TarRemove, TarExtract, KillJob, BackupMain,
     VolumeBackup, RestorePostgresql, RestoreVolume
<1>3. ASSUME NEW j \in Jobs, PublishArtifact(j)
      PROVE  /\ job[j].pc = "publish" /\ job[j].name = n /\ artifact[n] = None
             /\ artifact'[n] = partial[n]
  BY <1>1, <1>3 DEF PublishArtifact
<1>4. ASSUME NEW j \in Jobs, ManifestFail(j)
      PROVE  artifact'[n] = None /\ job[j].pc = "manifest" /\ job[j].name = n
  BY <1>1, <1>4 DEF ManifestFail
<1>5. ASSUME NEW j \in Jobs, CleanArtifact(j) PROVE artifact'[n] = None /\ Expired(n)
  BY <1>1, <1>5 DEF CleanArtifact, JobInv
<1>6. CASE Damage
  BY <1>1, <1>6 DEF Damage
<1>7. CASE SwitchWriters \/ ServiceWrite \/ NextDay
  BY <1>7 DEF SwitchWriters, ServiceWrite, NextDay
<1> QED BY <1>2, <1>3, <1>4, <1>5, <1>6, <1>7, StepsAre DEF OtherStep

\* What a step does to a sidecar.
LEMMA ManifestMoves ==
    ASSUME BackupInv, BackupNext, NEW n \in Names, manifest'[n] # manifest[n]
    PROVE  \/ \E j \in Jobs : /\ job[j].pc = "manifest" /\ job[j].name = n /\ artifact[n] # None
                              /\ manifest'[n] = artifact[n] /\ WriteManifest(j)
           \/ manifest'[n] = None /\ Expired(n)
<1> USE DEF files
<1>1. manifest \in [Names -> Contents \cup {None}] /\ \A j \in Jobs : JobInv(j)
  BY DEF BackupInv, BackupTyped, BackupTypeOK
<1>2. ASSUME NEW j \in Jobs, JobStep(j), ~WriteManifest(j), ~CleanManifest(j), ~CleanLeftovers(j)
      PROVE  UNCHANGED manifest
  BY <1>2 DEF JobStep, AtomicArtifactPaths, DumpBegin, DumpEnd, DumpFail, PublishArtifact,
       ManifestFail,
     CleanupScan, CleanArtifact, PgRestore, TarList, TarRemove, TarExtract, KillJob, BackupMain,
     VolumeBackup, RestorePostgresql, RestoreVolume
<1>3. ASSUME NEW j \in Jobs, WriteManifest(j)
      PROVE  /\ job[j].pc = "manifest" /\ job[j].name = n /\ artifact[n] # None
             /\ manifest'[n] = artifact[n]
  BY <1>1, <1>3 DEF WriteManifest
<1>4. ASSUME NEW j \in Jobs, CleanManifest(j) PROVE manifest'[n] = None /\ Expired(n)
  BY <1>1, <1>4 DEF CleanManifest, JobInv, Cleaning
<1>5. ASSUME NEW j \in Jobs, CleanLeftovers(j) PROVE manifest'[n] = None /\ Expired(n)
  BY <1>1, <1>5 DEF CleanLeftovers
<1>6. CASE OtherStep
  BY <1>6 DEF OtherStep, Damage, SwitchWriters, ServiceWrite, NextDay
<1> QED BY <1>2, <1>3, <1>4, <1>5, <1>6, StepsAre

\* What a step does to a partial file.
LEMMA PartialMoves ==
    ASSUME BackupInv, BackupNext, NEW n \in Names, partial'[n] # partial[n]
    PROVE  partial'[n] = None \/ \E j \in Jobs : job[j].pc \in Making /\ job[j].name = n /\ JobStep(j)
<1> USE DEF files
<1>1. partial \in [Names -> Contents \cup {None}]
  BY DEF BackupInv, BackupTyped, BackupTypeOK
<1>2. ASSUME NEW j \in Jobs, JobStep(j), job[j].pc \notin Making, ~CleanLeftovers(j)
      PROVE  UNCHANGED partial
  BY <1>2 DEF JobStep, AtomicArtifactPaths, DumpBegin, DumpEnd, DumpFail, PublishArtifact,
       ManifestFail,
     WriteManifest, CleanupScan, CleanManifest, CleanArtifact, PgRestore, TarList, TarRemove,
     TarExtract, KillJob, BackupMain, VolumeBackup, RestorePostgresql, RestoreVolume, Making
<1>3. ASSUME NEW j \in Jobs, JobStep(j), job[j].pc \in Making PROVE job[j].name = n
  BY <1>1, <1>3 DEF JobStep, AtomicArtifactPaths, DumpBegin, DumpEnd, DumpFail, PublishArtifact,
     ManifestFail, WriteManifest, CleanupScan, CleanManifest, CleanArtifact, CleanLeftovers, PgRestore,
     TarList, TarRemove, TarExtract, KillJob, BackupMain, VolumeBackup, RestorePostgresql,
     RestoreVolume, Making
<1>4. ASSUME NEW j \in Jobs, CleanLeftovers(j) PROVE partial'[n] = None
  BY <1>1, <1>4 DEF CleanLeftovers
<1>5. CASE OtherStep
  BY <1>5 DEF OtherStep, Damage, SwitchWriters, ServiceWrite, NextDay
<1> QED BY <1>2, <1>3, <1>4, <1>5, StepsAre

\* A job's step moves its own program counter, and no other job.
LEMMA JobMoves ==
    ASSUME BackupInv, NEW j \in Jobs, JobStep(j)
    PROVE  job'[j].pc # job[j].pc /\ \A i \in Jobs \ {j} : job'[i] = job[i]
<1> USE DEF Goto, Exit, Idle
<1>1. job \in [Jobs -> JobType] /\ job[j] \in JobType
  BY DEF BackupInv, BackupTyped
<1> USE <1>1 DEF JobType
<1>2. CASE AtomicArtifactPaths(j) \/ DumpBegin(j) \/ DumpEnd(j) \/ DumpFail(j) \/ PublishArtifact(j)
  BY <1>2 DEF AtomicArtifactPaths, DumpBegin, DumpEnd, DumpFail, PublishArtifact
<1>3. CASE WriteManifest(j)
  <2>1. CASE Tail(job[j].todo) # <<>>
    BY ZenonT(60), <1>3, <2>1 DEF WriteManifest, Continue
  <2>2. CASE Tail(job[j].todo) = <<>> /\ job[j].name[1] = "chroma_volume"
    BY <1>3, <2>2 DEF WriteManifest, Continue
  <2>3. CASE Tail(job[j].todo) = <<>> /\ job[j].name[1] # "chroma_volume"
    BY <1>3, <2>3 DEF WriteManifest, Continue
  <2> QED BY <2>1, <2>2, <2>3
<1>4. CASE ManifestFail(j) \/ CleanupScan(j) \/ CleanManifest(j)
  BY <1>4 DEF ManifestFail, CleanupScan, CleanManifest
<1>5. CASE CleanArtifact(j) \/ CleanLeftovers(j) \/ KillJob(j)
  BY <1>5 DEF CleanArtifact, CleanLeftovers, KillJob
<1>6. CASE PgRestore(j) \/ TarList(j) \/ TarRemove(j) \/ TarExtract(j)
  BY <1>6 DEF PgRestore, TarList, TarRemove, TarExtract
<1>7. CASE BackupMain(j) \/ VolumeBackup(j) \/ RestorePostgresql(j) \/ RestoreVolume(j)
  BY ZenonT(60), <1>7 DEF BackupMain, VolumeBackup, RestorePostgresql, RestoreVolume
<1> QED BY <1>2, <1>3, <1>4, <1>5, <1>6, <1>7 DEF JobStep

\* The clock moves only when no job runs, and the switch of the services only beside
\* jobs that leave the volume alone.
LEMMA WorldMoves ==
    ASSUME BackupInv, BackupNext
    PROVE  /\ \/ UNCHANGED day
              \/ /\ day' = day + 1 /\ (\A j \in Jobs : job[j].pc = "idle")
                 /\ UNCHANGED <<partial, artifact, manifest, job, reported, hurt, live, writers>>
           /\ UNCHANGED writers \/ (VolumeIdle /\ UNCHANGED job)
<1> USE DEF files, World
<1>1. ASSUME NEW j \in Jobs, JobStep(j) PROVE UNCHANGED <<day, writers>>
  BY <1>1 DEF JobStep, AtomicArtifactPaths, DumpBegin, DumpEnd, DumpFail, PublishArtifact,
     ManifestFail, WriteManifest, CleanupScan, CleanManifest, CleanArtifact, CleanLeftovers, PgRestore,
     TarList, TarRemove, TarExtract, KillJob, BackupMain, VolumeBackup, RestorePostgresql,
     RestoreVolume
<1>2. CASE OtherStep
  BY <1>2 DEF OtherStep, Damage, SwitchWriters, ServiceWrite, NextDay
<1> QED BY <1>1, <1>2, StepsAre

\* Retention only ends.
LEMMA RetainedBefore ==
    ASSUME BackupInv, BackupNext, NEW n \in Names
    PROVE  /\ Retained(n)' => Retained(n)
           /\ Expired(n) => Expired(n)'
           /\ Retained(n) <=> ~Expired(n)
           /\ n[2] = day => Retained(n)
<1>1. day \in 0 .. LastDay /\ n[2] \in 0 .. LastDay /\ (day' = day \/ day' = day + 1)
  BY WorldMoves, NameParts DEF BackupInv, BackupTyped, BackupTypeOK
<1> QED BY <1>1, BackupAssumption DEF Retained, Expired

\* A file that verifies is left alone while it is retained, or is damaged by the world.
LEMMA Undisturbed ==
    ASSUME BackupInv, BackupNext, NEW n \in Names, Restorable(n), Retained(n)
    PROVE  \/ artifact'[n] = artifact[n] /\ manifest'[n] = manifest[n]
           \/ n \in reported /\ n \notin reported' /\ hurt = NoName /\ \A j \in Jobs : job[j].name # n
<1>1. ~Expired(n) /\ manifest[n] # None /\ artifact[n] # None
  BY RetainedBefore DEF Restorable
<1>2. \A j \in Jobs : job[j].pc \in Making \ {"paths"} => job[j].name # n
  BY <1>1 DEF BackupInv, JobInv, Made
<1>3. \A j \in Jobs : job[j].pc = "manifest" => job[j].name # n
  BY <1>2 DEF Making
<1> QED BY <1>1, <1>3, ArtifactMoves, ManifestMoves

\* What a run reports is what it has made.
LEMMA ReportedMoves ==
    ASSUME BackupInv, BackupNext, NEW n \in reported', n \notin reported
    PROVE  \E j \in Jobs : /\ JobStep(j)
                           /\ n \in job[j].files \/ (n = job[j].name /\ WriteManifest(j))
<1> USE DEF files
<1>1. ASSUME NEW j \in Jobs, JobStep(j), ~WriteManifest(j), ~CleanLeftovers(j)
      PROVE  UNCHANGED reported
  BY <1>1 DEF JobStep, AtomicArtifactPaths, DumpBegin, DumpEnd, DumpFail, PublishArtifact,
     ManifestFail, CleanupScan, CleanManifest, CleanArtifact, PgRestore, TarList, TarRemove,
     TarExtract, KillJob, BackupMain, VolumeBackup, RestorePostgresql, RestoreVolume
<1>2. ASSUME NEW j \in Jobs, WriteManifest(j)
      PROVE  reported' \subseteq reported \cup job[j].files \cup {job[j].name}
  BY <1>2 DEF WriteManifest, Continue
<1>3. ASSUME NEW j \in Jobs, CleanLeftovers(j) PROVE reported' = reported \cup job[j].files
  BY <1>3 DEF CleanLeftovers
<1>4. CASE OtherStep
  BY <1>4 DEF OtherStep, Damage, SwitchWriters, ServiceWrite, NextDay
<1> QED BY <1>1, <1>2, <1>3, <1>4, StepsAre

\* The name of a file being made tells its job.
LEMMA MakerIs ==
    ASSUME BackupInv, NEW j \in Jobs, job[j].pc \in Making
    PROVE  /\ Made(j) /\ job[j].name \in Names /\ job[j].name[3] = j /\ job[j].name[2] = day
BY DEF BackupInv, JobInv, Made

\* A missing file is a good copy.
LEMMA NoneIsGood == \A k : GoodCopy(k, None)
BY DEF GoodCopy, None, Torn

\* A job keeps what it has while others move.
LEMMA Bystander ==
    ASSUME BackupInv, BackupNext, NEW i \in Jobs, job'[i] = job[i]
    PROVE  JobInv(i)'
<1>1. JobInv(i) /\ job[i] \in JobType /\ ~JobStep(i)
  BY JobMoves DEF BackupInv, BackupTyped
<1>2. job[i].pc # "idle" => UNCHANGED day
  BY WorldMoves
<1>3. \A n \in Names : GoodCopy(n[1], artifact[n]) /\ (\E j \in Jobs : job[j].name = n)
                          => GoodCopy(n[1], artifact'[n])
  <2> SUFFICES ASSUME NEW n \in Names, GoodCopy(n[1], artifact[n]), artifact'[n] # artifact[n],
                      \E j \in Jobs : job[j].name = n
               PROVE  GoodCopy(n[1], artifact'[n])
    OBVIOUS
  <2>1. ASSUME NEW j \in Jobs, job[j].pc = "publish", job[j].name = n, artifact'[n] = partial[n]
        PROVE  GoodCopy(n[1], artifact'[n])
    BY <2>1, MakerIs DEF Made, Making
  <2> QED BY <2>1, ArtifactMoves, NoneIsGood
<1>4. ASSUME job[i].pc \in Making PROVE Made(i)'
  <2>1. PICK n \in Names : n = job[i].name /\ n[2] = day /\ n[3] = i /\ Made(i)
    BY <1>4, MakerIs
  <2>2. UNCHANGED day
    BY <1>2, <1>4 DEF Making
  <2>3. n[1] = "chroma_volume" => writers' = writers
    BY <1>4, <2>1, WorldMoves DEF VolumeIdle, Making
  <2>4. manifest[n] = None => manifest'[n] = None
    <3>1. ASSUME NEW j \in Jobs, job[j].pc = "manifest", job[j].name = n, WriteManifest(j) PROVE FALSE
      BY <1>1, <2>1, <3>1, MakerIs DEF Making, JobStep
    <3> QED BY <3>1, ManifestMoves
  <2>5. artifact[n] = None => artifact'[n] = None
    <3>1. ASSUME NEW j \in Jobs, job[j].pc = "publish", job[j].name = n, PublishArtifact(j) PROVE FALSE
      BY <1>1, <2>1, <3>1, MakerIs DEF Making, JobStep
    <3> QED BY <2>1, <3>1, ArtifactMoves
  <2>6. GoodCopy(n[1], partial[n]) => GoodCopy(n[1], partial'[n])
    <3>1. ASSUME NEW j \in Jobs, job[j].pc \in Making, job[j].name = n, JobStep(j) PROVE FALSE
      BY <1>1, <2>1, <3>1, MakerIs
    <3> QED BY <3>1, PartialMoves, NoneIsGood
  <2> QED BY <1>3, <2>1, <2>2, <2>3, <2>4, <2>5, <2>6 DEF Made
<1>5. ASSUME job[i].pc \in {"pg_restore"} \cup Extracting PROVE Restoring(i)'
  <2>1. PICK n \in Names : n = job[i].name /\ Restoring(i)
    BY <1>1, <1>5 DEF JobInv, Restoring
  <2>2. Kept(n)'
    BY <2>1, Undisturbed, RetainedBefore DEF Kept, Restoring, Restorable
  <2>3. n[1] = "chroma_volume" => writers' = writers
    BY <1>5, <2>1, WorldMoves DEF VolumeIdle, Extracting
  <2> QED BY <1>3, <1>5, <2>1, <2>2, <2>3 DEF Restoring, Extracting
<1>6. ASSUME job[i].pc \in Cleaning PROVE \A n \in job[i].list : Expired(n)'
  BY <1>1, <1>6, RetainedBefore DEF JobInv, JobType
<1>7. ASSUME job[i].pc = "unlink" PROVE job[i].name \in Names /\ Expired(job[i].name)'
  <2>1. PICK n \in Names : n = job[i].name /\ Expired(n)
    BY <1>1, <1>7 DEF JobInv
  <2>2. Expired(n)'
    BY <2>1, RetainedBefore
  <2> QED BY <2>1, <2>2 DEF Expired
<1>8. Finished(i)'
  <2> SUFFICES ASSUME NEW n \in job[i].files
               PROVE  /\ n[2] = day' /\ n[3] = i /\ n \notin reported'
                      /\ Restorable(n)' /\ GoodCopy(n[1], artifact'[n])
    BY DEF Finished
  <2>1. /\ n \in Names /\ n[2] = day /\ n[3] = i /\ n \notin reported /\ Restorable(n)
        /\ GoodCopy(n[1], artifact[n])
    BY <1>1 DEF JobInv, Finished, JobType
  <2>2. UNCHANGED day
    BY <1>1, <1>2 DEF JobInv
  <2>3. n \notin reported'
    <3>1. ASSUME NEW j \in Jobs, JobStep(j), n \in job[j].files PROVE FALSE
      BY <1>1, <2>1, <3>1 DEF BackupInv, JobInv, Finished
    <3>2. ASSUME NEW j \in Jobs, WriteManifest(j), n = job[j].name PROVE FALSE
      BY <1>1, <2>1, <3>2, MakerIs DEF WriteManifest, Making, JobStep
    <3> QED BY <2>1, <3>1, <3>2, ReportedMoves
  <2>4. artifact'[n] = artifact[n] /\ manifest'[n] = manifest[n]
    BY <2>1, Undisturbed, RetainedBefore
  <2> QED BY <2>1, <2>2, <2>3, <2>4 DEF Restorable
<1> QED BY <1>1, <1>4, <1>5, <1>6, <1>7, <1>8 DEF JobInv

\* A job that ends has nothing to keep.
LEMMA JobEnds ==
    ASSUME NEW j \in Jobs, job'[j] = Idle
    PROVE  JobInv(j)'
BY DEF Idle, JobInv, Finished, Making, Cleaning, Extracting

\* What a run has made stays as it is until it is reported.
LEMMA FilesStay ==
    ASSUME BackupInv, BackupNext, NEW j \in Jobs, NEW n \in job[j].files, n \notin reported', UNCHANGED day
    PROVE  /\ n[2] = day' /\ n[3] = j /\ n \notin reported'
           /\ Restorable(n)' /\ GoodCopy(n[1], artifact'[n])
<1>1. /\ n \in Names /\ n[2] = day /\ n[3] = j /\ n \notin reported /\ Restorable(n)
      /\ GoodCopy(n[1], artifact[n])
  BY DEF BackupInv, BackupTyped, JobInv, Finished, JobType
<1>2. artifact'[n] = artifact[n] /\ manifest'[n] = manifest[n]
  BY <1>1, Undisturbed, RetainedBefore
<1> QED BY <1>1, <1>2 DEF Restorable

\* Up to the publication.
LEMMA StepMaking ==
    ASSUME BackupInv, BackupNext, NEW j \in Jobs,
           \/ AtomicArtifactPaths(j) \/ DumpBegin(j) \/ DumpEnd(j) \/ DumpFail(j) \/ PublishArtifact(j)
    PROVE  JobInv(j)'
<1> DEFINE n == job[j].name
<1>1. /\ job \in [Jobs -> JobType] /\ job[j] \in JobType /\ job[j].pc \in Making
      /\ partial \in [Names -> Contents \cup {None}] /\ artifact \in [Names -> Contents \cup {None}]
  BY DEF BackupInv, BackupTyped, BackupTypeOK, AtomicArtifactPaths, DumpBegin, DumpEnd, DumpFail,
     PublishArtifact, Making
<1>2. Made(j) /\ n \in Names
  BY <1>1, MakerIs
<1>3. UNCHANGED <<day, writers, live, manifest, reported>>
  BY DEF AtomicArtifactPaths, DumpBegin, DumpEnd, DumpFail, PublishArtifact, World
<1>4. ASSUME job'[j].files = job[j].files PROVE Finished(j)'
  <2>1. \A m \in job[j].files : m \notin reported'
    BY <1>3 DEF BackupInv, JobInv, Finished
  <2> QED BY <1>3, <1>4, <2>1, FilesStay DEF Finished
<1>5. ASSUME NEW pc \in Making \ {"paths"}, Goto(j, pc), Made(j)' PROVE JobInv(j)'
  <2>1. job'[j].pc = pc /\ job'[j].files = job[j].files
    BY <1>1, <1>5 DEF Goto, JobType
  <2> QED BY <1>4, <1>5, <2>1 DEF JobInv, Making, Cleaning, Extracting
<1>6. ASSUME NEW pc, Goto(j, pc)
      PROVE  /\ job'[j].pc = pc /\ job'[j].name = n /\ job'[j].todo = job[j].todo
             /\ job'[j].list = job[j].list
  BY <1>1, <1>6 DEF Goto, JobType
<1>7. ASSUME Exit(j) PROVE JobInv(j)'
  BY <1>1, <1>7, JobEnds DEF Exit
<1>8. CASE AtomicArtifactPaths(j)
  <2>1. CASE Exit(j)
    BY <1>7, <2>1
  <2>2. CASE Goto(j, "dump") /\ artifact[n] = None /\ manifest[n] = None
    <3>1. artifact' = artifact
      BY <1>8 DEF AtomicArtifactPaths
    <3>2. Made(j)'
      BY <1>2, <1>3, <1>6, <2>2, <3>1 DEF Made
    <3> QED BY <1>5, <2>2, <3>2 DEF Making
  <2> QED BY <1>8, <2>1, <2>2 DEF AtomicArtifactPaths
<1>9. CASE DumpBegin(j)
  <2>1. Goto(j, "dumping") /\ job[j].pc = "dump" /\ artifact' = artifact
    BY <1>9 DEF DumpBegin
  <2>2. Made(j)'
    BY <1>2, <1>3, <1>6, <2>1 DEF Made
  <2> QED BY <1>5, <2>1, <2>2 DEF Making
<1>10. CASE DumpEnd(j)
  <2>1. PICK c \in Copied(n) : Goto(j, "publish") /\ job[j].pc = "dumping" /\ artifact' = artifact
                               /\ partial' = [partial EXCEPT ![n] = c]
    BY <1>10 DEF DumpEnd
  <2>2. GoodCopy(n[1], c)
    <3>1. live["postgresql"] \in Versions /\ live["chroma_volume"] # Torn
      BY DEF BackupInv, Copies
    <3>2. n[1] = "chroma_volume" => ~writers
      BY <1>2 DEF Made
    <3>3. n[1] = "postgresql" => c \in Versions
      BY <3>1 DEF Copied, StoreOf
    <3>4. n[1] = "chroma_volume" => c # Torn
      BY <3>1, <3>2 DEF Copied, StoreOf
    <3>5. Torn \notin Versions
      BY BackupAssumption DEF Torn, Versions
    <3> QED BY <3>3, <3>4, <3>5 DEF GoodCopy, Stores
  <2>3. partial'[n] = c
    BY <1>1, <1>2, <2>1
  <2>4. Made(j)'
    BY <1>2, <1>3, <1>6, <2>1, <2>2, <2>3 DEF Made
  <2> QED BY <1>5, <2>1, <2>4 DEF Making
<1>11. CASE DumpFail(j)
  BY <1>7, <1>11 DEF DumpFail
<1>12. CASE PublishArtifact(j)
  <2>1. CASE Exit(j)
    BY <1>7, <2>1
  <2>2. CASE Goto(j, "manifest") /\ artifact' = [artifact EXCEPT ![n] = partial[n]]
    <3>1. artifact'[n] = partial[n] /\ GoodCopy(n[1], partial[n]) /\ manifest[n] = None
      BY <1>1, <1>2, <1>12, <2>2 DEF PublishArtifact, Made
    <3>2. Made(j)'
      BY <1>2, <1>3, <1>6, <2>2, <3>1 DEF Made
    <3> QED BY <1>5, <2>2, <3>2 DEF Making
  <2> QED BY <1>12, <2>1, <2>2 DEF PublishArtifact
<1> QED BY <1>8, <1>9, <1>10, <1>11, <1>12

\* The sidecar, and what comes after it.
LEMMA StepManifest ==
    ASSUME BackupInv, BackupNext, NEW j \in Jobs, WriteManifest(j)
    PROVE  JobInv(j)'
<1> DEFINE n == job[j].name
           rest == Tail(job[j].todo)
           made == job[j].files \cup {n}
<1>1. /\ job \in [Jobs -> JobType] /\ job[j] \in JobType /\ job[j].pc = "manifest"
      /\ manifest \in [Names -> Contents \cup {None}] /\ day \in 0 .. LastDay
  BY DEF BackupInv, BackupTyped, BackupTypeOK, WriteManifest
<1>2. Made(j) /\ n \in Names /\ n[2] = day /\ n[3] = j
  BY <1>1, MakerIs DEF Making
<1>3. UNCHANGED <<day, writers, artifact>> /\ manifest'[n] = artifact[n] /\ artifact[n] # None
  BY <1>1, <1>2 DEF WriteManifest, World
<1>4. n \notin reported
  BY <1>1, <1>2, RetainedBefore DEF BackupInv, Made, Restorable
<1>5. ASSUME UNCHANGED reported, NEW m \in made
      PROVE  /\ m[2] = day' /\ m[3] = j /\ m \notin reported'
             /\ Restorable(m)' /\ GoodCopy(m[1], artifact'[m])
  <2>1. CASE m = n
    BY <1>1, <1>2, <1>3, <1>4, <1>5, <2>1 DEF Made, Restorable
  <2>2. CASE m \in job[j].files
    <3>1. m \notin reported'
      BY <1>5, <2>2 DEF BackupInv, JobInv, Finished
    <3> QED BY <1>3, <2>2, <3>1, FilesStay
  <2> QED BY <2>1, <2>2
<1>6. CASE rest # <<>>
  <2>1. /\ job' = [job EXCEPT ![j] = [Idle EXCEPT !.pc = "paths", !.todo = rest,
                        !.name = <<Head(rest), day, j>>, !.files = made]]
        /\ UNCHANGED reported
    BY <1>6 DEF WriteManifest, Continue
  <2>2. /\ job'[j].pc = "paths" /\ job'[j].todo = rest /\ job'[j].name = <<Head(rest), day, j>>
        /\ job'[j].files = made /\ job'[j].list = {}
    BY <1>1, <2>1 DEF Idle
  <2>3. job[j].todo \in Seq(DumpKinds) /\ job[j].todo # <<>>
    <3>1. job[j].todo = <<"chroma_volume">> => rest = <<>>
      OBVIOUS
    <3> QED BY <1>2, <1>6, <3>1 DEF Made
  <2>4. rest \in Seq(DumpKinds) /\ Head(rest) \in DumpKinds
    <3>1. rest \in Seq(DumpKinds)
      BY <2>3
    <3> HIDE DEF rest
    <3> QED BY <1>6, <3>1
  <2>5. DumpKinds \subseteq Kinds \ {"chroma_volume"}
    BY DEF DumpKinds, Kinds
  <2> HIDE DEF rest, made
  <2>6. <<Head(rest), day, j>> \in Names /\ <<Head(rest), day, j>>[1] = Head(rest)
        /\ <<Head(rest), day, j>>[2] = day /\ <<Head(rest), day, j>>[3] = j
    BY <1>1, <2>4, <2>5, NameParts
  <2>7. Made(j)'
    BY <1>3, <1>6, <2>2, <2>4, <2>5, <2>6 DEF Made
  <2>8. Finished(j)'
    BY <1>5, <2>1, <2>2 DEF Finished
  <2> QED BY <2>2, <2>7, <2>8 DEF JobInv, Making, Cleaning, Extracting
<1>7. CASE rest = <<>> /\ n[1] = "chroma_volume"
  <2>1. Exit(j)
    BY <1>7 DEF WriteManifest, Continue
  <2> QED BY <1>1, <2>1, JobEnds DEF Exit
<1>8. CASE rest = <<>> /\ n[1] # "chroma_volume"
  <2>1. job' = [job EXCEPT ![j].pc = "scan", ![j].files = made] /\ UNCHANGED reported
    BY <1>8 DEF WriteManifest, Continue
  <2>2. job'[j].pc = "scan" /\ job'[j].files = made /\ job'[j].list = {}
    BY <1>1, <1>2, <2>1 DEF JobType, Made
  <2> HIDE DEF rest, made
  <2>3. Finished(j)'
    BY <1>5, <2>1, <2>2 DEF Finished
  <2> QED BY <2>2, <2>3 DEF JobInv, Making, Cleaning, Extracting
<1> QED BY <1>6, <1>7, <1>8

\* The retention.
LEMMA StepCleaning ==
    ASSUME BackupInv, BackupNext, NEW j \in Jobs,
           CleanupScan(j) \/ CleanManifest(j) \/ CleanArtifact(j)
    PROVE  JobInv(j)'
<1>1. job \in [Jobs -> JobType] /\ job[j] \in JobType /\ JobInv(j) /\ job[j].pc \in Cleaning
  BY DEF BackupInv, BackupTyped, CleanupScan, CleanManifest, CleanArtifact, Cleaning
<1>2. UNCHANGED <<day, reported>>
  BY DEF CleanupScan, CleanManifest, CleanArtifact, World
<1>3. ASSUME job'[j].files = job[j].files PROVE Finished(j)'
  <2>1. \A m \in job[j].files : m \notin reported'
    BY <1>1, <1>2 DEF JobInv, Finished
  <2> QED BY <1>2, <1>3, <2>1, FilesStay DEF Finished
<1>4. \A n : Expired(n)' <=> Expired(n)
  BY <1>2 DEF Expired
<1>5. CASE CleanupScan(j)
  <2>1. /\ job'[j].pc = "clean" /\ job'[j].files = job[j].files
        /\ \A n \in job'[j].list : Expired(n)
    BY <1>1, <1>5 DEF CleanupScan, JobType
  <2> QED BY <1>3, <1>4, <2>1 DEF JobInv, Making, Cleaning, Extracting
<1>6. CASE CleanManifest(j)
  <2>1. PICK n \in job[j].list : job' = [job EXCEPT ![j].pc = "unlink", ![j].name = n]
    BY <1>6 DEF CleanManifest
  <2>2. /\ job'[j].pc = "unlink" /\ job'[j].files = job[j].files /\ job'[j].name = n
        /\ job'[j].list = job[j].list
    BY <1>1, <2>1 DEF JobType
  <2>3. n \in Names /\ \A m \in job[j].list : Expired(m)
    BY <1>1 DEF JobInv, JobType
  <2>4. Expired(job[j].name)'
    BY <1>2, <2>2, <2>3 DEF Expired
  <2>5. \A m \in job'[j].list : Expired(m)'
    BY <1>4, <2>2, <2>3
  <2> QED BY <1>3, <2>2, <2>3, <2>4, <2>5 DEF JobInv, Making, Cleaning, Extracting
<1>7. CASE CleanArtifact(j)
  <2>1. CASE Exit(j)
    BY <1>1, <2>1, JobEnds DEF Exit
  <2>2. CASE job' = [job EXCEPT ![j].pc = "clean", ![j].list = @ \ {job[j].name}]
    <3>1. /\ job'[j].pc = "clean" /\ job'[j].files = job[j].files
          /\ job'[j].list \subseteq job[j].list
      BY <1>1, <2>2 DEF JobType
    <3>2. \A m \in job'[j].list : Expired(m)'
      BY <1>1, <1>4, <3>1 DEF JobInv
    <3> QED BY <1>3, <3>1, <3>2 DEF JobInv, Making, Cleaning, Extracting
  <2> QED BY <1>7, <2>1, <2>2 DEF CleanArtifact
<1> QED BY <1>5, <1>6, <1>7

\* The restores.
LEMMA StepRestoring ==
    ASSUME BackupInv, BackupNext, NEW j \in Jobs, TarList(j) \/ TarRemove(j)
    PROVE  JobInv(j)'
<1>1. job \in [Jobs -> JobType] /\ job[j] \in JobType /\ JobInv(j) /\ job[j].pc \in {"tar_list", "remove"}
  BY DEF BackupInv, BackupTyped, TarList, TarRemove
<1>2. Restoring(j)
  BY <1>1 DEF JobInv, Extracting
<1>3. UNCHANGED <<day, writers, artifact, manifest, reported>>
  BY DEF TarList, TarRemove, World, files
<1>4. CASE Exit(j)
  BY <1>1, <1>4, JobEnds DEF Exit
<1>5. CASE Goto(j, "remove") \/ Goto(j, "extract")
  <2>1. /\ job'[j].pc \in {"remove", "extract"} /\ job'[j].files = job[j].files
        /\ job'[j].name = job[j].name
    BY <1>1, <1>5 DEF Goto, JobType
  <2>2. Restoring(j)'
    BY <1>1, <1>2, <1>3, <2>1 DEF Restoring, Kept, Retained, Restorable, Extracting
  <2>3. Finished(j)'
    BY <1>1, <1>3, <2>1 DEF JobInv, Finished, Restorable
  <2> QED BY <2>1, <2>2, <2>3 DEF JobInv, Making, Cleaning, Extracting
<1> QED BY <1>4, <1>5 DEF TarList, TarRemove

\* The programs start.
LEMMA StepStarting ==
    ASSUME BackupInv, NEW j \in Jobs,
           BackupMain(j) \/ VolumeBackup(j) \/ RestorePostgresql(j) \/ RestoreVolume(j)
    PROVE  JobInv(j)'
<1>1. /\ job \in [Jobs -> JobType] /\ job[j] \in JobType /\ day \in 0 .. LastDay
      /\ UNCHANGED <<day, writers, artifact, manifest, reported>>
  BY DEF BackupInv, BackupTyped, BackupTypeOK, BackupMain, VolumeBackup, RestorePostgresql,
     RestoreVolume, World, files
<1>2. CASE BackupMain(j)
  <2>1. PICK s \in Sources : job' = [job EXCEPT ![j] =
            [Idle EXCEPT !.pc = "paths", !.todo = s, !.name = <<Head(s), day, j>>]]
    BY <1>2 DEF BackupMain
  <2>2. s \in Seq(DumpKinds) /\ s # <<>> /\ Head(s) \in DumpKinds
    <3>1. s \in Seq(DumpKinds) /\ s # <<>>
      BY BackupAssumption DEF DumpKinds
    <3> QED BY <3>1
  <2>3. /\ job'[j].pc = "paths" /\ job'[j].todo = s /\ job'[j].name = <<Head(s), day, j>>
        /\ job'[j].files = {} /\ job'[j].list = {}
    BY <1>1, <2>1 DEF Idle
  <2>4. DumpKinds \subseteq Kinds \ {"chroma_volume"}
    BY DEF DumpKinds, Kinds
  <2>5. <<Head(s), day, j>> \in Names /\ <<Head(s), day, j>>[1] = Head(s)
        /\ <<Head(s), day, j>>[2] = day /\ <<Head(s), day, j>>[3] = j
    BY <1>1, <2>2, <2>4, NameParts
  <2>6. Made(j)'
    BY <1>1, <2>2, <2>3, <2>4, <2>5 DEF Made
  <2> QED BY <2>3, <2>6 DEF JobInv, Finished, Making, Cleaning, Extracting
<1>3. CASE VolumeBackup(j)
  <2>1. job' = [job EXCEPT ![j] = [Idle EXCEPT !.pc = "paths",
            !.todo = <<"chroma_volume">>, !.name = <<"chroma_volume", day, j>>]] /\ ~writers
    BY <1>3 DEF VolumeBackup, WritersStopped
  <2>2. /\ job'[j].pc = "paths" /\ job'[j].todo = <<"chroma_volume">>
        /\ job'[j].name = <<"chroma_volume", day, j>> /\ job'[j].files = {} /\ job'[j].list = {}
    BY <1>1, <2>1 DEF Idle
  <2>3. <<"chroma_volume", day, j>> \in Names /\ <<"chroma_volume", day, j>>[1] = "chroma_volume"
        /\ <<"chroma_volume", day, j>>[2] = day /\ <<"chroma_volume", day, j>>[3] = j
    BY <1>1, NameParts DEF Kinds
  <2>4. <<"chroma_volume">> # <<>>
    OBVIOUS
  <2>5. Made(j)'
    BY <1>1, <2>1, <2>2, <2>3, <2>4 DEF Made
  <2> QED BY <2>2, <2>5 DEF JobInv, Finished, Making, Cleaning, Extracting
<1>4. CASE RestorePostgresql(j) \/ RestoreVolume(j)
  <2>1. PICK n \in Names, pc \in {"pg_restore", "tar_list"} :
           /\ Verified(n) /\ job' = [job EXCEPT ![j] = [Idle EXCEPT !.pc = pc, !.name = n]]
           /\ pc = "pg_restore" => n[1] = "postgresql"
           /\ pc = "tar_list" => n[1] = "chroma_volume" /\ ~writers
    BY <1>4 DEF RestorePostgresql, RestoreVolume, WritersStopped
  <2>2. job'[j].pc = pc /\ job'[j].name = n /\ job'[j].files = {} /\ job'[j].list = {}
    BY <1>1, <2>1 DEF Idle
  <2>3. Restorable(n)' /\ GoodCopy(n[1], artifact'[n])
    BY <1>1, <2>1 DEF Verified, Restorable, BackupInv, Copies
  <2>4. Restoring(j)'
    <3>1. pc \in Extracting => pc = "tar_list"
      BY DEF Extracting
    <3> QED BY <1>1, <2>1, <2>2, <2>3, <3>1 DEF Restoring, Kept, Restorable
  <2> QED BY <2>2, <2>4 DEF JobInv, Finished, Making, Cleaning, Extracting
<1> QED BY <1>2, <1>3, <1>4

\* Every job is as its invariant says, whoever moves.
LEMMA StepJobs ==
    ASSUME BackupInv, BackupNext, NEW i \in Jobs
    PROVE  JobInv(i)'
<1>1. CASE job'[i] = job[i]
  BY <1>1, Bystander
<1>2. CASE OtherStep
  <2>1. UNCHANGED job
    BY <1>2 DEF OtherStep, Damage, SwitchWriters, ServiceWrite, NextDay
  <2> QED BY <1>1, <2>1
<1>3. CASE JobStep(i)
  <2>1. job \in [Jobs -> JobType]
    BY DEF BackupInv, BackupTyped
  <2>2. ASSUME Exit(i) PROVE JobInv(i)'
    BY <2>1, <2>2, JobEnds DEF Exit
  <2>3. ManifestFail(i) \/ CleanLeftovers(i) \/ PgRestore(i) \/ TarExtract(i) \/ KillJob(i) => Exit(i)
    BY DEF ManifestFail, CleanLeftovers, PgRestore, TarExtract, KillJob
  <2> QED BY <1>3, <2>2, <2>3, StepMaking, StepManifest, StepCleaning, StepRestoring, StepStarting
          DEF JobStep
<1> QED BY <1>1, <1>2, <1>3, JobMoves, StepsAre

\* Sidecars and stores stay good copies.
LEMMA StepCopies ==
    ASSUME BackupInv, BackupNext
    PROVE  Copies'
<1>0. Copies /\ live \in [Stores -> Contents \cup {None}]
  BY DEF BackupInv, BackupTyped, BackupTypeOK
<1>1. \A n \in Names : GoodCopy(n[1], manifest'[n])
  <2>1. ASSUME NEW n \in Names, NEW j \in Jobs, job[j].pc = "manifest", job[j].name = n
        PROVE  GoodCopy(n[1], artifact[n])
    BY <2>1, MakerIs DEF Made, Making
  <2> QED BY <1>0, <2>1, ManifestMoves, NoneIsGood DEF Copies
<1>2. ASSUME NEW j \in Jobs, JobStep(j), ~PgRestore(j), ~TarRemove(j), ~TarExtract(j)
      PROVE  UNCHANGED live
  BY <1>2 DEF JobStep, AtomicArtifactPaths, DumpBegin, DumpEnd, DumpFail, PublishArtifact,
     ManifestFail, WriteManifest, CleanupScan, CleanManifest, CleanArtifact, CleanLeftovers, TarList,
     KillJob, BackupMain, VolumeBackup, RestorePostgresql, RestoreVolume, World
<1>3. ASSUME NEW j \in Jobs, job[j].pc \in {"pg_restore"} \cup Extracting PROVE Restoring(j)
  BY <1>3 DEF BackupInv, JobInv
<1>4. "postgresql" \in Stores /\ "chroma_volume" \in Stores
  BY DEF Stores
<1>5. ASSUME NEW j \in Jobs, PgRestore(j)
      PROVE  live'["postgresql"] \in Versions /\ live'["chroma_volume"] # Torn
  <2>1. Restoring(j) /\ job[j].pc = "pg_restore"
    BY <1>3, <1>5 DEF PgRestore
  <2>2. artifact[job[j].name] \in Versions \cup {None}
    BY <2>1 DEF Restoring, GoodCopy
  <2> QED BY <1>0, <1>4, <1>5, <2>2 DEF PgRestore, RestoreCommand, Copies
<1>6. ASSUME NEW j \in Jobs, TarRemove(j)
      PROVE  live'["postgresql"] \in Versions /\ live'["chroma_volume"] # Torn
  BY <1>0, <1>4, <1>6 DEF TarRemove, Copies, None, Torn
<1>7. ASSUME NEW j \in Jobs, TarExtract(j)
      PROVE  live'["postgresql"] \in Versions /\ live'["chroma_volume"] # Torn
  <2>1. Restoring(j) /\ job[j].pc = "extract"
    BY <1>3, <1>7 DEF TarExtract, Extracting
  <2>2. artifact[job[j].name] # Torn
    BY <2>1 DEF Restoring, GoodCopy, Stores, Extracting
  <2> QED BY <1>0, <1>4, <1>7, <2>2 DEF TarExtract, Copies, Unfinished, Torn
<1>8. CASE OtherStep
  <2>1. CASE ServiceWrite
    <3>1. PICK s \in Stores : live[s] \in 0 .. MaxWrites - 1 /\ live' = [live EXCEPT ![s] = @ + 1]
      BY <2>1 DEF ServiceWrite
    <3>2. live'[s] \in Versions /\ live'[s] # Torn
      BY <1>0, <3>1, BackupAssumption DEF Versions, Torn
    <3>3. \A x \in Stores \ {s} : live'[x] = live[x]
      BY <1>0, <3>1
    <3> QED BY <1>0, <1>1, <1>4, <3>2, <3>3 DEF Copies
  <2>2. CASE Damage \/ SwitchWriters \/ NextDay
    BY <1>0, <1>1, <2>2 DEF Damage, SwitchWriters, NextDay, World, Copies
  <2> QED BY <1>8, <2>1, <2>2 DEF OtherStep
<1> QED BY <1>0, <1>1, <1>2, <1>5, <1>6, <1>7, <1>8, StepsAre DEF Copies

\* What was reported is kept.
LEMMA StepReported ==
    ASSUME BackupInv, BackupNext, NEW n \in reported', Retained(n)'
    PROVE  Restorable(n)' /\ GoodCopy(n[1], artifact'[n])
<1>1. CASE n \in reported
  <2>1. n \in Names
    BY <1>1 DEF BackupInv, BackupTyped, BackupTypeOK
  <2>2. Restorable(n) /\ GoodCopy(n[1], artifact[n]) /\ Retained(n)
    BY <1>1, <2>1, RetainedBefore DEF BackupInv
  <2>3. artifact'[n] = artifact[n] /\ manifest'[n] = manifest[n]
    BY <2>1, <2>2, Undisturbed
  <2> QED BY <2>2, <2>3 DEF Restorable
<1>2. ASSUME NEW j \in Jobs, JobStep(j), n \in job[j].files
      PROVE  Restorable(n)' /\ GoodCopy(n[1], artifact'[n])
  <2>1. n \in Names /\ n \notin reported /\ n[2] = day /\ Restorable(n) /\ GoodCopy(n[1], artifact[n])
    BY <1>2 DEF BackupInv, BackupTyped, JobType, JobInv, Finished
  <2>2. artifact'[n] = artifact[n] /\ manifest'[n] = manifest[n]
    BY <2>1, Undisturbed, RetainedBefore
  <2> QED BY <2>1, <2>2 DEF Restorable
<1>3. ASSUME NEW j \in Jobs, WriteManifest(j), n = job[j].name
      PROVE  Restorable(n)' /\ GoodCopy(n[1], artifact'[n])
  <2>1. job[j].pc = "manifest" /\ artifact[n] # None /\ artifact' = artifact
        /\ manifest' = [manifest EXCEPT ![n] = artifact[n]]
    BY <1>3 DEF WriteManifest
  <2>2. n \in Names /\ Made(j)
    BY <1>3, <2>1, MakerIs DEF Making
  <2>3. manifest \in [Names -> Contents \cup {None}]
    BY DEF BackupInv, BackupTyped, BackupTypeOK
  <2> QED BY <1>3, <2>1, <2>2, <2>3 DEF Made, Restorable
<1> QED BY <1>1, <1>2, <1>3, ReportedMoves

\* The artifact of an interrupted restore is kept.
LEMMA StepHurt ==
    ASSUME BackupInv, BackupNext, hurt' # NoName
    PROVE  Kept(hurt)'
<1>1. CASE hurt' = hurt
  <2>1. PICK n \in Names : n = hurt /\ Kept(n)
    BY <1>1 DEF BackupInv, BackupTyped, BackupTypeOK
  <2>2. Kept(n)'
    BY <1>1, <2>1, Undisturbed, RetainedBefore DEF Kept, Restorable
  <2> QED BY <1>1, <2>1, <2>2 DEF Kept, Retained, Restorable
<1>2. CASE hurt' # hurt
  <2>1. ASSUME NEW j \in Jobs, JobStep(j), ~TarRemove(j) PROVE hurt' \in {hurt, NoName}
    BY <2>1 DEF JobStep, AtomicArtifactPaths, DumpBegin, DumpEnd, DumpFail, PublishArtifact,
       ManifestFail, WriteManifest, CleanupScan, CleanManifest, CleanArtifact, CleanLeftovers, PgRestore,
       TarList, TarExtract, KillJob, BackupMain, VolumeBackup, RestorePostgresql, RestoreVolume, World
  <2>2. CASE OtherStep
    BY <1>2, <2>2 DEF OtherStep, Damage, SwitchWriters, ServiceWrite, NextDay, World
  <2>3. ASSUME NEW j \in Jobs, TarRemove(j) PROVE Kept(hurt)'
    <3>1. hurt' = job[j].name /\ UNCHANGED <<day, artifact, manifest>> /\ job[j].pc = "remove"
      BY <2>3 DEF TarRemove, files
    <3>2. Restoring(j)
      BY <3>1 DEF BackupInv, JobInv, Extracting
    <3> QED BY <3>1, <3>2 DEF Restoring, Kept, Retained, Restorable
  <2> QED BY <1>2, <2>1, <2>2, <2>3, StepsAre
<1> QED BY <1>1, <1>2

\* Jobs keep their types.
LEMMA StepJobTyped ==
    ASSUME BackupInv, BackupNext
    PROVE  job' \in [Jobs -> JobType]
<1>1. job \in [Jobs -> JobType] /\ day \in 0 .. LastDay
  BY DEF BackupInv, BackupTyped, BackupTypeOK
<1>2. {} \in SUBSET Names /\ <<>> \in Seq(Kinds)
  OBVIOUS
<1>3. Idle \in JobType
  BY <1>2 DEF Idle, JobType
<1>4. ASSUME NEW j \in Jobs, JobStep(j) PROVE job' \in [Jobs -> JobType]
  <2>1. job[j] \in JobType /\ JobInv(j)
    BY <1>1 DEF BackupInv
  <2>2. ASSUME Exit(j) PROVE job' \in [Jobs -> JobType]
    BY <1>1, <1>3, <2>2 DEF Exit
  <2>3. ASSUME NEW pc \in {"idle", "pg_restore"} \cup Making \cup Cleaning \cup Extracting,
               Goto(j, pc)
        PROVE  job' \in [Jobs -> JobType]
    <3>1. [job[j] EXCEPT !.pc = pc] \in JobType
      BY <2>1, <2>3 DEF JobType
    <3>2. job' = [job EXCEPT ![j] = [job[j] EXCEPT !.pc = pc]]
      BY <1>1, <2>3 DEF Goto
    <3> QED BY <1>1, <3>1, <3>2
  <2>4. CASE AtomicArtifactPaths(j) \/ DumpBegin(j) \/ DumpEnd(j) \/ DumpFail(j) \/ PublishArtifact(j)
             \/ TarList(j) \/ TarRemove(j)
    BY <2>2, <2>3, <2>4 DEF AtomicArtifactPaths, DumpBegin, DumpEnd, DumpFail, PublishArtifact,
         TarList,
       TarRemove, Making, Extracting
  <2>5. CASE ManifestFail(j) \/ CleanLeftovers(j) \/ PgRestore(j) \/ TarExtract(j) \/ KillJob(j)
    BY <2>2, <2>5 DEF ManifestFail, CleanLeftovers, PgRestore, TarExtract, KillJob
  <2>6. CASE WriteManifest(j)
    <3> DEFINE rest == Tail(job[j].todo)
               made == job[j].files \cup {job[j].name}
    <3>1. Made(j) /\ job[j].name \in Names /\ job[j].pc = "manifest"
      BY <2>6, MakerIs DEF WriteManifest, Making
    <3>2. made \in SUBSET Names /\ rest \in Seq(Kinds)
      <4>1. job[j].todo \in Seq(Kinds) /\ job[j].todo # <<>>
        BY <2>1, <3>1 DEF JobType, Made
      <4>2. rest \in Seq(Kinds)
        BY <4>1
      <4> QED BY <2>1, <3>1, <4>2 DEF JobType
    <3>3. CASE rest # <<>>
      <4> DEFINE new == [Idle EXCEPT !.pc = "paths", !.todo = rest,
                            !.name = <<Head(rest), day, j>>, !.files = made]
      <4>1. job' = [job EXCEPT ![j] = new]
        BY <2>6, <3>3 DEF WriteManifest, Continue
      <4> HIDE DEF rest, made
      <4>2. Head(rest) \in Kinds
        BY <3>2, <3>3
      <4>3. <<Head(rest), day, j>> \in Names
        BY <1>1, <4>2, NameParts
      <4>4. new \in JobType
        BY <1>2, <3>2, <4>3 DEF Idle, JobType, Making
      <4> QED BY <1>1, <4>1, <4>4
    <3>4. CASE rest = <<>> /\ job[j].name[1] = "chroma_volume"
      BY <2>2, <2>6, <3>4 DEF WriteManifest, Continue
    <3>5. CASE rest = <<>> /\ job[j].name[1] # "chroma_volume"
      <4>1. job' = [job EXCEPT ![j].pc = "scan", ![j].files = made]
        BY <2>6, <3>5 DEF WriteManifest, Continue
      <4>2. [job[j] EXCEPT !.pc = "scan", !.files = made] \in JobType
        BY <2>1, <3>2 DEF JobType, Cleaning
      <4>3. job' = [job EXCEPT ![j] = [job[j] EXCEPT !.pc = "scan", !.files = made]]
        BY <1>1, <4>1
      <4> QED BY <1>1, <4>2, <4>3
    <3> QED BY <3>3, <3>4, <3>5
  <2>7. CASE CleanupScan(j)
    <3> DEFINE l == {n \in Names : artifact[n] # None /\ Expired(n)}
    <3>1. [job[j] EXCEPT !.pc = "clean", !.list = l] \in JobType
      BY <2>1 DEF JobType, Cleaning
    <3>2. job' = [job EXCEPT ![j] = [job[j] EXCEPT !.pc = "clean", !.list = l]]
      BY <1>1, <2>7 DEF CleanupScan
    <3> QED BY <1>1, <3>1, <3>2
  <2>8. CASE CleanManifest(j)
    <3>1. PICK n \in job[j].list : job' = [job EXCEPT ![j].pc = "unlink", ![j].name = n]
      BY <2>8 DEF CleanManifest
    <3>2. [job[j] EXCEPT !.pc = "unlink", !.name = n] \in JobType
      BY <2>1 DEF JobType, Cleaning
    <3>3. job' = [job EXCEPT ![j] = [job[j] EXCEPT !.pc = "unlink", !.name = n]]
      BY <1>1, <3>1
    <3> QED BY <1>1, <3>2, <3>3
  <2>9. CASE CleanArtifact(j)
    <3>1. CASE job' = [job EXCEPT ![j].pc = "clean", ![j].list = @ \ {job[j].name}]
      <4>1. [job[j] EXCEPT !.pc = "clean", !.list = @ \ {job[j].name}] \in JobType
        BY <2>1 DEF JobType, Cleaning
      <4>2. job' = [job EXCEPT ![j] = [job[j] EXCEPT !.pc = "clean", !.list = @ \ {job[j].name}]]
        BY <1>1, <3>1
      <4> QED BY <1>1, <4>1, <4>2
    <3> QED BY <2>2, <2>9, <3>1 DEF CleanArtifact
  <2>10. CASE BackupMain(j)
    <3>1. PICK s \in Sources : job' = [job EXCEPT ![j] =
              [Idle EXCEPT !.pc = "paths", !.todo = s, !.name = <<Head(s), day, j>>]]
      BY <2>10 DEF BackupMain
    <3>2. s \in Seq(Kinds) /\ Head(s) \in Kinds
      <4>1. s \in Seq(DumpKinds) /\ s # <<>> /\ DumpKinds \subseteq Kinds
        BY BackupAssumption DEF DumpKinds, Kinds
      <4> QED BY <4>1
    <3>3. <<Head(s), day, j>> \in Names
      BY <1>1, <3>2, NameParts
    <3>4. [Idle EXCEPT !.pc = "paths", !.todo = s, !.name = <<Head(s), day, j>>] \in JobType
      BY <1>2, <3>2, <3>3 DEF Idle, JobType, Making
    <3> QED BY <1>1, <3>1, <3>4
  <2>11. CASE VolumeBackup(j)
    <3>1. <<"chroma_volume", day, j>> \in Names /\ <<"chroma_volume">> \in Seq(Kinds)
      BY <1>1, NameParts DEF Kinds
    <3>2. [Idle EXCEPT !.pc = "paths", !.todo = <<"chroma_volume">>,
                       !.name = <<"chroma_volume", day, j>>] \in JobType
      BY <1>2, <3>1 DEF Idle, JobType, Making
    <3> QED BY <1>1, <2>11, <3>2 DEF VolumeBackup
  <2>12. CASE RestorePostgresql(j) \/ RestoreVolume(j)
    <3>1. PICK n \in Names, pc \in {"pg_restore", "tar_list"} :
             job' = [job EXCEPT ![j] = [Idle EXCEPT !.pc = pc, !.name = n]]
      BY <2>12 DEF RestorePostgresql, RestoreVolume
    <3>2. [Idle EXCEPT !.pc = pc, !.name = n] \in JobType
      BY <1>2 DEF Idle, JobType, Extracting
    <3> QED BY <1>1, <3>1, <3>2
  <2> QED BY <1>4, <2>4, <2>5, <2>6, <2>7, <2>8, <2>9, <2>10, <2>11, <2>12 DEF JobStep
<1>5. CASE OtherStep
  BY <1>1, <1>5 DEF OtherStep, Damage, SwitchWriters, ServiceWrite, NextDay
<1> QED BY <1>4, <1>5, StepsAre

\* Variables keep their types.
LEMMA StepBackupTyped ==
    ASSUME BackupInv, BackupNext
    PROVE  BackupTyped'
<1> USE BackupAssumption
<1>1. BackupTypeOK /\ job \in [Jobs -> JobType]
  BY DEF BackupInv, BackupTyped
<1>2. {None, Torn, Unfinished} \subseteq Contents \cup {None} /\ Versions \subseteq Contents
  BY DEF Contents
<1>3. artifact' \in [Names -> Contents \cup {None}] /\ manifest' \in [Names -> Contents \cup {None}]
      /\ partial' \in [Names -> Contents \cup {None}]
  <2> USE <1>1, <1>2 DEF BackupTypeOK, files
  <2>1. ASSUME NEW j \in Jobs, JobStep(j)
        PROVE  artifact' \in [Names -> Contents \cup {None}]
               /\ manifest' \in [Names -> Contents \cup {None}]
               /\ partial' \in [Names -> Contents \cup {None}]
    <3>1. job[j].pc \in Making => job[j].name \in Names
      BY MakerIs
    <3>2. CASE AtomicArtifactPaths(j) \/ DumpBegin(j) \/ DumpFail(j)
      BY <3>2 DEF AtomicArtifactPaths, DumpBegin, DumpFail
    <3>3. CASE DumpEnd(j)
      <4>1. PICK c \in Copied(job[j].name) : partial' = [partial EXCEPT ![job[j].name] = c]
        BY <3>3 DEF DumpEnd
      <4>2. job[j].name[1] \in Kinds
        BY <3>1, <3>3, NameParts DEF DumpEnd, Making
      <4>3. StoreOf(job[j].name[1]) \in Stores
        BY <4>2 DEF StoreOf, Stores, Kinds
      <4>4. c \in Contents \cup {None}
        BY <4>3 DEF Copied
      <4> QED BY <3>3, <4>1, <4>4 DEF DumpEnd
    <3>4. CASE PublishArtifact(j)
      <4>1. partial[job[j].name] \in Contents \cup {None}
        BY <3>1, <3>4 DEF PublishArtifact, Making
      <4> QED BY <3>4, <4>1 DEF PublishArtifact
    <3>5. CASE WriteManifest(j)
      <4>1. artifact[job[j].name] \in Contents \cup {None}
        BY <3>1, <3>5 DEF WriteManifest, Making
      <4> QED BY <3>5, <4>1 DEF WriteManifest
    <3>6. CASE ManifestFail(j) \/ CleanManifest(j) \/ CleanArtifact(j) \/ CleanLeftovers(j)
      BY <3>6 DEF ManifestFail, CleanManifest, CleanArtifact, CleanLeftovers
    <3>7. CASE \/ CleanupScan(j) \/ PgRestore(j) \/ TarList(j) \/ TarRemove(j) \/ TarExtract(j)
               \/ KillJob(j) \/ BackupMain(j) \/ VolumeBackup(j) \/ RestorePostgresql(j)
               \/ RestoreVolume(j)
      BY <3>7 DEF CleanupScan, PgRestore, TarList, TarRemove, TarExtract, KillJob, BackupMain,
         VolumeBackup, RestorePostgresql, RestoreVolume
    <3> QED BY <2>1, <3>2, <3>3, <3>4, <3>5, <3>6, <3>7 DEF JobStep
  <2>2. CASE OtherStep
    BY <2>2 DEF OtherStep, Damage, SwitchWriters, ServiceWrite, NextDay
  <2> QED BY <2>1, <2>2, StepsAre
<1>4. live' \in [Stores -> Contents \cup {None}]
  <2> USE <1>1, <1>2 DEF BackupTypeOK
  <2>1. ASSUME NEW j \in Jobs, JobStep(j) PROVE live' \in [Stores -> Contents \cup {None}]
    <3>1. job[j].pc \in {"pg_restore"} \cup Extracting => job[j].name \in Names
      BY DEF BackupInv, JobInv, Restoring
    <3>2. CASE PgRestore(j)
      <4>1. artifact[job[j].name] \in Contents \cup {None} /\ live["postgresql"] \in Contents \cup {None}
        BY <3>1, <3>2 DEF PgRestore, Stores
      <4> QED BY <3>2, <4>1 DEF PgRestore, RestoreCommand
    <3>3. CASE TarRemove(j)
      BY <3>3 DEF TarRemove
    <3>4. CASE TarExtract(j)
      <4>1. artifact[job[j].name] \in Contents \cup {None}
        BY <3>1, <3>4 DEF TarExtract, Extracting
      <4> QED BY <3>4, <4>1 DEF TarExtract
    <3>5. ASSUME ~PgRestore(j), ~TarRemove(j), ~TarExtract(j) PROVE UNCHANGED live
      BY <2>1, <3>5 DEF JobStep, AtomicArtifactPaths, DumpBegin, DumpEnd, DumpFail, PublishArtifact,
         ManifestFail, WriteManifest, CleanupScan, CleanManifest, CleanArtifact, CleanLeftovers, TarList,
         KillJob, BackupMain, VolumeBackup, RestorePostgresql, RestoreVolume, World
    <3> QED BY <3>2, <3>3, <3>4, <3>5
  <2>2. CASE ServiceWrite
    <3>1. PICK s \in Stores : live[s] \in 0 .. MaxWrites - 1 /\ live' = [live EXCEPT ![s] = @ + 1]
      BY <2>2 DEF ServiceWrite
    <3>2. live[s] + 1 \in Versions
      BY <3>1 DEF Versions
    <3> QED BY <3>1, <3>2
  <2>3. CASE Damage \/ SwitchWriters \/ NextDay
    BY <2>3 DEF Damage, SwitchWriters, NextDay, World
  <2> QED BY <2>1, <2>2, <2>3, StepsAre DEF OtherStep
<1>5. day' \in 0 .. LastDay /\ backupFaults' \in 0 .. MaxBackupFaults
  <2>1. UNCHANGED backupFaults \/ Fault
    <3>1. ASSUME NEW j \in Jobs, JobStep(j) PROVE UNCHANGED backupFaults \/ Fault
      BY <3>1 DEF JobStep, AtomicArtifactPaths, DumpBegin, DumpEnd, DumpFail, PublishArtifact,
         ManifestFail, WriteManifest, CleanupScan, CleanManifest, CleanArtifact, CleanLeftovers, PgRestore,
         TarList, TarRemove, TarExtract, KillJob, BackupMain, VolumeBackup, RestorePostgresql,
         RestoreVolume, NoFault
    <3>2. CASE OtherStep
      BY <3>2 DEF OtherStep, Damage, SwitchWriters, ServiceWrite, NextDay, NoFault
    <3> QED BY <3>1, <3>2, StepsAre
  <2>2. UNCHANGED day \/ (day < LastDay /\ day' = day + 1)
    <3>1. ASSUME NEW j \in Jobs, JobStep(j) PROVE UNCHANGED day
      BY <3>1 DEF JobStep, AtomicArtifactPaths, DumpBegin, DumpEnd, DumpFail, PublishArtifact,
         ManifestFail, WriteManifest, CleanupScan, CleanManifest, CleanArtifact, CleanLeftovers, PgRestore,
         TarList, TarRemove, TarExtract, KillJob, BackupMain, VolumeBackup, RestorePostgresql,
         RestoreVolume, World
    <3>2. CASE OtherStep
      BY <3>2 DEF OtherStep, Damage, SwitchWriters, ServiceWrite, NextDay, World
    <3> QED BY <3>1, <3>2, StepsAre
  <2> QED BY <1>1, <2>1, <2>2 DEF BackupTypeOK, Fault
<1>6. writers' \in BOOLEAN
  <2>1. writers' = writers \/ writers' = ~writers
    <3>1. CASE SwitchWriters
      BY <3>1 DEF SwitchWriters
    <3>2. ASSUME NEW j \in Jobs, JobStep(j) PROVE UNCHANGED writers
      BY <3>2 DEF JobStep, AtomicArtifactPaths, DumpBegin, DumpEnd, DumpFail, PublishArtifact,
         ManifestFail, WriteManifest, CleanupScan, CleanManifest, CleanArtifact, CleanLeftovers, PgRestore,
         TarList, TarRemove, TarExtract, KillJob, BackupMain, VolumeBackup, RestorePostgresql,
         RestoreVolume, World
    <3>3. CASE Damage \/ ServiceWrite \/ NextDay
      BY <3>3 DEF Damage, ServiceWrite, NextDay, World
    <3> QED BY <3>1, <3>2, <3>3, StepsAre DEF OtherStep
  <2> QED BY <1>1, <2>1, Zenon DEF BackupTypeOK
<1>7. reported' \subseteq Names
  <2>1. \A j \in Jobs : job[j].files \subseteq Names
    BY <1>1 DEF JobType
  <2>2. ASSUME NEW j \in Jobs, WriteManifest(j) PROVE job[j].name \in Names
    BY <2>2, MakerIs DEF WriteManifest, Making
  <2> QED BY <1>1, <2>1, <2>2, ReportedMoves DEF BackupTypeOK
<1>8. hurt' \in Names \cup {NoName}
  <2>1. ASSUME NEW j \in Jobs, TarRemove(j) PROVE hurt' \in Names
    <3>1. job[j].pc = "remove" /\ hurt' = job[j].name
      BY <2>1 DEF TarRemove
    <3> QED BY <3>1 DEF BackupInv, JobInv, Restoring, Extracting
  <2>2. ASSUME NEW j \in Jobs, JobStep(j), ~TarRemove(j) PROVE hurt' \in {hurt, NoName}
    BY <2>2 DEF JobStep, AtomicArtifactPaths, DumpBegin, DumpEnd, DumpFail, PublishArtifact,
       ManifestFail, WriteManifest, CleanupScan, CleanManifest, CleanArtifact, CleanLeftovers, PgRestore,
       TarList, TarExtract, KillJob, BackupMain, VolumeBackup, RestorePostgresql, RestoreVolume, World
  <2>3. CASE OtherStep
    BY <1>1, <2>3 DEF OtherStep, Damage, SwitchWriters, ServiceWrite, NextDay, World, BackupTypeOK
  <2> QED BY <1>1, <2>1, <2>2, <2>3, StepsAre DEF BackupTypeOK
<1>9. \A j \in Jobs : job'[j].name \in Names \cup {NoName}
  BY StepJobTyped DEF JobType
<1> QED BY <1>3, <1>4, <1>5, <1>6, <1>7, <1>8, <1>9, StepJobTyped DEF BackupTyped, BackupTypeOK

\* The programs start on an empty directory.
LEMMA InitBackup == BackupInit => BackupInv
<1> SUFFICES ASSUME BackupInit PROVE BackupInv
  OBVIOUS
<1>1. 0 \in Versions /\ 0 \in 0 .. LastDay /\ 0 \in 0 .. MaxBackupFaults
  BY BackupAssumption DEF Versions
<1>2. Idle \in JobType
  <2>1. <<>> \in Seq(Kinds)
    BY EmptySeq
  <2> QED BY <2>1 DEF Idle, JobType
<1>3. writers \in BOOLEAN
  BY Zenon DEF BackupInit
<1>4. BackupTyped
  <2>1. job \in [Jobs -> JobType] /\ \A j \in Jobs : job[j].name = NoName
    BY <1>2 DEF BackupInit, Idle
  <2> QED BY <1>1, <1>3, <2>1 DEF BackupTyped, BackupTypeOK, BackupInit, Contents
<1>5. Copies
  <2>1. None # Torn /\ Torn \notin Versions
    BY BackupAssumption DEF None, Torn, Versions
  <2> QED BY <1>1, <2>1 DEF Copies, GoodCopy, BackupInit, Stores
<1>6. \A j \in Jobs : JobInv(j)
  BY DEF BackupInit, Idle, JobInv, Finished, Making, Cleaning, Extracting
<1>7. reported = {} /\ hurt = NoName
  BY DEF BackupInit
<1> QED BY <1>4, <1>5, <1>6, <1>7 DEF BackupInv

\* Every step of every program, a kill at any point included, keeps the invariant.
LEMMA StepBackup == BackupInv /\ [BackupNext]_backupVars => BackupInv'
<1>1. ASSUME BackupInv, BackupNext PROVE BackupInv'
  <2>1. BackupTyped' /\ Copies' /\ \A j \in Jobs : JobInv(j)'
    BY <1>1, StepBackupTyped, StepCopies, StepJobs
  <2>2. \A n \in reported' : Retained(n)' => Restorable(n)' /\ GoodCopy(n[1], artifact'[n])
    BY <1>1, StepReported
  <2>3. hurt' # NoName => Kept(hurt)'
    BY <1>1, StepHurt
  <2> QED BY <2>1, <2>2, <2>3 DEF BackupInv
<1>2. ASSUME BackupInv, UNCHANGED backupVars PROVE BackupInv'
  BY <1>2 DEF backupVars, BackupInv, BackupTyped, BackupTypeOK, Copies, JobInv, Made, Restoring,
     Finished, Kept, Retained, Restorable, Expired
<1> QED BY <1>1, <1>2

\* Every file that a successful backup_db.py or chroma_volume.py has reported verifies against
\* its manifest until it expires, and holds one consistent copy when it comes from pg_dump or from
\* the stopped volume, whatever other runs, cleanups and kills do in the directory:
\* RetainedRestorable.
THEOREM BackupsKept == BackupSpec => []RetainedRestorable
<1>1. BackupInv => RetainedRestorable
  BY DEF BackupInv, RetainedRestorable, GoodCopy
<1> QED BY <1>1, InitBackup, StepBackup, PTL DEF BackupSpec

\* restore_db.py never leaves a torn database, and the artifact whose restore into the vector
\* volume was interrupted can be restored again while it is retained: RestoreSafe.
THEOREM RestoresSafe == BackupSpec => []RestoreSafe
<1>1. BackupInv => RestoreSafe
  BY DEF BackupInv, RestoreSafe, Copies, Kept
<1> QED BY <1>1, InitBackup, StepBackup, PTL DEF BackupSpec

\* The backup directory, the stores and the jobs keep their types.
THEOREM BackupTypes == BackupSpec => []BackupTypeOK
<1>1. BackupInv => BackupTypeOK
  BY DEF BackupInv, BackupTyped
<1> QED BY <1>1, InitBackup, StepBackup, PTL DEF BackupSpec
=============================================================================
