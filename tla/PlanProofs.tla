----------------------------- MODULE PlanProofs -----------------------------
(***************************************************************************)
(* Proofs about PlanExecution, for any number of requests, any questions   *)
(* and any number of companies and years in them; about the reliability    *)
(* pipeline, for any number of calls and any policies; and about the two   *)
(* side by side.                                                           *)
(***************************************************************************)
EXTENDS MCAgent, FiniteSetTheorems, SequenceTheorems, WellFoundedInduction, TLAPS

USE DEF plannerVars, runVars

-----------------------------------------------------------------------------
(* The inductive invariant.                                                *)

StepType == {"retrieve", "tool_call", "compare", "reasoning", "synthesis"}
StepStatus == {"pending", "running", "completed", "failed", "skipped"}

Shaped ==
    /\ planLock \in Clients \cup {NoClient}
    /\ counter \in Nat \ {0}
    /\ phase \in [Clients -> {"idle", "plan", "run", "done"}]
    /\ query \in [Clients -> Asked]
    /\ plan \in [Clients -> Seq([id : Nat, type : StepType, deps : SUBSET Nat])]
    /\ status \in [Clients -> Seq(StepStatus)]
    /\ \A c \in Clients : Len(status[c]) = Len(plan[c])
    /\ completed \in [Clients -> SUBSET Nat]
    /\ evidence \in [Clients -> Seq(Nat)]
    /\ round \in [Clients -> SUBSET Nat]
    /\ batch \in [Clients -> SUBSET Nat]

\* The shared counter belongs to the request that holds the lock.
Planning ==
    \A c \in Clients :
        /\ phase[c] = "plan" => planLock = c /\ counter = Len(plan[c]) + 1
        /\ phase[c] = "idle" => plan[c] = <<>>

\* Ids are positions, dependencies are earlier steps, retrievals have none.
WellFormed(c) ==
    \A k \in Steps(c) :
        /\ plan[c][k].id = k
        /\ \A d \in plan[c][k].deps : d \in 1..(k - 1)
        /\ plan[c][k].type = "retrieve" => plan[c][k].deps = {}

\* Nothing runs before the plan is complete.
Waiting(c) ==
    phase[c] \in {"idle", "plan"} => Steps(c) = Pending(c) /\ round[c] = {}

\* A round is made of ready steps, and of all the retrievals that are left; a
\* batch is all the retrievals there are.
Rounds(c) ==
    /\ batch[c] \subseteq round[c] /\ round[c] \subseteq Steps(c)
    /\ round[c] # {} => phase[c] = "run" /\ Strategy(query[c]) = "parallel"
    /\ \A k \in round[c] \ batch[c] : status[c][k] = "pending"
    /\ \A k \in round[c] : plan[c][k].deps \subseteq completed[c]
    /\ \A k \in Steps(c) : status[c][k] = "running" => k \in batch[c]
    /\ \A k \in batch[c] : plan[c][k].type = "retrieve" /\ status[c][k] # "skipped"
    /\ round[c] # {} => Retrievals(c, Pending(c)) \subseteq round[c]
    /\ batch[c] # {} => evidence[c] = <<>> /\ Retrievals(c, Steps(c)) \subseteq batch[c]
    /\ round[c] = {} /\ Strategy(query[c]) = "parallel" =>
          Steps(c) = Pending(c) \/ Retrievals(c, Pending(c)) = {}

\* The handler's dict has what completed, but for results not merged yet.
Accounted(c) == completed[c] = Good(c) \ batch[c]

\* A step ran on what it depends on, or was skipped for want of it.
Justified(c) ==
    Strategy(query[c]) # "tool_calling" =>
        \A k \in Steps(c) :
            /\ status[c][k] \in {"running", "completed", "failed"} =>
                  plan[c][k].deps \subseteq completed[c]
            /\ status[c][k] = "skipped" =>
                  \E d \in plan[c][k].deps : status[c][d] \in {"failed", "skipped"}

\* Retrievals are recorded in plan order.
Ordered(c) ==
    /\ Strategy(query[c]) # "parallel" =>
          \A j, k \in Steps(c) : j < k /\ status[c][j] = "pending" => status[c][k] = "pending"
    /\ batch[c] = {} =>
          \A j, k \in Retrievals(c, Steps(c)) :
              j < k /\ status[c][j] = "pending" => status[c][k] = "pending"
    /\ Lists(evidence[c], Retrievals(c, Good(c) \ batch[c]))

\* A plan that was executed has no step left.
Finished(c) ==
    phase[c] = "done" /\ Strategy(query[c]) # "direct_llm" => Pending(c) = {}

ClientInv(c) ==
    /\ WellFormed(c) /\ Waiting(c) /\ Rounds(c) /\ Accounted(c)
    /\ Justified(c) /\ Ordered(c) /\ Finished(c)

PlanInv == Shaped /\ Planning /\ \A c \in Clients : ClientInv(c)

-----------------------------------------------------------------------------
(* The operators.                                                          *)

\* A set of steps has a first one.
LEMMA FirstIs ==
    ASSUME NEW S, S \subseteq Nat, S # {}
    PROVE  First(S) \in S /\ \A j \in S : First(S) <= j
<1> DEFINE Less == {p \in Nat \X Nat : p[1] < p[2]}
<1>1. IsWellFoundedOn(Less, Nat)
  BY NatLessThanWellFounded DEF OpToRel
<1>2. PICK x \in S : \A y \in S : ~(<<y, x>> \in Less)
  <2> HIDE DEF Less
  <2> QED BY <1>1, WFMin
<1>3. ASSUME NEW y \in S PROVE x <= y
  <2>1. x \in Nat /\ y \in Nat
    OBVIOUS
  <2>2. y < x => <<y, x>> \in Less
    BY <2>1
  <2> HIDE DEF Less
  <2>3. ~(y < x)
    BY <1>2, <2>2
  <2> QED BY <2>1, <2>3
<1> QED BY <1>3 DEF First

\* The planner's step types; what follows from an earlier step is not the first.
LEMMA PlannedTypes ==
    ASSUME NEW q \in Asked
    PROVE  /\ StepTypes(q) \in Seq(StepType)
           /\ \A k \in 1..Len(StepTypes(q)) :
                  StepTypes(q)[k] \in {"reasoning", "synthesis"} => k > 1
<1>1. q.companies \in Nat
  BY PlanAssumption
<1>2. CASE ~q.metric /\ q.task = "comparison"
  <2> DEFINE n == q.companies
             r == Retrieves(n)
             t == r \o <<"compare", "synthesis">>
  <2>1. StepTypes(q) = t
    BY <1>2 DEF StepTypes
  <2>2. r \in Seq(StepType) /\ Len(r) = n /\ \A k \in 1..n : r[k] = "retrieve"
    BY <1>1 DEF Retrieves, StepType
  <2>3. <<"compare", "synthesis">> \in Seq(StepType)
    BY DEF StepType
  <2>4. t \in Seq(StepType) /\ Len(t) = n + 2
    BY <2>2, <2>3
  <2>5. \A k \in 1..n : t[k] = "retrieve"
    BY <2>2, <2>3, <1>1
  <2>6. t[n + 1] = "compare" /\ t[n + 2] = "synthesis"
    BY <2>2, <2>3, <1>1
  <2> QED BY <1>1, <2>1, <2>4, <2>5, <2>6
<1>3. CASE ~(~q.metric /\ q.task = "comparison")
  <2>1. StepTypes(q) \in {<<"tool_call">>, <<"retrieve", "reasoning">>,
                          <<"retrieve", "synthesis">>, <<"retrieve">>}
    BY <1>3 DEF StepTypes
  <2>2. CASE StepTypes(q) = <<"tool_call">>
    BY <2>2 DEF StepType
  <2>3. CASE StepTypes(q) = <<"retrieve">>
    BY <2>3 DEF StepType
  <2>4. CASE StepTypes(q) = <<"retrieve", "reasoning">>
    BY <2>4 DEF StepType
  <2>5. CASE StepTypes(q) = <<"retrieve", "synthesis">>
    BY <2>5 DEF StepType
  <2> QED BY <2>1, <2>2, <2>3, <2>4, <2>5
<1> QED BY <1>2, <1>3

\* The steps up to some number are finitely many.
LEMMA UpToFinite ==
    ASSUME NEW n \in Nat
    PROVE  IsFiniteSet(1..n)
BY FS_Interval

\* A function on 1..n is a sequence of length n.
LEMMA ListOf ==
    ASSUME NEW S, NEW n \in Nat, NEW f \in [1..n -> S]
    PROVE  f \in Seq(S) /\ Len(f) = n
<1>1. f \in Seq(S)
  BY SeqDef
<1>2. Len(f) \in Nat /\ 1..Len(f) = 1..n
  BY <1>1, LenProperties
<1>3. \A k \in Nat : k \in 1..n <=> k \in 1..Len(f)
  BY <1>2
<1> QED BY <1>1, <1>2, <1>3

\* The list of no steps is empty.
LEMMA ListsNothing ==
    ASSUME NEW s \in Seq(Nat), Lists(s, {})
    PROVE  s = <<>>
<1>1. ASSUME Len(s) # 0 PROVE FALSE
  <2>1. 1 \in DOMAIN s
    BY <1>1
  <2>2. s[1] \in {s[k] : k \in DOMAIN s}
    BY <2>1
  <2> QED BY <2>2 DEF Lists
<1> QED BY <1>1

\* A later step at the end of a list.
LEMMA ListsAppend ==
    ASSUME NEW s \in Seq(Nat), NEW S, Lists(s, S), NEW k \in Nat, \A j \in S : j < k
    PROVE  Append(s, k) \in Seq(Nat) /\ Lists(Append(s, k), S \cup {k})
<1> DEFINE t == Append(s, k)
<1>1. t \in Seq(Nat) /\ Len(t) = Len(s) + 1 /\ t[Len(s) + 1] = k
  OBVIOUS
<1>2. \A j \in 1..Len(s) : t[j] = s[j] /\ s[j] \in S
  BY DEF Lists
<1>3. \A j \in 1..Len(t) : j \in 1..Len(s) \/ j = Len(s) + 1
  BY <1>1
<1>4. ASSUME NEW i \in 1..Len(t), NEW j \in 1..Len(t), i < j PROVE t[i] < t[j]
  <2>1. i \in 1..Len(s)
    BY <1>1, <1>4
  <2>2. CASE j \in 1..Len(s)
    BY <1>2, <1>4, <2>1, <2>2 DEF Lists
  <2>3. CASE j = Len(s) + 1
    BY <1>1, <1>2, <2>1, <2>3
  <2> QED BY <1>3, <2>2, <2>3
<1>5. {t[j] : j \in 1..Len(t)} = S \cup {k}
  <2>1. \A j \in 1..Len(t) : t[j] \in S \cup {k}
    BY <1>1, <1>2, <1>3
  <2>2. ASSUME NEW x \in S PROVE \E j \in 1..Len(t) : t[j] = x
    <3>1. PICK j \in 1..Len(s) : s[j] = x
      BY DEF Lists
    <3> QED BY <1>1, <1>2, <3>1
  <2>3. \E j \in 1..Len(t) : t[j] = k
    BY <1>1
  <2> QED BY <2>1, <2>2, <2>3
<1>6. DOMAIN t = 1..Len(t)
  BY <1>1
<1> QED BY <1>1, <1>4, <1>5, <1>6 DEF Lists

-----------------------------------------------------------------------------
(* Building the plan.                                                      *)

\* A request nobody touched keeps its invariant.
LEMMA ClientFrame ==
    ASSUME NEW b \in Clients, ClientInv(b), UNCHANGED query,
           phase'[b] = phase[b], plan'[b] = plan[b], status'[b] = status[b],
           completed'[b] = completed[b], evidence'[b] = evidence[b],
           round'[b] = round[b], batch'[b] = batch[b]
    PROVE  ClientInv(b)'
<1>1. Steps(b)' = Steps(b)
  BY DEF Steps
<1>2. Pending(b)' = Pending(b) /\ Good(b)' = Good(b)
  BY <1>1 DEF Pending, Good
<1>3. WellFormed(b)' /\ Waiting(b)' /\ Accounted(b)' /\ Finished(b)'
  BY <1>1, <1>2 DEF ClientInv, WellFormed, Waiting, Accounted, Finished
<1>4. Rounds(b)'
  BY <1>1, <1>2 DEF ClientInv, Rounds, Retrievals
<1>5. Justified(b)' /\ Ordered(b)'
  BY <1>1, <1>2 DEF ClientInv, Justified, Ordered, Retrievals, Lists
<1> QED BY <1>3, <1>4, <1>5 DEF ClientInv

\* The lock is taken and the counter reset for a plan without steps.
LEMMA BeginStep ==
    ASSUME PlanInv, NEW c \in Clients, PlanBegin(c)
    PROVE  PlanInv'
<1> USE DEF PlanBegin
<1>0. Shaped'
  <2>1. UNCHANGED <<query, plan, status, completed, evidence, round, batch>>
    OBVIOUS
  <2>2. phase' \in [Clients -> {"idle", "plan", "run", "done"}]
    BY DEF PlanInv, Shaped
  <2>3. planLock' \in Clients \cup {NoClient} /\ counter' \in Nat \ {0}
    OBVIOUS
  <2> HIDE DEF PlanBegin
  <2> QED BY <2>1, <2>2, <2>3 DEF PlanInv, Shaped
<1>1. Planning'
  <2>1. planLock = NoClient /\ plan[c] = <<>> /\ Len(plan[c]) = 0
    BY DEF PlanInv, Planning
  <2>2. phase'[c] = "plan" /\ \A b \in Clients \ {c} : phase'[b] = phase[b] /\ phase[b] # "plan"
    BY <2>1, ClientAssumption DEF PlanInv, Shaped, Planning
  <2> QED BY <2>1, <2>2 DEF PlanInv, Planning
<1>2. Steps(c)' = Steps(c) /\ Pending(c)' = Pending(c) /\ Good(c)' = Good(c)
  BY DEF Steps, Pending, Good
<1>3. ClientInv(c)'
  <2>1. WellFormed(c)' /\ Waiting(c)' /\ Accounted(c)' /\ Finished(c)'
    BY <1>2 DEF PlanInv, Shaped, ClientInv, WellFormed, Waiting, Accounted, Finished
  <2>2. Rounds(c)'
    BY <1>2 DEF PlanInv, Shaped, ClientInv, Waiting, Rounds, Retrievals
  <2>3. Justified(c)' /\ Ordered(c)'
    BY <1>2 DEF PlanInv, ClientInv, Justified, Ordered, Retrievals, Lists
  <2> QED BY <2>1, <2>2, <2>3 DEF ClientInv
<1>4. ASSUME NEW b \in Clients \ {c} PROVE ClientInv(b)'
  BY ClientFrame DEF PlanInv, Shaped
<1> QED BY <1>0, <1>1, <1>3, <1>4 DEF PlanInv

\* What a new step is given to depend on is in the plan already.
LEMMA NewStep ==
    ASSUME PlanInv, NEW c \in Clients, PlanStep(c)
    PROVE  LET n == Len(plan[c]) + 1 IN
           /\ plan' = [plan EXCEPT ![c] = plan'[c]]
           /\ plan'[c] \in Seq([id : Nat, type : StepType, deps : SUBSET Nat])
           /\ Len(plan'[c]) = n
           /\ \A k \in 1..(n - 1) : plan'[c][k] = plan[c][k]
           /\ plan'[c][n].id = n
           /\ \A d \in plan'[c][n].deps : d \in 1..(n - 1)
           /\ plan'[c][n].type = "retrieve" => plan'[c][n].deps = {}
<1> DEFINE n == Len(plan[c]) + 1
           t == StepTypes(query[c])[n]
           D == DependsOn(t, plan[c])
           R == [id |-> counter, type |-> t, deps |-> D]
<1>1. /\ plan[c] \in Seq([id : Nat, type : StepType, deps : SUBSET Nat])
      /\ counter = n /\ n \in Nat /\ n > 0
      /\ \A k \in 1..(n - 1) : plan[c][k].id = k
  <2>1. plan[c] \in Seq([id : Nat, type : StepType, deps : SUBSET Nat])
    BY DEF PlanInv, Shaped
  <2>2. n \in Nat /\ n > 0 /\ Steps(c) = 1..(n - 1)
    BY <2>1 DEF Steps
  <2>3. counter = n
    BY DEF PlanInv, Planning, PlanStep
  <2> QED BY <2>1, <2>2, <2>3 DEF PlanInv, ClientInv, WellFormed
<1>2. t \in StepType /\ (t \in {"reasoning", "synthesis"} => n > 1)
  <2>1. query[c] \in Asked
    BY DEF PlanInv, Shaped
  <2>2. n \in 1..Len(StepTypes(query[c]))
    BY <1>1, <2>1, PlannedTypes DEF PlanStep
  <2> QED BY <2>1, <2>2, PlannedTypes
<1>3. D \subseteq 1..(n - 1) /\ (t = "retrieve" => D = {})
  <2> HIDE DEF t
  <2>1. CASE t \in {"retrieve", "tool_call"}
    BY <2>1 DEF DependsOn
  <2>2. CASE t = "compare"
    BY <1>1, <2>2 DEF DependsOn
  <2>3. CASE t \in {"reasoning", "synthesis"}
    <3>1. Len(plan[c]) \in 1..(n - 1)
      BY <1>1, <1>2, <2>3
    <3> QED BY <1>1, <2>3, <3>1 DEF DependsOn
  <2> QED BY <1>2, <2>1, <2>2, <2>3 DEF StepType
<1>4. plan' = [plan EXCEPT ![c] = Append(plan[c], R)]
  BY DEF PlanStep
<1> HIDE DEF t, D
<1>5. R \in [id : Nat, type : StepType, deps : SUBSET Nat]
  BY <1>1, <1>2, <1>3
<1>6. plan'[c] = Append(plan[c], R)
  BY <1>4 DEF PlanInv, Shaped
<1>7. plan'[c] \in Seq([id : Nat, type : StepType, deps : SUBSET Nat])
  BY <1>1, <1>5, <1>6
<1>8. Len(plan'[c]) = n /\ plan'[c][n] = R /\ \A k \in 1..(n - 1) : plan'[c][k] = plan[c][k]
  BY <1>1, <1>6
<1>9. R.id = n /\ R.type = t /\ R.deps = D
  BY <1>1
<1> HIDE DEF R
<1>10. plan' = [plan EXCEPT ![c] = plan'[c]]
  BY <1>4, <1>6
<1> QED BY <1>1, <1>3, <1>7, <1>8, <1>9, <1>10

\* The plan grows by one step, which waits.
LEMMA PlanStepStep ==
    ASSUME PlanInv, NEW c \in Clients, PlanStep(c)
    PROVE  PlanInv'
<1> DEFINE n == Len(plan[c]) + 1
<1>0. n \in Nat /\ n > 0 /\ Steps(c) = 1..(n - 1) /\ Len(status[c]) = n - 1
  BY DEF PlanInv, Shaped, Steps
<1>1. /\ status'[c] \in Seq(StepStatus) /\ Len(status'[c]) = n
      /\ \A k \in 1..(n - 1) : status'[c][k] = status[c][k]
      /\ status'[c][n] = "pending"
      /\ status' = [status EXCEPT ![c] = status'[c]]
  BY DEF PlanInv, Shaped, PlanStep, StepStatus
<1>2. /\ plan' = [plan EXCEPT ![c] = plan'[c]]
      /\ plan'[c] \in Seq([id : Nat, type : StepType, deps : SUBSET Nat])
      /\ Len(plan'[c]) = n
      /\ \A k \in 1..(n - 1) : plan'[c][k] = plan[c][k]
      /\ plan'[c][n].id = n
      /\ \A d \in plan'[c][n].deps : d \in 1..(n - 1)
      /\ plan'[c][n].type = "retrieve" => plan'[c][n].deps = {}
  BY NewStep
<1> HIDE DEF n
<1>12. Shaped'
  <2>1. plan' \in [Clients -> Seq([id : Nat, type : StepType, deps : SUBSET Nat])]
    BY <1>2 DEF PlanInv, Shaped
  <2>2. status' \in [Clients -> Seq(StepStatus)]
    BY <1>1 DEF PlanInv, Shaped
  <2>3. \A b \in Clients : Len(status'[b]) = Len(plan'[b])
    BY <1>1, <1>2 DEF PlanInv, Shaped
  <2>4. counter' \in Nat \ {0}
    BY DEF PlanInv, Shaped, PlanStep
  <2>5. UNCHANGED <<planLock, phase, query, completed, evidence, round, batch>>
    BY DEF PlanStep
  <2>6. Shaped
    BY DEF PlanInv
  <2> QED BY <2>1, <2>2, <2>3, <2>4, <2>5, <2>6 DEF Shaped
<1>3. Planning'
  <2>1. phase[c] = "plan" /\ counter' = n + 1
    BY DEF PlanInv, Planning, PlanStep, n
  <2>2. \A b \in Clients \ {c} : phase'[b] # "plan" /\ plan'[b] = plan[b]
    BY <1>2, <2>1 DEF PlanInv, Planning, PlanStep, Shaped
  <2>3. UNCHANGED <<planLock, phase>>
    BY DEF PlanStep
  <2>4. planLock = c
    BY <2>1 DEF PlanInv, Planning
  <2>5. ASSUME NEW b \in Clients \ {c}, phase[b] = "idle" PROVE plan[b] = <<>>
    BY <2>5 DEF PlanInv, Planning
  <2> QED BY <1>2, <2>1, <2>2, <2>3, <2>4, <2>5 DEF Planning
<1>4. phase[c] = "plan" /\ Steps(c) = Pending(c) /\ Good(c) = {} /\ round[c] = {} /\ batch[c] = {}
  BY DEF PlanInv, ClientInv, Waiting, Pending, Good, Rounds, PlanStep
<1>5. Steps(c)' = 1..n /\ Steps(c)' = Pending(c)' /\ Good(c)' = {}
  <2>1. Steps(c)' = 1..n
    BY <1>2 DEF Steps
  <2>2. ASSUME NEW k \in 1..n PROVE status'[c][k] = "pending"
    <3>1. CASE k \in 1..(n - 1)
      BY <1>0, <1>1, <1>4, <3>1 DEF Pending
    <3>2. CASE k = n
      BY <1>1, <3>2
    <3> QED BY <1>0, <3>1, <3>2
  <2> QED BY <2>1, <2>2 DEF Pending, Good
<1>6. UNCHANGED <<phase, query, completed, evidence, round, batch>>
  BY DEF PlanStep
<1>7. WellFormed(c)'
  <2>1. ASSUME NEW k \in 1..n PROVE k \in 1..(n - 1) \/ k = n
    BY <1>0
  <2>2. \A k \in 1..(n - 1) : /\ plan[c][k].id = k
                              /\ \A d \in plan[c][k].deps : d \in 1..(k - 1)
                              /\ plan[c][k].type = "retrieve" => plan[c][k].deps = {}
    <3>1. WellFormed(c)
      BY DEF PlanInv, ClientInv
    <3> QED BY <1>0, <3>1 DEF WellFormed
  <2> QED BY <1>2, <1>5, <2>1, <2>2 DEF WellFormed
<1>8. Waiting(c)' /\ Accounted(c)' /\ Finished(c)'
  BY <1>4, <1>5, <1>6 DEF PlanInv, ClientInv, Waiting, Accounted, Finished
<1>9. Rounds(c)' /\ Justified(c)'
  BY <1>4, <1>5, <1>6 DEF Rounds, Justified, Pending
<1>10. Ordered(c)'
  BY <1>4, <1>5, <1>6 DEF PlanInv, ClientInv, Ordered, Pending, Retrievals, Lists
<1>11. ASSUME NEW b \in Clients \ {c} PROVE ClientInv(b)'
  BY <1>1, <1>2, <1>6, ClientFrame DEF PlanInv, Shaped
<1> QED BY <1>12, <1>3, <1>7, <1>8, <1>9, <1>10, <1>11 DEF PlanInv, ClientInv

\* The lock is released; the plan waits for its handler, or is not executed.
LEMMA EndStep ==
    ASSUME PlanInv, NEW c \in Clients, PlanEnd(c)
    PROVE  PlanInv'
<1> DEFINE p == IF Strategy(query[c]) = "direct_llm" THEN "done" ELSE "run"
<1>1. /\ phase[c] = "plan" /\ phase' = [phase EXCEPT ![c] = p]
      /\ planLock' = NoClient
      /\ UNCHANGED <<counter, query, plan, runVars>>
  BY DEF PlanEnd
<1>2. p \in {"run", "done"} /\ (p = "done" <=> Strategy(query[c]) = "direct_llm")
  OBVIOUS
<1> HIDE DEF p
<1>3. Shaped'
  BY <1>1, <1>2 DEF PlanInv, Shaped
<1>4. Planning'
  <2>1. ASSUME NEW b \in Clients PROVE phase'[b] # "plan" /\ (phase'[b] = "idle" => phase[b] = "idle")
    BY <1>1, <1>2 DEF PlanInv, Shaped, Planning
  <2> QED BY <1>1, <2>1 DEF PlanInv, Planning
<1>5. Steps(c)' = Steps(c) /\ Pending(c)' = Pending(c) /\ Good(c)' = Good(c)
  BY <1>1 DEF Steps, Pending, Good
<1>6. phase'[c] = p
  BY <1>1 DEF PlanInv, Shaped
<1>7. ClientInv(c)'
  <2>1. WellFormed(c)' /\ Waiting(c)' /\ Accounted(c)' /\ Finished(c)'
    BY <1>1, <1>2, <1>5, <1>6 DEF PlanInv, ClientInv, WellFormed, Waiting, Accounted, Finished
  <2>2. round[c] = {} /\ batch[c] = {} /\ Steps(c) = Pending(c)
    BY <1>1 DEF PlanInv, ClientInv, Waiting, Rounds
  <2>3. Rounds(c)'
    BY <1>1, <1>5, <2>2 DEF PlanInv, ClientInv, Rounds, Retrievals, Pending
  <2>4. Justified(c)' /\ Ordered(c)'
    BY <1>1, <1>5 DEF PlanInv, ClientInv, Justified, Ordered, Retrievals, Lists
  <2> QED BY <2>1, <2>3, <2>4 DEF ClientInv
<1>8. ASSUME NEW b \in Clients \ {c} PROVE ClientInv(b)'
  BY <1>1, ClientFrame DEF PlanInv, Shaped
<1> QED BY <1>3, <1>4, <1>7, <1>8 DEF PlanInv

-----------------------------------------------------------------------------
(* Executing it.                                                           *)

\* What the handlers' steps have in common: they leave the plan and the other
\* requests alone.
LEMMA RunStep ==
    ASSUME PlanInv, NEW c \in Clients, UNCHANGED <<plannerVars, phase, query, plan>>,
           status' = [status EXCEPT ![c] = status'[c]],
           status'[c] \in Seq(StepStatus), Len(status'[c]) = Len(status[c]),
           completed' = [completed EXCEPT ![c] = completed'[c]], completed'[c] \subseteq Nat,
           evidence' = [evidence EXCEPT ![c] = evidence'[c]], evidence'[c] \in Seq(Nat),
           round' = [round EXCEPT ![c] = round'[c]], round'[c] \subseteq Nat,
           batch' = [batch EXCEPT ![c] = batch'[c]], batch'[c] \subseteq Nat,
           ClientInv(c)'
    PROVE  PlanInv'
<1>1. Shaped'
  <2>1. status' \in [Clients -> Seq(StepStatus)]
    BY DEF PlanInv, Shaped
  <2>2. \A b \in Clients : Len(status'[b]) = Len(plan'[b])
    BY DEF PlanInv, Shaped
  <2>3. completed' \in [Clients -> SUBSET Nat] /\ evidence' \in [Clients -> Seq(Nat)]
    BY DEF PlanInv, Shaped
  <2>4. round' \in [Clients -> SUBSET Nat] /\ batch' \in [Clients -> SUBSET Nat]
    BY DEF PlanInv, Shaped
  <2> QED BY <2>1, <2>2, <2>3, <2>4 DEF PlanInv, Shaped
<1>2. Planning'
  BY DEF PlanInv, Planning
<1>3. ASSUME NEW b \in Clients \ {c} PROVE ClientInv(b)'
  BY ClientFrame DEF PlanInv, Shaped
<1> QED BY <1>1, <1>2, <1>3 DEF PlanInv

\* The record of a result changes one status, and adds to what is known.
Recorded(c, k, s) ==
    /\ status' = [status EXCEPT ![c] = status'[c]]
    /\ status'[c] \in Seq(StepStatus) /\ Len(status'[c]) = Len(status[c])
    /\ status'[c][k] = s /\ \A j \in Steps(c) \ {k} : status'[c][j] = status[c][j]
    /\ completed' = [completed EXCEPT ![c] = completed'[c]]
    /\ completed'[c] = IF s = "completed" THEN completed[c] \cup {k} ELSE completed[c]
    /\ evidence' = [evidence EXCEPT ![c] = evidence'[c]]
    /\ evidence'[c] = IF s = "completed" /\ plan[c][k].type = "retrieve"
                      THEN Append(evidence[c], k) ELSE evidence[c]

\* What mark_completed, mark_failed and mark_skipped do to a plan.
LEMMA RecordEffect ==
    ASSUME PlanInv, NEW c \in Clients, NEW k \in Steps(c),
           NEW s \in {"completed", "failed", "skipped"}, Record(c, k, s)
    PROVE  Recorded(c, k, s)
<1>1. /\ status[c] \in Seq(StepStatus) /\ Steps(c) = 1..Len(status[c])
      /\ status \in [Clients -> Seq(StepStatus)] /\ completed \in [Clients -> SUBSET Nat]
      /\ evidence \in [Clients -> Seq(Nat)]
  BY DEF PlanInv, Shaped, Steps
<1>2. plan[c][k].id = k
  BY DEF PlanInv, ClientInv, WellFormed
<1>3. status' = [status EXCEPT ![c][k] = s]
  BY DEF Record
<1>4. status'[c] = [status[c] EXCEPT ![k] = s]
  BY <1>1, <1>3
<1>5. status'[c] \in Seq(StepStatus) /\ Len(status'[c]) = Len(status[c])
  BY <1>1, <1>4 DEF StepStatus
<1>6. status'[c][k] = s /\ \A j \in Steps(c) \ {k} : status'[c][j] = status[c][j]
  BY <1>1, <1>4
<1>7. status' = [status EXCEPT ![c] = status'[c]]
  BY <1>1, <1>3, <1>4
<1>8. /\ completed' = [completed EXCEPT ![c] = completed'[c]]
      /\ completed'[c] = IF s = "completed" THEN completed[c] \cup {k} ELSE completed[c]
  BY <1>1, <1>2 DEF Record
<1>9. /\ evidence' = [evidence EXCEPT ![c] = evidence'[c]]
      /\ evidence'[c] = IF s = "completed" /\ plan[c][k].type = "retrieve"
                        THEN Append(evidence[c], k) ELSE evidence[c]
  BY <1>1 DEF Record
<1> QED BY <1>5, <1>6, <1>7, <1>8, <1>9 DEF Recorded

\* A pending step, next in order and out of any batch, gets a result that its
\* dependencies justify.
LEMMA StepRecorded ==
    ASSUME PlanInv, NEW c \in Clients, NEW k \in Pending(c),
           NEW s \in {"completed", "failed", "skipped"}, Record(c, k, s),
           UNCHANGED <<plannerVars, phase, query, plan, batch>>,
           round' = [round EXCEPT ![c] = @ \ {k}],
           phase[c] = "run", batch[c] = {},
           Strategy(query[c]) = "parallel" => k \in round[c],
           Strategy(query[c]) # "parallel" => \A j \in Pending(c) : k <= j,
           plan[c][k].type = "retrieve" => \A j \in Retrievals(c, Pending(c)) : k <= j,
           \/ Strategy(query[c]) = "tool_calling"
           \/ /\ s = "skipped" => \E d \in plan[c][k].deps : status[c][d] \in {"failed", "skipped"}
              /\ s # "skipped" => plan[c][k].deps \subseteq completed[c]
    PROVE  PlanInv'
<1>1. /\ k \in Steps(c) /\ status[c][k] = "pending" /\ k \in Nat
      /\ Steps(c) \subseteq Nat
  BY DEF Pending, Steps, PlanInv, Shaped
<1>2. Recorded(c, k, s)
  BY <1>1, RecordEffect
<1>3. /\ WellFormed(c) /\ Rounds(c) /\ Accounted(c) /\ Justified(c) /\ Ordered(c)
      /\ evidence[c] \in Seq(Nat) /\ completed[c] \subseteq Nat /\ round[c] \subseteq Nat
      /\ round'[c] = round[c] \ {k}
  BY DEF PlanInv, ClientInv, Shaped
<1> USE DEF Recorded
<1>4. /\ Steps(c)' = Steps(c) /\ Pending(c)' = Pending(c) \ {k}
      /\ Good(c)' = IF s = "completed" THEN Good(c) \cup {k} ELSE Good(c)
      /\ batch'[c] = {} /\ k \notin Good(c)
  BY <1>1, <1>2 DEF Steps, Pending, Good
<1>5. WellFormed(c)' /\ Waiting(c)' /\ Accounted(c)' /\ Finished(c)'
  BY <1>2, <1>3, <1>4 DEF WellFormed, Waiting, Accounted, Finished
<1>6. Rounds(c)'
  <2>1. \A j \in round'[c] : j \in Steps(c) \ {k} /\ status'[c][j] = "pending"
    BY <1>2, <1>3 DEF Rounds
  <2>2. \A j \in Steps(c) : status'[c][j] # "running"
    BY <1>2, <1>3 DEF Rounds
  <2>3. Retrievals(c, Pending(c))' = Retrievals(c, Pending(c)) \ {k}
    BY <1>4 DEF Retrievals
  <2>4. Strategy(query[c]) = "parallel" => Retrievals(c, Pending(c)) \subseteq round[c]
    BY <1>3 DEF Rounds
  <2>5. /\ batch'[c] \subseteq round'[c] /\ round'[c] \subseteq Steps(c)'
        /\ \A j \in round'[c] : plan'[c][j].deps \subseteq completed'[c]
    BY <1>2, <1>3, <1>4, <2>1 DEF Rounds
  <2>6. round'[c] # {} => /\ phase'[c] = "run" /\ Strategy(query'[c]) = "parallel"
                          /\ Retrievals(c, Pending(c))' \subseteq round'[c]
    BY <1>3, <2>3, <2>4 DEF Rounds
  <2>7. round'[c] = {} /\ Strategy(query'[c]) = "parallel" => Retrievals(c, Pending(c))' = {}
    BY <1>3, <2>3, <2>4
  <2> QED BY <1>4, <2>1, <2>2, <2>5, <2>6, <2>7 DEF Rounds
<1>7. Justified(c)'
  <2>1. completed[c] \subseteq completed'[c]
    BY <1>2
  <2>2. ASSUME NEW d \in Nat, status[c][d] \in {"failed", "skipped"}, d \in Steps(c)
        PROVE  status'[c][d] \in {"failed", "skipped"}
    BY <1>1, <1>2, <2>2
  <2>3. \A j \in Steps(c) : plan[c][j].deps \subseteq Steps(c)
    <3>1. Len(plan[c]) \in Nat
      BY DEF PlanInv, Shaped
    <3> QED BY <1>3, <3>1 DEF WellFormed, Steps
  <2> QED BY <1>1, <1>2, <1>3, <1>4, <2>1, <2>2, <2>3 DEF Justified
<1>8. Ordered(c)'
  <2>1. Retrievals(c, Steps(c))' = Retrievals(c, Steps(c))
    BY <1>4 DEF Retrievals
  <2>2. Strategy(query[c]) # "parallel" =>
           \A i, j \in Steps(c) : i < j /\ status'[c][i] = "pending" => status'[c][j] = "pending"
    BY SMTT(30), <1>1, <1>2, <1>3 DEF Ordered, Pending
  <2>3. \A i, j \in Retrievals(c, Steps(c)) :
           i < j /\ status'[c][i] = "pending" => status'[c][j] = "pending"
    BY <1>1, <1>2, <1>3 DEF Ordered, Pending, Retrievals
  <2>4. Lists(evidence[c], Retrievals(c, Good(c)))
    BY <1>3 DEF Ordered
  <2>5. CASE s = "completed" /\ plan[c][k].type = "retrieve"
    <3>1. \A j \in Retrievals(c, Good(c)) : j < k
      BY <1>1, <1>3, <2>5 DEF Ordered, Retrievals, Good
    <3>2. Lists(Append(evidence[c], k), Retrievals(c, Good(c)) \cup {k})
      BY <1>1, <1>3, <2>4, <3>1, ListsAppend
    <3>3. Retrievals(c, Good(c) \ batch[c])' = Retrievals(c, Good(c)) \cup {k}
      BY <1>1, <1>4, <2>5 DEF Retrievals
    <3>4. Lists(evidence[c], Retrievals(c, Good(c) \ batch[c]))'
      BY <1>2, <2>5, <3>2, <3>3
    <3> QED BY <1>4, <2>1, <2>2, <2>3, <3>4 DEF Ordered
  <2>6. CASE ~(s = "completed" /\ plan[c][k].type = "retrieve")
    <3>1. Retrievals(c, Good(c) \ batch[c])' = Retrievals(c, Good(c))
      BY <1>1, <1>4, <2>6 DEF Retrievals
    <3>2. Lists(evidence[c], Retrievals(c, Good(c) \ batch[c]))'
      BY <1>2, <2>4, <2>6, <3>1
    <3> QED BY <1>4, <2>1, <2>2, <2>3, <3>2 DEF Ordered
  <2> QED BY <2>5, <2>6
<1>9. ClientInv(c)'
  BY <1>5, <1>6, <1>7, <1>8 DEF ClientInv
<1>10. evidence'[c] \in Seq(Nat) /\ completed'[c] \subseteq Nat /\ round'[c] \subseteq Nat
       /\ batch'[c] \subseteq Nat
  BY <1>1, <1>2, <1>3, <1>4
<1>11. round' = [round EXCEPT ![c] = round'[c]] /\ batch' = [batch EXCEPT ![c] = batch'[c]]
  BY DEF PlanInv, Shaped
<1> QED BY <1>2, <1>9, <1>10, <1>11, RunStep

\* The steps of the sequential handlers, in plan order.
LEMMA OrderStep ==
    ASSUME PlanInv, NEW c \in Clients, RagStep(c) \/ SequentialStep(c) \/ ToolStep(c)
    PROVE  PlanInv'
<1> DEFINE k == First(Pending(c))
<1>1. /\ phase[c] = "run" /\ Strategy(query[c]) \in {"rag", "multi_step", "tool_calling"}
      /\ Pending(c) # {} /\ UNCHANGED <<plannerVars, phase, query, plan, round, batch>>
  BY DEF RagStep, SequentialStep, ToolStep, Runs, NextInOrder
<1>2. Pending(c) \subseteq Steps(c) /\ Steps(c) \subseteq Nat
  BY DEF Pending, Steps, PlanInv, Shaped
<1>3. k \in Pending(c) /\ \A j \in Pending(c) : k <= j
  BY <1>1, <1>2, FirstIs
<1> HIDE DEF k
<1>4. round[c] = {} /\ batch[c] = {} /\ round' = [round EXCEPT ![c] = @ \ {k}]
  <2>1. round[c] = {} /\ batch[c] = {}
    BY <1>1 DEF PlanInv, ClientInv, Rounds
  <2> QED BY <1>1, <2>1 DEF PlanInv, Shaped
<1>5. Retrievals(c, Pending(c)) \subseteq Pending(c)
  BY DEF Retrievals
<1>6. PICK s \in {"completed", "failed", "skipped"} :
        /\ Record(c, k, s)
        /\ \/ Strategy(query[c]) = "tool_calling"
           \/ /\ s = "skipped" => ~DependenciesMet(c, k)
              /\ s # "skipped" => DependenciesMet(c, k)
  <2>1. CASE ToolStep(c)
    BY <2>1 DEF ToolStep, Runs, ExecuteStep, Outcomes, k
  <2>2. CASE RagStep(c) \/ SequentialStep(c)
    BY <2>2 DEF RagStep, SequentialStep, NextInOrder, ExecuteStep, Outcomes, k
  <2> QED BY <2>1, <2>2
<1>7. ASSUME ~DependenciesMet(c, k)
      PROVE  \E d \in plan[c][k].deps : status[c][d] \in {"failed", "skipped"}
  <2>1. PICK d \in plan[c][k].deps : d \notin completed[c]
    BY <1>7 DEF DependenciesMet
  <2>2. d \in Steps(c) /\ d < k
    <3>1. d \in 1..(k - 1) /\ k \in 1..Len(plan[c]) /\ Len(plan[c]) \in Nat
      BY <1>2, <1>3 DEF PlanInv, Shaped, ClientInv, WellFormed, Steps
    <3> QED BY <3>1 DEF Steps
  <2>3. status[c][d] \notin {"pending", "running", "completed"}
    <3>1. d \notin Pending(c)
      BY <1>2, <1>3, <2>2
    <3> QED BY <1>4, <2>1, <2>2, <3>1 DEF PlanInv, ClientInv, Rounds, Accounted, Good, Pending
  <2>4. status[c][d] \in StepStatus
    BY <2>2 DEF PlanInv, Shaped, Steps
  <2> QED BY <2>3, <2>4 DEF StepStatus
<1>8. \/ Strategy(query[c]) = "tool_calling"
      \/ /\ s = "skipped" => \E d \in plan[c][k].deps : status[c][d] \in {"failed", "skipped"}
         /\ s # "skipped" => plan[c][k].deps \subseteq completed[c]
  BY <1>6, <1>7 DEF DependenciesMet
<1> QED BY <1>1, <1>3, <1>4, <1>5, <1>6, <1>8, StepRecorded

\* The rest of a round, on the caller's thread.
LEMMA RoundStepStep ==
    ASSUME PlanInv, NEW c \in Clients, RoundStep(c)
    PROVE  PlanInv'
<1> DEFINE S == IF Retrievals(c, round[c]) # {} THEN Retrievals(c, round[c]) ELSE round[c]
           k == First(S)
<1>1. /\ batch[c] = {} /\ round[c] # {} /\ ExecuteStep(c, k)
      /\ round' = [round EXCEPT ![c] = @ \ {k}]
      /\ UNCHANGED <<plannerVars, phase, query, plan, batch>>
  BY DEF RoundStep
<1>2. Rounds(c) /\ WellFormed(c)
  BY DEF PlanInv, ClientInv
<1>3. S # {} /\ S \subseteq round[c] /\ round[c] \subseteq Pending(c) /\ Pending(c) \subseteq Nat
  <2>1. round[c] \subseteq Pending(c)
    BY <1>1, <1>2 DEF Rounds, Pending
  <2>2. Pending(c) \subseteq Nat
    BY DEF Pending, Steps, PlanInv, Shaped
  <2> QED BY <1>1, <2>1, <2>2 DEF Retrievals
<1> HIDE DEF S
<1>4. k \in S /\ \A j \in S : k <= j
  BY <1>3, FirstIs
<1>5. phase[c] = "run" /\ Strategy(query[c]) = "parallel"
  BY <1>1, <1>2 DEF Rounds
<1>6. plan[c][k].deps \subseteq completed[c]
  BY <1>2, <1>3, <1>4 DEF Rounds
<1>7. ASSUME plan[c][k].type = "retrieve", NEW j \in Retrievals(c, Pending(c)) PROVE k <= j
  <2>1. j \in Retrievals(c, round[c])
    BY <1>1, <1>2 DEF Rounds, Retrievals
  <2> QED BY <1>4, <2>1 DEF S
<1>8. PICK s \in {"completed", "failed", "skipped"} : Record(c, k, s) /\ s # "skipped"
  BY <1>1, <1>6 DEF ExecuteStep, DependenciesMet, Outcomes
<1> HIDE DEF k
<1> QED BY <1>1, <1>3, <1>4, <1>5, <1>6, <1>7, <1>8, StepRecorded

\* A round is chosen: with retrievals in it, it is the first and has them all.
LEMMA RoundBegins ==
    ASSUME PlanInv, NEW c \in Clients, RoundBegin(c), Ready(c) # {}
    PROVE  PlanInv'
<1> DEFINE B == IF Cardinality(Retrievals(c, Ready(c))) > 1 /\ Parallelism(query[c]) > 1
                THEN Retrievals(c, Ready(c)) ELSE {}
<1>1. /\ phase[c] = "run" /\ Strategy(query[c]) = "parallel" /\ round[c] = {}
      /\ round' = [round EXCEPT ![c] = Ready(c)] /\ batch' = [batch EXCEPT ![c] = B]
      /\ UNCHANGED <<plannerVars, phase, query, plan, status, completed, evidence>>
  BY DEF RoundBegin, Runs
<1>2. B \in {{}, Retrievals(c, Ready(c))}
  OBVIOUS
<1> HIDE DEF B
<1>3. /\ WellFormed(c) /\ Rounds(c) /\ Accounted(c) /\ Justified(c) /\ Ordered(c)
      /\ evidence[c] \in Seq(Nat) /\ completed[c] \subseteq Nat
      /\ round'[c] = Ready(c) /\ batch'[c] = B
  BY <1>1 DEF PlanInv, ClientInv, Shaped
<1>4. Steps(c)' = Steps(c) /\ Pending(c)' = Pending(c) /\ Good(c)' = Good(c)
      /\ Pending(c) \subseteq Steps(c) /\ Steps(c) \subseteq Nat
  BY <1>1 DEF Steps, Pending, Good, PlanInv, Shaped
<1>5. Ready(c) \subseteq Pending(c) /\ Retrievals(c, Ready(c)) = Retrievals(c, Pending(c))
  BY <1>3 DEF Ready, DependenciesMet, Retrievals, WellFormed, Pending
<1>6. batch[c] = {}
  BY <1>1, <1>3 DEF Rounds
<1>7. ASSUME B # {}
      PROVE  evidence[c] = <<>> /\ Retrievals(c, Steps(c)) \subseteq B /\ Good(c) = {}
  <2>1. Steps(c) = Pending(c)
    BY <1>1, <1>2, <1>3, <1>5, <1>7 DEF Rounds
  <2>2. Good(c) = {} /\ Retrievals(c, Good(c) \ batch[c]) = {}
    BY <2>1 DEF Good, Pending, Retrievals
  <2>3. Lists(evidence[c], {})
    BY <1>3, <2>2 DEF Ordered
  <2>4. evidence[c] = <<>>
    BY <1>3, <2>3, ListsNothing
  <2> QED BY <1>2, <1>5, <1>7, <2>1, <2>2, <2>4
<1>8. WellFormed(c)' /\ Waiting(c)' /\ Finished(c)'
  BY <1>1, <1>3, <1>4 DEF WellFormed, Waiting, Finished
<1>9. Good(c) \ B = Good(c)
  BY <1>7
<1>10. Accounted(c)' /\ Justified(c)'
  BY <1>1, <1>3, <1>4, <1>6, <1>9 DEF Accounted, Justified
<1>11. Rounds(c)'
  <2>1. Retrievals(c, Pending(c))' = Retrievals(c, Pending(c))
        /\ Retrievals(c, Steps(c))' = Retrievals(c, Steps(c))
    BY <1>1, <1>4 DEF Retrievals
  <2>2. B \subseteq Ready(c) /\ \A k \in B : plan[c][k].type = "retrieve"
    BY <1>2 DEF Retrievals
  <2>3. \A k \in Ready(c) : status[c][k] = "pending" /\ plan[c][k].deps \subseteq completed[c]
    BY DEF Ready, Pending, DependenciesMet
  <2>4. \A k \in Steps(c) : status[c][k] # "running"
    BY <1>3, <1>6 DEF Rounds
  <2>5. Retrievals(c, Pending(c)) \subseteq Ready(c)
    BY <1>5 DEF Retrievals
  <2> QED BY <1>1, <1>3, <1>4, <1>5, <1>7, <2>1, <2>2, <2>3, <2>4, <2>5 DEF Rounds
<1>12. Ordered(c)'
  <2>1. Retrievals(c, Good(c) \ batch[c])' = Retrievals(c, Good(c) \ batch[c])
        /\ Retrievals(c, Steps(c))' = Retrievals(c, Steps(c))
    BY <1>1, <1>3, <1>4, <1>6, <1>9 DEF Retrievals
  <2> QED BY <1>1, <1>3, <1>4, <1>6, <2>1 DEF Ordered
<1>13. ClientInv(c)'
  BY <1>8, <1>10, <1>11, <1>12 DEF ClientInv
<1>14. /\ Ready(c) \subseteq Nat /\ B \subseteq Nat
       /\ round' = [round EXCEPT ![c] = round'[c]] /\ batch' = [batch EXCEPT ![c] = batch'[c]]
  BY <1>1, <1>2, <1>3, <1>4, <1>5 DEF Retrievals
<1>15. /\ status' = [status EXCEPT ![c] = status'[c]] /\ status'[c] \in Seq(StepStatus)
       /\ completed' = [completed EXCEPT ![c] = completed'[c]]
       /\ evidence' = [evidence EXCEPT ![c] = evidence'[c]]
       /\ Len(status'[c]) = Len(status[c])
  BY <1>1 DEF PlanInv, Shaped
<1> QED BY <1>1, <1>3, <1>13, <1>14, <1>15, RunStep

\* Nothing is ready: whatever is left waits for a step that failed or was
\* skipped, or for another that is skipped now.
LEMMA RestSkipped ==
    ASSUME PlanInv, NEW c \in Clients, RoundBegin(c), Ready(c) = {}
    PROVE  PlanInv'
<1>0. Steps(c) = 1..Len(status[c])
  BY DEF Steps, PlanInv, Shaped
<1> DEFINE T == [k \in 1..Len(status[c]) |-> IF k \in Pending(c) THEN "skipped" ELSE status[c][k]]
<1>1. /\ phase[c] = "run" /\ Strategy(query[c]) = "parallel" /\ round[c] = {}
      /\ status' = [status EXCEPT ![c] = T]
      /\ UNCHANGED <<plannerVars, phase, query, plan, completed, evidence, round, batch>>
  BY <1>0 DEF RoundBegin, Runs
<1>2. /\ WellFormed(c) /\ Rounds(c) /\ Accounted(c) /\ Justified(c) /\ Ordered(c)
      /\ evidence[c] \in Seq(Nat) /\ completed[c] \subseteq Nat
      /\ status[c] \in Seq(StepStatus) /\ Len(status[c]) = Len(plan[c])
      /\ status'[c] = T
  BY <1>1 DEF PlanInv, ClientInv, Shaped
<1>3. batch[c] = {}
  BY <1>1, <1>2 DEF Rounds
<1>4. T \in Seq(StepStatus) /\ Len(T) = Len(status[c])
  <2>1. \A k \in 1..Len(status[c]) : T[k] \in StepStatus
    BY <1>2 DEF StepStatus
  <2>2. Len(status[c]) \in Nat
    BY <1>2
  <2>3. T \in [1..Len(status[c]) -> StepStatus]
    BY <2>1
  <2> HIDE DEF T
  <2> QED BY <2>2, <2>3, ListOf
<1>5. \A k \in Steps(c) : /\ status[c][k] = "pending" => T[k] = "skipped"
                          /\ status[c][k] # "pending" => T[k] = status[c][k]
                          /\ T[k] # "pending" /\ status[c][k] # "running"
  BY <1>0, <1>2, <1>3 DEF Pending, Rounds
<1> HIDE DEF T
<1>6. Steps(c)' = Steps(c) /\ Pending(c)' = {} /\ Good(c)' = Good(c)
  BY <1>1, <1>2, <1>5 DEF Steps, Pending, Good
<1>7. WellFormed(c)' /\ Waiting(c)' /\ Finished(c)' /\ Accounted(c)'
  BY <1>1, <1>2, <1>6 DEF WellFormed, Waiting, Finished, Accounted
<1>8. Justified(c)'
  <2>1. \A k \in Steps(c) : plan[c][k].deps \subseteq Steps(c)
    <3>1. Len(plan[c]) \in Nat
      BY DEF PlanInv, Shaped
    <3> QED BY <1>2, <3>1 DEF WellFormed, Steps
  <2>2. ASSUME NEW k \in Pending(c)
        PROVE  \E d \in plan[c][k].deps : T[d] \in {"failed", "skipped"}
    <3>1. PICK d \in plan[c][k].deps : d \notin completed[c]
      BY DEF Ready, DependenciesMet
    <3>2. d \in Steps(c) /\ status[c][d] # "completed" /\ status[c][d] \in StepStatus
      BY <1>0, <1>2, <1>3, <2>1, <3>1 DEF Accounted, Good, Pending
    <3> QED BY <1>5, <3>2 DEF StepStatus
  <2>3. ASSUME NEW k \in Steps(c), status[c][k] = "skipped"
        PROVE  \E d \in plan[c][k].deps : T[d] \in {"failed", "skipped"}
    BY <1>1, <1>2, <1>5, <2>1, <2>3 DEF Justified
  <2> QED BY <1>1, <1>2, <1>5, <1>6, <2>2, <2>3 DEF Justified, Pending
<1>9. Rounds(c)'
  <2>1. Retrievals(c, Pending(c))' = {}
    BY <1>6 DEF Retrievals
  <2> QED BY <1>1, <1>2, <1>3, <1>5, <1>6, <2>1 DEF Rounds
<1>10. Ordered(c)'
  <2>1. Retrievals(c, Good(c) \ batch[c])' = Retrievals(c, Good(c) \ batch[c])
        /\ Retrievals(c, Steps(c))' = Retrievals(c, Steps(c))
    BY <1>1, <1>6 DEF Retrievals
  <2>2. \A k \in Retrievals(c, Steps(c)) : k \in Steps(c)
    BY DEF Retrievals
  <2> QED BY <1>1, <1>2, <1>5, <1>6, <2>1, <2>2 DEF Ordered
<1>11. ClientInv(c)'
  BY <1>7, <1>8, <1>9, <1>10 DEF ClientInv
<1>12. /\ status' = [status EXCEPT ![c] = status'[c]]
       /\ completed' = [completed EXCEPT ![c] = completed'[c]]
       /\ evidence' = [evidence EXCEPT ![c] = evidence'[c]]
       /\ round' = [round EXCEPT ![c] = round'[c]] /\ batch' = [batch EXCEPT ![c] = batch'[c]]
       /\ round[c] \subseteq Nat /\ batch[c] \subseteq Nat
  BY <1>1, <1>2 DEF PlanInv, Shaped
<1> QED BY <1>1, <1>2, <1>4, <1>11, <1>12, RunStep

\* A thread of the pool takes or ends a retrieval: only a status changes, of a
\* step in the batch.
LEMMA PoolStep ==
    ASSUME PlanInv, NEW c \in Clients, PoolThread(c)
    PROVE  PlanInv'
<1>1. /\ WellFormed(c) /\ Rounds(c) /\ Accounted(c) /\ Justified(c) /\ Ordered(c) /\ Finished(c)
      /\ evidence[c] \in Seq(Nat) /\ completed[c] \subseteq Nat
      /\ status[c] \in Seq(StepStatus) /\ Steps(c) = 1..Len(status[c]) /\ Steps(c) \subseteq Nat
  BY DEF PlanInv, ClientInv, Shaped, Steps
<1>2. \E k \in batch[c], s \in {"running", "completed", "failed"} :
         status[c][k] \in {"pending", "running"} /\ status' = [status EXCEPT ![c][k] = s]
  <2>1. CASE TakeRetrieval(c)
    <3> DEFINE queued == {k \in batch[c] : status[c][k] = "pending"}
    <3>1. queued # {} /\ queued \subseteq batch[c] /\ batch[c] \subseteq Nat
      BY <1>1, <2>1 DEF TakeRetrieval, Rounds
    <3>2. status' = [status EXCEPT ![c][First(queued)] = "running"]
      BY <2>1 DEF TakeRetrieval
    <3>3. \A k \in queued : status[c][k] = "pending"
      OBVIOUS
    <3> HIDE DEF queued
    <3>4. First(queued) \in queued
      BY <3>1, FirstIs
    <3> QED BY <3>1, <3>2, <3>3, <3>4
  <2>2. ASSUME NEW k \in Steps(c), FinishRetrieval(c, k)
        PROVE  \E s \in {"completed", "failed"} : status' = [status EXCEPT ![c][k] = s]
    BY <2>2 DEF FinishRetrieval
  <2>3. ASSUME NEW k \in Steps(c), FinishRetrieval(c, k) PROVE k \in batch[c] /\ status[c][k] = "running"
    BY <2>3 DEF FinishRetrieval
  <2> QED BY <2>1, <2>2, <2>3 DEF PoolThread
<1>3. PICK k \in batch[c], s \in {"running", "completed", "failed"} :
         status[c][k] \in {"pending", "running"} /\ status' = [status EXCEPT ![c][k] = s]
  BY <1>2
<1>4. UNCHANGED <<plannerVars, phase, query, plan, completed, evidence, round, batch>>
  BY DEF PoolThread, TakeRetrieval, FinishRetrieval
<1>5. /\ k \in Steps(c) /\ batch[c] # {} /\ round[c] # {}
      /\ phase[c] = "run" /\ Strategy(query[c]) = "parallel"
  BY <1>1 DEF Rounds
<1>6. status'[c] = [status[c] EXCEPT ![k] = s]
  BY <1>3 DEF PlanInv, Shaped
<1>7. status'[c] \in Seq(StepStatus) /\ Len(status'[c]) = Len(status[c])
  BY <1>1, <1>5, <1>6 DEF StepStatus
<1>8. status'[c][k] = s /\ \A j \in Steps(c) \ {k} : status'[c][j] = status[c][j]
  BY <1>1, <1>5, <1>6
<1>9. /\ Steps(c)' = Steps(c) /\ Pending(c)' \subseteq Pending(c)
      /\ Good(c)' \ batch'[c] = Good(c) \ batch[c]
  BY <1>4, <1>8 DEF Steps, Pending, Good
<1>10. WellFormed(c)' /\ Waiting(c)' /\ Finished(c)' /\ Accounted(c)'
  BY <1>1, <1>4, <1>5, <1>9 DEF WellFormed, Waiting, Finished, Accounted
<1>11. Rounds(c)'
  <2>1. Retrievals(c, Pending(c))' \subseteq Retrievals(c, Pending(c))
        /\ Retrievals(c, Steps(c))' = Retrievals(c, Steps(c))
    BY <1>4, <1>9 DEF Retrievals
  <2>2. \A j \in round[c] \ batch[c] : j \in Steps(c) /\ status'[c][j] = "pending"
    BY <1>1, <1>8 DEF Rounds
  <2>3. \A j \in Steps(c) : status'[c][j] = "running" => j \in batch[c]
    BY <1>1, <1>8 DEF Rounds
  <2>4. \A j \in batch[c] : plan[c][j].type = "retrieve" /\ status'[c][j] # "skipped"
    BY <1>1, <1>8 DEF Rounds
  <2> QED BY <1>1, <1>4, <1>5, <1>9, <2>1, <2>2, <2>3, <2>4 DEF Rounds
<1>12. Justified(c)'
  <2>1. plan[c][k].deps \subseteq completed[c] /\ plan[c][k].deps = {}
    BY <1>1, <1>5 DEF Rounds, WellFormed
  <2>2. status[c][k] \in {"pending", "running"}
    BY <1>3
  <2>3. \A j \in Steps(c) : plan[c][j].deps \subseteq Steps(c)
    <3>1. Len(plan[c]) \in Nat
      BY DEF PlanInv, Shaped
    <3> QED BY <1>1, <3>1 DEF WellFormed, Steps
  <2>4. ASSUME NEW j \in Steps(c), status'[c][j] = "skipped"
        PROVE  \E d \in plan[c][j].deps : status'[c][d] \in {"failed", "skipped"}
    <3>1. status[c][j] = "skipped"
      BY <1>8, <2>4
    <3>2. PICK d \in plan[c][j].deps : status[c][d] \in {"failed", "skipped"}
      BY <1>1, <1>5, <3>1 DEF Justified
    <3>3. d \in Steps(c) /\ d \notin completed[c]
      BY <1>1, <2>3, <3>2 DEF Accounted, Good
    <3> QED BY <1>8, <2>2, <3>2, <3>3
  <2> QED BY <1>1, <1>4, <1>5, <1>8, <1>9, <2>1, <2>4 DEF Justified
<1>13. Ordered(c)'
  <2>1. Retrievals(c, Good(c) \ batch[c])' = Retrievals(c, Good(c) \ batch[c])
    BY <1>4, <1>9 DEF Retrievals
  <2> QED BY <1>1, <1>4, <1>5, <2>1 DEF Ordered
<1>14. ClientInv(c)'
  BY <1>10, <1>11, <1>12, <1>13 DEF ClientInv
<1>15. /\ status' = [status EXCEPT ![c] = status'[c]]
       /\ completed' = [completed EXCEPT ![c] = completed'[c]]
       /\ evidence' = [evidence EXCEPT ![c] = evidence'[c]]
       /\ round' = [round EXCEPT ![c] = round'[c]] /\ batch' = [batch EXCEPT ![c] = batch'[c]]
       /\ round[c] \subseteq Nat /\ batch[c] \subseteq Nat
  BY <1>3, <1>4, <1>6 DEF PlanInv, Shaped
<1> QED BY <1>1, <1>4, <1>7, <1>14, <1>15, RunStep

\* The merge: the evidence was empty, and is now that of the whole batch.
LEMMA MergeStep ==
    ASSUME PlanInv, NEW c \in Clients, MergeBatch(c)
    PROVE  PlanInv'
<1> DEFINE good == {k \in batch[c] : status[c][k] = "completed"}
<1>1. /\ WellFormed(c) /\ Rounds(c) /\ Accounted(c) /\ Justified(c) /\ Ordered(c) /\ Finished(c)
      /\ evidence[c] \in Seq(Nat) /\ completed[c] \subseteq Nat /\ round[c] \subseteq Nat
      /\ Steps(c) = 1..Len(plan[c]) /\ Len(plan[c]) \in Nat /\ Steps(c) \subseteq Nat
  BY DEF PlanInv, ClientInv, Shaped, Steps
<1>2. PICK s \in InPlanOrder(good) : evidence' = [evidence EXCEPT ![c] = @ \o s]
  BY DEF MergeBatch
<1>3. /\ batch[c] # {} /\ \A k \in batch[c] : status[c][k] \in {"completed", "failed"}
      /\ completed' = [completed EXCEPT ![c] = @ \cup {plan[c][k].id : k \in good}]
      /\ round' = [round EXCEPT ![c] = @ \ batch[c]] /\ batch' = [batch EXCEPT ![c] = {}]
      /\ UNCHANGED <<plannerVars, phase, query, plan, status>>
  BY DEF MergeBatch
<1>4. good \subseteq Steps(c) /\ good \subseteq batch[c] /\ good \subseteq Good(c)
  BY <1>1 DEF Rounds, Good
<1>5. s \in Seq(Nat) /\ Lists(s, good)
  <2> HIDE DEF good
  <2>1. IsFiniteSet(good)
    <3>1. Len(plan[c]) \in Nat
      BY <1>1
    <3>2. IsFiniteSet(1..Len(plan[c]))
      BY <3>1, UpToFinite
    <3> QED BY <1>1, <1>4, <3>2, FS_Subset
  <2>2. Cardinality(good) \in Nat
    BY <2>1, FS_CardinalityType
  <2>3. s \in [1..Cardinality(good) -> Nat] /\ Lists(s, good)
    BY <1>1, <1>4 DEF InPlanOrder
  <2> QED BY <2>2, <2>3, ListOf
<1>6. /\ evidence[c] = <<>> /\ Retrievals(c, Steps(c)) \subseteq batch[c]
      /\ round[c] # {} /\ phase[c] = "run" /\ Strategy(query[c]) = "parallel"
  BY <1>1, <1>3 DEF Rounds
<1>7. evidence'[c] = s
  BY <1>2, <1>5, <1>6 DEF PlanInv, Shaped
<1>8. completed'[c] = completed[c] \cup good
  <2>1. {plan[c][k].id : k \in good} = good
    BY <1>1, <1>4 DEF WellFormed
  <2> QED BY <1>3, <2>1 DEF PlanInv, Shaped
<1>9. /\ Steps(c)' = Steps(c) /\ Pending(c)' = Pending(c) /\ Good(c)' = Good(c)
      /\ batch'[c] = {} /\ round'[c] = round[c] \ batch[c]
  BY <1>3 DEF Steps, Pending, Good, PlanInv, Shaped
<1>10. WellFormed(c)' /\ Waiting(c)' /\ Finished(c)'
  BY <1>1, <1>3, <1>6, <1>9 DEF WellFormed, Waiting, Finished
<1>11. Accounted(c)'
  BY <1>1, <1>4, <1>8, <1>9 DEF Accounted, Good
<1>12. Justified(c)'
  BY <1>1, <1>3, <1>8, <1>9 DEF Justified
<1>13. Retrievals(c, Pending(c)) = {}
  BY <1>3, <1>6 DEF Retrievals, Pending
<1>14. Rounds(c)'
  <2>1. Retrievals(c, Pending(c))' = {}
    BY <1>3, <1>9, <1>13 DEF Retrievals
  <2>2. \A k \in Steps(c) : status[c][k] # "running"
    BY <1>1, <1>3 DEF Rounds
  <2>3. /\ round'[c] \subseteq Steps(c) /\ \A k \in round'[c] : status[c][k] = "pending"
        /\ \A k \in round'[c] : plan[c][k].deps \subseteq completed'[c]
    BY <1>1, <1>8, <1>9 DEF Rounds
  <2> QED BY <1>3, <1>6, <1>9, <2>1, <2>2, <2>3 DEF Rounds
<1>15. Ordered(c)'
  <2>1. Retrievals(c, Good(c) \ batch[c])' = good
    BY <1>1, <1>3, <1>4, <1>6, <1>9 DEF Retrievals, Rounds, Good
  <2>2. \A k \in Retrievals(c, Steps(c))' : status'[c][k] # "pending"
    BY <1>3, <1>6, <1>9 DEF Retrievals
  <2>3. Lists(evidence[c], Retrievals(c, Good(c) \ batch[c]))'
    BY <1>5, <1>7, <2>1
  <2> QED BY <1>3, <1>6, <2>2, <2>3 DEF Ordered
<1>16. ClientInv(c)'
  BY <1>10, <1>11, <1>12, <1>14, <1>15 DEF ClientInv
<1>17. /\ status' = [status EXCEPT ![c] = status'[c]] /\ status'[c] \in Seq(StepStatus)
       /\ Len(status'[c]) = Len(status[c])
       /\ completed' = [completed EXCEPT ![c] = completed'[c]]
       /\ evidence' = [evidence EXCEPT ![c] = evidence'[c]]
       /\ round' = [round EXCEPT ![c] = round'[c]] /\ batch' = [batch EXCEPT ![c] = batch'[c]]
  BY <1>2, <1>3, <1>7 DEF PlanInv, Shaped
<1>18. /\ evidence'[c] \in Seq(Nat) /\ completed'[c] \subseteq Nat
       /\ round'[c] \subseteq Nat /\ batch'[c] \subseteq Nat
  BY <1>1, <1>4, <1>5, <1>7, <1>8, <1>9
<1> QED BY <1>3, <1>16, <1>17, <1>18, RunStep

\* The handler returns when no step is left.
LEMMA ReturnStep ==
    ASSUME PlanInv, NEW c \in Clients, Return(c)
    PROVE  PlanInv'
<1>1. /\ phase[c] = "run" /\ Pending(c) = {} /\ round[c] = {}
      /\ phase' = [phase EXCEPT ![c] = "done"]
      /\ UNCHANGED <<plannerVars, query, plan, runVars>>
  BY DEF Return
<1>2. Shaped'
  BY <1>1 DEF PlanInv, Shaped
<1>3. Planning'
  BY <1>1 DEF PlanInv, Planning, Shaped
<1>4. Steps(c)' = Steps(c) /\ Pending(c)' = Pending(c) /\ Good(c)' = Good(c)
  BY <1>1 DEF Steps, Pending, Good
<1>5. ClientInv(c)'
  <2>1. WellFormed(c)' /\ Waiting(c)' /\ Accounted(c)' /\ Finished(c)'
    BY <1>1, <1>4 DEF PlanInv, Shaped, ClientInv, WellFormed, Waiting, Accounted, Finished
  <2>2. Rounds(c)'
    BY <1>1, <1>4 DEF PlanInv, ClientInv, Rounds, Retrievals
  <2>3. Justified(c)' /\ Ordered(c)'
    BY <1>1, <1>4 DEF PlanInv, ClientInv, Justified, Ordered, Retrievals, Lists
  <2> QED BY <2>1, <2>2, <2>3 DEF ClientInv
<1>6. ASSUME NEW b \in Clients \ {c} PROVE ClientInv(b)'
  BY <1>1, ClientFrame DEF PlanInv, Shaped
<1> QED BY <1>2, <1>3, <1>5, <1>6 DEF PlanInv

-----------------------------------------------------------------------------
\* Before the first request nothing is planned.
LEMMA InitPlan == PlanInit => PlanInv
<1> SUFFICES ASSUME PlanInit PROVE PlanInv
  OBVIOUS
<1> USE DEF PlanInit
<1>1. Shaped /\ Planning
  BY ClientAssumption DEF Shaped, Planning
<1>2. ASSUME NEW c \in Clients PROVE ClientInv(c)
  <2>1. Steps(c) = {} /\ Pending(c) = {} /\ Good(c) = {}
    BY DEF Steps, Pending, Good
  <2>2. Retrievals(c, Pending(c)) = {} /\ Retrievals(c, Steps(c)) = {}
        /\ Retrievals(c, Good(c) \ batch[c]) = {}
    BY <2>1 DEF Retrievals
  <2>3. Lists(evidence[c], {})
    BY DEF Lists
  <2> QED BY <2>1, <2>2, <2>3 DEF ClientInv, WellFormed, Waiting, Rounds, Accounted, Justified,
          Ordered, Finished
<1> QED BY <1>1, <1>2 DEF PlanInv

\* Every step keeps the invariant.
LEMMA StepPlan ==
    ASSUME PlanInv, [PlanNext]_planVars
    PROVE  PlanInv'
<1>1. ASSUME NEW c \in Clients, PlanBegin(c) \/ Serve(c) \/ PoolThread(c) PROVE PlanInv'
  <2>1. CASE RoundBegin(c)
    BY <2>1, RoundBegins, RestSkipped
  <2>2. CASE PlanBegin(c) \/ PlanStep(c) \/ PlanEnd(c) \/ Return(c)
    BY <2>2, BeginStep, PlanStepStep, EndStep, ReturnStep
  <2>3. CASE RagStep(c) \/ SequentialStep(c) \/ ToolStep(c)
    BY <2>3, OrderStep
  <2>4. CASE MergeBatch(c) \/ RoundStep(c) \/ PoolThread(c)
    BY <2>4, MergeStep, RoundStepStep, PoolStep
  <2> QED BY <1>1, <2>1, <2>2, <2>3, <2>4 DEF Serve
<1>2. CASE UNCHANGED planVars
  <2>1. Shaped' /\ Planning'
    BY <1>2 DEF planVars, PlanInv, Shaped, Planning
  <2>2. ASSUME NEW b \in Clients PROVE ClientInv(b)'
    BY <1>2, ClientFrame DEF planVars, PlanInv
  <2> QED BY <2>1, <2>2 DEF PlanInv
<1> QED BY <1>1, <1>2 DEF PlanNext

\* What the invariant says of a step's status.
LEMMA StatusTyped ==
    ASSUME PlanInv, NEW c \in Clients, NEW k \in Steps(c)
    PROVE  status[c][k] \in StepStatus
BY DEF PlanInv, Shaped, Steps

\* Types: every step has a status, a batch is part of its round, and the counter
\* and the lock stay what they are for any interleaving of requests.
THEOREM PlanTypeCorrect == PlanSpec => []PlanTypeOK
<1>1. PlanInv => PlanTypeOK
  BY StatusTyped DEF PlanInv, Shaped, ClientInv, Rounds, PlanTypeOK, StepStatus
<1> QED BY <1>1, InitPlan, StepPlan, PTL DEF PlanSpec

\* The plan of every request has its own ids in order and depends on earlier
\* steps only: the lock gives the counter to one request from reset to last step.
THEOREM PlansWellFormed == PlanSpec => []PlanWellFormed
<1>1. PlanInv => PlanWellFormed
  BY DEF PlanInv, ClientInv, WellFormed, PlanWellFormed
<1> QED BY <1>1, InitPlan, StepPlan, PTL DEF PlanSpec

\* The evidence is that of the successful retrievals in plan order, for any number
\* of companies and whatever the order in which the pool's threads finish.
THEOREM EvidenceOrdered == PlanSpec => []EvidenceInPlanOrder
<1>1. PlanInv => EvidenceInPlanOrder
  <2> SUFFICES ASSUME PlanInv, NEW c \in Clients, phase[c] = "done"
               PROVE  Lists(evidence[c], Retrievals(c, Good(c)))
    BY DEF EvidenceInPlanOrder
  <2>1. batch[c] = {} /\ Good(c) \ batch[c] = Good(c)
    BY DEF PlanInv, ClientInv, Rounds
  <2> QED BY <2>1 DEF PlanInv, ClientInv, Ordered
<1> QED BY <1>1, InitPlan, StepPlan, PTL DEF PlanSpec

\* A step is skipped exactly when something it depends on did not complete, also
\* when several steps are given up at once.
THEOREM SkipsTruthful == PlanSpec => []SkippedTruthfully
<1>1. PlanInv => SkippedTruthfully
  <2> SUFFICES ASSUME PlanInv, NEW c \in Clients, phase[c] = "done",
                      Strategy(query[c]) \in {"rag", "multi_step", "parallel"},
                      NEW k \in Steps(c)
               PROVE  status[c][k] = "skipped" <=> ~(plan[c][k].deps \subseteq Good(c))
    BY DEF SkippedTruthfully
  <2>1. batch[c] = {} /\ completed[c] = Good(c) /\ status[c][k] \notin {"pending", "running"}
    <3>1. batch[c] = {} /\ status[c][k] # "running"
      BY DEF PlanInv, ClientInv, Rounds
    <3>2. completed[c] = Good(c)
      BY <3>1 DEF PlanInv, ClientInv, Accounted
    <3>3. status[c][k] # "pending"
      BY DEF PlanInv, ClientInv, Finished, Pending
    <3> QED BY <3>1, <3>2, <3>3
  <2>2. status[c][k] \in StepStatus
    BY StatusTyped
  <2>3. \A d \in Good(c) : status[c][d] = "completed"
    BY DEF Good
  <2> QED BY <2>1, <2>2, <2>3 DEF PlanInv, ClientInv, Justified, StepStatus
<1> QED BY <1>1, InitPlan, StepPlan, PTL DEF PlanSpec

-----------------------------------------------------------------------------
USE DEF callerVars, healthVars, limiterVars, jobVars, breakerVars, GoTo

-----------------------------------------------------------------------------
(* The reliability pipeline: its inductive invariant.                      *)

\* The executor's queue holds calls that were admitted and not started, once each.
Queued ==
    /\ queue \in Seq(Calls)
    /\ \A k \in 1..Len(queue) : job[queue[k]] = "queued"
    /\ \A j, k \in 1..Len(queue) : queue[j] = queue[k] => j = k

\* A call is submitted once: until then there is no job.
Submitted ==
    \A c \in Calls : place[c] \in {"idle", "check", "limit", "count", "admit"} =>
        job[c] = "none"

\* The executor has one thread.
OneThread == \A c, d \in Running : c = d

\* The loop sleeps only before an attempt that is left.
Retrying == \A c \in Calls : job[c] = "backoff" => attempt[c] < MaxRetries

\* "ok" is the success of the job, and before it there is no output and no fallback.
Outcome ==
    \A c \in Calls :
        /\ place[c] = "ok" => job[c] = "success"
        /\ job[c] # "success" => c \notin output /\ c \notin degraded
        /\ ~(c \in output /\ c \in degraded)
        /\ job[c] = "success" =>
              (fallback # "disabled" <=> c \in output \/ c \in degraded)
        /\ c \in degraded => fallback \in {"value", "function"}
        /\ job[c] = "calling" => fallback # "disabled"

RelInv == RelTypeOK /\ Queued /\ Submitted /\ OneThread /\ Retrying /\ Outcome

-----------------------------------------------------------------------------
\* The initial state: nobody called, the breaker closed.
LEMMA InitRel == RelInit => RelInv
<1> SUFFICES ASSUME RelInit PROVE RelInv
  OBVIOUS
<1>1. fallback \in FallbackModes
  BY ReliabilityAssumption DEF RelInit
<1>2. RelTypeOK
  BY <1>1, ReliabilityAssumption DEF RelInit, RelTypeOK
<1> QED BY <1>2 DEF RelInv, RelInit, Queued, Submitted, OneThread, Running, Retrying, Outcome

\* The caller's own steps before its job is submitted, and after its end.
LEMMA CallerStep ==
    ASSUME RelInv, NEW c \in Calls,
           HealthCached(c) \/ HealthDue(c) \/ HealthAnswer(c) \/ LimitRead(c)
              \/ LimitCount(c) \/ Result(c) \/ Timeout(c)
    PROVE  RelInv'
<1> USE DEF RelInv
<1>1. UNCHANGED <<jobVars, breakerVars, fallback>>
  BY DEF HealthCached, HealthDue, HealthAnswer, LimitRead, LimitCount, Result, Timeout
<1>2. RelTypeOK'
  BY ReliabilityAssumption DEF RelTypeOK, HealthCached, HealthDue, HealthAnswer,
     LimitRead, LimitCount, Result, Timeout
<1>3. Queued' /\ OneThread' /\ Retrying'
  BY <1>1 DEF Queued, OneThread, Running, Retrying
<1>4. Submitted' /\ Outcome'
  BY <1>1 DEF RelTypeOK, Submitted, Outcome, HealthCached, HealthDue, HealthAnswer,
     LimitRead, LimitCount, Result, Timeout
<1> QED BY <1>2, <1>3, <1>4

\* The submission: the call is last in the queue, and was not in it.
LEMMA AdmitStep ==
    ASSUME RelInv, NEW c \in Calls, Admit(c)
    PROVE  RelInv'
<1> USE DEF RelInv, Admit, RelTypeOK
<1>1. job[c] = "none"
  BY DEF Submitted
<1>2. queue' \in Seq(Calls) /\ Len(queue') = Len(queue) + 1
  BY DEF Queued
<1>3. \A k \in 1..Len(queue) : queue'[k] = queue[k] /\ queue[k] # c
  BY SMTT(30), <1>1 DEF Queued
<1>4. queue'[Len(queue) + 1] = c
  BY DEF Queued
<1>5. \A k \in 1..Len(queue') : k \in 1..Len(queue) \/ k = Len(queue) + 1
  BY <1>2 DEF Queued
<1>6. Queued'
  <2>1. \A k \in 1..Len(queue') : job'[queue'[k]] = "queued"
    BY <1>2, <1>3, <1>4, <1>5 DEF Queued
  <2>2. ASSUME NEW j \in 1..Len(queue'), NEW k \in 1..Len(queue'), queue'[j] = queue'[k]
        PROVE  j = k
    <3>1. CASE j \in 1..Len(queue) /\ k \in 1..Len(queue)
      BY <1>3, <2>2, <3>1 DEF Queued
    <3>2. CASE j \in 1..Len(queue) /\ k = Len(queue) + 1
      BY <1>3, <1>4, <2>2, <3>2
    <3>3. CASE j = Len(queue) + 1 /\ k \in 1..Len(queue)
      BY <1>3, <1>4, <2>2, <3>3
    <3> QED BY <1>5, <3>1, <3>2, <3>3
  <2> QED BY <1>2, <2>1, <2>2 DEF Queued
<1>7. \A k \in DOMAIN queue' : queue'[k] \in Calls
  BY <1>2
<1>8. RelTypeOK'
  BY <1>7, ReliabilityAssumption
<1>9. Submitted' /\ Retrying' /\ Outcome'
  BY <1>1 DEF Submitted, Retrying, Outcome
<1>10. Running' = Running
  BY <1>1 DEF Running
<1> QED BY <1>6, <1>8, <1>9, <1>10 DEF OneThread

\* The thread takes the head of the queue when it is free.
LEMMA StartStep ==
    ASSUME RelInv, NEW c \in Calls, JobStart(c)
    PROVE  RelInv'
<1> USE DEF RelInv, JobStart, RelTypeOK
<1>1. queue' \in Seq(Calls) /\ Len(queue') = Len(queue) - 1 /\ c = queue[1]
  BY DEF Queued
<1>2. \A k \in 1..Len(queue') : queue'[k] = queue[k + 1] /\ k + 1 \in 1..Len(queue)
  BY <1>1 DEF Queued
<1>3. job[c] = "queued" /\ \A k \in 1..Len(queue') : queue'[k] # c
  BY <1>1, <1>2 DEF Queued
<1>4. Queued'
  <2>1. ASSUME NEW k \in 1..Len(queue')
        PROVE  queue[k + 1] \in Calls /\ job[queue[k + 1]] = "queued"
    <3>1. k + 1 \in 1..Len(queue)
      BY <1>2
    <3> HIDE DEF JobStart, RelTypeOK
    <3>2. \A n \in 1..Len(queue) : queue[n] \in Calls /\ job[queue[n]] = "queued"
      BY DEF Queued
    <3> QED BY <3>1, <3>2
  <2>2. ASSUME NEW k \in 1..Len(queue') PROVE job'[queue'[k]] = "queued"
    <3>1. queue'[k] \in Calls \ {c} /\ job[queue'[k]] = "queued"
      BY <1>2, <1>3, <2>1
    <3> QED BY <3>1
  <2>3. ASSUME NEW j \in 1..Len(queue'), NEW k \in 1..Len(queue'), queue'[j] = queue'[k]
        PROVE  j = k
    <3>1. j + 1 = k + 1
      BY <1>2, <2>3 DEF Queued
    <3> QED BY <3>1
  <2> QED BY <1>1, <2>2, <2>3 DEF Queued
<1>5. \A k \in DOMAIN queue' : queue'[k] \in Calls
  <2> HIDE DEF JobStart
  <2> QED BY <1>1
<1>6. RelTypeOK'
  BY <1>5
<1>7. Submitted' /\ Retrying' /\ Outcome'
  BY <1>3 DEF Submitted, Retrying, Outcome
<1>8. Running' = {c}
  BY DEF Running
<1> QED BY <1>4, <1>6, <1>7, <1>8 DEF OneThread

\* The thread works for the call it took, until that succeeds or fails.
LEMMA ThreadStep ==
    ASSUME RelInv, NEW c \in Calls,
           BackoffEnds(c) \/ Rejected(c) \/ Admitted(c) \/ Bypassed(c) \/ Provider(c)
    PROVE  RelInv'
<1> USE DEF RelInv
<1>1. c \in Running
  BY DEF Running, BackoffEnds, Rejected, Admitted, Bypassed, Provider, Answers, Raises
<1>2. RelTypeOK'
  BY ReliabilityAssumption DEF RelTypeOK, Retrying, BackoffEnds, Rejected, Admitted, Bypassed,
     Provider, Answers, Raises, AttemptSucceeds, AttemptRaises, AttemptFails, OnSuccess, OnFailure
<1>3. /\ UNCHANGED <<callerVars, healthVars, limiterVars, queue, fallback>>
      /\ job' = [job EXCEPT ![c] = job'[c]] /\ job'[c] # "queued"
      /\ attempt' = [attempt EXCEPT ![c] = attempt'[c]]
      /\ job'[c] = "backoff" => attempt'[c] < MaxRetries
  BY DEF RelTypeOK, Retrying, BackoffEnds, Rejected, Admitted, Bypassed,
     Provider, Answers, Raises, AttemptSucceeds, AttemptRaises, AttemptFails, OnSuccess, OnFailure
<1>4. Running' \subseteq Running
  BY <1>1, <1>3 DEF RelTypeOK, Running
<1>5. Queued'
  BY SMTT(30), <1>1, <1>3 DEF RelTypeOK, Queued, Running
<1>6. Submitted' /\ Retrying'
  BY <1>1, <1>3 DEF RelTypeOK, Submitted, Running, Retrying
<1>7. /\ \A d \in Calls \ {c} : (d \in output' <=> d \in output) /\ (d \in degraded' <=> d \in degraded)
      /\ job'[c] # "success" => UNCHANGED <<output, degraded>>
      /\ job'[c] = "calling" => fallback # "disabled"
      /\ job'[c] = "success" =>
            \/ fallback = "disabled" /\ UNCHANGED <<output, degraded>>
            \/ fallback # "disabled" /\ output' = output \cup {c} /\ UNCHANGED degraded
            \/ /\ fallback \in {"value", "function"}
               /\ degraded' = degraded \cup {c} /\ UNCHANGED output
  <2>1. CASE BackoffEnds(c) \/ Rejected(c)
    BY <2>1 DEF RelTypeOK, BackoffEnds, Rejected, AttemptFails
  <2>2. CASE Admitted(c)
    BY <2>2 DEF RelTypeOK, Admitted
  <2>3. CASE Bypassed(c)
    BY <2>3 DEF RelTypeOK, Bypassed, AttemptSucceeds
  <2>4. CASE Answers(c)
    BY <2>4 DEF RelTypeOK, Outcome, Answers, AttemptSucceeds
  <2>5. CASE Raises(c)
    BY <2>5 DEF RelTypeOK, Raises, AttemptSucceeds, AttemptRaises, AttemptFails
  <2> QED BY <2>1, <2>2, <2>3, <2>4, <2>5 DEF Provider
<1>8. job[c] # "success"
  BY <1>1 DEF Running
<1>9. \A d \in Calls \ {c} : job'[d] = job[d]
  BY <1>3 DEF RelTypeOK
<1>10. place[c] # "ok" /\ UNCHANGED <<place, fallback>>
  BY <1>3, <1>8 DEF Outcome, callerVars
<1>11. Outcome'
  BY <1>7, <1>8, <1>9, <1>10 DEF Outcome
<1> QED BY <1>2, <1>4, <1>5, <1>6, <1>11 DEF OneThread

\* Time changes ages only, and lets no caller oversleep.
LEMMA TickStep ==
    ASSUME RelInv, TimePasses
    PROVE  RelInv'
<1> USE DEF RelInv, TimePasses
<1>1. RelTypeOK'
  BY ReliabilityAssumption DEF RelTypeOK, Older
<1> QED BY <1>1 DEF Queued, Submitted, OneThread, Running, Retrying, Outcome

\* Every step keeps the invariant.
LEMMA StepRel ==
    ASSUME RelInv, [RelNext]_relVars
    PROVE  RelInv'
<1>1. ASSUME NEW c \in Calls, Begin(c) \/ Caller(c) \/ Executor(c) \/ Provider(c)
      PROVE  RelInv'
  BY <1>1, CallerStep, AdmitStep, StartStep, ThreadStep DEF Begin, Caller, Executor
<1>2. CASE UNCHANGED relVars
  BY <1>2 DEF relVars, RelInv, RelTypeOK, Queued, Submitted, OneThread, Running, Retrying,
     Outcome
<1> QED BY <1>1, <1>2, TickStep DEF RelNext

-----------------------------------------------------------------------------
\* Every variable keeps its type: no caller waits beyond its deadline and the
\* retry loop makes max_retries + 1 attempts at most, jobs left behind included.
THEOREM RelTypeCorrect == RelSpec => []RelTypeOK
<1>1. RelInv => RelTypeOK
  BY DEF RelInv
<1> QED BY <1>1, InitRel, StepRel, PTL DEF RelSpec

\* The half-open breaker sends one probe: the breaker itself counts nothing and
\* has no lock, it is the executor's single thread that keeps a second out.
THEOREM ProbesAlone == RelSpec => []OneProbe
<1>1. RelInv => OneProbe
  <2> SUFFICES ASSUME RelInv PROVE OneProbe
    OBVIOUS
  <2> DEFINE Probes == {c \in Calls : job[c] = "calling"}
  <2>1. \A c, d \in Probes : c = d
    BY DEF RelInv, OneThread, Running
  <2>2. CASE Probes = {}
    BY <2>2, FS_EmptySet DEF OneProbe
  <2>3. ASSUME NEW c \in Probes PROVE Cardinality(Probes) = 1
    <3>1. Probes = {c}
      BY <2>1, <2>3
    <3> HIDE DEF Probes
    <3> QED BY <3>1, FS_Singleton
  <2> QED BY <2>2, <2>3 DEF OneProbe
<1> QED BY <1>1, InitRel, StepRel, PTL DEF RelSpec

\* Under every fallback policy a reported success stands for what that policy lets
\* it stand for: the queue has a call once, so no late job is started for it again,
\* and until its success it has neither output nor fallback.
THEOREM SuccessEarned == RelSpec => []SuccessExplained
<1>1. RelInv => SuccessExplained
  BY DEF RelInv, RelTypeOK, FallbackModes, Outcome, SuccessExplained
<1> QED BY <1>1, InitRel, StepRel, PTL DEF RelSpec

-----------------------------------------------------------------------------
(* Plans and reliability side by side.                                     *)

\* A behaviour of the composition is one of each component, since a step of one
\* leaves the variables of the other alone.
LEMMA SideBySide == AgentSpec => PlanSpec /\ RelSpec
<1>1. AgentInit => PlanInit /\ RelInit
  BY DEF AgentInit
<1>2. [AgentNext]_agentVars => [PlanNext]_planVars /\ [RelNext]_relVars
  BY DEF AgentNext, agentVars
<1> QED BY <1>1, <1>2, PTL DEF AgentSpec, PlanSpec, RelSpec

\* AgentTypeOK: planner, strategy handlers, retrieval pool and reliability
\* mechanisms keep their types together, and with them everything the components
\* promise each on its own.
THEOREM AgentIsSafe ==
    AgentSpec => /\ []AgentTypeOK
                 /\ [](PlanWellFormed /\ EvidenceInPlanOrder /\ SkippedTruthfully)
                 /\ [](OneProbe /\ SuccessExplained)
<1>1. PlanTypeOK /\ RelTypeOK => AgentTypeOK
  BY DEF AgentTypeOK
<1> QED BY <1>1, SideBySide, PlanTypeCorrect, RelTypeCorrect, PlansWellFormed, EvidenceOrdered,
           SkipsTruthful, ProbesAlone, SuccessEarned, PTL
=============================================================================
