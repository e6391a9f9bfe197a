--------------------------- MODULE SessionProofs ---------------------------
(***************************************************************************)
(* Proofs about SessionRuntime, for any number of requests, questions,     *)
(* delete requests and faults, and any history limit.                      *)
(***************************************************************************)
EXTENDS SessionRuntime, SequenceTheorems, TLAPS

USE DEF storeVars, reqVars, delVars, Fault, FallbackResponse, MessageLost, Answered, Evict

-----------------------------------------------------------------------------
(* The inductive invariant.  Deletes and requests overlap as they like.    *)

Message == [role : {"user", "assistant"}, by : Requests]

Typed ==
    /\ TypeOK
    /\ messages \in Seq(Message)
    /\ hist \in [Requests -> Seq(Message)]

\* What was written was written by requests that had begun, and a question once
\* asked does not change.
Known ==
    /\ \A r \in Begun : asked[r] \in Questions
    /\ \A k \in DOMAIN messages : messages[k].by \in Begun
    /\ \A r \in Requests : \A k \in DOMAIN hist[r] : hist[r][k].by \in Begun
    /\ erased \subseteq Begun
    /\ ended \subseteq Over /\ \A d \in Deletes : before[d] \subseteq Over

\* An answer is cached under the key of the request that computed it, and is
\* given to requests with the same key.
Keyed ==
    /\ \A e \in cache : pc[e.by] = "done" /\ e.key = CacheKey(e.by)
    /\ \A r, a \in Requests : answer[r] = a =>
          pc[r] = "done" /\ pc[a] = "done" /\ CacheKey(a) = CacheKey(r)

Roles ==
    \A r \in Requests :
        /\ pc[r] \in {"idle", "cache", "graph"} => role[r] = "user"
        /\ pc[r] = "save" => role[r] = "assistant"

\* How much of a turn is in the transcript at which point of the request.
HasQuestion(r) == \E j \in DOMAIN messages : messages[j] = [role |-> "user", by |-> r]
HasTurn(r) ==
    \E j, k \in DOMAIN messages :
        /\ j < k
        /\ messages[j] = [role |-> "user", by |-> r]
        /\ messages[k] = [role |-> "assistant", by |-> r]
Answering(r) == pc[r] \in {"find", "create", "add"} /\ role[r] = "assistant"
Turns ==
    \A r \in Requests : r \notin lost \cup erased =>
        /\ pc[r] = "graph" \/ Answering(r) => HasQuestion(r)
        /\ pc[r] = "save" \/ (pc[r] = "done" /\ answer[r] = r) => HasTurn(r)

\* Without a database error and without a delete, a session once made stays and
\* every request finds it when it stores its answer.
HasAnswer(r) == \E k \in DOMAIN messages : messages[k] = [role |-> "assistant", by |-> r]
Answers(r) ==
    /\ pc[r] = "add" => session = sid[r]
    /\ pc[r] = "create" => role[r] = "user"
    /\ pc[r] = "graph" \/ Answering(r) => session # 0
    /\ pc[r] = "save" \/ (pc[r] = "done" /\ answer[r] = r) => HasAnswer(r)
Unbroken ==
    /\ session # 0 => Begun # {}
    /\ faults = 0 /\ erased = {} => \A r \in Requests : Answers(r)

BaseInv == Typed /\ Known /\ Keyed /\ Roles /\ Turns /\ Unbroken

-----------------------------------------------------------------------------
(* What a delete leaves of the requests that were over when it began.      *)

\* A request is banned only from what was deleted before it began.
Forgotten ==
    \A r \in Requests :
        /\ banned[r].ended \subseteq ended /\ banned[r].evicted \subseteq evicted
        /\ r \notin banned[r].evicted

\* How far a delete is: new checkpoints and cached answers are those of requests
\* that were not over when it began.
Reached(d) ==
    /\ dpc[d] \in {"scan", "evict", "rows", "blind"} => graph \cap before[d] = {}
    /\ dpc[d] = "evict" => \A e \in cache : e.by \in before[d] => e \in found[d]
    /\ dpc[d] = "rows" => \A e \in cache : e.by \notin before[d]
Progress == DOMAIN found = Deletes /\ \A d \in Deletes : Reached(d)

SafeInv == BaseInv /\ Forgotten /\ Progress /\ NothingLeftBehind /\ NoRevival

-----------------------------------------------------------------------------
(* Types and histories.                                                    *)

\* The newest messages are messages of the session.
LEMMA RecentIs ==
    ASSUME NEW s \in Seq(Message)
    PROVE  /\ Recent(s) \in Seq(Message)
           /\ \A k \in DOMAIN Recent(s) : \E j \in DOMAIN s : Recent(s)[k] = s[j]
<1>1. CASE Len(s) <= HistoryLimit
  BY <1>1 DEF Recent
<1>2. CASE ~(Len(s) <= HistoryLimit)
  <2> DEFINE m == Len(s) - HistoryLimit + 1
             t == SubSeq(s, m, Len(s))
  <2>1. m \in 1..Len(s) /\ Len(s) \in Nat /\ Recent(s) = t
    BY <1>2, SessionAssumption DEF Recent
  <2>2. t \in Seq(Message) /\ Len(t) = Len(s) - m + 1
    BY <2>1
  <2>3. \A k \in 1..Len(t) : t[k] = s[m + k - 1] /\ m + k - 1 \in 1..Len(s)
    BY <2>1, <2>2
  <2>4. DOMAIN t = 1..Len(t) /\ DOMAIN s = 1..Len(s)
    BY <2>2
  <2> HIDE DEF t, m
  <2> QED BY <2>1, <2>2, <2>3, <2>4
<1> QED BY <1>1, <1>2

\* A new message is last, the others stay.
LEMMA Appended ==
    ASSUME NEW s \in Seq(Message), NEW m \in Message
    PROVE  /\ Append(s, m) \in Seq(Message)
           /\ \A j \in DOMAIN s : j \in DOMAIN Append(s, m) /\ Append(s, m)[j] = s[j]
                                  /\ j < Len(s) + 1
           /\ Len(s) + 1 \in DOMAIN Append(s, m) /\ Append(s, m)[Len(s) + 1] = m
           /\ \A k \in DOMAIN Append(s, m) : k \in DOMAIN s \/ k = Len(s) + 1
OBVIOUS

\* The elements of a sequence of messages.
LEMMA AreMessages ==
    ASSUME NEW s \in Seq(Message)
    PROVE  \A k \in DOMAIN s : s[k] \in [role : {"user", "assistant"}, by : Requests]
<1>1. \A k \in DOMAIN s : s[k] \in Message
  BY ElementOfSeq, LenProperties
<1> QED BY <1>1 DEF Message

\* The key of a request that has begun stays the same.
LEMMA KeyKept ==
    ASSUME Typed, Known, NEW x \in Begun, hist'[x] = hist[x],
           \A y \in Begun : asked'[y] = asked[y]
    PROVE  CacheKey(x)' = CacheKey(x)
<1>1. asked'[x] = asked[x]
  OBVIOUS
<1>2. \A k \in DOMAIN hist[x] : hist[x][k].by \in Begun
  BY DEF Known, Begun
<1> QED BY <1>1, <1>2 DEF CacheKey

\* Variables keep their types.
LEMMA StepTyped ==
    ASSUME Typed, Known, Next
    PROVE  Typed'
<1> USE NoneAssumption, SessionAssumption DEF Typed, TypeOK
<1>1. ASSUME NEW r \in Requests, NEW q \in Questions, Start(r, q) PROVE Typed'
  <2>1. Recent(messages) \in Seq(Message) /\ <<>> \in Seq(Message)
    BY RecentIs
  <2>2. hist' \in [Requests -> Seq(Message)]
    BY <1>1, <2>1 DEF Start
  <2>4. banned' \in [Requests -> [erased : SUBSET Requests, ended : SUBSET Requests,
                                  evicted : SUBSET Requests]]
    BY <1>1 DEF Start
  <2>5. faults' \in 0..MaxFaults
    BY <1>1 DEF Start
  <2>3. TypeOK'
    BY <1>1, <2>4, <2>5 DEF Start
  <2> QED BY <1>1, <2>2, <2>3 DEF Start
<1>2. ASSUME NEW r \in Requests, SettingsFail(r) PROVE Typed'
  BY <1>2 DEF SettingsFail
<1>3. ASSUME NEW r \in Requests, TryCache(r) PROVE Typed'
  <2>1. answer' \in [Requests -> Requests \cup {None}]
    <3>1. ASSUME NEW e \in GetSession(r), answer' = [answer EXCEPT ![r] = e.by]
          PROVE  answer' \in [Requests -> Requests \cup {None}]
      BY <3>1 DEF GetSession
    <3> QED BY <1>3, <3>1 DEF TryCache
  <2>4. faults' \in 0..MaxFaults
    BY <1>3 DEF TryCache
  <2>2. \E p \in {"find", "done"} : pc' = [pc EXCEPT ![r] = p]
    BY <1>3 DEF TryCache
  <2>3. UNCHANGED <<storeVars, asked, hist, sid, role, banned, lost, delVars>>
    BY <1>3 DEF TryCache
  <2> QED BY <2>1, <2>2, <2>3, <2>4
<1>4. ASSUME NEW r \in Requests, FindSession(r) PROVE Typed'
  <2>1. CASE MessageLost(r) /\ Fault
    BY <1>4, <2>1 DEF FindSession, Then
  <2>2. CASE UNCHANGED <<session, nextId, messages, lost, faults>>
    <3>1. sid' = [sid EXCEPT ![r] = session]
          /\ pc' = [pc EXCEPT ![r] = IF session = 0 THEN "create" ELSE "add"]
      BY <1>4, <2>2 DEF FindSession
    <3> QED BY <1>4, <2>2, <3>1 DEF FindSession
  <2> QED BY <1>4, <2>1, <2>2 DEF FindSession
<1>5. ASSUME NEW r \in Requests, CreateSession(r) PROVE Typed'
  <2>1. CASE session # 0 /\ MessageLost(r)
    BY <1>5, <2>1 DEF CreateSession, Then
  <2>2. CASE session = 0 /\ session' = nextId
    <3>1. session' \in 0..(nextId' - 1) /\ nextId' \in Nat \ {0}
      BY <1>5, <2>2 DEF CreateSession
    <3>2. sid' = [sid EXCEPT ![r] = nextId] /\ pc' = [pc EXCEPT ![r] = "add"]
      BY <1>5, <2>2 DEF CreateSession
    <3>3. UNCHANGED <<messages, lost, cache, graph, local, asked, hist, role, answer, banned,
                      delVars, faults>>
      BY <1>5, <2>2 DEF CreateSession
    <3> QED BY <3>1, <3>2, <3>3
  <2> QED BY <1>5, <2>1, <2>2 DEF CreateSession
<1>6. ASSUME NEW r \in Requests, AddMessage(r) PROVE Typed'
  <2>1. CASE session # sid[r] /\ MessageLost(r)
    BY <1>6, <2>1 DEF AddMessage, Then
  <2>2. CASE session = sid[r]
    <3>1. [role |-> role[r], by |-> r] \in Message
      BY DEF Message
    <3>2. messages' = Append(messages, [role |-> role[r], by |-> r])
      BY <1>6, <2>2 DEF AddMessage
    <3>3. messages' \in Seq(Message)
      BY <3>1, <3>2
    <3>4. \A k \in DOMAIN messages' : messages'[k] \in [role : {"user", "assistant"}, by : Requests]
      BY <3>3, AreMessages
    <3>5. Then(r) \in {"graph", "save"}
      BY DEF Then
    <3>6. pc' = [pc EXCEPT ![r] = Then(r)]
      BY <1>6, <2>2 DEF AddMessage
    <3>7. UNCHANGED <<session, nextId, sid, lost, cache, graph, local, asked, hist, role, answer,
                      banned, delVars, faults>>
      BY <1>6, <2>2 DEF AddMessage
    <3>8. pc' \in [Requests -> {"idle", "cache", "find", "create", "add", "graph", "save", "done"}]
          /\ \A x \in Requests : pc'[x] = "add" => pc[x] = "add"
      BY <3>5, <3>6
    <3> HIDE DEF Then
    <3> QED BY <3>3, <3>4, <3>7, <3>8
  <2> QED BY <1>6, <2>1, <2>2 DEF AddMessage
<1>7. ASSUME NEW r \in Requests, RunGraph(r) \/ GraphFails(r) PROVE Typed'
  <2>1. graph' \subseteq Requests /\ local' \subseteq Requests /\ faults' \in 0..MaxFaults
    BY <1>7 DEF RunGraph, GraphFails
  <2>2. role' \in [Requests -> {"user", "assistant"}]
    BY <1>7 DEF RunGraph, GraphFails
  <2>3. \E p \in {"find", "done"} : pc' = [pc EXCEPT ![r] = p]
    BY <1>7 DEF RunGraph, GraphFails
  <2>4. UNCHANGED <<session, nextId, messages, cache, asked, hist, sid, answer, banned, lost, delVars>>
    BY <1>7 DEF RunGraph, GraphFails
  <2> QED BY <2>1, <2>2, <2>3, <2>4
<1>8. ASSUME NEW r \in Requests, Save(r) PROVE Typed'
  <2>1. asked[r] \in Questions /\ CacheKey(r)[1] = asked[r]
    BY <1>8 DEF Save, Known, Begun, CacheKey
  <2>2. \A e \in cache' : e.by \in Requests /\ e.key[1] \in Questions
    <3>1. CASE cache' = SaveToCache(r)
      BY <2>1, <3>1 DEF SaveToCache
    <3>2. CASE UNCHANGED cache
      BY <3>2
    <3> QED BY <1>8, <3>1, <3>2 DEF Save
  <2>3. faults' \in 0..MaxFaults
    BY <1>8 DEF Save
  <2> QED BY <1>8, <2>2, <2>3 DEF Save
<1>9. ASSUME NEW d \in Deletes, Delete(d) PROVE Typed'
  <2>1. UNCHANGED <<nextId, local, reqVars>>
    BY <1>9 DEF Delete, DeleteStart, DeleteGraph, ScanCache, SkipCache, EvictCache, DeleteRows
  <2>2. \E p \in {"idle", "graph", "scan", "evict", "rows", "blind"} : dpc' = [dpc EXCEPT ![d] = p]
    BY <1>9 DEF Delete, DeleteStart, DeleteGraph, ScanCache, SkipCache, EvictCache, DeleteRows
  <2>3. graph' \in {graph, {}} /\ cache' \subseteq cache /\ faults' \in 0..MaxFaults
    BY <1>9 DEF Delete, DeleteStart, DeleteGraph, ScanCache, SkipCache, EvictCache, DeleteRows
  <2>4. /\ session' \in {session, 0} /\ messages' \in {messages, <<>>}
        /\ \/ UNCHANGED <<erased, ended, evicted>>
           \/ /\ erased' = erased \cup Begun /\ ended' = ended \cup before[d]
              /\ evicted' \in {evicted, evicted \cup before[d]}
    BY <1>9 DEF Delete, DeleteStart, DeleteGraph, ScanCache, SkipCache, EvictCache, DeleteRows
  <2>5. \E b \in {before[d], {}, Over} : before' = [before EXCEPT ![d] = b]
    BY <1>9 DEF Delete, DeleteStart, DeleteGraph, ScanCache, SkipCache, EvictCache, DeleteRows
  <2>6. before' \in [Deletes -> SUBSET Requests]
    BY <2>5 DEF Over
  <2>7. messages' \in Seq(Message)
    <3>1. <<>> \in Seq(Message) /\ messages \in Seq(Message) /\ messages' \in {messages, <<>>}
      BY <2>4
    <3> QED BY <3>1
  <2>9. \A k \in DOMAIN messages' : messages'[k] \in [role : {"user", "assistant"}, by : Requests]
    BY <2>7, AreMessages
  <2>8. erased' \subseteq Requests /\ session' \in 0..(nextId - 1)
    BY <2>4 DEF Begun
  <2>10. ended' \subseteq erased' /\ evicted' \subseteq ended'
    <3>1. before[d] \subseteq Begun
      BY DEF Known, Over, Begun
    <3> QED BY <2>4, <3>1
  <2>11. dpc' \in [Deletes -> {"idle", "graph", "scan", "evict", "rows", "blind"}]
    BY <2>2
  <2>12. graph' \subseteq Requests /\ \A e \in cache' : e.by \in Requests /\ e.key[1] \in Questions
    BY <2>3
  <2> QED BY <2>1, <2>3, <2>6, <2>7, <2>8, <2>9, <2>10, <2>11, <2>12
<1> QED BY <1>1, <1>2, <1>3, <1>4, <1>5, <1>6, <1>7, <1>8, <1>9 DEF Next, Request

\* What no step takes back: a request that has begun keeps its question, its
\* history and what it was banned from, one that is done stays done.
LEMMA StepKeeps ==
    ASSUME Typed, Next
    PROVE  /\ Begun \subseteq Begun'
           /\ \A x \in Begun : asked'[x] = asked[x] /\ hist'[x] = hist[x] /\ banned'[x] = banned[x]
           /\ \A x \in Requests : pc[x] = "done" => pc'[x] = "done"
           /\ lost \subseteq lost' /\ erased \subseteq erased'
<1> USE DEF Typed, TypeOK, Begun
<1>1. ASSUME NEW r \in Requests, NEW q \in Questions, Start(r, q)
      PROVE  /\ pc[r] = "idle" /\ UNCHANGED <<lost, erased>>
             /\ \A x \in Requests \ {r} : /\ pc'[x] = pc[x] /\ asked'[x] = asked[x]
                                          /\ hist'[x] = hist[x] /\ banned'[x] = banned[x]
             /\ pc'[r] # "idle"
  BY <1>1 DEF Start
<1>2. ASSUME NEW r \in Requests,
             SettingsFail(r) \/ TryCache(r) \/ FindSession(r) \/ CreateSession(r) \/ AddMessage(r)
                \/ RunGraph(r) \/ GraphFails(r) \/ Save(r)
      PROVE  /\ UNCHANGED <<asked, hist, banned, erased>> /\ lost \subseteq lost'
             /\ pc[r] \notin {"idle", "done"} /\ pc'[r] # "idle"
             /\ \A x \in Requests \ {r} : pc'[x] = pc[x]
  <2>1. CASE SettingsFail(r) \/ TryCache(r)
    BY <2>1 DEF SettingsFail, TryCache
  <2>2. CASE FindSession(r) \/ CreateSession(r) \/ AddMessage(r)
    BY <2>2 DEF FindSession, CreateSession, AddMessage, Then
  <2>3. CASE RunGraph(r) \/ GraphFails(r) \/ Save(r)
    BY <2>3 DEF RunGraph, GraphFails, Save
  <2> QED BY <1>2, <2>1, <2>2, <2>3
<1>3. ASSUME NEW d \in Deletes, Delete(d)
      PROVE  UNCHANGED <<asked, hist, banned, pc, lost>> /\ erased \subseteq erased'
  BY <1>3 DEF Delete, DeleteStart, DeleteGraph, ScanCache, SkipCache, EvictCache, DeleteRows
<1>4. ASSUME NEW r \in Requests, Request(r)
      PROVE  \/ \E q \in Questions : Start(r, q)
             \/ SettingsFail(r) \/ TryCache(r) \/ FindSession(r) \/ CreateSession(r)
                \/ AddMessage(r) \/ RunGraph(r) \/ GraphFails(r) \/ Save(r)
  BY <1>4 DEF Request
<1>5. ASSUME NEW r \in Requests, Request(r)
      PROVE  /\ Begun \subseteq Begun'
             /\ \A x \in Begun : asked'[x] = asked[x] /\ hist'[x] = hist[x]
                                 /\ banned'[x] = banned[x]
             /\ \A x \in Requests : pc[x] = "done" => pc'[x] = "done"
             /\ lost \subseteq lost' /\ erased \subseteq erased'
  <2>1. ASSUME NEW q \in Questions, Start(r, q)
        PROVE  /\ Begun \subseteq Begun' /\ UNCHANGED <<lost, erased>>
               /\ \A x \in Begun : asked'[x] = asked[x] /\ hist'[x] = hist[x]
                                   /\ banned'[x] = banned[x]
               /\ \A x \in Requests : pc[x] = "done" => pc'[x] = "done"
    BY <1>1, <2>1
  <2>2. CASE ~\E q \in Questions : Start(r, q)
    BY <1>2, <1>4, <1>5, <2>2
  <2> QED BY <2>1, <2>2
<1> QED BY <1>3, <1>5 DEF Next

\* Messages: one more by a request on its way, none after a delete, or the same.
LEMMA MessagesMove ==
    ASSUME Typed, Next
    PROVE  \/ UNCHANGED messages
           \/ /\ \E r \in Requests : /\ pc[r] = "add" /\ pc'[r] = Then(r)
                                     /\ messages' = Append(messages, [role |-> role[r], by |-> r])
              /\ UNCHANGED delVars
           \/ messages' = <<>> /\ erased' = erased \cup Begun
<1> USE DEF Typed, TypeOK
<1>1. ASSUME NEW r \in Requests, NEW q \in Questions, Start(r, q) PROVE UNCHANGED messages
  BY <1>1 DEF Start
<1>2. ASSUME NEW r \in Requests, SettingsFail(r) \/ TryCache(r) \/ FindSession(r)
                \/ CreateSession(r) \/ RunGraph(r) \/ GraphFails(r) \/ Save(r)
      PROVE  UNCHANGED messages
  BY <1>2 DEF SettingsFail, TryCache, FindSession, CreateSession, RunGraph, GraphFails, Save
<1>3. ASSUME NEW r \in Requests, AddMessage(r)
      PROVE  \/ UNCHANGED messages
             \/ /\ pc[r] = "add" /\ pc'[r] = Then(r) /\ UNCHANGED delVars
                /\ messages' = Append(messages, [role |-> role[r], by |-> r])
  BY <1>3 DEF AddMessage
<1>4. ASSUME NEW d \in Deletes, Delete(d)
      PROVE  UNCHANGED messages \/ (messages' = <<>> /\ erased' = erased \cup Begun)
  BY <1>4 DEF Delete, DeleteStart, DeleteGraph, ScanCache, SkipCache, EvictCache, DeleteRows
<1> QED BY <1>1, <1>2, <1>3, <1>4 DEF Next, Request

\* Every step keeps what is written attributed to requests that have begun.
LEMMA StepKnown ==
    ASSUME Typed, Known, Next
    PROVE  Known'
<1>1. \A r \in Begun' : asked'[r] \in Questions
  <2>1. ASSUME NEW r \in Requests, NEW q \in Questions, Start(r, q)
        PROVE  asked'[r] \in Questions /\ Begun' = Begun \cup {r}
    BY <2>1 DEF Start, Typed, TypeOK, Begun
  <2>2. ASSUME ~\E r \in Requests, q \in Questions : Start(r, q) PROVE Begun' \subseteq Begun
    <3>1. ASSUME NEW r \in Requests, SettingsFail(r) \/ TryCache(r) \/ FindSession(r)
                    \/ CreateSession(r) \/ AddMessage(r) \/ RunGraph(r) \/ GraphFails(r) \/ Save(r)
          PROVE  \A x \in Requests : pc'[x] # "idle" => pc[x] # "idle"
      BY <3>1 DEF SettingsFail, TryCache, FindSession, CreateSession, AddMessage, RunGraph,
         GraphFails, Save, Typed, TypeOK, Then
    <3>2. ASSUME NEW d \in Deletes, Delete(d) PROVE UNCHANGED pc
      BY <3>2 DEF Delete, DeleteStart, DeleteGraph, ScanCache, SkipCache, EvictCache, DeleteRows
    <3> QED BY <2>2, <3>1, <3>2 DEF Next, Request, Begun
  <2>3. \A r \in Begun : asked'[r] \in Questions
    BY StepKeeps DEF Known
  <2> QED BY <2>1, <2>2, <2>3
<1>2. \A k \in DOMAIN messages' : messages'[k].by \in Begun'
  <2>1. CASE UNCHANGED messages
    BY <2>1, StepKeeps DEF Known
  <2>2. ASSUME NEW r \in Requests, pc[r] = "add",
               messages' = Append(messages, [role |-> role[r], by |-> r])
        PROVE  \A k \in DOMAIN messages' : messages'[k].by \in Begun'
    <3>1. r \in Begun' /\ [role |-> role[r], by |-> r] \in Message
      BY <2>2, StepKeeps DEF Begun, Message, Typed, TypeOK
    <3>2. \A k \in DOMAIN messages : messages[k].by \in Begun'
      BY StepKeeps DEF Known
    <3>3. \A k \in DOMAIN messages' : messages'[k] = [role |-> role[r], by |-> r]
                                     \/ (k \in DOMAIN messages /\ messages'[k] = messages[k])
      BY <2>2, <3>1, Appended DEF Typed
    <3> QED BY <3>1, <3>2, <3>3
  <2>3. CASE messages' = <<>>
    BY <2>3
  <2> QED BY <2>1, <2>2, <2>3, MessagesMove
<1>3. \A r \in Requests : \A k \in DOMAIN hist'[r] : hist'[r][k].by \in Begun'
  <2>1. ASSUME NEW r \in Requests, NEW q \in Questions, Start(r, q)
        PROVE  \A k \in DOMAIN hist'[r] : hist'[r][k].by \in Begun
    <3>1. hist'[r] = Recent(messages) \/ hist'[r] = <<>>
      BY <2>1 DEF Start, Typed
    <3>2. \A k \in DOMAIN Recent(messages) : Recent(messages)[k].by \in Begun
      BY RecentIs DEF Known, Typed
    <3> QED BY <3>1, <3>2
  <2>2. ASSUME NEW r \in Requests, NEW q \in Questions, Start(r, q)
        PROVE  \A x \in Requests \ {r} : hist'[x] = hist[x]
    BY <2>2 DEF Start, Typed
  <2>3. (~\E r \in Requests, q \in Questions : Start(r, q)) => UNCHANGED hist
    BY DEF Next, Request, Delete, SettingsFail, TryCache, FindSession, CreateSession, AddMessage,
       RunGraph, GraphFails, Save, DeleteStart, DeleteGraph, ScanCache, SkipCache, EvictCache,
       DeleteRows
  <2>4. \A r \in Requests : \A k \in DOMAIN hist[r] : hist[r][k].by \in Begun
    BY DEF Known
  <2>5. Begun \subseteq Begun'
    BY StepKeeps
  <2>6. ASSUME NEW r \in Requests, NEW q \in Questions, Start(r, q), NEW x \in Requests
        PROVE  \A k \in DOMAIN hist'[x] : hist'[x][k].by \in Begun
    <3>1. CASE x = r
      BY <2>1, <2>6, <3>1
    <3>2. CASE x # r
      BY <2>2, <2>4, <2>6, <3>2
    <3> QED BY <3>1, <3>2
  <2> QED BY <2>3, <2>4, <2>5, <2>6
<1>4. erased' \subseteq Begun'
  <2>1. erased' \in {erased, erased \cup Begun}
    BY DEF Next, Request, Delete, Start, SettingsFail, TryCache, FindSession, CreateSession,
       AddMessage, RunGraph, GraphFails, Save, DeleteStart, DeleteGraph, ScanCache, SkipCache,
       EvictCache, DeleteRows
  <2> QED BY <2>1, StepKeeps DEF Known
<1>5. Over \subseteq Over'
  BY StepKeeps DEF Over
<1>6. ended' \subseteq Over' /\ \A d \in Deletes : before'[d] \subseteq Over'
  <2>1. ASSUME NEW r \in Requests, Request(r) PROVE UNCHANGED <<ended, before>>
    BY <2>1 DEF Request, Start, SettingsFail, TryCache, FindSession, CreateSession, AddMessage,
       RunGraph, GraphFails, Save
  <2>2. ASSUME NEW d \in Deletes, Delete(d)
        PROVE  /\ ended' \in {ended, ended \cup before[d]}
               /\ \E b \in {before[d], {}, Over} : before' = [before EXCEPT ![d] = b]
    BY <2>2 DEF Delete, DeleteStart, DeleteGraph, ScanCache, SkipCache, EvictCache, DeleteRows, Typed, TypeOK
  <2>3. before \in [Deletes -> SUBSET Requests]
    BY DEF Typed, TypeOK
  <2>4. ended \subseteq Over /\ \A d \in Deletes : before[d] \subseteq Over
    BY DEF Known
  <2>5. ASSUME NEW r \in Requests, Request(r)
        PROVE  ended' \subseteq Over' /\ \A x \in Deletes : before'[x] \subseteq Over'
    BY <1>5, <2>1, <2>4, <2>5
  <2>6. ASSUME NEW d \in Deletes, Delete(d)
        PROVE  ended' \subseteq Over' /\ \A x \in Deletes : before'[x] \subseteq Over'
    <3>1. PICK b \in {before[d], {}, Over} : before' = [before EXCEPT ![d] = b]
      BY <2>2, <2>6
    <3>2. b \subseteq Over /\ \A x \in Deletes : before'[x] \in {before[x], b}
      BY <2>3, <2>4, <3>1
    <3>3. ended' \subseteq Over
      BY <2>2, <2>4, <2>6
    <3> QED BY <1>5, <2>4, <3>2, <3>3
  <2> QED BY <2>5, <2>6 DEF Next
<1> QED BY <1>1, <1>2, <1>3, <1>4, <1>6 DEF Known

\* Every step keeps the cache and the answers under their keys.
LEMMA StepKeyed ==
    ASSUME Typed, Known, Keyed, Next
    PROVE  Keyed'
<1>1. \A x \in Begun : CacheKey(x)' = CacheKey(x)
  BY StepKeeps, KeyKept
<1>2. \A x \in Requests : pc[x] = "done" => x \in Begun /\ pc'[x] = "done"
  BY StepKeeps DEF Begun
<1>3. \A e \in cache : e.by \in Requests /\ pc[e.by] = "done" /\ e.key = CacheKey(e.by)
  BY DEF Keyed, Typed, TypeOK
<1>4. \A x, a \in Requests : answer[x] = a =>
         pc[x] = "done" /\ pc[a] = "done" /\ CacheKey(a) = CacheKey(x)
  BY DEF Keyed
<1>5. \A e \in cache : pc'[e.by] = "done" /\ e.key = CacheKey(e.by)'
  BY <1>1, <1>2, <1>3
<1>6. \A x, a \in Requests : answer[x] = a =>
         pc'[x] = "done" /\ pc'[a] = "done" /\ CacheKey(a)' = CacheKey(x)'
  BY <1>1, <1>2, <1>4
<1>7. ASSUME NEW r \in Requests, Save(r) PROVE Keyed'
  <2>1. r \in Begun /\ pc'[r] = "done" /\ CacheKey(r)' = CacheKey(r)
    BY <1>1, <1>7 DEF Save, Typed, TypeOK, Begun
  <2>2. \A e \in cache' : e \in cache \/ e = [key |-> CacheKey(r), by |-> r]
    BY <1>7 DEF Save, SaveToCache
  <2>3. \A e \in cache' : pc'[e.by] = "done" /\ e.key = CacheKey(e.by)'
    BY <1>5, <2>1, <2>2
  <2>4. answer'[r] = r /\ \A x \in Requests \ {r} : answer'[x] = answer[x]
    BY <1>7 DEF Save, Typed, TypeOK
  <2>5. \A x, a \in Requests : answer'[x] = a =>
           pc'[x] = "done" /\ pc'[a] = "done" /\ CacheKey(a)' = CacheKey(x)'
    BY <1>6, <2>1, <2>4
  <2> QED BY <2>3, <2>5 DEF Keyed
<1>8. ASSUME NEW r \in Requests, TryCache(r) PROVE Keyed'
  <2>1. UNCHANGED cache /\ r \in Begun /\ CacheKey(r)' = CacheKey(r)
    BY <1>1, <1>8 DEF TryCache, Typed, TypeOK, Begun
  <2>2. ASSUME NEW e \in GetSession(r), answer' = [answer EXCEPT ![r] = e.by],
               pc' = [pc EXCEPT ![r] = "done"]
        PROVE  \A x, a \in Requests : answer'[x] = a =>
                  pc'[x] = "done" /\ pc'[a] = "done" /\ CacheKey(a)' = CacheKey(x)'
    <3>1. e \in cache /\ e.by \in Begun /\ CacheKey(e.by)' = CacheKey(r)' /\ pc'[e.by] = "done"
      BY <1>1, <1>2, <1>3, <2>1 DEF GetSession
    <3>2. answer'[r] = e.by /\ pc'[r] = "done" /\ \A x \in Requests \ {r} : answer'[x] = answer[x]
      BY <2>2 DEF Typed, TypeOK
    <3> QED BY <1>6, <3>1, <3>2
  <2>3. CASE UNCHANGED answer
    BY <1>5, <1>6, <2>1, <2>3 DEF Keyed
  <2> QED BY <1>5, <1>8, <2>1, <2>2, <2>3 DEF TryCache, Keyed
<1>9. CASE UNCHANGED answer /\ cache' \subseteq cache
  BY <1>5, <1>6, <1>9 DEF Keyed
<1>10. (UNCHANGED answer /\ cache' \subseteq cache) \/ \E r \in Requests : Save(r) \/ TryCache(r)
  BY DEF Next, Request, Delete, Start, SettingsFail, FindSession, CreateSession, AddMessage,
     RunGraph, GraphFails, DeleteStart, DeleteGraph, ScanCache, SkipCache, EvictCache, DeleteRows
<1> QED BY <1>7, <1>8, <1>9, <1>10

\* Every step keeps the role a request's place says.
LEMMA StepRoles ==
    ASSUME Typed, Roles, Next
    PROVE  Roles'
<1> USE DEF Typed, TypeOK, Roles
<1>1. ASSUME NEW r \in Requests, NEW q \in Questions, Start(r, q) PROVE Roles'
  BY <1>1 DEF Start
<1>2. ASSUME NEW r \in Requests, SettingsFail(r) \/ TryCache(r) PROVE Roles'
  BY <1>2 DEF SettingsFail, TryCache
<1>3. ASSUME NEW r \in Requests, FindSession(r) \/ CreateSession(r) \/ AddMessage(r) PROVE Roles'
  BY <1>3 DEF FindSession, CreateSession, AddMessage, Then
<1>4. ASSUME NEW r \in Requests, RunGraph(r) \/ GraphFails(r) \/ Save(r) PROVE Roles'
  BY <1>4 DEF RunGraph, GraphFails, Save
<1>5. ASSUME NEW d \in Deletes, Delete(d) PROVE Roles'
  BY <1>5 DEF Delete, DeleteStart, DeleteGraph, ScanCache, SkipCache, EvictCache, DeleteRows
<1> QED BY <1>1, <1>2, <1>3, <1>4, <1>5 DEF Next, Request

\* The turn of a request stays in the transcript until a delete erases it.
LEMMA TurnSurvives ==
    ASSUME Typed, Next, NEW x \in Begun, x \notin erased'
    PROVE  (HasQuestion(x) => HasQuestion(x)') /\ (HasTurn(x) => HasTurn(x)')
<1> USE DEF HasQuestion, HasTurn
<1>1. CASE UNCHANGED messages
  BY <1>1
<1>2. ASSUME NEW r \in Requests, messages' = Append(messages, [role |-> role[r], by |-> r])
      PROVE  (HasQuestion(x) => HasQuestion(x)') /\ (HasTurn(x) => HasTurn(x)')
  <2>1. [role |-> role[r], by |-> r] \in Message
    BY DEF Message, Typed, TypeOK
  <2>2. \A j \in DOMAIN messages : j \in DOMAIN messages' /\ messages'[j] = messages[j]
    BY <1>2, <2>1, Appended DEF Typed
  <2> QED BY <2>2
<1> QED BY <1>1, <1>2, MessagesMove

\* What every request but the one that moves keeps.
LEMMA OtherTurns ==
    ASSUME BaseInv, Next, NEW r \in Requests, NEW x \in Requests \ {r},
           pc'[x] = pc[x], role'[x] = role[x], answer'[x] = answer[x],
           x \notin lost' \cup erased'
    PROVE  /\ (pc[x] = "graph" \/ Answering(x))' => HasQuestion(x)'
           /\ (pc[x] = "save" \/ (pc[x] = "done" /\ answer[x] = x))' => HasTurn(x)'
<1>1. x \notin lost \cup erased
  BY StepKeeps DEF BaseInv
<1>2. pc[x] # "idle" => x \in Begun
  BY DEF Begun
<1> QED BY <1>1, <1>2, TurnSurvives DEF BaseInv, Turns, Answering

\* Every step keeps the turns that were stored.
LEMMA StepTurns ==
    ASSUME BaseInv, Next
    PROVE  Turns'
<1> DEFINE Kept(x) ==
        x \notin lost \cup erased =>
            /\ pc[x] = "graph" \/ Answering(x) => HasQuestion(x)
            /\ pc[x] = "save" \/ (pc[x] = "done" /\ answer[x] = x) => HasTurn(x)
<1>1. ASSUME NEW r \in Requests, Request(r) PROVE \A x \in Requests \ {r} : Kept(x)'
  <2>1. \A x \in Requests \ {r} : pc'[x] = pc[x] /\ role'[x] = role[x] /\ answer'[x] = answer[x]
    BY <1>1 DEF Request, Start, SettingsFail, TryCache, FindSession, CreateSession, AddMessage,
       RunGraph, GraphFails, Save, Then, BaseInv, Typed, TypeOK
  <2> QED BY <2>1, OtherTurns
<1>2. ASSUME NEW r \in Requests, Request(r) PROVE Kept(r)'
  <2>0. /\ r \in Begun /\ r \notin erased' => (HasQuestion(r) => HasQuestion(r)')
                                              /\ (HasTurn(r) => HasTurn(r)')
        /\ lost \subseteq lost' /\ erased \subseteq erased' /\ Typed /\ Keyed /\ Roles /\ Kept(r)
    BY TurnSurvives, StepKeeps DEF BaseInv, Turns
  <2>1. pc[r] # "idle" => r \in Begun
    BY DEF Begun
  <2>2. pc[r] # "done" => answer[r] # r
    BY <2>0 DEF Keyed
  <2> USE DEF Answering
  <2>3. ASSUME NEW q \in Questions, Start(r, q) PROVE Kept(r)'
    BY <2>0, <2>3 DEF Start, Typed, TypeOK
  <2>4. CASE SettingsFail(r)
    BY <2>0, <2>2, <2>4 DEF SettingsFail, Typed, TypeOK
  <2>5. CASE TryCache(r)
    <3>1. pc'[r] \in {"done", "find"} /\ role'[r] = "user"
      BY <2>0, <2>5 DEF TryCache, Typed, TypeOK, Roles
    <3>2. answer'[r] # r
      BY <2>0, <2>2, <2>5 DEF TryCache, GetSession, Typed, TypeOK, Keyed
    <3> QED BY <3>1, <3>2
  <2>6. CASE FindSession(r) \/ CreateSession(r)
    <3>1. /\ pc[r] \in {"find", "create"} /\ role'[r] = role[r]
          /\ r \in lost' \/ pc'[r] \in {"create", "add"}
      BY <2>0, <2>6 DEF FindSession, CreateSession, Typed, TypeOK
    <3> QED BY <2>0, <2>1, <3>1
  <2>7. CASE AddMessage(r)
    <3>1. CASE session # sid[r]
      BY <2>7, <3>1 DEF AddMessage
    <3>2. CASE session = sid[r]
      <4> DEFINE m == [role |-> role[r], by |-> r]
      <4>1. messages' = Append(messages, m) /\ m \in Message /\ pc[r] = "add"
            /\ pc'[r] = Then(r) /\ role'[r] = role[r] /\ role[r] \in {"user", "assistant"}
        BY <2>0, <2>7, <3>2 DEF AddMessage, Typed, TypeOK, Message
      <4>2. /\ \A j \in DOMAIN messages : j \in DOMAIN messages' /\ messages'[j] = messages[j]
                                         /\ j < Len(messages) + 1
            /\ Len(messages) + 1 \in DOMAIN messages' /\ messages'[Len(messages) + 1] = m
        BY <2>0, <4>1, Appended DEF Typed
      <4>3. CASE role[r] = "user"
        BY <4>1, <4>2, <4>3 DEF Then, HasQuestion
      <4>4. CASE role[r] = "assistant"
        <5>1. r \notin lost' \cup erased' => HasQuestion(r)
          BY <2>0, <4>1, <4>4
        <5>2. HasQuestion(r) => HasTurn(r)'
          BY <4>2, <4>4 DEF HasQuestion, HasTurn
        <5> QED BY <4>1, <4>4, <5>1, <5>2 DEF Then
      <4> QED BY <4>1, <4>3, <4>4
    <3> QED BY <3>1, <3>2
  <2>8. CASE RunGraph(r)
    BY <2>0, <2>1, <2>8 DEF RunGraph, Typed, TypeOK
  <2>9. CASE GraphFails(r)
    BY <2>0, <2>2, <2>9 DEF GraphFails, Typed, TypeOK
  <2>10. CASE Save(r)
    BY <2>0, <2>1, <2>10 DEF Save, Typed, TypeOK
  <2> QED BY <1>2, <2>3, <2>4, <2>5, <2>6, <2>7, <2>8, <2>9, <2>10 DEF Request
<1>3. ASSUME NEW d \in Deletes, Delete(d), NEW x \in Requests PROVE Kept(x)'
  <2>1. UNCHANGED <<pc, role, answer, lost>>
    BY <1>3 DEF Delete, DeleteStart, DeleteGraph, ScanCache, SkipCache, EvictCache, DeleteRows
  <2>2. erased \subseteq erased' /\ (pc[x] # "idle" => x \in Begun)
    BY StepKeeps DEF Begun, BaseInv
  <2> QED BY <2>1, <2>2, TurnSurvives DEF BaseInv, Turns, Answering
<1>4. \A x \in Requests : Kept(x)'
  BY <1>1, <1>2, <1>3 DEF Next
<1> QED BY <1>4 DEF Turns

\* Where nothing failed and nothing was deleted, every step leaves the session there
\* and every answer stored.
LEMMA StepUnbroken ==
    ASSUME BaseInv, Next
    PROVE  Unbroken'
<1> USE DEF Answering
<1>0. Typed /\ Known /\ Keyed /\ Roles /\ Unbroken
  BY DEF BaseInv
<1>1. session' # 0 => Begun' # {}
  <2>1. Begun \subseteq Begun'
    BY StepKeeps DEF BaseInv
  <2>2. session' # 0 => session # 0 \/ Begun # {}
    <3>1. ASSUME NEW r \in Requests, Request(r) PROVE UNCHANGED session \/ r \in Begun
      BY <3>1 DEF Request, Start, SettingsFail, TryCache, FindSession, CreateSession, AddMessage,
         RunGraph, GraphFails, Save, Begun
    <3>2. ASSUME NEW d \in Deletes, Delete(d) PROVE session' \in {session, 0}
      BY <3>2 DEF Delete, DeleteStart, DeleteGraph, ScanCache, SkipCache, EvictCache,
       DeleteRows
    <3> QED BY <3>1, <3>2 DEF Next
  <2> QED BY <1>0, <2>1, <2>2 DEF Unbroken
<1> SUFFICES ASSUME faults' = 0, erased' = {}, NEW x \in Requests PROVE Answers(x)'
  BY <1>1 DEF Unbroken
<1>2. faults = 0 /\ erased = {}
  <2>1. faults' = 0 => faults = 0
    <3>1. faults' \in {faults, faults + 1}
      BY DEF Next, Request, Start, SettingsFail, TryCache, FindSession, CreateSession, AddMessage,
         RunGraph, GraphFails, Save, Delete, DeleteStart, DeleteGraph, ScanCache, SkipCache, EvictCache,
       DeleteRows
    <3> QED BY <1>0, <3>1 DEF Typed, TypeOK
  <2> QED BY <2>1, StepKeeps DEF BaseInv
<1>3. \A r \in Requests : Answers(r)
  BY <1>0, <1>2 DEF Unbroken
<1>4. x \in Begun /\ HasAnswer(x) => HasAnswer(x)'
  <2>1. CASE UNCHANGED messages
    BY <2>1 DEF HasAnswer
  <2>2. ASSUME NEW r \in Requests, messages' = Append(messages, [role |-> role[r], by |-> r])
        PROVE  HasAnswer(x) => HasAnswer(x)'
    <3>1. [role |-> role[r], by |-> r] \in Message
      BY <1>0 DEF Message, Typed, TypeOK
    <3>2. \A j \in DOMAIN messages : j \in DOMAIN messages' /\ messages'[j] = messages[j]
      BY <1>0, <2>2, <3>1, Appended DEF Typed
    <3> QED BY <3>2 DEF HasAnswer
  <2>3. CASE erased' = erased \cup Begun
    BY <2>3
  <2> QED BY <2>1, <2>2, <2>3, MessagesMove DEF BaseInv
<1>5. ASSUME NEW d \in Deletes, Delete(d) PROVE Answers(x)'
  <2>1. UNCHANGED reqVars /\ (UNCHANGED session \/ (erased' = erased \cup Begun /\ session # 0))
    <3>1. CASE DeleteRows(d)
      BY <3>1 DEF DeleteRows
    <3>2. CASE ~DeleteRows(d)
      BY <1>5, <3>2 DEF Delete, DeleteStart, DeleteGraph, ScanCache, SkipCache, EvictCache
    <3> QED BY <3>1, <3>2
  <2>2. UNCHANGED session
    BY <1>0, <2>1 DEF Unbroken
  <2>3. pc[x] = "done" \/ pc[x] = "save" => x \in Begun
    BY DEF Begun
  <2> QED BY <1>3, <1>4, <2>1, <2>2, <2>3 DEF Answers
<1>6. ASSUME NEW r \in Requests, Request(r), x # r PROVE Answers(x)'
  <2>1. /\ pc'[x] = pc[x] /\ role'[x] = role[x] /\ answer'[x] = answer[x] /\ sid'[x] = sid[x]
        /\ session # 0 => session' = session
    BY <1>0, <1>6 DEF Request, Start, SettingsFail, TryCache, FindSession, CreateSession, AddMessage,
       RunGraph, GraphFails, Save, Then, Typed, TypeOK
  <2>2. pc[x] = "add" => session # 0
    BY <1>0, <1>3 DEF Answers, Typed, TypeOK
  <2>3. pc[x] # "idle" => x \in Begun
    BY DEF Begun
  <2> QED BY <1>3, <1>4, <2>1, <2>2, <2>3 DEF Answers
<1>7. CASE Request(x)
  <2>0. (pc[x] # "done" => answer[x] # x) /\ (pc[x] # "idle" => x \in Begun)
    BY <1>0 DEF Keyed, Begun
  <2> USE DEF Answers
  <2>1. ASSUME NEW q \in Questions, Start(x, q) PROVE Answers(x)'
    BY <1>0, <2>1 DEF Start, Typed, TypeOK
  <2>2. CASE SettingsFail(x)
    BY <1>0, <2>0, <2>2 DEF SettingsFail, Typed, TypeOK
  <2>3. CASE TryCache(x)
    <3>1. pc'[x] \in {"done", "find"} /\ role'[x] = "user"
      BY <1>0, <2>3 DEF TryCache, Typed, TypeOK, Roles
    <3>2. answer'[x] # x
      BY <1>0, <2>0, <2>3 DEF TryCache, GetSession, Typed, TypeOK, Keyed
    <3> QED BY <3>1, <3>2
  <2>4. CASE FindSession(x)
    <3>1. /\ UNCHANGED <<session, role, messages>> /\ pc[x] = "find"
          /\ sid'[x] = session /\ pc'[x] = (IF session = 0 THEN "create" ELSE "add")
      BY <1>0, <1>2, <2>4 DEF FindSession, Typed, TypeOK
    <3>2. role[x] \in {"user", "assistant"}
      BY <1>0 DEF Typed, TypeOK
    <3> QED BY <1>3, <3>1, <3>2
  <2>5. CASE CreateSession(x)
    <3>1. role[x] = "user" /\ UNCHANGED role /\ nextId # 0
      BY <1>0, <1>3, <2>5 DEF CreateSession, Typed, TypeOK
    <3>2. CASE session # 0
      <4>1. pc'[x] = "graph" /\ UNCHANGED session
        BY <1>0, <2>5, <3>1, <3>2 DEF CreateSession, Then, Typed, TypeOK
      <4> QED BY <3>2, <4>1
    <3>3. CASE session = 0
      <4>1. pc'[x] = "add" /\ session' = nextId /\ sid'[x] = nextId
        BY <1>0, <2>5, <3>3 DEF CreateSession, Typed, TypeOK
      <4> QED BY <3>1, <4>1
    <3> QED BY <3>2, <3>3
  <2>6. CASE AddMessage(x)
    <3> DEFINE m == [role |-> role[x], by |-> x]
    <3>1. session = sid[x] /\ session # 0
      BY <1>0, <1>3, <2>6 DEF AddMessage, Typed, TypeOK
    <3>2. /\ messages' = Append(messages, m) /\ m \in Message /\ UNCHANGED <<session, role>>
          /\ pc'[x] = Then(x) /\ role[x] \in {"user", "assistant"}
      BY <1>0, <2>6, <3>1 DEF AddMessage, Typed, TypeOK, Message
    <3>3. Len(messages) + 1 \in DOMAIN messages' /\ messages'[Len(messages) + 1] = m
      BY <1>0, <3>2, Appended DEF Typed
    <3>4. role[x] = "assistant" => HasAnswer(x)'
      BY <3>3 DEF HasAnswer
    <3> QED BY <3>1, <3>2, <3>4 DEF Then
  <2>7. CASE RunGraph(x)
    BY <1>0, <1>3, <2>7 DEF RunGraph, Typed, TypeOK
  <2>8. CASE GraphFails(x)
    BY <1>0, <2>0, <2>8 DEF GraphFails, Typed, TypeOK
  <2>9. CASE Save(x)
    <3>1. HasAnswer(x)' /\ pc'[x] = "done"
      BY <1>0, <1>3, <1>4, <2>0, <2>9 DEF Save, Typed, TypeOK
    <3> QED BY <3>1
  <2> QED BY <1>7, <2>1, <2>2, <2>3, <2>4, <2>5, <2>6, <2>7, <2>8, <2>9 DEF Request
<1> QED BY <1>5, <1>6, <1>7 DEF Next

\* The initial state: no request, no message.
LEMMA InitBase == Init => BaseInv
<1> SUFFICES ASSUME Init PROVE BaseInv
  OBVIOUS
<1>1. Typed
  <2>1. <<>> \in Seq(Message) /\ DOMAIN messages = {}
    BY DEF Init
  <2>3. session \in 0..(nextId - 1) /\ nextId \in Nat \ {0} /\ faults \in 0..MaxFaults
    BY SessionAssumption DEF Init
  <2>4. messages \in Seq(Message) /\ hist \in [Requests -> Seq(Message)]
    BY <2>1 DEF Init
  <2> QED BY <2>1, <2>3, <2>4 DEF Init, Typed, TypeOK
<1>2. Known /\ Keyed /\ Roles /\ Turns
  BY NoneAssumption DEF Init, Known, Keyed, Roles, Turns, Answering, Begun
<1>3. Unbroken
  BY DEF Init, Unbroken, Answers, Answering
<1> QED BY <1>1, <1>2, <1>3 DEF BaseInv

\* Every step keeps the base of the invariant.
LEMMA StepBase ==
    ASSUME BaseInv, [Next]_vars
    PROVE  BaseInv'
<1>1. CASE Next
  BY <1>1, StepTyped, StepKnown, StepKeyed, StepRoles, StepTurns, StepUnbroken DEF BaseInv
<1>2. CASE UNCHANGED vars
  <2>1. Typed' /\ Known' /\ Roles'
    BY <1>2 DEF vars, BaseInv, Typed, TypeOK, Known, Begun, Over, Roles
  <2>2. \A x : CacheKey(x)' = CacheKey(x)
    BY <1>2 DEF vars, CacheKey
  <2>3. Keyed' /\ Turns'
    BY <1>2, <2>2 DEF vars, BaseInv, Keyed, Turns, Answering, HasQuestion, HasTurn
  <2>4. Unbroken'
    BY <1>2 DEF vars, BaseInv, Unbroken, Begun, Answers, Answering, HasAnswer
  <2> QED BY <2>1, <2>3, <2>4 DEF BaseInv
<1> QED BY <1>1, <1>2

-----------------------------------------------------------------------------
(* Types, the context of answers, the transcript.                          *)

\* Every variable keeps its type: TypeOK, for every value of the constants.
THEOREM SessionTypeCorrect == Spec => []TypeOK
<1>1. BaseInv => TypeOK
  BY DEF BaseInv, Typed
<1> QED BY <1>1, InitBase, StepBase, PTL DEF Spec

\* Equal pairs have equal parts.
LEMMA PairsEqual == \A t, u, v, w : <<t, u>> = <<v, w>> => t = v /\ u = w
OBVIOUS

\* The context of a cached answer: TryCache gives an answer only to a request whose
\* question and history read as those of the request that computed it.
THEOREM AnswersInContext == Spec => []CacheInContext
<1>1. ASSUME BaseInv PROVE CacheInContext
  <2>1. SUFFICES ASSUME NEW r \in Requests, NEW a \in Requests, answer[r] = a
                 PROVE  /\ asked[a] = asked[r]
                        /\ Len(hist[a]) = Len(hist[r])
                        /\ \A k \in DOMAIN hist[r] :
                              /\ hist[r][k].role = hist[a][k].role
                              /\ hist[r][k].role = "assistant" => hist[r][k].by = hist[a][k].by
    BY DEF CacheInContext
  <2> DEFINE Part(x) == [k \in DOMAIN hist[x] |->
                            <<hist[x][k].role, IF hist[x][k].role = "user"
                                               THEN asked[hist[x][k].by] ELSE hist[x][k].by>>]
  <2>2. CacheKey(a) = CacheKey(r)
    BY <1>1, <2>1 DEF BaseInv, Keyed
  <2>3. CacheKey(a) = <<asked[a], Part(a)>> /\ CacheKey(r) = <<asked[r], Part(r)>>
    BY DEF CacheKey
  <2>4. asked[a] = asked[r] /\ Part(a) = Part(r)
    <3> HIDE DEF Part
    <3>1. <<asked[a], Part(a)>> = <<asked[r], Part(r)>>
      BY <2>2, <2>3, Zenon
    <3> QED BY <3>1, PairsEqual, Zenon
  <2>5. DOMAIN hist[a] = DOMAIN Part(a) /\ DOMAIN hist[r] = DOMAIN Part(r)
    OBVIOUS
  <2>6. hist[a] \in Seq(Message) /\ hist[r] \in Seq(Message)
    BY <1>1 DEF BaseInv, Typed
  <2>7. Len(hist[a]) = Len(hist[r])
    <3>1. DOMAIN hist[a] = DOMAIN hist[r]
      BY <2>4, <2>5
    <3> QED BY <2>6, <3>1, LenProperties
  <2>8. ASSUME NEW k \in DOMAIN hist[r]
        PROVE  /\ hist[r][k].role = hist[a][k].role
               /\ hist[r][k].role = "assistant" => hist[r][k].by = hist[a][k].by
    <3> DEFINE Who(x) == IF hist[x][k].role = "user" THEN asked[hist[x][k].by] ELSE hist[x][k].by
    <3>1. k \in DOMAIN hist[a]
      BY <2>4, <2>5
    <3>2. Part(a)[k] = Part(r)[k]
      BY <2>4
    <3>3. Part(a)[k] = <<hist[a][k].role, Who(a)>>
      BY <3>1
    <3>4. Part(r)[k] = <<hist[r][k].role, Who(r)>>
      OBVIOUS
    <3> HIDE DEF Part, Who
    <3>5. <<hist[a][k].role, Who(a)>> = <<hist[r][k].role, Who(r)>>
      BY <3>2, <3>3, <3>4, Zenon
    <3>6. hist[a][k].role = hist[r][k].role /\ Who(a) = Who(r)
      BY <3>5, PairsEqual, Zenon
    <3> QED BY <3>6 DEF Who
  <2> QED BY <2>4, <2>7, <2>8
<1> QED BY <1>1, InitBase, StepBase, PTL DEF Spec

\* A turn that run_agent computed and did not lose stays in the transcript, question
\* before answer, until a delete erases it, and where nothing failed and nothing was
\* deleted no answer is missing from it: TurnKept, whatever runs beside it.
THEOREM TurnsKept == Spec => []TurnKept
<1>1. BaseInv => TurnKept
  BY DEF BaseInv, Turns, TurnKept, HasTurn, Unbroken, Answers, HasAnswer
<1> QED BY <1>1, InitBase, StepBase, PTL DEF Spec

-----------------------------------------------------------------------------
(* Deletes beside requests.                                                *)

\* A request leaves the deletes alone, and one that is over writes nothing more: a
\* checkpoint or a cached answer that is new is that of a request in flight.
LEMMA RequestWrites ==
    ASSUME NEW r \in Requests, Request(r)
    PROVE  /\ UNCHANGED delVars /\ r \notin Over
           /\ graph' \subseteq graph \cup {r}
           /\ \A e \in cache' : e \in cache \/ e.by = r
<1>1. UNCHANGED delVars /\ pc[r] # "done"
  BY DEF Request, Start, SettingsFail, TryCache, FindSession, CreateSession, AddMessage,
     RunGraph, GraphFails, Save
<1>2. CASE Save(r)
  BY <1>1, <1>2 DEF Save, SaveToCache, Over
<1>3. CASE ~Save(r)
  BY <1>1, <1>3 DEF Request, Start, SettingsFail, TryCache, FindSession, CreateSession,
     AddMessage, RunGraph, GraphFails, Over
<1> QED BY <1>2, <1>3

\* A delete leaves the requests alone and takes away only.
LEMMA DeleteTakes ==
    ASSUME NEW d \in Deletes, Delete(d)
    PROVE  /\ UNCHANGED reqVars
           /\ graph' \subseteq graph /\ cache' \subseteq cache
           /\ messages' = messages \/ messages' = <<>>
  BY DEF Delete, DeleteStart, DeleteGraph, ScanCache, SkipCache, EvictCache, DeleteRows

\* How far the deletes are, after any step.
LEMMA StepProgress ==
    ASSUME BaseInv, Progress, Next
    PROVE  Progress'
<1>0. /\ before \in [Deletes -> SUBSET Requests] /\ DOMAIN found = Deletes
      /\ DOMAIN dpc = Deletes /\ DOMAIN before = Deletes
      /\ \A d \in Deletes : Reached(d) /\ before[d] \subseteq Over
  BY DEF BaseInv, Typed, TypeOK, Known, Progress
<1>1. ASSUME NEW r \in Requests, Request(r), NEW d \in Deletes PROVE Reached(d)' /\ DOMAIN found' = Deletes
  <2>1. /\ UNCHANGED <<dpc, before, found>> /\ r \notin before[d]
        /\ graph' \subseteq graph \cup {r} /\ \A e \in cache' : e \in cache \/ e.by = r
    BY <1>0, <1>1, RequestWrites
  <2>2. Reached(d)
    BY <1>0
  <2> QED BY <1>0, <2>1, <2>2 DEF Reached
<1>2. ASSUME NEW d \in Deletes, Delete(d), NEW x \in Deletes PROVE Reached(x)' /\ DOMAIN found' = Deletes
  <2>0. Reached(x) /\ Reached(d) /\ graph' \subseteq graph /\ cache' \subseteq cache
    BY <1>0, <1>2, DeleteTakes
  <2>1. DOMAIN found' = Deletes
    BY <1>0, <1>2 DEF Delete, DeleteStart, DeleteGraph, ScanCache, SkipCache, EvictCache, DeleteRows
  <2>2. CASE x # d
    <3>1. dpc'[x] = dpc[x] /\ before'[x] = before[x] /\ found'[x] = found[x]
      BY <1>0, <1>2, <2>2 DEF Delete, DeleteStart, DeleteGraph, ScanCache, SkipCache, EvictCache, DeleteRows
    <3> QED BY <2>0, <2>1, <3>1 DEF Reached
  <2>3. CASE x = d
    <3>1. CASE DeleteStart(d)
      BY <1>0, <2>1, <2>3, <3>1 DEF DeleteStart, Reached
    <3>2. CASE DeleteGraph(d)
      BY <1>0, <2>1, <2>3, <3>2 DEF DeleteGraph, Reached
    <3>3. CASE ScanCache(d)
      BY <1>0, <2>0, <2>1, <2>3, <3>3 DEF ScanCache, Reached
    <3>4. CASE SkipCache(d)
      BY <1>0, <2>0, <2>1, <2>3, <3>4 DEF SkipCache, Reached
    <3>5. CASE EvictCache(d)
      <4>1. dpc[d] = "evict" /\ \A e \in cache : e.by \in before[d] => e \in found[d]
        BY <2>0, <3>5 DEF EvictCache, Reached
      <4>2. CASE Answered(d)
        BY <1>0, <2>1, <2>3, <4>2 DEF Reached
      <4>3. CASE ~Answered(d)
        <5>1. cache' = {e \in cache : \A f \in found[d] : e.key # f.key} /\ UNCHANGED <<graph, before>>
              /\ dpc' = [dpc EXCEPT ![d] = "rows"]
          BY <3>5, <4>3 DEF EvictCache
        <5>2. \A e \in cache' : e.by \notin before[d]
          BY <4>1, <5>1
        <5> QED BY <1>0, <2>0, <2>1, <2>3, <4>1, <5>1, <5>2 DEF Reached
      <4> QED BY <4>2, <4>3
    <3>6. CASE DeleteRows(d)
      BY <1>0, <2>1, <2>3, <3>6 DEF DeleteRows, Reached
    <3> QED BY <1>2, <3>1, <3>2, <3>3, <3>4, <3>5, <3>6 DEF Delete
  <2> QED BY <2>2, <2>3
<1>3. (\E r \in Requests : Request(r)) \/ (\E d \in Deletes : Delete(d))
  BY DEF Next
<1>4. DOMAIN found' = Deletes
  <2>1. ASSUME NEW r \in Requests, Request(r) PROVE DOMAIN found' = Deletes
    BY <1>0, <2>1, RequestWrites
  <2> QED BY <1>2, <1>3, <2>1
<1> QED BY <1>1, <1>2, <1>3, <1>4 DEF Progress

\* What is left of the requests that a delete concerned, after any step.
LEMMA StepLeft ==
    ASSUME BaseInv, Progress, NothingLeftBehind, Next
    PROVE  NothingLeftBehind'
<1>0. /\ \A k \in DOMAIN messages : messages[k].by \notin ended
      /\ graph \cap ended = {} /\ \A e \in cache : e.by \notin evicted
      /\ ended \subseteq Over /\ evicted \subseteq ended
  BY DEF NothingLeftBehind, BaseInv, Known, Typed, TypeOK
<1>1. ASSUME NEW r \in Requests, Request(r) PROVE NothingLeftBehind'
  <2>1. /\ UNCHANGED <<ended, evicted>> /\ r \notin ended
        /\ graph' \subseteq graph \cup {r} /\ \A e \in cache' : e \in cache \/ e.by = r
    BY <1>0, <1>1, RequestWrites
  <2>2. \A k \in DOMAIN messages' : messages'[k].by \notin ended
    <3>1. CASE UNCHANGED messages
      BY <1>0, <3>1
    <3>2. CASE messages' = <<>>
      BY <3>2
    <3>3. ASSUME NEW x \in Requests, pc[x] = "add",
                 messages' = Append(messages, [role |-> role[x], by |-> x])
          PROVE  \A k \in DOMAIN messages' : messages'[k].by \notin ended
      <4> DEFINE m == [role |-> role[x], by |-> x]
      <4>1. m \in Message /\ m.by \notin ended
        BY <1>0, <3>3 DEF Message, BaseInv, Typed, TypeOK, Over
      <4>2. \A k \in DOMAIN messages' : (k \in DOMAIN messages /\ messages'[k] = messages[k])
                                         \/ messages'[k] = m
        <5> HIDE DEF m
        <5>1. messages' = Append(messages, m)
          BY <3>3 DEF m
        <5> QED BY <4>1, <5>1, Appended DEF BaseInv, Typed
      <4> HIDE DEF m
      <4> QED BY <1>0, <4>1, <4>2
    <3> QED BY <3>1, <3>2, <3>3, MessagesMove DEF BaseInv
  <2> QED BY <1>0, <2>1, <2>2 DEF NothingLeftBehind
<1>2. ASSUME NEW d \in Deletes, Delete(d) PROVE NothingLeftBehind'
  <2>1. /\ graph' \subseteq graph /\ cache' \subseteq cache
        /\ messages' = messages \/ messages' = <<>>
    BY <1>2, DeleteTakes
  <2>2. CASE UNCHANGED <<ended, evicted>>
    BY <1>0, <2>1, <2>2 DEF NothingLeftBehind
  <2>3. CASE ~UNCHANGED <<ended, evicted>>
    <3>1. DeleteRows(d)
      BY <1>2, <2>3 DEF Delete, DeleteStart, DeleteGraph, ScanCache, SkipCache, EvictCache
    <3>2. /\ messages' = <<>> /\ ended' = ended \cup before[d] /\ dpc[d] \in {"rows", "blind"}
          /\ evicted' = evicted \/ (dpc[d] = "rows" /\ evicted' = evicted \cup before[d])
      BY <2>3, <3>1 DEF DeleteRows
    <3>3. graph \cap before[d] = {} /\ (dpc[d] = "rows" => \A e \in cache : e.by \notin before[d])
      BY <3>2 DEF Progress, Reached
    <3> QED BY <1>0, <2>1, <3>2, <3>3 DEF NothingLeftBehind
  <2> QED BY <2>2, <2>3
<1> QED BY <1>1, <1>2 DEF Next

\* What a request is banned from, after any step: a request that begins is banned
\* from requests that are over, and so not from itself.
LEMMA StepBanned ==
    ASSUME BaseInv, Forgotten, Next
    PROVE  Forgotten'
<1>0. ended \subseteq ended' /\ evicted \subseteq evicted'
  <2>1. ASSUME NEW r \in Requests, Request(r) PROVE UNCHANGED <<ended, evicted>>
    BY <2>1, RequestWrites
  <2>2. ASSUME NEW d \in Deletes, Delete(d) PROVE ended \subseteq ended' /\ evicted \subseteq evicted'
    BY <2>2 DEF Delete, DeleteStart, DeleteGraph, ScanCache, SkipCache, EvictCache, DeleteRows
  <2> QED BY <2>1, <2>2 DEF Next
<1>1. ASSUME NEW r \in Requests, NEW q \in Questions, Start(r, q) PROVE Forgotten'
  <2>1. r \notin evicted
    BY <1>1 DEF Start, BaseInv, Known, Over, Typed, TypeOK
  <2>2. /\ banned'[r].ended = ended /\ banned'[r].evicted = evicted
        /\ \A x \in Requests \ {r} : banned'[x] = banned[x]
    BY <1>1 DEF Start, BaseInv, Typed, TypeOK
  <2> QED BY <1>0, <2>1, <2>2 DEF Forgotten
<1>2. ASSUME ~\E r \in Requests, q \in Questions : Start(r, q) PROVE UNCHANGED banned
  <2>1. ASSUME NEW r \in Requests, Request(r) PROVE UNCHANGED banned
    BY <1>2, <2>1 DEF Request, SettingsFail, TryCache, FindSession, CreateSession, AddMessage,
       RunGraph, GraphFails, Save
  <2> QED BY <2>1, DeleteTakes DEF Next
<1> QED BY <1>0, <1>1, <1>2 DEF Forgotten

\* No answer and no history comes from a request the user had deleted before.
LEMMA StepRevival ==
    ASSUME SafeInv, Next
    PROVE  NoRevival'
<1>0. /\ Typed /\ Known /\ Keyed /\ BaseInv /\ NoRevival /\ Forgotten
      /\ \A k \in DOMAIN messages : messages[k].by \notin ended
      /\ \A e \in cache : e.by \notin evicted
  BY DEF SafeInv, BaseInv, NothingLeftBehind
<1>1. \A x \in Begun : banned'[x] = banned[x] /\ hist'[x] = hist[x]
  BY <1>0, StepKeeps
<1>2. ASSUME NEW r \in Requests, NEW q \in Questions, Start(r, q) PROVE NoRevival'
  <2>1. /\ banned'[r].ended = ended /\ banned'[r].evicted = evicted /\ UNCHANGED answer
        /\ hist'[r] = Recent(messages) \/ hist'[r] = <<>>
        /\ \A x \in Requests \ {r} : banned'[x] = banned[x] /\ hist'[x] = hist[x]
    BY <1>0, <1>2 DEF Start, Typed, TypeOK
  <2>2. \A k \in DOMAIN hist'[r] : hist'[r][k].by \notin ended
    <3>1. \A j \in DOMAIN Recent(messages) :
             \E i \in DOMAIN messages : Recent(messages)[j] = messages[i]
      BY <1>0, RecentIs DEF Typed
    <3> QED BY <1>0, <2>1, <3>1
  <2>3. answer[r] \notin evicted
    <3>1. \A a \in Requests : answer[r] # a
      BY <1>0, <1>2 DEF Start, Keyed
    <3>2. evicted \subseteq Requests
      BY <1>0 DEF Typed, TypeOK
    <3> QED BY <3>1, <3>2
  <2> QED BY <1>0, <2>1, <2>2, <2>3 DEF NoRevival
<1>3. ASSUME ~\E r \in Requests, q \in Questions : Start(r, q) PROVE NoRevival'
  <2>1. UNCHANGED <<banned, hist>>
    <3>1. ASSUME NEW r \in Requests, Request(r) PROVE UNCHANGED <<banned, hist>>
      BY <1>3, <3>1 DEF Request, SettingsFail, TryCache, FindSession, CreateSession, AddMessage,
         RunGraph, GraphFails, Save
    <3> QED BY <3>1, DeleteTakes DEF Next
  <2>2. ASSUME NEW x \in Requests, answer'[x] # answer[x]
        PROVE  answer'[x] \notin banned[x].evicted
    <3>1. PICK r \in Requests : Request(r)
      BY <2>2, DeleteTakes DEF Next
    <3>2. answer'[x] = x \/ \E e \in cache : answer'[x] = e.by
      BY <1>0, <2>2, <3>1 DEF Request, Start, SettingsFail, TryCache, GetSession, FindSession,
         CreateSession, AddMessage, RunGraph, GraphFails, Save, Typed, TypeOK
    <3>3. banned[x].evicted \subseteq evicted /\ x \notin banned[x].evicted
      BY <1>0 DEF Forgotten
    <3> QED BY <1>0, <3>2, <3>3
  <2> QED BY <1>0, <2>1, <2>2 DEF NoRevival
<1> QED BY <1>2, <1>3

\* The initial state: nothing to delete.
LEMMA InitSafe == Init => SafeInv
<1> SUFFICES ASSUME Init PROVE SafeInv
  OBVIOUS
<1>1. Progress
  BY DEF Init, Progress, Reached
<1>2. Forgotten /\ NothingLeftBehind
  BY DEF Init, Forgotten, NothingLeftBehind
<1>3. NoRevival
  BY DEF Init, NoRevival
<1> QED BY <1>1, <1>2, <1>3, InitBase DEF SafeInv

\* Every step keeps the invariant.
LEMMA StepSafe ==
    ASSUME SafeInv, [Next]_vars
    PROVE  SafeInv'
<1> USE DEF SafeInv
<1>1. BaseInv'
  BY StepBase
<1>2. CASE Next
  BY <1>1, <1>2, StepProgress, StepLeft, StepBanned, StepRevival
<1>3. CASE UNCHANGED vars
  <2>1. Progress' /\ Forgotten'
    BY <1>3 DEF vars, Progress, Reached, Forgotten
  <2>2. NothingLeftBehind' /\ NoRevival'
    BY <1>3 DEF vars, NothingLeftBehind, NoRevival
  <2> QED BY <1>1, <2>1, <2>2
<1> QED BY <1>2, <1>3

\* "cannot revive a conversation that the user deleted"
\* (delete_scoped_checkpoint_thread): a request begun after a successful
\* delete_agent_session gets neither answer nor history from a request that was over
\* when that delete began, however many requests and deletes ran beside it.
THEOREM DeletedStaysDeleted == Spec => []NoRevival
<1>1. SafeInv => NoRevival
  BY DEF SafeInv
<1>2. SafeInv /\ [Next]_vars => SafeInv'
  BY StepSafe
<1> QED BY <1>1, <1>2, InitSafe, PTL DEF Spec

\* A successful delete_agent_session leaves no message, no durable checkpoint and,
\* with a Redis client, no cached answer of a request that was over when it began,
\* and none comes back: NothingLeftBehind, after any failed deletes and beside any
\* requests in flight.
THEOREM DeleteComplete == Spec => []NothingLeftBehind
<1>1. SafeInv => NothingLeftBehind
  BY DEF SafeInv
<1>2. SafeInv /\ [Next]_vars => SafeInv'
  BY StepSafe
<1> QED BY <1>1, <1>2, InitSafe, PTL DEF Spec
=============================================================================
