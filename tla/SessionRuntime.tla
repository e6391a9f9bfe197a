--------------------------- MODULE SessionRuntime ---------------------------
(***************************************************************************)
(* One conversation thread of one user: run_agent of                       *)
(* services/agent_runtime/runtime.py, called by the API and by the task    *)
(* workers at the same time, and DELETE /agent/sessions/{thread}.  The     *)
(* conversation is in four places that no transaction spans: the session   *)
(* row with its messages, the answer cache in Redis, the graph checkpoint  *)
(* in PostgreSQL, and the process-local checkpoint used when PostgreSQL is *)
(* unreachable.                                                            *)
(*                                                                         *)
(* A message is its role and the request that wrote it.  A cached answer is*)
(* found by question and history; an assistant message is unique through   *)
(* the trace id in its metadata, a user message is its question.           *)
(***************************************************************************)
EXTENDS Integers, Sequences, FiniteSets

CONSTANTS Requests,      \* runs of run_agent, each at most once
          Questions,
          Deletes,       \* delete requests in flight at a time
          HistoryLimit,  \* limit of _load_history
          MaxFaults

ASSUME SessionAssumption ==
    /\ HistoryLimit \in Nat \ {0}
    /\ MaxFaults \in Nat

None == "none"
ASSUME NoneAssumption == None \notin Requests /\ None \notin Questions

VARIABLES session,   \* id of the AgentSession row, 0 if there is none
          nextId,
          messages,  \* its messages, oldest first
          cache,     \* answers in Redis: [key, by]
          graph,     \* requests with checkpoints in PostgreSQL
          local,     \* requests with checkpoints in the memory of their process
          pc, asked, hist, sid, role,   \* requests
          answer,    \* the request that computed the answer returned
          dpc, found,                   \* deletes: place, keys to evict
          faults
\* History variables, which no action reads: who a successful delete concerns.
VARIABLES before,    \* requests that were over when the delete in hand began
          erased,    \* requests begun before some delete was over
          ended,     \* requests that were over before some delete began
          evicted,   \* those of a delete in a process that has a Redis client
          banned,    \* the three sets when the request began
          lost       \* requests one of whose messages was not stored

storeVars == <<session, nextId, messages, cache, graph, local>>
reqVars == <<pc, asked, hist, sid, role, answer, banned, lost>>
delVars == <<dpc, found, before, erased, ended, evicted>>
vars == <<storeVars, reqVars, delVars, faults>>

Init ==
    /\ session = 0 /\ nextId = 1 /\ messages = <<>>
    /\ cache = {} /\ graph = {} /\ local = {}
    /\ pc = [r \in Requests |-> "idle"]
    /\ asked = [r \in Requests |-> None]
    /\ hist = [r \in Requests |-> <<>>]
    /\ sid = [r \in Requests |-> 0]
    /\ role = [r \in Requests |-> "user"]
    /\ answer = [r \in Requests |-> None]
    /\ dpc = [d \in Deletes |-> "idle"]
    /\ found = [d \in Deletes |-> {}]
    /\ before = [d \in Deletes |-> {}]
    /\ erased = {} /\ ended = {} /\ evicted = {}
    /\ banned = [r \in Requests |-> [erased |-> {}, ended |-> {}, evicted |-> {}]]
    /\ lost = {}
    /\ faults = 0

Fault == faults < MaxFaults /\ faults' = faults + 1

Begun == {r \in Requests : pc[r] # "idle"}
Over == {r \in Requests : pc[r] = "done"}

-----------------------------------------------------------------------------
(* run_agent.                                                              *)

\* get_messages: the newest HistoryLimit messages, oldest first.
Recent(s) ==
    IF Len(s) <= HistoryLimit THEN s
    ELSE SubSeq(s, Len(s) - HistoryLimit + 1, Len(s))

\* Mutant: the key leaves the history out.
CacheKeyNoHistory(r) == <<asked[r], <<>> >>

\* _cache_key: the question and the history as it was read.
CacheKey(r) ==
    <<asked[r], [k \in DOMAIN hist[r] |->
                    <<hist[r][k].role, IF hist[r][k].role = "user"
                                       THEN asked[hist[r][k].by] ELSE hist[r][k].by>>]>>

\* _load_history: empty when there is no session, or when the database fails.
Start(r, q) ==
    /\ pc[r] = "idle"
    /\ pc' = [pc EXCEPT ![r] = "cache"]
    /\ asked' = [asked EXCEPT ![r] = q]
    /\ \/ /\ hist' = [hist EXCEPT ![r] = IF session = 0 THEN <<>> ELSE Recent(messages)]
          /\ UNCHANGED faults
       \/ hist' = [hist EXCEPT ![r] = <<>>] /\ Fault
    /\ banned' = [banned EXCEPT ![r] = [erased |-> erased, ended |-> ended, evicted |-> evicted]]
    /\ UNCHANGED <<storeVars, sid, role, answer, lost, delVars>>

\* _fallback_response: the request ends with an answer that names no request and
\* is neither stored nor cached.
FallbackResponse(r) == pc' = [pc EXCEPT ![r] = "done"] /\ UNCHANGED answer

\* The user's LLM settings cannot be read or decrypted: nothing else happens.
SettingsFail(r) ==
    /\ pc[r] = "cache"
    /\ Fault
    /\ FallbackResponse(r)
    /\ UNCHANGED <<storeVars, asked, hist, sid, role, banned, lost, delVars>>

\* get_session: what is cached under the request's key.
GetSession(r) == {e \in cache : e.key = CacheKey(r)}

\* _try_cache: a hit is returned as it is and leaves no trace in the session; a
\* Redis error is a miss.
TryCache(r) ==
    /\ pc[r] = "cache"
    /\ \/ \E e \in GetSession(r) :
            /\ answer' = [answer EXCEPT ![r] = e.by]
            /\ pc' = [pc EXCEPT ![r] = "done"]
            /\ UNCHANGED faults
       \/ /\ \/ GetSession(r) = {} /\ UNCHANGED faults
             \/ GetSession(r) # {} /\ Fault
          /\ pc' = [pc EXCEPT ![r] = "find"]
          /\ UNCHANGED answer
    /\ UNCHANGED <<storeVars, asked, hist, sid, role, banned, lost, delVars>>

\* After the user's message the graph runs, after the assistant's the save.
Then(r) == IF role[r] = "user" THEN "graph" ELSE "save"

\* _record_message swallows every exception: the turn is not stored.
MessageLost(r) ==
    /\ lost' = lost \cup {r}
    /\ pc' = [pc EXCEPT ![r] = Then(r)]
    /\ UNCHANGED <<session, nextId, messages, sid>>

\* Mutant: get_session, without the create.
FindSessionOnly(r) ==
    /\ pc[r] = "find"
    /\ sid' = [sid EXCEPT ![r] = session]
    /\ pc' = [pc EXCEPT ![r] = "add"]
    /\ UNCHANGED <<storeVars, asked, hist, role, answer, banned, lost, delVars, faults>>

\* get_or_create_session, its SELECT.
FindSession(r) ==
    /\ pc[r] = "find"
    /\ \/ /\ sid' = [sid EXCEPT ![r] = session]
          /\ pc' = [pc EXCEPT ![r] = IF session = 0 THEN "create" ELSE "add"]
          /\ UNCHANGED <<session, nextId, messages, lost, faults>>
       \/ Fault /\ MessageLost(r)
    /\ UNCHANGED <<cache, graph, local, asked, hist, role, answer, banned, delVars>>

\* Mutant: no unique index, and the newer session hides the older one.
CreateSessionTwice(r) ==
    /\ pc[r] = "create"
    /\ session' = nextId
    /\ nextId' = nextId + 1
    /\ messages' = <<>>
    /\ sid' = [sid EXCEPT ![r] = nextId]
    /\ pc' = [pc EXCEPT ![r] = "add"]
    /\ UNCHANGED <<cache, graph, local, asked, hist, role, answer, banned, lost,
                   delVars, faults>>

\* Its INSERT, against the unique index on tenant, user and thread.
CreateSession(r) ==
    /\ pc[r] = "create"
    /\ \/ /\ session = 0
          /\ session' = nextId
          /\ nextId' = nextId + 1
          /\ sid' = [sid EXCEPT ![r] = nextId]
          /\ pc' = [pc EXCEPT ![r] = "add"]
          /\ UNCHANGED <<messages, lost>>
       \/ session # 0 /\ MessageLost(r)
    /\ UNCHANGED <<cache, graph, local, asked, hist, role, answer, banned, delVars,
                   faults>>

\* add_message: the foreign key fails if the session is gone.
AddMessage(r) ==
    /\ pc[r] = "add"
    /\ \/ /\ session = sid[r]
          /\ messages' = Append(messages, [role |-> role[r], by |-> r])
          /\ pc' = [pc EXCEPT ![r] = Then(r)]
          /\ UNCHANGED <<session, nextId, sid, lost>>
       \/ session # sid[r] /\ MessageLost(r)
    /\ UNCHANGED <<cache, graph, local, asked, hist, role, answer, banned, delVars,
                   faults>>

\* The graph runs with a durable checkpoint, or with the process-local one when
\* PostgreSQL cannot be opened; the assistant's message comes next.
RunGraph(r) ==
    /\ pc[r] = "graph"
    /\ \/ graph' = graph \cup {r} /\ UNCHANGED <<local, faults>>
       \/ local' = local \cup {r} /\ UNCHANGED graph /\ Fault
    /\ role' = [role EXCEPT ![r] = "assistant"]
    /\ pc' = [pc EXCEPT ![r] = "find"]
    /\ UNCHANGED <<session, nextId, messages, cache, asked, hist, sid, answer, banned,
                   lost, delVars>>

\* The graph raises, after any number of checkpoints: the fallback response.
GraphFails(r) ==
    /\ pc[r] = "graph"
    /\ graph' \in {graph, graph \cup {r}}
    /\ FallbackResponse(r)
    /\ UNCHANGED <<session, nextId, messages, cache, local, asked, hist, sid, role,
                   banned, lost, delVars, faults>>

\* _save_to_cache under the key of the history the request began with.
SaveToCache(r) == (cache \ GetSession(r)) \cup {[key |-> CacheKey(r), by |-> r]}
Save(r) ==
    /\ pc[r] = "save"
    /\ \/ cache' = SaveToCache(r) /\ UNCHANGED faults
       \/ Fault /\ UNCHANGED cache
    /\ answer' = [answer EXCEPT ![r] = r]
    /\ pc' = [pc EXCEPT ![r] = "done"]
    /\ UNCHANGED <<session, nextId, messages, graph, local, asked, hist, sid, role,
                   banned, lost, delVars>>

-----------------------------------------------------------------------------
(* delete_agent_session, which runs beside requests in flight.             *)

\* The delete request gets its response.
Answered(d) ==
    /\ dpc' = [dpc EXCEPT ![d] = "idle"]
    /\ before' = [before EXCEPT ![d] = {}]

\* 404 when there is no session.
DeleteStart(d) ==
    /\ dpc[d] = "idle"
    /\ session # 0
    /\ dpc' = [dpc EXCEPT ![d] = "graph"]
    /\ before' = [before EXCEPT ![d] = Over]
    /\ UNCHANGED <<storeVars, reqVars, found, erased, ended, evicted, faults>>

\* delete_scoped_checkpoint_thread: the durable copy, or 503.  The process-local
\* copies are left where PostgreSQL is configured.
DeleteGraph(d) ==
    /\ dpc[d] = "graph"
    /\ \/ /\ graph' = {}
          /\ dpc' = [dpc EXCEPT ![d] = "scan"]
          /\ UNCHANGED <<before, faults>>
       \/ Fault /\ Answered(d) /\ UNCHANGED graph
    /\ UNCHANGED <<session, nextId, messages, cache, local, reqVars, found, erased, ended, evicted>>

\* Mutant: only the key of the thread itself, under which no answer is kept.
ScanCacheBaseKey(d) ==
    /\ dpc[d] = "scan"
    /\ dpc' = [dpc EXCEPT ![d] = "evict"]
    /\ UNCHANGED <<storeVars, reqVars, found, before, erased, ended, evicted, faults>>

\* delete_thread: the keys of the thread are collected ...
ScanCache(d) ==
    /\ dpc[d] = "scan"
    /\ found' = [found EXCEPT ![d] = cache]
    /\ dpc' = [dpc EXCEPT ![d] = "evict"]
    /\ UNCHANGED <<storeVars, reqVars, before, erased, ended, evicted, faults>>

\* A process whose client was given up at start-up reports success at once.
SkipCache(d) ==
    /\ dpc[d] = "scan"
    /\ Fault
    /\ dpc' = [dpc EXCEPT ![d] = "blind"]
    /\ UNCHANGED <<storeVars, reqVars, found, before, erased, ended, evicted>>

Evict(d) == cache' = {e \in cache : \A f \in found[d] : e.key # f.key}

\* Mutant: a failed eviction is not reported.
EvictCacheIgnored(d) ==
    /\ dpc[d] = "evict"
    /\ \/ Evict(d) /\ UNCHANGED faults
       \/ Fault /\ UNCHANGED cache
    /\ dpc' = [dpc EXCEPT ![d] = "rows"]
    /\ found' = [found EXCEPT ![d] = {}]
    /\ UNCHANGED <<session, nextId, messages, graph, local, reqVars, before, erased, ended, evicted>>

\* ... and then deleted, or 503.
EvictCache(d) ==
    /\ dpc[d] = "evict"
    /\ \/ /\ Evict(d)
          /\ dpc' = [dpc EXCEPT ![d] = "rows"]
          /\ UNCHANGED <<before, faults>>
       \/ Fault /\ Answered(d) /\ UNCHANGED cache
    /\ found' = [found EXCEPT ![d] = {}]
    /\ UNCHANGED <<session, nextId, messages, graph, local, reqVars, erased, ended, evicted>>

\* repo.delete_session: messages and session in one transaction; 404 if another
\* request was faster.
DeleteRows(d) ==
    /\ dpc[d] \in {"rows", "blind"}
    /\ \/ /\ session # 0
          /\ session' = 0
          /\ messages' = <<>>
          /\ erased' = erased \cup Begun
          /\ ended' = ended \cup before[d]
          /\ evicted' = IF dpc[d] = "rows" THEN evicted \cup before[d] ELSE evicted
          /\ UNCHANGED faults
       \/ session = 0 /\ UNCHANGED <<session, messages, erased, ended, evicted, faults>>
       \/ Fault /\ UNCHANGED <<session, messages, erased, ended, evicted>>
    /\ Answered(d)
    /\ UNCHANGED <<nextId, cache, graph, local, reqVars, found>>

-----------------------------------------------------------------------------
Request(r) ==
    \/ \E q \in Questions : Start(r, q)
    \/ SettingsFail(r) \/ TryCache(r) \/ FindSession(r) \/ CreateSession(r) \/ AddMessage(r)
    \/ RunGraph(r) \/ GraphFails(r) \/ Save(r)

Delete(d) ==
    \/ DeleteStart(d) \/ DeleteGraph(d) \/ ScanCache(d) \/ SkipCache(d)
    \/ EvictCache(d) \/ DeleteRows(d)

Next ==
    \/ \E r \in Requests : Request(r)
    \/ \E d \in Deletes : Delete(d)

Spec == Init /\ [][Next]_vars

-----------------------------------------------------------------------------
(* Properties.                                                             *)

TypeOK ==
    /\ session \in 0..(nextId - 1) /\ nextId \in Nat \ {0}
    /\ \A k \in DOMAIN messages :
          messages[k] \in [role : {"user", "assistant"}, by : Requests]
    /\ \A e \in cache : e.by \in Requests /\ e.key[1] \in Questions
    /\ graph \subseteq Requests /\ local \subseteq Requests
    /\ pc \in [Requests -> {"idle", "cache", "find", "create", "add", "graph",
                            "save", "done"}]
    /\ asked \in [Requests -> Questions \cup {None}]
    /\ sid \in [Requests -> Nat]
    /\ \A r \in Requests : pc[r] = "add" => sid[r] # 0
    /\ role \in [Requests -> {"user", "assistant"}]
    /\ answer \in [Requests -> Requests \cup {None}]
    /\ dpc \in [Deletes -> {"idle", "graph", "scan", "evict", "rows", "blind"}]
    /\ before \in [Deletes -> SUBSET Requests]
    /\ erased \subseteq Requests /\ lost \subseteq Requests
    /\ ended \subseteq erased /\ evicted \subseteq ended
    /\ banned \in [Requests -> [erased : SUBSET Requests, ended : SUBSET Requests,
                                 evicted : SUBSET Requests]]
    /\ faults \in 0..MaxFaults

\* A request that begins when a delete has succeeded is given no history from a
\* request that was over when that delete began, and no answer from one if the
\* delete ran in a process with a Redis client - whatever ran beside the delete
\* ("cannot revive a conversation that the user deleted",
\* delete_scoped_checkpoint_thread).
NoRevival ==
    \A r \in Requests :
        /\ answer[r] \notin banned[r].evicted
        /\ \A k \in DOMAIN hist[r] : hist[r][k].by \notin banned[r].ended

\* The same of every request that had begun when the delete succeeded, those in
\* flight included, which is what the docstring says of the conversation.  The
\* code does not keep this one.
DeletedForGood ==
    \A r \in Requests :
        /\ answer[r] \notin banned[r].erased
        /\ \A k \in DOMAIN hist[r] : hist[r][k].by \notin banned[r].erased

\* Of a request that was over when a delete began that succeeded, no message, no
\* durable checkpoint and, if the delete had a Redis client, no cached answer is
\* left, whatever failed before, ran beside it or came after.  Not so the
\* process-local checkpoint, which the delete leaves where PostgreSQL is
\* configured, and not so what a request in flight writes later.
NothingLeftBehind ==
    /\ \A k \in DOMAIN messages : messages[k].by \notin ended
    /\ graph \cap ended = {}
    /\ \A e \in cache : e.by \notin evicted

\* A cached answer is given only in the context it was computed in: same
\* question, and a history that reads the same (_cache_key).
CacheInContext ==
    \A r \in Requests : answer[r] \in Requests =>
        /\ asked[answer[r]] = asked[r]
        /\ Len(hist[answer[r]]) = Len(hist[r])
        /\ \A k \in DOMAIN hist[r] :
              /\ hist[r][k].role = hist[answer[r]][k].role
              /\ hist[r][k].role = "assistant" =>
                    hist[r][k].by = hist[answer[r]][k].by

\* A turn that was computed and not lost stays in the transcript, the question
\* before the answer, until a delete; and where no database error and no delete
\* came, two first requests that collide on the unique index cost one of them its
\* question at most, never an answer.
TurnKept ==
    \A r \in Requests : pc[r] = "done" /\ answer[r] = r =>
        /\ r \notin lost \cup erased =>
              \E j, k \in DOMAIN messages :
                  /\ j < k
                  /\ messages[j] = [role |-> "user", by |-> r]
                  /\ messages[k] = [role |-> "assistant", by |-> r]
        /\ faults = 0 /\ erased = {} =>
              \E k \in DOMAIN messages : messages[k] = [role |-> "assistant", by |-> r]
=============================================================================
