-------------------------- MODULE DocumentLifecycle --------------------------
(***************************************************************************)
(* One tenant's documents from upload to deletion: the upload request of   *)
(* api/routers/upload.py, the ingestion of tasks/knowledge_tasks.py under a*)
(* worker, and the delete request of api/routers/knowledge.py.  They share *)
(* the documents table, the upload directories and the vector store, and   *)
(* no transaction spans two of the three.                                  *)
(*                                                                         *)
(* The worker pool is reduced to what TaskLifecycle leaves of it: one task *)
(* per document, one holder at a time.  Chunk ids are derived from the     *)
(* content, so the store has one set of chunks per content, owned by the   *)
(* document in their metadata.                                             *)
(***************************************************************************)
EXTENDS Integers, FiniteSets

CONSTANTS NumDocs,       \* document ids the sequence hands out
          Contents,      \* content_sha256 values
          Uploads,       \* upload requests in flight at a time
          Deletes,       \* delete requests in flight at a time
          MaxDocuments,  \* plan.max_documents
          MaxRetry,
          MaxFaults

ASSUME DocumentAssumption ==
    /\ NumDocs \in Nat \ {0}
    /\ MaxDocuments \in Nat
    /\ MaxRetry \in Nat
    /\ MaxFaults \in Nat
    /\ IsFiniteSet(Uploads) /\ Uploads # {}

Docs == 1..NumDocs
NoContent == "no content"
ASSUME ContentAssumption == NoContent \notin Contents

VARIABLES doc,       \* Document.status; "none" before, "deleted" after the row
          content,   \* Document.content_sha256
          nextId,    \* the next value of the id sequence
          files,     \* the upload directory: "none", "home" or "staged"
          vec,       \* the document_id on the chunks of a content, 0 if none
          task,      \* the processing task's status
          tries,     \* its retry_count
          ing,       \* where the task's handler and worker thread are
          up, upFor, upDoc,     \* upload requests: place, content, id
          del, delDoc, delHas,  \* delete requests: place, id, staged list # []
          faults
\* History variables, which no action reads.
VARIABLES unindexed,  \* documents whose vectors a delete request removed
          race        \* "admitted": a delete request was, while a worker had the
                      \* document's task in hand; "retried": and then the worker
                      \* put the task back

docVars == <<doc, content, nextId>>
taskVars == <<task, tries, ing>>
upVars == <<up, upFor, upDoc>>
delVars == <<del, delDoc, delHas, unindexed, race>>
vars == <<docVars, files, vec, taskVars, upVars, delVars, faults>>

Exists(d) == doc[d] \in {"processing", "indexed", "failed"}
Existing == {d \in Docs : Exists(d)}

Init ==
    /\ doc = [d \in Docs |-> "none"]
    /\ content = [d \in Docs |-> NoContent]
    /\ nextId = 1
    /\ files = [d \in Docs |-> "none"]
    /\ vec = [c \in Contents |-> 0]
    /\ task = [d \in Docs |-> "absent"]
    /\ tries = [d \in Docs |-> 0]
    /\ ing = [d \in Docs |-> "idle"]
    /\ up = [u \in Uploads |-> "idle"]
    /\ upFor = [u \in Uploads |-> NoContent]
    /\ upDoc = [u \in Uploads |-> 0]
    /\ del = [r \in Deletes |-> "idle"]
    /\ delDoc = [r \in Deletes |-> 0]
    /\ delHas = [r \in Deletes |-> FALSE]
    /\ unindexed = {}
    /\ race = [d \in Docs |-> "none"]
    /\ faults = 0

Fault == faults < MaxFaults /\ faults' = faults + 1

-----------------------------------------------------------------------------
(* upload_pdf.  The row is flushed before the file is written and committed*)
(* with the task, after it.                                                *)

UpTo(u, p) == up' = [up EXCEPT ![u] = p]
UpEnds(u) ==
    /\ UpTo(u, "idle")
    /\ upFor' = [upFor EXCEPT ![u] = NoContent]
    /\ upDoc' = [upDoc EXCEPT ![u] = 0]

\* The duplicate check, on committed rows.
UploadStart(u, c) ==
    /\ up[u] = "idle"
    /\ \A d \in Existing : content[d] # c
    /\ UpTo(u, "quota")
    /\ upFor' = [upFor EXCEPT ![u] = c]
    /\ UNCHANGED <<docVars, files, vec, taskVars, upDoc, delVars, faults>>

\* Mutant: <= for < in check_plan_limit.
UploadQuotaInclusive(u) ==
    /\ up[u] = "quota"
    /\ \/ Cardinality(Existing) <= MaxDocuments /\ UpTo(u, "insert")
          /\ UNCHANGED <<upFor, upDoc>>
       \/ Cardinality(Existing) > MaxDocuments /\ UpEnds(u)
    /\ UNCHANGED <<docVars, files, vec, taskVars, delVars, faults>>

\* can_upload: get_document_quota counts the rows the tenant has.
UploadQuota(u) ==
    /\ up[u] = "quota"
    /\ \/ Cardinality(Existing) < MaxDocuments /\ UpTo(u, "insert")
          /\ UNCHANGED <<upFor, upDoc>>
       \/ Cardinality(Existing) >= MaxDocuments /\ UpEnds(u)
    /\ UNCHANGED <<docVars, files, vec, taskVars, delVars, faults>>

\* db.flush() against the unique index: a committed duplicate is an
\* IntegrityError, an uncommitted one makes the statement wait.
UploadInsert(u) ==
    /\ up[u] = "insert"
    /\ \/ /\ \E d \in Existing : content[d] = upFor[u]
          /\ UpEnds(u)
          /\ UNCHANGED nextId
       \/ /\ \A d \in Existing : content[d] # upFor[u]
          /\ \A v \in Uploads : upDoc[v] # 0 => upFor[v] # upFor[u]
          /\ nextId \in Docs
          /\ nextId' = nextId + 1
          /\ upDoc' = [upDoc EXCEPT ![u] = nextId]
          /\ UpTo(u, "store")
          /\ UNCHANGED upFor
    /\ UNCHANGED <<doc, content, files, vec, taskVars, delVars, faults>>

\* mkdir and write_bytes; an OSError rolls the row back.
UploadStore(u) ==
    /\ up[u] = "store"
    /\ \/ /\ files' = [files EXCEPT ![upDoc[u]] = "home"]
          /\ UpTo(u, "commit")
          /\ UNCHANGED <<upFor, upDoc, faults>>
       \/ Fault /\ UpEnds(u) /\ UNCHANGED files
    /\ UNCHANGED <<docVars, vec, taskVars, delVars>>

\* create_task commits the document and its task together.
UploadCommit(u) ==
    LET d == upDoc[u] IN
    /\ up[u] = "commit"
    /\ doc' = [doc EXCEPT ![d] = "processing"]
    /\ content' = [content EXCEPT ![d] = upFor[u]]
    /\ task' = [task EXCEPT ![d] = "pending"]
    /\ UpEnds(u)
    /\ UNCHANGED <<nextId, files, vec, tries, ing, delVars, faults>>

\* The request dies, or create_task raises: the directory stays behind.
UploadDies(u) ==
    /\ up[u] # "idle"
    /\ Fault
    /\ UpEnds(u)
    /\ UNCHANGED <<docVars, files, vec, taskVars, delVars>>

-----------------------------------------------------------------------------
(* process_document_task and the worker thread that waits for it.          *)

At(d, p, q) == ing[d] = p /\ ing' = [ing EXCEPT ![d] = q]
SetTask(d, s) == task' = [task EXCEPT ![d] = s]
\* _set_document_status: nothing happens when the row is gone.
SetDoc(d, s) == doc' = [doc EXCEPT ![d] = IF Exists(d) THEN s ELSE @]

Claim(d) ==
    /\ task[d] = "pending"
    /\ At(d, "idle", "begin")
    /\ SetTask(d, "running")
    /\ UNCHANGED <<docVars, files, vec, tries, upVars, delVars, faults>>

\* The document becomes "processing"; without one the task fails.
Begin(d) ==
    /\ \/ Exists(d) /\ At(d, "begin", "read") /\ UNCHANGED task
       \/ ~Exists(d) /\ At(d, "begin", "exit") /\ SetTask(d, "failed")
    /\ SetDoc(d, "processing")
    /\ UNCHANGED <<content, nextId, files, vec, tries, upVars, delVars, faults>>

\* os.path.exists, extraction, chunking and embedding of the file.
Read(d) ==
    /\ files[d] = "home"
    /\ At(d, "read", "clear")
    /\ UNCHANGED <<docVars, files, vec, task, tries, upVars, delVars, faults>>

\* The file is missing, or a step up to the "indexed" write raises.
Raise(d) ==
    /\ \E p \in {"read", "clear", "write", "succeed", "index"} : At(d, p, "faildoc")
    /\ SetTask(d, "failed")
    /\ UNCHANGED <<docVars, files, vec, tries, upVars, delVars, faults>>

FailDoc(d) ==
    /\ At(d, "faildoc", "exit")
    /\ SetDoc(d, "failed")
    /\ UNCHANGED <<content, nextId, files, vec, task, tries, upVars, delVars, faults>>

\* Mutant: the where-filter names the tenant and forgets the document.
ClearTenant(d) ==
    /\ At(d, "clear", "write")
    /\ vec' = [c \in Contents |-> 0]
    /\ UNCHANGED <<docVars, files, task, tries, upVars, delVars, faults>>

\* store.delete_document: the chunks that carry this document's id.
Clear(d) ==
    /\ At(d, "clear", "write")
    /\ vec' = [c \in Contents |-> IF vec[c] = d THEN 0 ELSE vec[c]]
    /\ UNCHANGED <<docVars, files, task, tries, upVars, delVars, faults>>

\* store.add_documents: an upsert by chunk id.
Write(d) ==
    /\ At(d, "write", "succeed")
    /\ vec' = [vec EXCEPT ![content[d]] = d]
    /\ UNCHANGED <<docVars, files, task, tries, upVars, delVars, faults>>

Succeed(d) ==
    /\ At(d, "succeed", "index")
    /\ SetTask(d, "success")
    /\ UNCHANGED <<docVars, files, vec, tries, upVars, delVars, faults>>

Index(d) ==
    /\ At(d, "index", "usage")
    /\ SetDoc(d, "indexed")
    /\ UNCHANGED <<content, nextId, files, vec, task, tries, upVars, delVars, faults>>

\* record_usage three times; it never raises.
Usage(d) ==
    /\ At(d, "usage", "exit")
    /\ UNCHANGED <<docVars, files, vec, task, tries, upVars, delVars, faults>>

\* The process is killed (deadline, stop, out of memory) or its exception
\* handler raises; the worker writes FAILED whatever was there.
Kill(d) ==
    /\ \E p \in {"begin", "read", "clear", "write", "succeed", "index", "usage",
                 "faildoc"} : At(d, p, "killed")
    /\ UNCHANGED <<docVars, files, vec, task, tries, upVars, delVars, faults>>

MarkFailed(d) ==
    /\ At(d, "killed", "exit")
    /\ SetTask(d, "failed")
    /\ UNCHANGED <<docVars, files, vec, tries, upVars, delVars, faults>>

\* Mutant: retry_count is not charged.
ReapUncharged(d) ==
    /\ \/ task[d] = "failed" /\ tries[d] < MaxRetry /\ At(d, "exit", "requeue")
       \/ ~(task[d] = "failed" /\ tries[d] < MaxRetry) /\ At(d, "exit", "idle")
    /\ UNCHANGED <<docVars, files, vec, task, tries, upVars, delVars, faults>>

\* Mutant: <= for < in should_retry.
ReapOnceMore(d) ==
    /\ \/ /\ task[d] = "failed" /\ tries[d] <= MaxRetry
          /\ At(d, "exit", "requeue")
          /\ tries' = [tries EXCEPT ![d] = @ + 1]
       \/ /\ ~(task[d] = "failed" /\ tries[d] <= MaxRetry)
          /\ At(d, "exit", "idle")
          /\ UNCHANGED tries
    /\ UNCHANGED <<docVars, files, vec, task, upVars, delVars, faults>>

\* should_retry and the charge; the PENDING write is a step of its own.
Reap(d) ==
    /\ \/ /\ task[d] = "failed" /\ tries[d] < MaxRetry
          /\ At(d, "exit", "requeue")
          /\ tries' = [tries EXCEPT ![d] = @ + 1]
       \/ /\ ~(task[d] = "failed" /\ tries[d] < MaxRetry)
          /\ At(d, "exit", "idle")
          /\ UNCHANGED tries
    /\ UNCHANGED <<docVars, files, vec, task, upVars, delVars, faults>>

Requeue(d) ==
    /\ At(d, "requeue", "idle")
    /\ SetTask(d, "pending")
    /\ race' = [race EXCEPT ![d] = IF @ = "admitted" THEN "retried" ELSE @]
    /\ UNCHANGED <<docVars, files, vec, tries, upVars, del, delDoc, delHas, unindexed, faults>>

\* The worker dies with its handler; stale recovery puts a RUNNING task back.
WorkerDies(d) ==
    /\ ing[d] # "idle"
    /\ Fault
    /\ ing' = [ing EXCEPT ![d] = "idle"]
    /\ UNCHANGED <<docVars, files, vec, task, tries, upVars, delVars>>

Recover(d) ==
    /\ task[d] = "running" /\ ing[d] = "idle"
    /\ SetTask(d, "pending")
    /\ UNCHANGED <<docVars, files, vec, tries, ing, upVars, delVars, faults>>

-----------------------------------------------------------------------------
(* delete_knowledge_document.                                              *)

DelTo(r, p) == del' = [del EXCEPT ![r] = p]
DelEnds(r) ==
    /\ DelTo(r, "idle")
    /\ delDoc' = [delDoc EXCEPT ![r] = 0]
    /\ delHas' = [delHas EXCEPT ![r] = FALSE]

\* Mutant: the active-task guard is missing.
DeleteStartUnguarded(r, d) ==
    /\ del[r] = "idle"
    /\ Exists(d)
    /\ DelTo(r, "stage")
    /\ delDoc' = [delDoc EXCEPT ![r] = d]
    /\ race' = [race EXCEPT ![d] = IF @ = "none" /\ ing[d] # "idle" THEN "admitted" ELSE @]
    /\ UNCHANGED <<docVars, files, vec, taskVars, upVars, delHas, unindexed, faults>>

\* The guards: the row exists, is not "processing" and has no active task.
DeleteStart(r, d) ==
    /\ del[r] = "idle"
    /\ Exists(d) /\ doc[d] # "processing"
    /\ task[d] \notin {"pending", "running"}
    /\ DelTo(r, "stage")
    /\ delDoc' = [delDoc EXCEPT ![r] = d]
    /\ race' = [race EXCEPT ![d] = IF @ = "none" /\ ing[d] # "idle" THEN "admitted" ELSE @]
    /\ UNCHANGED <<docVars, files, vec, taskVars, upVars, delHas, unindexed, faults>>

\* _stage_upload_directories renames the directory, if it is still at home.
DeleteStage(r) ==
    LET d == delDoc[r] IN
    /\ del[r] = "stage"
    /\ \/ /\ delHas' = [delHas EXCEPT ![r] = files[d] = "home"]
          /\ files' = [files EXCEPT ![d] = IF @ = "home" THEN "staged" ELSE @]
          /\ DelTo(r, "vectors")
          /\ UNCHANGED <<delDoc, faults>>
       \/ Fault /\ DelEnds(r) /\ UNCHANGED files
    /\ UNCHANGED <<docVars, vec, taskVars, upVars, unindexed, race>>

Restore(r) ==
    /\ files' = [files EXCEPT ![delDoc[r]] = IF delHas[r] THEN "home" ELSE @]
    /\ DelEnds(r)

\* The vectors go first; if that fails the directory is put back.
DeleteVectors(r) ==
    LET d == delDoc[r] IN
    /\ del[r] = "vectors"
    /\ \/ /\ vec' = [c \in Contents |-> IF vec[c] = d THEN 0 ELSE vec[c]]
          /\ unindexed' = unindexed \cup {d}
          /\ DelTo(r, "row")
          /\ UNCHANGED <<files, delDoc, delHas, faults>>
       \/ Fault /\ Restore(r) /\ UNCHANGED <<vec, unindexed>>
    /\ UNCHANGED <<docVars, taskVars, upVars, race>>

\* db.delete and commit; if that fails the directory is put back.
DeleteRow(r) ==
    LET d == delDoc[r] IN
    /\ del[r] = "row"
    /\ \/ /\ doc' = [doc EXCEPT ![d] = "deleted"]
          /\ DelTo(r, "clean")
          /\ UNCHANGED <<files, delDoc, delHas, faults>>
       \/ Fault /\ Restore(r) /\ UNCHANGED doc
    /\ UNCHANGED <<content, nextId, vec, taskVars, upVars, unindexed, race>>

\* rmtree of what this request staged; an OSError leaves it there.
DeleteClean(r) ==
    /\ del[r] = "clean"
    /\ \/ /\ files' = [files EXCEPT ![delDoc[r]] = IF delHas[r] THEN "none" ELSE @]
          /\ UNCHANGED faults
       \/ Fault /\ UNCHANGED files
    /\ DelEnds(r)
    /\ UNCHANGED <<docVars, vec, taskVars, upVars, unindexed, race>>

DeleteDies(r) ==
    /\ del[r] # "idle"
    /\ Fault
    /\ DelEnds(r)
    /\ UNCHANGED <<docVars, files, vec, taskVars, upVars, unindexed, race>>

-----------------------------------------------------------------------------
Upload(u) ==
    \/ \E c \in Contents : UploadStart(u, c)
    \/ UploadQuota(u) \/ UploadInsert(u) \/ UploadStore(u) \/ UploadCommit(u)

Ingest(d) ==
    \/ Claim(d) \/ Begin(d) \/ Read(d) \/ Raise(d) \/ FailDoc(d) \/ Clear(d)
    \/ Write(d) \/ Succeed(d) \/ Index(d) \/ Usage(d)
    \/ MarkFailed(d) \/ Reap(d) \/ Requeue(d) \/ Recover(d)

Delete(r) ==
    \/ \E d \in Docs : DeleteStart(r, d)
    \/ DeleteStage(r) \/ DeleteVectors(r) \/ DeleteRow(r) \/ DeleteClean(r)

Next ==
    \/ \E u \in Uploads : Upload(u) \/ UploadDies(u)
    \/ \E d \in Docs : Ingest(d) \/ Kill(d) \/ WorkerDies(d)
    \/ \E r \in Deletes : Delete(r) \/ DeleteDies(r)

Spec == Init /\ [][Next]_vars

\* Workers and started requests make progress; nobody has to start a request.
FairSpec ==
    /\ Spec
    /\ \A d \in Docs : WF_vars(Ingest(d))

-----------------------------------------------------------------------------
(* Properties.                                                             *)

TypeOK ==
    /\ doc \in [Docs -> {"none", "processing", "indexed", "failed", "deleted"}]
    /\ content \in [Docs -> Contents \cup {NoContent}]
    /\ nextId \in 1..(NumDocs + 1)
    /\ files \in [Docs -> {"none", "home", "staged"}]
    /\ vec \in [Contents -> Docs \cup {0}]
    /\ task \in [Docs -> {"absent", "pending", "running", "success", "failed"}]
    /\ tries \in [Docs -> 0..MaxRetry]
    /\ ing \in [Docs -> {"idle", "begin", "read", "clear", "write", "succeed",
                         "index", "usage", "faildoc", "killed", "exit", "requeue"}]
    /\ up \in [Uploads -> {"idle", "quota", "insert", "store", "commit"}]
    /\ upFor \in [Uploads -> Contents \cup {NoContent}]
    /\ upDoc \in [Uploads -> Docs \cup {0}]
    /\ del \in [Deletes -> {"idle", "stage", "vectors", "row", "clean"}]
    /\ delDoc \in [Deletes -> Docs \cup {0}]
    /\ delHas \in [Deletes -> BOOLEAN]
    /\ unindexed \subseteq Docs
    /\ race \in [Docs -> {"none", "admitted", "retried"}]
    /\ faults \in 0..MaxFaults

\* The window of the delete guard: a delete was let through while a worker had the
\* document's task in hand (FAILED or SUCCESS is written before the worker is
\* done), and then the worker put the task back for another attempt.
Raced(d) == race[d] = "retried"

\* No chunk in the vector store belongs to a deleted document, a search never cites
\* what the user removed - unless the task was retried after the delete was let
\* through.
NoOrphanVectors ==
    \A c \in Contents :
        vec[c] # 0 /\ doc[vec[c]] = "deleted" => Raced(vec[c])

\* The same without the exception: what the 409 of delete_knowledge_document
\* ("still processing and cannot be deleted") is there for.  The code does not
\* keep this one.
NoOrphansAtAll ==
    \A c \in Contents : vec[c] # 0 => doc[vec[c]] # "deleted"

\* An indexed document loses its chunks only to a request to delete it, never to
\* the ingestion of another document or of a later upload of the same file; but a
\* raced retry of a deleted document takes over the chunk ids of its content.
IndexedSearchable ==
    \A d \in Docs :
        /\ doc[d] = "indexed" /\ d \notin unindexed
        /\ \A e \in Docs : Raced(e) => content[e] # content[d]
        => vec[content[d]] = d

\* A task that still has to run finds its file (the 409 guard of the delete), but
\* in the same case.
ActiveHasFile ==
    \A d \in Docs :
        task[d] \in {"pending", "running"} /\ ~Raced(d) => files[d] = "home"

\* The quota is overshot by the uploads in flight at most: can_upload is read
\* before the insert, so uploads past it count as documents already.
Admitted == {u \in Uploads : up[u] \in {"insert", "store", "commit"}}
QuotaOvershoot ==
    Cardinality(Existing) + Cardinality(Admitted)
        <= MaxDocuments + Cardinality(Uploads) - 1

\* The processing task moves as TaskLifecycle says, which TaskWorker implements.
Tasks == INSTANCE TaskLifecycle
            WITH Tasks <- Docs, status <- task, retry <- tries
TasksFollow == Tasks!Spec

\* A document does not stay "processing" for ever: the 409 of the delete request
\* says it is "still processing".
ProcessingEnds ==
    \A d \in Docs : doc[d] = "processing" ~> doc[d] # "processing"
=============================================================================
