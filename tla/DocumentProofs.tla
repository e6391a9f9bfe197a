-------------------------- MODULE DocumentProofs --------------------------
(***************************************************************************)
(* Proofs about DocumentLifecycle, for any number of documents, contents,  *)
(* requests, retries and faults.                                           *)
(***************************************************************************)
EXTENDS DocumentLifecycle, FiniteSetTheorems, WellFoundedInduction, TLAPS

USE DEF docVars, taskVars, upVars, delVars, UpTo, UpEnds, At, SetTask, SetDoc,
        DelTo, DelEnds, Restore, Fault

-----------------------------------------------------------------------------
(* The inductive invariant.                                                *)

\* Nobody works for the task and nobody will: only PENDING is claimed and only
\* RUNNING is recovered.  Or the attempt is over, up to the worker's aftermath, and
\* a delete was let through, so that putting the task back is a race.
Tail == {"usage", "killed", "exit", "requeue"}
Dormant(d) ==
    /\ task[d] \in {"success", "failed"}
    /\ ing[d] = "idle" \/ (race[d] = "admitted" /\ ing[d] \in Tail)

\* A row comes with its task and its content, under an id the sequence gave out.
Rows ==
    /\ \A d \in Docs :
        /\ doc[d] = "none" <=> task[d] = "absent"
        /\ doc[d] = "none" => ing[d] = "idle"
        /\ doc[d] # "none" => d < nextId /\ content[d] \in Contents
    /\ \A c \in Contents : vec[c] # 0 => doc[vec[c]] # "none"

\* An upload's uncommitted row has an id and a content of its own.
Flushed ==
    \A u \in Uploads :
        /\ up[u] # "idle" => upFor[u] \in Contents
        /\ up[u] \in {"store", "commit"} <=> upDoc[u] # 0
        /\ upDoc[u] # 0 =>
            /\ upDoc[u] < nextId /\ doc[upDoc[u]] = "none"
            /\ \A d \in Docs : Exists(d) => content[d] # upFor[u]
            /\ \A v \in Uploads : v # u /\ upDoc[v] # 0 =>
                    upDoc[v] # upDoc[u] /\ upFor[v] # upFor[u]

\* The unique index on tenant and content.
Unique ==
    \A d, e \in Docs : Exists(d) /\ Exists(e) /\ content[d] = content[e] => d = e

\* What the place of a handler says of its task.
TaskAt(p) ==
    CASE p \in {"begin", "read", "clear", "write", "succeed"} -> {"running"}
      [] p \in {"index", "usage"} -> {"success"}
      [] p \in {"faildoc", "requeue"} -> {"failed"}
      [] p = "exit" -> {"success", "failed"}
      [] p = "killed" -> {"running", "success", "failed"}
      [] OTHER -> {"absent", "pending", "running", "success", "failed"}
Tracked ==
    \A d \in Docs :
        task[d] \in TaskAt(ing[d]) /\ (ing[d] = "requeue" => tries[d] > 0)

\* A request to delete is about a row that was there.
Requested ==
    \A r \in Deletes :
        /\ del[r] = "idle" <=> delDoc[r] = 0
        /\ delDoc[r] # 0 => doc[delDoc[r]] # "none"

BInv == TypeOK /\ Rows /\ Flushed /\ Unique /\ Tracked /\ Requested

\* No raced retry is about the content of this document.
Undisturbed(d) == \A e \in Docs : Raced(e) => content[e] # content[d]

\* A handler works on an existing document, and has its chunks in the store from
\* the write to "indexed".
Working ==
    \A d \in Docs :
        /\ ~Raced(d) /\ ing[d] \in {"read", "clear", "write", "succeed", "index", "faildoc"} =>
              doc[d] = "processing"
        /\ Undisturbed(d) /\ ing[d] \in {"succeed", "index"} => vec[content[d]] = d

\* What a delete request works on, and what it has deleted, is left alone, but for
\* raced retries.
Deleting ==
    /\ \A r \in Deletes : delDoc[r] # 0 /\ ~Raced(delDoc[r]) =>
        /\ Dormant(delDoc[r]) /\ doc[delDoc[r]] # "processing"
        /\ del[r] \in {"row", "clean"} => \A c \in Contents : vec[c] # delDoc[r]
    /\ \A d \in Docs : doc[d] = "deleted" /\ ~Raced(d) =>
        Dormant(d) /\ \A c \in Contents : vec[c] # d
    /\ \A d \in Docs : race[d] = "admitted" => Dormant(d)
    /\ \A d \in Docs : Raced(d) => doc[d] # "none"

\* A task that will run, or may be tried again, has its file.
Filed ==
    /\ \A d \in Docs : ~Raced(d) /\ doc[d] # "none" /\ ~Dormant(d) => files[d] = "home"
    /\ \A u \in Uploads : up[u] = "commit" => files[upDoc[u]] = "home"

IInv == BInv /\ Working /\ Deleting /\ Filed /\ IndexedSearchable

-----------------------------------------------------------------------------
(* Types.                                                                  *)

\* Every step keeps the types.
LEMMA StepTyped ==
    ASSUME TypeOK, Requested, [Next]_vars
    PROVE  TypeOK'
<1> USE DocumentAssumption, ContentAssumption DEF TypeOK
<1>1. ASSUME NEW u \in Uploads, NEW c \in Contents, UploadStart(u, c) PROVE TypeOK'
  BY <1>1 DEF UploadStart
<1>2. ASSUME NEW u \in Uploads, UploadQuota(u) PROVE TypeOK'
  BY <1>2 DEF UploadQuota
<1>3. ASSUME NEW u \in Uploads, UploadInsert(u) PROVE TypeOK'
  <2>1. CASE UpEnds(u) /\ UNCHANGED nextId
    BY <1>3, <2>1 DEF UploadInsert
  <2>2. CASE nextId \in Docs /\ nextId' = nextId + 1
    <3>1. nextId' \in 1..(NumDocs + 1)
      BY <2>2 DEF Docs
    <3> QED BY <1>3, <2>2, <3>1 DEF UploadInsert
  <2> QED BY <1>3, <2>1, <2>2 DEF UploadInsert
<1>4. ASSUME NEW u \in Uploads, UploadStore(u) PROVE TypeOK'
  BY <1>4 DEF UploadStore
<1>5. ASSUME NEW u \in Uploads, UploadCommit(u) PROVE TypeOK'
  BY <1>5 DEF UploadCommit
<1>6. ASSUME NEW u \in Uploads, UploadDies(u) PROVE TypeOK'
  BY <1>6 DEF UploadDies
<1>7. ASSUME NEW d \in Docs, Claim(d) PROVE TypeOK'
  BY <1>7 DEF Claim
<1>8. ASSUME NEW d \in Docs, Begin(d) PROVE TypeOK'
  BY <1>8 DEF Begin
<1>9. ASSUME NEW d \in Docs, Read(d) PROVE TypeOK'
  BY <1>9 DEF Read
<1>10. ASSUME NEW d \in Docs, Raise(d) PROVE TypeOK'
  BY <1>10 DEF Raise
<1>11. ASSUME NEW d \in Docs, FailDoc(d) PROVE TypeOK'
  BY <1>11 DEF FailDoc
<1>12. ASSUME NEW d \in Docs, Clear(d) PROVE TypeOK'
  BY <1>12 DEF Clear
<1>13. ASSUME NEW d \in Docs, Write(d) PROVE TypeOK'
  BY <1>13 DEF Write
<1>14. ASSUME NEW d \in Docs, Succeed(d) PROVE TypeOK'
  BY <1>14 DEF Succeed
<1>15. ASSUME NEW d \in Docs, Index(d) PROVE TypeOK'
  BY <1>15 DEF Index
<1>16. ASSUME NEW d \in Docs, Usage(d) PROVE TypeOK'
  BY <1>16 DEF Usage
<1>17. ASSUME NEW d \in Docs, MarkFailed(d) PROVE TypeOK'
  BY <1>17 DEF MarkFailed
<1>18. ASSUME NEW d \in Docs, Reap(d) PROVE TypeOK'
  BY <1>18 DEF Reap
<1>19. ASSUME NEW d \in Docs, Requeue(d) PROVE TypeOK'
  BY <1>19 DEF Requeue
<1>20. ASSUME NEW d \in Docs, Recover(d) PROVE TypeOK'
  BY <1>20 DEF Recover
<1>21. ASSUME NEW d \in Docs, Kill(d) PROVE TypeOK'
  BY <1>21 DEF Kill
<1>22. ASSUME NEW d \in Docs, WorkerDies(d) PROVE TypeOK'
  BY <1>22 DEF WorkerDies
<1>23. ASSUME NEW r \in Deletes, NEW d \in Docs, DeleteStart(r, d) PROVE TypeOK'
  BY <1>23 DEF DeleteStart
<1>24. ASSUME NEW r \in Deletes, DeleteStage(r) PROVE TypeOK'
  <2>1. delHas' \in [Deletes -> BOOLEAN]
    BY <1>24, Zenon DEF DeleteStage
  <2> QED BY <1>24, <2>1 DEF DeleteStage
<1>25. ASSUME NEW r \in Deletes, DeleteVectors(r) PROVE TypeOK'
  <2>1. delHas' \in [Deletes -> BOOLEAN]
    BY <1>25, Zenon DEF DeleteVectors
  <2>2. delDoc[r] \in Docs
    BY <1>25 DEF DeleteVectors, Requested
  <2> QED BY <1>25, <2>1, <2>2 DEF DeleteVectors
<1>26. ASSUME NEW r \in Deletes, DeleteRow(r) PROVE TypeOK'
  <2>1. delHas' \in [Deletes -> BOOLEAN]
    BY <1>26, Zenon DEF DeleteRow
  <2> QED BY <1>26, <2>1 DEF DeleteRow
<1>27. ASSUME NEW r \in Deletes, DeleteClean(r) PROVE TypeOK'
  BY <1>27 DEF DeleteClean
<1>28. ASSUME NEW r \in Deletes, DeleteDies(r) PROVE TypeOK'
  BY <1>28 DEF DeleteDies
<1>29. CASE UNCHANGED vars
  BY <1>29 DEF vars
<1> QED
  BY <1>1, <1>2, <1>3, <1>4, <1>5, <1>6, <1>7, <1>8, <1>9, <1>10, <1>11, <1>12, <1>13, <1>14,
       <1>15, <1>16, <1>17, <1>18, <1>19, <1>20, <1>21, <1>22, <1>23, <1>24, <1>25, <1>26,
       <1>27, <1>28, <1>29 DEF Next, Upload, Ingest, Delete
-----------------------------------------------------------------------------
(* What the steps of one part leave alone.                                 *)

Uploading(u) == Upload(u) \/ UploadDies(u)
Ingesting(d) == Ingest(d) \/ Kill(d) \/ WorkerDies(d)
Removing(r) == Delete(r) \/ DeleteDies(r)

\* An ingestion writes the status of its own document, and neither makes nor
\* removes a row.
LEMMA IngestFrame ==
    ASSUME TypeOK, NEW d \in Docs, Ingesting(d)
    PROVE  /\ UNCHANGED <<content, nextId, files, upVars, del, delDoc, delHas, unindexed>>
           /\ \/ UNCHANGED race
              \/ /\ ing[d] = "requeue" /\ race[d] = "admitted"
                 /\ race' = [race EXCEPT ![d] = "retried"]
           /\ doc' = [doc EXCEPT ![d] = doc'[d]]
           /\ Exists(d)' = Exists(d)
           /\ ~Exists(d) => doc'[d] = doc[d]
           /\ \E s \in {"absent", "pending", "running", "success", "failed"} : SetTask(d, s)
           /\ \E n \in Nat : tries' = [tries EXCEPT ![d] = n]
           /\ \E p : ing' = [ing EXCEPT ![d] = p]
<1> USE DEF TypeOK, Exists
<1>1. CASE Begin(d) \/ FailDoc(d) \/ Index(d)
  BY <1>1 DEF Begin, FailDoc, Index
<1>2. CASE Claim(d) \/ Read(d) \/ Raise(d) \/ Clear(d) \/ Write(d)
  BY <1>2 DEF Claim, Read, Raise, Clear, Write
<1>3. CASE Succeed(d) \/ Usage(d) \/ MarkFailed(d) \/ Reap(d)
  BY <1>3 DEF Succeed, Usage, MarkFailed, Reap
<1>4. CASE Recover(d) \/ Kill(d) \/ WorkerDies(d)
  BY <1>4 DEF Recover, Kill, WorkerDies
<1>5. CASE Requeue(d)
  <2>1. \/ UNCHANGED race
        \/ /\ ing[d] = "requeue" /\ race[d] = "admitted"
           /\ race' = [race EXCEPT ![d] = "retried"]
    BY <1>5 DEF Requeue
  <2>2. /\ UNCHANGED <<doc, content, nextId, files, upVars, del, delDoc, delHas, unindexed, tries>>
        /\ SetTask(d, "pending") /\ ing' = [ing EXCEPT ![d] = "idle"]
    BY <1>5 DEF Requeue
  <2>3. doc' = [doc EXCEPT ![d] = doc'[d]] /\ tries' = [tries EXCEPT ![d] = tries[d]] /\ tries[d] \in Nat
    BY <2>2, DocumentAssumption
  <2> QED BY <2>1, <2>2, <2>3
<1> QED BY <1>1, <1>2, <1>3, <1>4, <1>5 DEF Ingesting, Ingest

\* A delete changes one document's status, to "deleted", its directory and chunks.
LEMMA DeleteFrame ==
    ASSUME TypeOK, NEW r \in Deletes, Removing(r)
    PROVE  /\ UNCHANGED <<content, nextId, taskVars, upVars>>
           /\ \/ UNCHANGED doc
              \/ del[r] = "row" /\ doc' = [doc EXCEPT ![delDoc[r]] = "deleted"]
           /\ \/ UNCHANGED files
              \/ del[r] # "idle" /\ files' = [files EXCEPT ![delDoc[r]] = files'[delDoc[r]]]
           /\ \/ UNCHANGED <<vec, unindexed>>
              \/ /\ del[r] = "vectors" /\ unindexed' = unindexed \cup {delDoc[r]}
                 /\ vec' = [c \in Contents |-> IF vec[c] = delDoc[r] THEN 0 ELSE vec[c]]
           /\ \A q \in Deletes \ {r} : del'[q] = del[q] /\ delDoc'[q] = delDoc[q]
           /\ del'[r] # "idle" /\ del[r] # "idle" => delDoc'[r] = delDoc[r]
           /\ del'[r] \in {"row", "clean"} => del[r] \in {"vectors", "row"}
           /\ \/ UNCHANGED race
              \/ \E d \in Docs : /\ DeleteStart(r, d) /\ race[d] = "none" /\ ing[d] # "idle"
                                 /\ race' = [race EXCEPT ![d] = "admitted"]
<1> USE DEF TypeOK
<1>1. ASSUME NEW d \in Docs, DeleteStart(r, d) PROVE UNCHANGED <<docVars, files, vec, taskVars, upVars, unindexed>>
  BY <1>1 DEF DeleteStart
<1>2. CASE DeleteStage(r)
  BY <1>2 DEF DeleteStage
<1>3. CASE DeleteVectors(r)
  BY <1>3 DEF DeleteVectors
<1>4. CASE DeleteRow(r)
  BY <1>4 DEF DeleteRow
<1>5. CASE DeleteClean(r) \/ DeleteDies(r)
  BY <1>5 DEF DeleteClean, DeleteDies
<1>6. ASSUME NEW d \in Docs, DeleteStart(r, d)
      PROVE  /\ \A q \in Deletes \ {r} : del'[q] = del[q] /\ delDoc'[q] = delDoc[q]
             /\ del[r] = "idle" /\ del'[r] = "stage"
             /\ UNCHANGED race \/ (/\ race[d] = "none" /\ ing[d] # "idle"
                                   /\ race' = [race EXCEPT ![d] = "admitted"])
  BY <1>6 DEF DeleteStart
<1> QED BY <1>1, <1>2, <1>3, <1>4, <1>5, <1>6 DEF Removing, Delete

\* An upload touches its own request, and at the end its own row and task.
LEMMA UploadFrame ==
    ASSUME TypeOK, NEW u \in Uploads, Uploading(u)
    PROVE  /\ UNCHANGED <<vec, tries, ing, delVars>>
           /\ UploadCommit(u) \/ UNCHANGED <<doc, content, task>>
           /\ UploadInsert(u) \/ UNCHANGED nextId
           /\ UploadStore(u) \/ UNCHANGED files
           /\ nextId' \in {nextId, nextId + 1}
<1>1. ASSUME NEW c \in Contents, UploadStart(u, c)
      PROVE  UNCHANGED <<docVars, files, vec, taskVars, delVars>>
  BY <1>1 DEF UploadStart
<1>2. CASE UploadQuota(u) \/ UploadInsert(u)
  BY <1>2 DEF UploadQuota, UploadInsert
<1>3. CASE UploadStore(u) \/ UploadCommit(u) \/ UploadDies(u)
  BY <1>3 DEF UploadStore, UploadCommit, UploadDies
<1> QED BY <1>1, <1>2, <1>3 DEF Uploading, Upload

\* Every step is a step of one of the three.
LEMMA Parts ==
    ASSUME Next
    PROVE  \/ \E u \in Uploads : Uploading(u)
           \/ \E d \in Docs : Ingesting(d)
           \/ \E r \in Deletes : Removing(r)
BY DEF Next, Uploading, Ingesting, Removing

-----------------------------------------------------------------------------
(* The part of the invariant that deletes and retries cannot disturb.      *)

\* Every step keeps the handler's place and its task's status together.
LEMMA StepTracked ==
    ASSUME BInv, Next
    PROVE  Tracked'
<1> USE DEF BInv, Tracked, TaskAt, TypeOK
<1>1. ASSUME NEW u \in Uploads, Uploading(u) PROVE Tracked'
  <2>1. CASE UploadCommit(u)
    <3>1. upDoc[u] \in Docs /\ ing[upDoc[u]] = "idle"
      BY <2>1 DEF UploadCommit, Flushed, Rows
    <3> QED BY <2>1, <3>1 DEF UploadCommit
  <2> QED BY <1>1, <2>1, UploadFrame
<1>2. ASSUME NEW d \in Docs, Ingesting(d) PROVE Tracked'
  <2>1. CASE Claim(d) \/ Begin(d) \/ Read(d) \/ Raise(d)
    BY <2>1 DEF Claim, Begin, Read, Raise
  <2>2. CASE FailDoc(d) \/ Clear(d) \/ Write(d) \/ Succeed(d)
    BY <2>2 DEF FailDoc, Clear, Write, Succeed
  <2>3. CASE Index(d) \/ Usage(d) \/ MarkFailed(d) \/ Reap(d)
    BY <2>3 DEF Index, Usage, MarkFailed, Reap
  <2>4. CASE Requeue(d) \/ Recover(d) \/ Kill(d) \/ WorkerDies(d)
    BY <2>4 DEF Requeue, Recover, Kill, WorkerDies
  <2> QED BY <1>2, <2>1, <2>2, <2>3, <2>4 DEF Ingesting, Ingest
<1>3. ASSUME NEW r \in Deletes, Removing(r) PROVE Tracked'
  BY <1>3, DeleteFrame
<1> QED BY <1>1, <1>2, <1>3, Parts

\* Every step keeps the delete requests about rows that were there.
LEMMA StepRequested ==
    ASSUME BInv, Next
    PROVE  Requested'
<1> USE DEF BInv, Requested, TypeOK
<1>1. ASSUME NEW u \in Uploads, Uploading(u) PROVE Requested'
  BY <1>1, UploadFrame DEF UploadCommit
<1>2. ASSUME NEW d \in Docs, Ingesting(d) PROVE Requested'
  BY <1>2, IngestFrame DEF Exists
<1>3. ASSUME NEW r \in Deletes, Removing(r) PROVE Requested'
  <2>1. ASSUME NEW d \in Docs, DeleteStart(r, d) PROVE Requested'
    BY <2>1 DEF DeleteStart, Exists, Docs
  <2>2. CASE DeleteStage(r) \/ DeleteVectors(r)
    BY <2>2 DEF DeleteStage, DeleteVectors
  <2>3. CASE DeleteRow(r) \/ DeleteClean(r) \/ DeleteDies(r)
    BY <2>3 DEF DeleteRow, DeleteClean, DeleteDies
  <2> QED BY <1>3, <2>1, <2>2, <2>3 DEF Removing, Delete
<1> QED BY <1>1, <1>2, <1>3, Parts

\* Every step keeps rows, tasks, ids and vectors together.
LEMMA StepRows ==
    ASSUME BInv, Next
    PROVE  Rows'
<1> USE DEF BInv, Rows, TypeOK, Exists
<1>1. ASSUME NEW u \in Uploads, Uploading(u) PROVE Rows'
  <2>1. CASE UploadCommit(u)
    <3>1. upDoc[u] \in Docs /\ upFor[u] \in Contents /\ upDoc[u] < nextId
      BY <2>1 DEF UploadCommit, Flushed
    <3> QED BY <2>1, <3>1 DEF UploadCommit
  <2>2. CASE UNCHANGED <<doc, content, task>>
    <3>1. \A d \in Docs : d < nextId => d < nextId'
      BY <1>1, UploadFrame DEF Docs
    <3> QED BY <1>1, <2>2, <3>1, UploadFrame
  <2> QED BY <1>1, <2>1, <2>2, UploadFrame
<1>2. ASSUME NEW d \in Docs, Ingesting(d) PROVE Rows'
  <2>1. doc[d] # "none"
    BY <1>2 DEF Ingesting, Ingest, Claim, Begin, Read, Raise, FailDoc, Clear, Write,
       Succeed, Index, Usage, MarkFailed, Reap, Requeue, Recover, Kill, WorkerDies
  <2>2. doc'[d] # "none" /\ \A e \in Docs \ {d} : doc'[e] = doc[e]
    BY <1>2, <2>1, IngestFrame
  <2>3. task'[d] # "absent" /\ \A e \in Docs \ {d} : task'[e] = task[e] /\ ing'[e] = ing[e]
    BY <1>2, <2>1 DEF Ingesting, Ingest, Claim, Begin, Read, Raise, FailDoc, Clear, Write,
       Succeed, Index, Usage, MarkFailed, Reap, Requeue, Recover, Kill, WorkerDies
  <2>4. \A c \in Contents : vec'[c] \in {0, d, vec[c]}
    BY <1>2 DEF Ingesting, Ingest, Claim, Begin, Read, Raise, FailDoc, Clear, Write,
       Succeed, Index, Usage, MarkFailed, Reap, Requeue, Recover, Kill, WorkerDies
  <2>5. UNCHANGED <<content, nextId>>
    BY <1>2, IngestFrame
  <2> QED BY <2>1, <2>2, <2>3, <2>4, <2>5
<1>3. ASSUME NEW r \in Deletes, Removing(r) PROVE Rows'
  <2>1. \A d \in Docs : doc'[d] = "none" <=> doc[d] = "none"
    BY <1>3, DeleteFrame DEF Requested
  <2>2. \A c \in Contents : vec'[c] \in {0, vec[c]}
    BY <1>3, DeleteFrame
  <2> QED BY <1>3, <2>1, <2>2, DeleteFrame
<1> QED BY <1>1, <1>2, <1>3, Parts

\* Every step keeps the uncommitted rows of the uploads apart.
LEMMA StepFlushed ==
    ASSUME BInv, Next
    PROVE  Flushed'
<1> USE DEF BInv, Flushed, TypeOK
<1>1. ASSUME NEW u \in Uploads, Uploading(u) PROVE Flushed'
  <2>1. ASSUME NEW c \in Contents, UploadStart(u, c) PROVE Flushed'
    BY <2>1 DEF UploadStart, Exists
  <2>2. CASE UploadQuota(u)
    BY <2>2 DEF UploadQuota, Exists
  <2>3. CASE UploadInsert(u)
    <3>1. CASE UpEnds(u) /\ UNCHANGED nextId
      BY <2>3, <3>1 DEF UploadInsert, Exists
    <3>2. CASE nextId \in Docs /\ nextId' = nextId + 1
      <4>1. nextId # 0 /\ \A d \in Docs : d < nextId => d < nextId + 1
        BY DEF Docs
      <4>2. doc[nextId] = "none"
        BY <3>2 DEF Rows, Docs
      <4>3. \A v \in Uploads : upDoc[v] # nextId
        BY <3>2, <4>1 DEF Docs
      <4> QED BY <2>3, <3>2, <4>1, <4>2, <4>3 DEF UploadInsert, Existing, Exists, Docs
    <3> QED BY <2>3, <3>1, <3>2 DEF UploadInsert
  <2>4. CASE UploadStore(u)
    BY <2>4 DEF UploadStore, Exists
  <2>5. CASE UploadCommit(u)
    BY <2>5 DEF UploadCommit, Exists
  <2>6. CASE UploadDies(u)
    BY <2>6 DEF UploadDies, Exists
  <2> QED BY <1>1, <2>1, <2>2, <2>3, <2>4, <2>5, <2>6 DEF Uploading, Upload
<1>2. ASSUME NEW d \in Docs, Ingesting(d) PROVE Flushed'
  BY <1>2, IngestFrame DEF Exists
<1>3. ASSUME NEW r \in Deletes, Removing(r) PROVE Flushed'
  BY <1>3, DeleteFrame DEF Exists, Requested
<1> QED BY <1>1, <1>2, <1>3, Parts

\* Every step keeps the unique index.
LEMMA StepUnique ==
    ASSUME BInv, Next
    PROVE  Unique'
<1> USE DEF BInv, Unique, TypeOK, Exists
<1>1. ASSUME NEW u \in Uploads, Uploading(u) PROVE Unique'
  <2>1. CASE UploadCommit(u)
    BY <2>1 DEF UploadCommit, Flushed
  <2> QED BY <1>1, <2>1, UploadFrame
<1>2. ASSUME NEW d \in Docs, Ingesting(d) PROVE Unique'
  BY <1>2, IngestFrame
<1>3. ASSUME NEW r \in Deletes, Removing(r) PROVE Unique'
  BY <1>3, DeleteFrame
<1> QED BY <1>1, <1>2, <1>3, Parts

\* Every step keeps the invariant that needs no assumption on deletes.
LEMMA StepBasic ==
    ASSUME BInv, [Next]_vars
    PROVE  BInv'
<1>1. CASE Next
  BY <1>1, StepTyped, StepRows, StepFlushed, StepUnique, StepTracked, StepRequested DEF BInv
<1>2. CASE UNCHANGED vars
  <2>1. TypeOK'
    BY <1>2, StepTyped DEF BInv
  <2> QED
    BY <1>2, <2>1 DEF vars, BInv, Rows, Flushed, Unique, Tracked, TaskAt, Requested, Exists
<1> QED BY <1>1, <1>2

\* The initial state: no document yet.
LEMMA InitBasic == Init => BInv
<1> SUFFICES ASSUME Init PROVE BInv
  OBVIOUS
<1>1. TypeOK
  BY DocumentAssumption DEF Init, TypeOK, Docs
<1> QED
  BY <1>1 DEF Init, BInv, Rows, Flushed, Unique, Tracked, TaskAt, Requested, Exists, Docs

\* The tables, the requests and the handlers stay within their types.
THEOREM TypeCorrect == Spec => []TypeOK
<1>1. BInv => TypeOK
  BY DEF BInv
<1> QED BY <1>1, InitBasic, StepBasic, PTL DEF Spec

-----------------------------------------------------------------------------
(* The processing task refines TaskLifecycle, whatever deletes do.         *)

\* Every step of the system is a step of the task lifecycle or none.
LEMMA StepFollows ==
    ASSUME BInv, Next
    PROVE  Tasks!Next \/ UNCHANGED <<task, tries>>
<1> USE DEF BInv, TypeOK, Tasks!Move, Tasks!Create, Tasks!Start, Tasks!Succeed,
            Tasks!Fail, Tasks!SpendRetry, Tasks!Retry
<1>1. ASSUME NEW u \in Uploads, Uploading(u)
      PROVE  (\E d \in Docs : Tasks!Create(d)) \/ UNCHANGED <<task, tries>>
  <2>1. CASE UploadCommit(u)
    <3>1. upDoc[u] \in Docs /\ task[upDoc[u]] = "absent"
      BY <2>1 DEF UploadCommit, Flushed, Rows
    <3> QED BY <2>1, <3>1 DEF UploadCommit
  <2> QED BY <1>1, <2>1, UploadFrame
<1>2. ASSUME NEW d \in Docs, Ingesting(d), ~Recover(d)
      PROVE  \/ Tasks!Start(d) \/ Tasks!Succeed(d) \/ Tasks!Fail(d)
             \/ Tasks!SpendRetry(d) \/ Tasks!Retry(d)
             \/ UNCHANGED <<task, tries>>
  <2> USE DEF Tracked, TaskAt
  <2>1. CASE Claim(d) \/ Begin(d) \/ Read(d) \/ Raise(d)
    BY <2>1 DEF Claim, Begin, Read, Raise
  <2>2. CASE FailDoc(d) \/ Clear(d) \/ Write(d) \/ Succeed(d)
    BY <2>2 DEF FailDoc, Clear, Write, Succeed
  <2>3. CASE Index(d) \/ Usage(d) \/ MarkFailed(d) \/ Reap(d)
    BY <2>3 DEF Index, Usage, MarkFailed, Reap
  <2>4. CASE Requeue(d) \/ Kill(d) \/ WorkerDies(d)
    BY <2>4 DEF Requeue, Kill, WorkerDies
  <2> QED BY <1>2, <2>1, <2>2, <2>3, <2>4 DEF Ingesting, Ingest
<1>3. ASSUME NEW d \in Docs, Recover(d) PROVE Tasks!Recover
  <2>1. task[d] = "running" /\ UNCHANGED tries
    BY <1>3 DEF Recover
  <2>2. task' = [e \in Docs |-> IF e \in {d} THEN "pending" ELSE task[e]]
    BY <1>3 DEF Recover
  <2>3. {d} \in SUBSET Docs /\ \A e \in {d} : task[e] = "running"
    BY <2>1
  <2> QED BY <2>1, <2>2, <2>3 DEF Tasks!Recover
<1>4. ASSUME NEW r \in Deletes, Removing(r) PROVE UNCHANGED <<task, tries>>
  BY <1>4, DeleteFrame
<1> QED BY <1>1, <1>2, <1>3, <1>4, Parts DEF Tasks!Next

\* A client that polls the processing task of a document sees the moves of
\* TaskLifecycle only, also when the document is deleted under the task.
THEOREM DocumentTasksFollow == Spec => TasksFollow
<1>1. Init => Tasks!Init
  BY DEF Init, Tasks!Init
<1>2. BInv /\ [Next]_vars => [Tasks!Next]_(Tasks!vars)
  BY StepFollows DEF vars, Tasks!vars
<1> QED BY <1>1, <1>2, InitBasic, StepBasic, PTL DEF Spec, TasksFollow, Tasks!Spec

-----------------------------------------------------------------------------
(* The quota.                                                              *)

\* The sets that the quota counts are finite.
LEMMA Sizes ==
    ASSUME NEW E \in SUBSET Docs, NEW A \in SUBSET Uploads
    PROVE  /\ IsFiniteSet(E) /\ Cardinality(E) \in Nat
           /\ IsFiniteSet(A) /\ Cardinality(A) \in Nat
           /\ Cardinality(Uploads) \in Nat /\ Cardinality(A) <= Cardinality(Uploads)
<1>1. IsFiniteSet(Docs)
  BY FS_Interval, DocumentAssumption DEF Docs
<1>2. IsFiniteSet(E) /\ IsFiniteSet(A) /\ Cardinality(A) <= Cardinality(Uploads)
  BY <1>1, FS_Subset, DocumentAssumption
<1> QED BY <1>2, FS_CardinalityType, DocumentAssumption

\* What a step does to the documents that count and to the uploads past the
\* quota: only a commit adds a document, and it takes its own upload away.
LEMMA QuotaMoves ==
    ASSUME BInv, Next
    PROVE  \/ Existing' \in SUBSET Existing /\ Admitted' \in SUBSET Admitted
           \/ Existing' = Existing /\ Cardinality(Existing) < MaxDocuments
           \/ \E d \in Docs, u \in Admitted :
                Existing' = Existing \cup {d} /\ Admitted' = Admitted \ {u}
<1> USE DEF BInv, TypeOK, Existing, Admitted
<1>1. ASSUME NEW u \in Uploads, Uploading(u)
      PROVE  \/ Existing' = Existing /\ Admitted' \in SUBSET Admitted
             \/ Existing' = Existing /\ Cardinality(Existing) < MaxDocuments
             \/ \E d \in Docs : u \in Admitted /\
                  Existing' = Existing \cup {d} /\ Admitted' = Admitted \ {u}
  <2>1. ASSUME NEW c \in Contents, UploadStart(u, c)
        PROVE  Existing' = Existing /\ Admitted' \in SUBSET Admitted
    BY <2>1 DEF UploadStart, Exists
  <2>2. CASE UploadQuota(u)
    <3>1. Existing' = Existing
      BY <2>2 DEF UploadQuota, Exists
    <3>2. CASE UpEnds(u)
      BY <3>1, <3>2
    <3> QED BY <2>2, <3>1, <3>2 DEF UploadQuota
  <2>3. CASE UploadInsert(u) \/ UploadStore(u) \/ UploadDies(u)
    BY <2>3 DEF UploadInsert, UploadStore, UploadDies, Exists
  <2>4. CASE UploadCommit(u)
    <3>1. upDoc[u] \in Docs /\ u \in Admitted
      BY <2>4 DEF UploadCommit, Flushed
    <3>2. Existing' = Existing \cup {upDoc[u]}
      BY <2>4, <3>1 DEF UploadCommit, Exists
    <3>3. Admitted' = Admitted \ {u}
      BY <2>4 DEF UploadCommit
    <3> QED BY <3>1, <3>2, <3>3
  <2> QED BY <1>1, <2>1, <2>2, <2>3, <2>4 DEF Uploading, Upload
<1>2. ASSUME NEW d \in Docs, Ingesting(d)
      PROVE  Existing' = Existing /\ Admitted' = Admitted
  BY <1>2, IngestFrame DEF Exists
<1>3. ASSUME NEW r \in Deletes, Removing(r)
      PROVE  Existing' \in SUBSET Existing /\ Admitted' = Admitted
  BY <1>3, DeleteFrame DEF Exists
<1> QED BY <1>1, <1>2, <1>3, Parts

\* However many uploads read the quota before the others' rows are committed,
\* the documents and the uploads past the check exceed the plan's limit by
\* less than the number of requests in flight.
THEOREM QuotaBounded == Spec => []QuotaOvershoot
<1> Existing \in SUBSET Docs /\ Admitted \in SUBSET Uploads
  BY DEF Existing, Admitted
<1>1. Init => QuotaOvershoot
  <2> SUFFICES ASSUME Init PROVE QuotaOvershoot
    OBVIOUS
  <2>1. Existing = {} /\ Admitted = {}
    BY DEF Init, Existing, Exists, Admitted
  <2>2. Cardinality(Uploads) >= 1
    BY Sizes, FS_EmptySet, DocumentAssumption
  <2> QED BY <2>1, <2>2, Sizes, FS_EmptySet, DocumentAssumption DEF QuotaOvershoot
<1>2. BInv /\ QuotaOvershoot /\ [Next]_vars => QuotaOvershoot'
  <2> SUFFICES ASSUME BInv, QuotaOvershoot, Next PROVE QuotaOvershoot'
    BY DEF vars, QuotaOvershoot, Existing, Exists, Admitted
  <2>1. Existing' \in SUBSET Docs /\ Admitted' \in SUBSET Uploads
    BY DEF Existing, Admitted
  <2>2. CASE Existing' \in SUBSET Existing /\ Admitted' \in SUBSET Admitted
    <3>1. Cardinality(Existing') <= Cardinality(Existing)
          /\ Cardinality(Admitted') <= Cardinality(Admitted)
      BY <2>2, Sizes, FS_Subset
    <3> QED BY <2>1, <3>1, Sizes, DocumentAssumption DEF QuotaOvershoot
  <2>3. CASE Existing' = Existing /\ Cardinality(Existing) < MaxDocuments
    BY <2>1, <2>3, Sizes, DocumentAssumption DEF QuotaOvershoot
  <2>4. ASSUME NEW d \in Docs, NEW u \in Admitted,
               Existing' = Existing \cup {d}, Admitted' = Admitted \ {u}
        PROVE  QuotaOvershoot'
    <3>1. Cardinality(Existing') <= Cardinality(Existing) + 1
      BY <2>1, <2>4, Sizes, FS_AddElement
    <3>2. Cardinality(Admitted') = Cardinality(Admitted) - 1
      BY <2>4, Sizes, FS_RemoveElement
    <3> QED BY <2>1, <3>1, <3>2, Sizes, DocumentAssumption DEF QuotaOvershoot
  <2> QED BY <2>2, <2>3, <2>4, QuotaMoves
<1> QED BY <1>1, <1>2, InitBasic, StepBasic, PTL DEF Spec

-----------------------------------------------------------------------------
(* What deletes leave alone.                                               *)

\* Once raced, always raced, and a document's content changes with its row only.
LEMMA StepRaced ==
    ASSUME IInv, Next
    PROVE  /\ \A d \in Docs : Raced(d) => Raced(d)'
           /\ \A d \in Docs : doc[d] # "none" => content'[d] = content[d] /\ doc'[d] # "none"
           /\ \A d \in Docs : doc[d] # "none" /\ Undisturbed(d)' => Undisturbed(d)
<1> USE DEF IInv, BInv, TypeOK, Raced
<1>1. /\ \A d \in Docs : Raced(d) => Raced(d)'
      /\ \A d \in Docs : doc[d] # "none" => content'[d] = content[d] /\ doc'[d] # "none"
  <2>1. ASSUME NEW u \in Uploads, Uploading(u)
        PROVE  UNCHANGED race /\ \A d \in Docs : doc[d] # "none" =>
                  content'[d] = content[d] /\ doc'[d] # "none"
    <3>1. CASE UploadCommit(u)
      BY <2>1, <3>1, UploadFrame DEF UploadCommit, Flushed
    <3>2. CASE ~UploadCommit(u)
      BY <2>1, <3>2, UploadFrame
    <3> QED BY <3>1, <3>2
  <2>2. ASSUME NEW e \in Docs, Ingesting(e)
        PROVE  /\ \A d \in Docs : Raced(d) => Raced(d)'
               /\ \A d \in Docs : doc[d] # "none" => content'[d] = content[d] /\ doc'[d] # "none"
    BY <2>2, IngestFrame DEF Exists
  <2>3. ASSUME NEW q \in Deletes, Removing(q)
        PROVE  /\ \A d \in Docs : Raced(d) => Raced(d)'
               /\ \A d \in Docs : doc[d] # "none" => content'[d] = content[d] /\ doc'[d] # "none"
    BY <2>3, DeleteFrame
  <2> QED BY <2>1, <2>2, <2>3, Parts
<1>2. \A d \in Docs : Raced(d) => doc[d] # "none"
  BY DEF Deleting
<1> HIDE DEF Raced, IInv
<1> QED BY <1>1, <1>2 DEF Undisturbed

\* A task that will run belongs to a row that is there and that no delete works on.
LEMMA Awake ==
    ASSUME IInv, NEW d \in Docs, ~Dormant(d), ~Raced(d), doc[d] # "none"
    PROVE  /\ Exists(d) /\ race[d] = "none"
           /\ \A r \in Deletes : delDoc[r] # d
<1> USE DEF IInv, BInv, TypeOK
<1>1. doc[d] # "deleted" /\ race[d] # "admitted"
  BY DEF Deleting
<1>2. \A r \in Deletes : delDoc[r] # d
  BY DEF Deleting, Docs
<1> QED BY <1>1, <1>2 DEF Exists, Raced

\* A worker that ends an attempt beside a delete only waits, or races.
LEMMA Ending ==
    ASSUME IInv, NEW d \in Docs, Ingesting(d), Dormant(d)
    PROVE  UNCHANGED <<doc, vec>> /\ (Dormant(d)' \/ Raced(d)')
<1> USE DEF IInv, BInv, TypeOK, Dormant, Tail
<1>1. CASE Requeue(d)
  BY <1>1 DEF Requeue, Raced
<1>2. CASE ~Requeue(d)
  BY <1>2 DEF Ingesting, Ingest, Claim, Begin, Read, Raise, FailDoc, Clear, Write,
       Succeed, Index, Usage, MarkFailed, Reap, Requeue, Recover, Kill, WorkerDies
<1> QED BY <1>1, <1>2

\* Every step leaves a working handler its document and its chunks.
LEMMA StepWorking ==
    ASSUME IInv, Next
    PROVE  Working'
<1> USE DEF IInv, BInv, TypeOK
<1>0. /\ \A e \in Docs : ~Raced(e)' => ~Raced(e)
      /\ \A e \in Docs : doc[e] # "none" /\ Undisturbed(e)' => Undisturbed(e)
      /\ \A e \in Docs : doc[e] # "none" => content'[e] = content[e]
  BY StepRaced
<1>1. ASSUME NEW u \in Uploads, Uploading(u) PROVE Working'
  <2>1. CASE UploadCommit(u)
    <3>1. upDoc[u] \in Docs /\ ing[upDoc[u]] = "idle" /\ UNCHANGED <<ing, vec>>
          /\ \A d \in Docs \ {upDoc[u]} : doc'[d] = doc[d]
      BY <2>1 DEF UploadCommit, Flushed, Rows
    <3>2. \A d \in Docs : ing[d] # "idle" => doc[d] # "none"
      BY DEF Rows
    <3> QED BY <1>0, <3>1, <3>2 DEF Working
  <2>2. CASE ~UploadCommit(u)
    <3>1. UNCHANGED <<vec, ing, doc>> /\ \A d \in Docs : ing[d] # "idle" => doc[d] # "none"
      BY <1>1, <2>2, UploadFrame DEF Rows
    <3> QED BY <1>0, <3>1 DEF Working
  <2> QED BY <2>1, <2>2
<1>2. ASSUME NEW d \in Docs, Ingesting(d), NEW e \in Docs, e # d
      PROVE  /\ ~Raced(e)' /\ ing'[e] \in {"read", "clear", "write", "succeed", "index", "faildoc"} =>
                    doc'[e] = "processing"
             /\ Undisturbed(e)' /\ ing'[e] \in {"succeed", "index"} => vec'[content'[e]] = e
  <2>1. ing'[e] = ing[e] /\ doc'[e] = doc[e] /\ (ing[e] # "idle" => doc[e] # "none")
    BY <1>2, IngestFrame DEF Rows
  <2>2. CASE ~Write(d)
    <3>1. \A c \in Contents : vec[c] = e => vec'[c] = e
      BY <1>2, <2>2 DEF Ingesting, Ingest, Claim, Begin, Read, Raise, FailDoc, Clear, Write,
       Succeed, Index, Usage, MarkFailed, Reap, Requeue, Recover, Kill, WorkerDies
    <3>2. doc[e] # "none" => content[e] \in Contents
      BY DEF Rows
    <3> QED BY <1>0, <2>1, <3>1, <3>2 DEF Working
  <2>3. CASE Write(d)
    <3>1. content[d] \in Contents /\ doc[d] # "none" /\ ing[d] = "write"
      BY <2>3 DEF Write, Rows
    <3>2. CASE Raced(d)
      <4>1. Undisturbed(e)' => content'[d] # content'[e]
        BY <3>2, StepRaced DEF Undisturbed
      <4>2. vec' = [vec EXCEPT ![content[d]] = d] /\ UNCHANGED content
        BY <2>3 DEF Write
      <4>3. doc[e] # "none" => content[e] \in Contents
        BY DEF Rows
      <4> QED BY <1>0, <2>1, <3>1, <4>1, <4>2, <4>3 DEF Working
    <3>3. CASE ~Raced(d)
      <4>1. Exists(d)
        BY <3>1, <3>3, Awake DEF Dormant, Tail
      <4>2. Undisturbed(e) /\ ing[e] \in {"succeed", "index"} => content[e] # content[d]
        <5>1. Undisturbed(e) /\ ing[e] \in {"succeed", "index"} => ~Raced(e) /\ doc[e] = "processing"
          BY DEF Working, Undisturbed
        <5> QED BY <1>2, <4>1, <5>1 DEF Unique, Exists
      <4>3. vec' = [vec EXCEPT ![content[d]] = d] /\ UNCHANGED content
        BY <2>3 DEF Write
      <4> QED BY <1>0, <2>1, <3>1, <4>2, <4>3 DEF Working
    <3> QED BY <3>2, <3>3
  <2> QED BY <2>2, <2>3
<1>3. ASSUME NEW d \in Docs, Ingesting(d)
      PROVE  /\ ~Raced(d)' /\ ing'[d] \in {"read", "clear", "write", "succeed", "index", "faildoc"} =>
                    doc'[d] = "processing"
             /\ Undisturbed(d)' /\ ing'[d] \in {"succeed", "index"} => vec'[content'[d]] = d
  <2>0. /\ ~Raced(d) /\ ing[d] \in {"read", "clear", "write", "succeed", "index", "faildoc"} =>
              doc[d] = "processing"
        /\ Undisturbed(d) /\ ing[d] \in {"succeed", "index"} => vec[content[d]] = d
        /\ ~Raced(d)' => ~Raced(d)
        /\ Undisturbed(d)' => Undisturbed(d)
    <3>1. doc[d] # "none"
      BY <1>3 DEF Ingesting, Ingest, Claim, Begin, Read, Raise, FailDoc, Clear, Write,
       Succeed, Index, Usage, MarkFailed, Reap, Requeue, Recover, Kill, WorkerDies, Rows
    <3> QED BY <1>0, <3>1 DEF Working
  <2>1. CASE Begin(d) \/ Read(d) \/ Raise(d) \/ Clear(d)
    BY <2>0, <2>1 DEF Begin, Read, Raise, Clear
  <2>2. CASE Write(d)
    <3>1. content[d] \in Contents
      BY <2>2 DEF Write, Rows
    <3> QED BY <2>0, <2>2, <3>1 DEF Write
  <2>3. CASE Succeed(d)
    BY <2>0, <2>3 DEF Succeed
  <2>4. CASE ~(Begin(d) \/ Read(d) \/ Raise(d) \/ Clear(d) \/ Write(d) \/ Succeed(d))
    <3>1. ing'[d] \in {"idle", "begin", "usage", "exit", "killed", "requeue"}
      BY <1>3, <2>4 DEF Ingesting, Ingest, Claim, FailDoc, Index, Usage, MarkFailed, Reap,
         Requeue, Recover, Kill, WorkerDies
    <3> QED BY <3>1
  <2> QED BY <2>1, <2>2, <2>3, <2>4
<1>4. ASSUME NEW r \in Deletes, Removing(r) PROVE Working'
  <2>1. UNCHANGED <<ing, content>> /\ \A d \in Docs : ing[d] # "idle" => doc[d] # "none"
    BY <1>4, DeleteFrame DEF Rows
  <2>2. del[r] # "idle" => delDoc[r] \in Docs /\ (~Raced(delDoc[r]) => Dormant(delDoc[r]))
    BY DEF Requested, Deleting
  <2>3. ASSUME NEW d \in Docs, ~Raced(d), ing[d] \in {"read", "clear", "write", "succeed", "index", "faildoc"}
        PROVE  doc'[d] = doc[d] /\ \A c \in Contents : vec[c] = d => vec'[c] = d
    <3>1. ~Dormant(d)
      BY <2>3 DEF Dormant, Tail
    <3>2. del[r] # "idle" => delDoc[r] # d
      BY <2>2, <2>3, <3>1
    <3> QED BY <1>4, <3>2, DeleteFrame
  <2>4. \A d \in Docs : doc[d] # "none" => content[d] \in Contents
    BY DEF Rows
  <2>5. \A d \in Docs : Undisturbed(d) => ~Raced(d)
    BY DEF Undisturbed
  <2> QED BY <1>0, <2>1, <2>3, <2>4, <2>5 DEF Working
<1>5. ASSUME NEW d \in Docs, Ingesting(d) PROVE Working'
  BY <1>2, <1>3, <1>5 DEF Working
<1> QED BY <1>1, <1>4, <1>5, Parts

\* What a step of an ingestion does to the rest, and when it is about a row at all.
LEMMA IngestLocal ==
    ASSUME IInv, NEW d \in Docs, Ingesting(d)
    PROVE  /\ doc[d] # "none"
           /\ \A c \in Contents : vec'[c] \in {0, d, vec[c]}
           /\ \A e \in Docs \ {d} : /\ doc'[e] = doc[e] /\ race'[e] = race[e]
                                    /\ task'[e] = task[e] /\ ing'[e] = ing[e]
<1> USE DEF IInv, BInv, TypeOK
<1>1. doc[d] # "none"
  BY DEF Ingesting, Ingest, Claim, Begin, Read, Raise, FailDoc, Clear, Write,
       Succeed, Index, Usage, MarkFailed, Reap, Requeue, Recover, Kill, WorkerDies, Rows
<1>2. \A c \in Contents : vec'[c] \in {0, d, vec[c]}
  BY DEF Ingesting, Ingest, Claim, Begin, Read, Raise, FailDoc, Clear, Write,
       Succeed, Index, Usage, MarkFailed, Reap, Requeue, Recover, Kill, WorkerDies
<1>3. \A e \in Docs \ {d} : /\ doc'[e] = doc[e] /\ race'[e] = race[e]
                            /\ task'[e] = task[e] /\ ing'[e] = ing[e]
  BY IngestFrame
<1> QED BY <1>1, <1>2, <1>3

\* A delete is let through to a dormant task, or makes it one.
LEMMA Admission ==
    ASSUME IInv, NEW r \in Deletes, NEW d \in Docs, DeleteStart(r, d)
    PROVE  /\ UNCHANGED <<doc, vec, task, ing>> /\ doc[d] \notin {"none", "processing"}
           /\ Raced(d)' \/ Dormant(d)'
           /\ \A e \in Docs \ {d} : race'[e] = race[e]
<1> USE DEF IInv, BInv, TypeOK
<1>1. /\ UNCHANGED <<doc, vec, task, ing>> /\ doc[d] \notin {"none", "processing"}
      /\ task[d] \in {"success", "failed"}
      /\ race' = [race EXCEPT ![d] = IF @ = "none" /\ ing[d] # "idle" THEN "admitted" ELSE @]
  BY DEF DeleteStart, Exists, Rows
<1>2. CASE race[d] = "none"
  <2>1. ing[d] \in Tail \cup {"idle"}
    BY <1>1, <1>2 DEF Tail, Tracked, TaskAt, Working, Raced
  <2> QED BY <1>1, <1>2, <2>1 DEF Dormant
<1>3. CASE race[d] = "admitted"
  BY <1>1, <1>3 DEF Deleting, Dormant
<1>4. CASE race[d] = "retried"
  BY <1>1, <1>4 DEF Raced
<1> QED BY <1>1, <1>2, <1>3, <1>4

\* No step touches what a delete request works on, but a raced retry.
LEMMA StepDeleting ==
    ASSUME IInv, Next
    PROVE  Deleting'
<1> USE DEF IInv, BInv, TypeOK, Deleting
<1>0. 0 \notin Docs
  BY DEF Docs
<1>1. ASSUME NEW u \in Uploads, Uploading(u) PROVE Deleting'
  <2>1. CASE UploadCommit(u)
    <3>1. PICK k \in Docs : k = upDoc[u] /\ doc[k] = "none"
      BY <2>1 DEF UploadCommit, Flushed
    <3>2. /\ UNCHANGED <<vec, ing, race, del, delDoc>> /\ doc'[k] = "processing"
          /\ \A d \in Docs \ {k} : doc'[d] = doc[d] /\ task'[d] = task[d]
      BY <2>1, <3>1 DEF UploadCommit
    <3>3. \A r \in Deletes : delDoc[r] # 0 => delDoc[r] \in Docs \ {k}
      BY <3>1, <1>0 DEF Requested
    <3>4. race[k] = "none"
      BY <3>1 DEF Rows, Dormant, Raced
    <3>5. \A d \in Docs \ {k} :
              (Raced(d)' <=> Raced(d)) /\ (Dormant(d) => Dormant(d)')
      BY <3>2 DEF Raced, Dormant
    <3>6. ~Raced(k)' /\ race'[k] # "admitted"
      BY <3>2, <3>4 DEF Raced
    <3> QED BY <3>1, <3>2, <3>3, <3>5, <3>6
  <2>2. CASE ~UploadCommit(u)
    <3>1. UNCHANGED <<vec, ing, race, del, delDoc, doc, task>>
      BY <1>1, <2>2, UploadFrame
    <3> QED BY <3>1 DEF Dormant, Raced
  <2> QED BY <2>1, <2>2
<1>2. ASSUME NEW d \in Docs, Ingesting(d) PROVE Deleting'
  <2>1. \A e \in Docs \ {d} : /\ doc'[e] = doc[e] /\ race'[e] = race[e]
                              /\ (Dormant(e) => Dormant(e)') /\ (Raced(e)' <=> Raced(e))
    BY <1>2, IngestLocal DEF Dormant, Raced
  <2>2. \A c \in Contents : vec'[c] \in {0, d, vec[c]}
    BY <1>2, IngestLocal
  <2>3. UNCHANGED <<del, delDoc>>
    BY <1>2, IngestFrame
  <2>4. doc[d] # "none" /\ doc'[d] # "none"
    BY <1>2, IngestLocal, StepRaced
  <2>5. CASE Raced(d)
    <3>1. Raced(d)' /\ race'[d] # "admitted"
      BY <2>5, StepRaced DEF Raced
    <3> QED BY <1>0, <2>1, <2>2, <2>3, <2>4, <3>1
  <2>6. CASE Dormant(d) /\ ~Raced(d)
    <3>1. UNCHANGED <<doc, vec>> /\ (Dormant(d)' \/ Raced(d)')
      BY <1>2, <2>6, Ending
    <3>2. race'[d] = "admitted" => Dormant(d)'
      BY <3>1 DEF Raced
    <3> QED BY <1>0, <2>1, <2>3, <2>4, <2>6, <3>1, <3>2
  <2>7. CASE ~Dormant(d) /\ ~Raced(d)
    <3>1. Exists(d) /\ race[d] = "none" /\ \A r \in Deletes : delDoc[r] # d
      BY <2>4, <2>7, Awake
    <3>2. doc'[d] # "deleted" /\ race'[d] = "none"
      BY <1>2, <3>1, IngestFrame DEF Exists
    <3>3. ~Raced(d)'
      BY <3>2 DEF Raced
    <3> QED BY <1>0, <2>1, <2>2, <2>3, <2>4, <3>1, <3>2, <3>3
  <2> QED BY <2>5, <2>6, <2>7
<1>3. ASSUME NEW r \in Deletes, Removing(r) PROVE Deleting'
  <2>1. ASSUME NEW d \in Docs, DeleteStart(r, d) PROVE Deleting'
    <3>1. /\ UNCHANGED <<doc, vec, task, ing>> /\ doc[d] \notin {"none", "processing"}
          /\ Raced(d)' \/ Dormant(d)'
          /\ \A e \in Docs \ {d} : race'[e] = race[e]
      BY <2>1, Admission
    <3>2. \A e \in Docs \ {d} : (Dormant(e) => Dormant(e)') /\ (Raced(e)' <=> Raced(e))
      BY <3>1 DEF Dormant, Raced
    <3>3. /\ del'[r] = "stage" /\ delDoc'[r] = d
          /\ \A q \in Deletes \ {r} : del'[q] = del[q] /\ delDoc'[q] = delDoc[q]
      BY <2>1 DEF DeleteStart
    <3>4. race'[d] = "admitted" => Dormant(d)'
      BY <3>1 DEF Raced
    <3>5. Raced(d) => Raced(d)'
      BY StepRaced
    <3> QED BY <1>0, <3>1, <3>2, <3>3, <3>4, <3>5
  <2>2. CASE ~\E d \in Docs : DeleteStart(r, d)
    <3>1. /\ UNCHANGED <<task, ing, race>>
          /\ \A d \in Docs : (Dormant(d)' <=> Dormant(d)) /\ (Raced(d)' <=> Raced(d))
      BY <1>3, <2>2, DeleteFrame DEF Dormant, Raced
    <3>2. CASE DeleteStage(r)
      <4>1. /\ UNCHANGED <<doc, vec>> /\ del'[r] \in {"idle", "vectors"}
            /\ \A q \in Deletes : delDoc'[q] \in {0, delDoc[q]}
            /\ \A q \in Deletes \ {r} : del'[q] = del[q]
        BY <3>2 DEF DeleteStage
      <4> QED BY <3>1, <4>1
    <3>3. CASE DeleteVectors(r)
      <4>1. delDoc[r] \in Docs
        BY <3>3 DEF DeleteVectors, Requested
      <4>2. \A c \in Contents : vec'[c] \in {0, vec[c]}
        BY <3>3 DEF DeleteVectors
      <4>3. UNCHANGED doc /\ \A q \in Deletes : delDoc'[q] \in {0, delDoc[q]}
        BY <3>3 DEF DeleteVectors
      <4>4. del'[r] \in {"row", "clean"} => \A c \in Contents : vec'[c] # delDoc[r]
        BY <1>0, <3>3, <4>1 DEF DeleteVectors
      <4>5. \A q \in Deletes \ {r} : del'[q] = del[q]
        BY <3>3 DEF DeleteVectors
      <4> QED BY <1>0, <3>1, <4>1, <4>2, <4>3, <4>4, <4>5
    <3>4. CASE DeleteRow(r)
      <4>1. /\ UNCHANGED vec /\ delDoc[r] \in Docs
            /\ doc' = doc \/ doc' = [doc EXCEPT ![delDoc[r]] = "deleted"]
            /\ del[r] = "row" /\ del'[r] \in {"idle", "clean"}
            /\ \A q \in Deletes : delDoc'[q] \in {0, delDoc[q]}
            /\ \A q \in Deletes \ {r} : del'[q] = del[q]
        BY <3>4 DEF DeleteRow, Requested
      <4>2. \A d \in Docs : /\ doc'[d] = doc[d] \/ (d = delDoc[r] /\ doc'[d] = "deleted")
                            /\ doc[d] # "none" => doc'[d] # "none"
        BY <4>1
      <4>3. \A d \in Docs : doc'[d] = "deleted" /\ ~Raced(d) =>
                Dormant(d) /\ \A c \in Contents : vec'[c] # d
        BY <1>0, <4>1, <4>2
      <4> QED BY <1>0, <3>1, <4>1, <4>2, <4>3
    <3>5. CASE DeleteClean(r) \/ DeleteDies(r)
      <4>1. /\ UNCHANGED <<doc, vec>> /\ del'[r] = "idle"
            /\ \A q \in Deletes : delDoc'[q] \in {0, delDoc[q]}
            /\ \A q \in Deletes \ {r} : del'[q] = del[q]
        BY <3>5 DEF DeleteClean, DeleteDies
      <4> QED BY <3>1, <4>1
    <3> QED BY <1>3, <2>2, <3>2, <3>3, <3>4, <3>5 DEF Removing, Delete
  <2> QED BY <2>1, <2>2
<1> QED BY <1>1, <1>2, <1>3, Parts

\* Every step leaves a task that may run its file.
LEMMA StepFiled ==
    ASSUME IInv, Next
    PROVE  Filed'
<1> USE DEF IInv, BInv, TypeOK, Filed
<1>1. ASSUME NEW u \in Uploads, Uploading(u) PROVE Filed'
  <2>1. ASSUME NEW c \in Contents, UploadStart(u, c) PROVE Filed'
    BY <2>1 DEF UploadStart, Dormant, Raced
  <2>2. CASE UploadQuota(u) \/ UploadInsert(u) \/ UploadDies(u)
    BY <2>2 DEF UploadQuota, UploadInsert, UploadDies, Dormant, Raced, Flushed
  <2>3. CASE UploadStore(u)
    BY <2>3 DEF UploadStore, Dormant, Raced, Flushed
  <2>4. CASE UploadCommit(u)
    BY <2>4 DEF UploadCommit, Dormant, Raced, Flushed
  <2> QED BY <1>1, <2>1, <2>2, <2>3, <2>4 DEF Uploading, Upload
<1>2. ASSUME NEW d \in Docs, Ingesting(d) PROVE Filed'
  <2>1. doc[d] # "none"
    BY <1>2, IngestLocal
  <2>2. UNCHANGED <<files, up, upDoc>>
    BY <1>2, IngestFrame
  <2>3. \A e \in Docs \ {d} : /\ doc'[e] = doc[e]
                              /\ (Dormant(e)' <=> Dormant(e)) /\ (Raced(e)' <=> Raced(e))
    BY <1>2, IngestLocal DEF Dormant, Raced
  <2>4. ~Raced(d)' /\ ~Dormant(d)' => ~Raced(d) /\ ~Dormant(d)
    BY <1>2, Ending, StepRaced
  <2> QED BY <2>1, <2>2, <2>3, <2>4
<1>3. ASSUME NEW r \in Deletes, Removing(r) PROVE Filed'
  <2>1. del[r] # "idle" => /\ delDoc[r] \in Docs /\ (Raced(delDoc[r]) \/ Dormant(delDoc[r]))
                           /\ \A u \in Uploads : up[u] = "commit" => upDoc[u] # delDoc[r]
    BY DEF Requested, Deleting, Flushed
  <2>2. UNCHANGED <<up, upDoc>>
    BY <1>3, DeleteFrame
  <2>3. \A d \in Docs : files'[d] = files[d] \/ (del[r] # "idle" /\ d = delDoc[r])
    BY <1>3, <2>1, DeleteFrame
  <2>4. \A d \in Docs : doc'[d] # "none" => doc[d] # "none"
    BY <1>3, DeleteFrame DEF Requested
  <2>5. \A u \in Uploads : up[u] = "commit" => upDoc[u] \in Docs
    BY DEF Flushed
  <2>6. \A d \in Docs : ~Raced(d)' /\ ~Dormant(d)' => ~Raced(d) /\ ~Dormant(d)
    <3>1. UNCHANGED <<task, ing>> /\ \A d \in Docs : race'[d] = race[d] \/ race[d] = "none"
      BY <1>3, DeleteFrame
    <3> QED BY <3>1 DEF Raced, Dormant
  <2> QED BY <2>1, <2>2, <2>3, <2>4, <2>5, <2>6
<1> QED BY <1>1, <1>2, <1>3, Parts

\* Every step leaves an indexed document its vectors.
LEMMA StepIndexed ==
    ASSUME IInv, Next
    PROVE  IndexedSearchable'
<1> USE DEF IInv, BInv, TypeOK
<1>0. /\ \A d \in Docs : doc[d] # "none" =>
            content'[d] = content[d] /\ (Undisturbed(d)' => Undisturbed(d))
      /\ \A d \in Docs : Undisturbed(d) => ~Raced(d)
  BY StepRaced DEF Undisturbed
<1>1. \A d \in Docs : doc[d] = "indexed" /\ d \notin unindexed /\ Undisturbed(d)
          => vec[content[d]] = d
  BY DEF IndexedSearchable, Undisturbed
<1>2. \A d \in Docs : doc[d] # "none" => content[d] \in Contents
  BY DEF Rows
<1> SUFFICES \A d \in Docs : doc'[d] = "indexed" /\ d \notin unindexed' /\ Undisturbed(d)'
                 => vec'[content'[d]] = d
  BY DEF IndexedSearchable, Undisturbed
<1>3. ASSUME NEW u \in Uploads, Uploading(u), NEW d \in Docs, doc'[d] = "indexed"
      PROVE  doc[d] = "indexed" /\ UNCHANGED <<vec, unindexed>>
  BY <1>3, UploadFrame DEF UploadCommit
<1>4. ASSUME NEW e \in Docs, Ingesting(e), NEW d \in Docs,
             doc'[d] = "indexed", d \notin unindexed', Undisturbed(d)'
      PROVE  vec'[content'[d]] = d
  <2>1. doc[d] # "none" /\ UNCHANGED <<content, unindexed>> /\ Undisturbed(d)
    BY <1>0, <1>4, IngestLocal, IngestFrame
  <2>2. CASE Clear(e)
    <3>1. ~Raced(d) /\ doc[d] = "indexed" /\ d # e
      BY <1>0, <2>1, <2>2, <1>4 DEF Clear, Working
    <3> QED BY <1>1, <1>2, <1>4, <2>1, <2>2, <3>1 DEF Clear
  <2>3. CASE Write(e)
    <3>1. ~Raced(d) /\ doc[d] = "indexed" /\ d # e /\ doc[e] # "none"
      BY <1>0, <2>1, <2>3, <1>4, IngestLocal DEF Write, Working
    <3>2. content[e] # content[d]
      <4>1. CASE Raced(e)
        BY <2>1, <4>1 DEF Undisturbed
      <4>2. CASE ~Raced(e)
        <5>1. Exists(e) /\ Exists(d)
          BY <2>3, <3>1, <4>2, Awake DEF Write, Dormant, Tail, Exists
        <5> QED BY <3>1, <5>1 DEF Unique
      <4> QED BY <4>1, <4>2
    <3>3. vec' = [vec EXCEPT ![content[e]] = e]
      BY <2>3 DEF Write
    <3> QED BY <1>1, <1>2, <1>4, <2>1, <3>1, <3>2, <3>3
  <2>4. CASE Index(e)
    <3>1. UNCHANGED vec /\ (d # e => doc[d] = "indexed") /\ ing[e] = "index"
      BY <1>4, <2>4 DEF Index
    <3> QED BY <1>1, <1>4, <2>1, <3>1 DEF Working
  <2>5. CASE ~(Clear(e) \/ Write(e) \/ Index(e))
    <3>1. UNCHANGED vec /\ doc[d] = "indexed"
      BY <1>4, <2>5 DEF Ingesting, Ingest, Claim, Begin, Read, Raise, FailDoc,
           Succeed, Usage, MarkFailed, Reap, Requeue, Recover, Kill, WorkerDies, Exists
    <3> QED BY <1>1, <1>4, <2>1, <3>1
  <2> QED BY <2>2, <2>3, <2>4, <2>5
<1>5. ASSUME NEW r \in Deletes, Removing(r), NEW d \in Docs,
             doc'[d] = "indexed", d \notin unindexed', Undisturbed(d)'
      PROVE  vec'[content'[d]] = d
  <2>1. doc[d] = "indexed" /\ UNCHANGED content /\ d \notin unindexed
    BY <1>5, DeleteFrame
  <2>2. vec[content[d]] = d /\ content[d] \in Contents
    BY <1>0, <1>1, <1>2, <1>5, <2>1
  <2>3. UNCHANGED vec \/ (d # delDoc[r] /\ vec' = [c \in Contents |-> IF vec[c] = delDoc[r] THEN 0 ELSE vec[c]])
    BY <1>5, DeleteFrame
  <2> QED BY <2>1, <2>2, <2>3
<1> QED BY <1>0, <1>1, <1>3, <1>4, <1>5, Parts

\* Every step keeps the invariant.
LEMMA StepSafe ==
    ASSUME IInv, [Next]_vars
    PROVE  IInv'
<1>1. BInv'
  BY StepBasic DEF IInv
<1>2. CASE Next
  BY <1>1, <1>2, StepWorking, StepDeleting, StepFiled, StepIndexed DEF IInv
<1>3. CASE UNCHANGED vars
  <2>1. IndexedSearchable' /\ Working'
    BY <1>3 DEF vars, IInv, Working, IndexedSearchable, Undisturbed, Raced
  <2>2. Deleting' /\ Filed'
    BY <1>3 DEF vars, IInv, Deleting, Dormant, Filed, Raced
  <2> QED BY <1>1, <2>1, <2>2 DEF IInv
<1> QED BY <1>2, <1>3

\* The initial state: no document, no request.
LEMMA InitSafe == Init => IInv
<1> SUFFICES ASSUME Init PROVE IInv
  OBVIOUS
<1> QED BY InitBasic DEF Init, IInv, Working, Deleting, Dormant, Filed, IndexedSearchable, Raced

\* No chunk of a deleted document is in the store: the delete removed them, and
\* only a worker that put the task back after the delete was let through can write
\* them again.
THEOREM NothingOrphaned == Spec => []NoOrphanVectors
<1>1. IInv => NoOrphanVectors
  BY DEF IInv, BInv, TypeOK, Deleting, NoOrphanVectors
<1> QED BY <1>1, InitSafe, StepSafe, PTL DEF Spec

\* An indexed document keeps its chunks until a delete asks for them, or such a
\* retry of a deleted document with the same content takes them over.
THEOREM IndexedKept == Spec => []IndexedSearchable
<1>1. IInv => IndexedSearchable
  BY DEF IInv
<1> QED BY <1>1, InitSafe, StepSafe, PTL DEF Spec

\* A task that waits or runs finds its upload directory where it was written,
\* whatever deletes are let through, unless it was put back after one.
THEOREM FilesKept == Spec => []ActiveHasFile
<1>1. IInv => ActiveHasFile
  <2>1. IInv => \A d \in Docs : task[d] \in {"pending", "running"} => doc[d] # "none" /\ ~Dormant(d)
    BY DEF IInv, BInv, TypeOK, Rows, Dormant
  <2> QED BY <2>1 DEF IInv, Filed, ActiveHasFile
<1> QED BY <1>1, InitSafe, StepSafe, PTL DEF Spec
=============================================================================
