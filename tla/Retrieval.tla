----------------------------- MODULE Retrieval -----------------------------
(***************************************************************************)
(* One retrieval through the tenant-scoped tool and the hybrid retriever:  *)
(* the vector channel, scope by scope, then the lexical channel, then the  *)
(* fusion of both by reciprocal ranks.  The store changes meanwhile.       *)
(*                                                                         *)
(* A chunk carries its scores for the question: `dist' from the query's    *)
(* embedding, `bm25' among the chunks that share a word with it (0: none). *)
(* `text' is its normalised content: a document's overlapping chunks may   *)
(* have the same.  `sourced' says that its metadata names a source file.    *)
(* Scores are integers; floating point is left out.                        *)
(***************************************************************************)
EXTENDS Integers, Sequences, FiniteSets, SequencesExt

CONSTANTS
    Chunks,         \* all chunks that may be in the store
    Contexts,       \* retrieval contexts the requests come with
    Multiplier,     \* candidate_multiplier
    RrfK,           \* rrf_k
    VectorWeight, LexicalWeight,
    MaxChanges      \* bound on the changes of the store during a retrieval

\* A chunk id names one chunk.
ASSUME RetrievalAssumption ==
    /\ IsFiniteSet(Chunks)
    /\ \A c \in Chunks : c.id \in Int /\ c.dist \in Int /\ c.bm25 \in Int
    /\ \A c, d \in Chunks : c.id = d.id => c = d
    /\ \A x \in Contexts : x.topk \in Int
    /\ Multiplier \in Nat \ {0} /\ RrfK \in Nat \ {0} /\ MaxChanges \in Nat
    /\ VectorWeight \in Nat /\ LexicalWeight \in Nat
    /\ VectorWeight + LexicalWeight > 0

VARIABLES
    stored,     \* the chunks in the vector store
    ctx,        \* the retrieval context
    step,       \* where the retrieval is
    scopes,     \* tenant scopes still to read
    vec, lex,   \* what the two channels have returned
    output,     \* the tool's result
    changes     \* store changes so far; a channel that fails uses them up

retrVars == <<stored, ctx, step, scopes, vec, lex, output, changes>>

RetrievalTypeOK ==
    /\ stored \subseteq Chunks /\ ctx \in Contexts
    /\ step \in {"request", "vector", "lexical", "fuse", "tool", "rehydrate", "done", "failed"}
    /\ changes \in 0 .. MaxChanges + 1
    /\ \A s \in {vec, lex, output} : \A i \in DOMAIN s : s[i] \in Chunks

RetrievalInit ==
    /\ stored \in SUBSET Chunks /\ ctx \in Contexts
    /\ step = "request" /\ scopes = <<>> /\ vec = <<>> /\ lex = <<>> /\ output = <<>>
    /\ changes = 0

(* --------------------------- pure functions ---------------------------- *)

\* S in the strict total order R: the k-th element has k - 1 before it.
Sorted(S, R) ==
    [k \in 1 .. Cardinality(S) |->
        CHOOSE x \in S : Cardinality({y \in S : <<y, x>> \in R}) = k - 1]
\* The entries of s at the indices I, in their order.
Entries(s, I) ==
    LET index == Sorted(I, {p \in I \X I : p[1] < p[2]})
    IN [k \in 1 .. Cardinality(I) |-> s[index[k]]]

FirstK(s, k) == SubSeq(s, 1, IF Len(s) < k THEN Len(s) ELSE k)
CandidateK == ctx.topk * Multiplier
Closer ==
    {p \in Chunks \X Chunks :
        p[1].dist < p[2].dist \/ (p[1].dist = p[2].dist /\ p[1].id < p[2].id)}
ById == {p \in Chunks \X Chunks : p[1].id < p[2].id}

\* The collections' answers of one tenant, nearest first.
SimilaritySearch(tenant) ==
    FirstK(Sorted({c \in stored : c.tenant = tenant}, Closer), CandidateK)

\* _apply_tenant_scope and _apply_filters: after the store has cut its answer.
InScope(c, tenant) == c.tenant = tenant
ApplyFilters(c) ==
    /\ ctx.docs # {} => c.doc \in ctx.docs
    /\ ctx.company # "any" => c.company = ctx.company
Scoped(s, tenant) ==
    Entries(s, {i \in DOMAIN s : InScope(s[i], tenant) /\ ApplyFilters(s[i])})

\* _deduplicate: the first of every key stays.
Key(c) == <<c.doc, c.text>>
Deduplicate(s) ==
    Entries(s, {i \in DOMAIN s : \A j \in 1 .. i - 1 : Key(s[j]) # Key(s[i])})

\* _globally_rank_vector_results: by distance, the order of arrival for ties.
GloballyRanked(s) ==
    LET before == {p \in (DOMAIN s) \X (DOMAIN s) :
                        \/ s[p[1]].dist < s[p[2]].dist
                        \/ s[p[1]].dist = s[p[2]].dist /\ p[1] < p[2]}
        order == Sorted(DOMAIN s, before)
    IN [i \in DOMAIN s |-> s[order[i]]]

\* BM25Retriever.search: a shared word is the gate, the score the order.
Better ==
    {p \in Chunks \X Chunks :
        p[1].bm25 > p[2].bm25 \/ (p[1].bm25 = p[2].bm25 /\ p[1].id < p[2].id)}
LexicalSearch(corpus) ==
    FirstK(Sorted({c \in ToSet(corpus) : c.bm25 > 0}, Better), CandidateK)

\* weight / (rrf_k + rank), on a common denominator; 0 for an absent key.
Scale ==
    LET product[n \in 0 .. CandidateK] ==
            IF n = 0 THEN 1 ELSE (RrfK + n) * product[n - 1]
    IN product[CandidateK]
RankIn(s, k) ==
    IF \E i \in DOMAIN s : Key(s[i]) = k
    THEN CHOOSE i \in DOMAIN s :
            Key(s[i]) = k /\ \A j \in 1 .. i - 1 : Key(s[j]) # k
    ELSE 0
Contribution(weight, rank) ==
    IF rank = 0 THEN 0 ELSE weight * (Scale \div (RrfK + rank))
LexicalShare == LexicalWeight * (IF ctx.enriched THEN 2 ELSE 1)
Fused(k) ==
    Contribution(VectorWeight, RankIn(vec, k)) + Contribution(LexicalShare, RankIn(lex, k))

\* _reciprocal_rank_fusion: by score, vector rank, lexical rank.
Keys == {Key(c) : c \in ToSet(vec) \cup ToSet(lex)}
RankOrLast(s, k) == IF RankIn(s, k) = 0 THEN Cardinality(Keys) + 1 ELSE RankIn(s, k)
FusedBefore(k, l) ==
    \/ Fused(k) > Fused(l)
    \/ /\ Fused(k) = Fused(l)
       /\ \/ RankOrLast(vec, k) < RankOrLast(vec, l)
          \/ /\ RankOrLast(vec, k) = RankOrLast(vec, l)
             /\ RankOrLast(lex, k) < RankOrLast(lex, l)
FusedResult(k) == IF RankIn(vec, k) # 0 THEN vec[RankIn(vec, k)] ELSE lex[RankIn(lex, k)]
ReciprocalRankFusion ==
    LET ordered == FirstK(Sorted(Keys, {p \in Keys \X Keys : FusedBefore(p[1], p[2])}), ctx.topk)
    IN [i \in DOMAIN ordered |-> FusedResult(ordered[i])]

(* ------------------------------ retrieval ------------------------------ *)

\* Mutant: the public scope is read whether or not it was asked for.
ScopesAlwaysPublic == IF ctx.tenant # 0 THEN <<ctx.tenant, 0>> ELSE <<ctx.tenant>>
TenantScopes ==
    IF ctx.public /\ ctx.tenant # 0 THEN <<ctx.tenant, 0>> ELSE <<ctx.tenant>>

\* TenantRetrievalToolExecutor.execute and the adapter: a request that breaks
\* the contract fails the tool before anything is read.
ToolRequest ==
    /\ step = "request"
    /\ IF ctx.valid /\ ctx.topk > 0
       THEN step' = "vector" /\ scopes' = TenantScopes
       ELSE step' = "failed" /\ UNCHANGED scopes
    /\ UNCHANGED <<stored, ctx, vec, lex, output, changes>>

\* One scope of the vector channel; after the last one its results are ranked
\* together and cut.
VectorScope ==
    LET t == Head(scopes)
        all == vec \o Scoped(SimilaritySearch(t), t)
        done == Len(scopes) = 1 IN
    /\ step = "vector"
    /\ vec' = IF done THEN FirstK(Deduplicate(GloballyRanked(all)), CandidateK) ELSE all
    /\ step' = IF done THEN "lexical" ELSE step
    /\ scopes' = IF done THEN TenantScopes ELSE Tail(scopes)
    /\ UNCHANGED <<stored, ctx, lex, output, changes>>

\* One scope of the lexical channel: the whole corpus of the tenant, filtered,
\* in the order of document and chunk; after the last one, the search.
LexicalScope ==
    LET t == Head(scopes)
        all == lex \o Scoped(Sorted({c \in stored : c.tenant = t}, ById), t)
        done == Len(scopes) = 1 IN
    /\ step = "lexical" /\ LexicalWeight > 0
    /\ lex' = IF done THEN LexicalSearch(Deduplicate(all)) ELSE all
    /\ step' = IF done THEN "fuse" ELSE step
    /\ scopes' = IF done THEN <<>> ELSE Tail(scopes)
    /\ UNCHANGED <<stored, ctx, vec, output, changes>>

\* The corpus cannot be loaded: vector results only.
LexicalFails ==
    /\ step = "lexical"
    /\ lex' = <<>> /\ step' = "fuse" /\ scopes' = <<>> /\ changes' = MaxChanges + 1
    /\ UNCHANGED <<stored, ctx, vec, output>>

\* The result, as evidence ranked from 1.
Fuse ==
    /\ step = "fuse" /\ step' = "tool"
    /\ output' = IF lex = <<>> THEN FirstK(vec, ctx.topk) ELSE ReciprocalRankFusion
    /\ UNCHANGED <<stored, ctx, scopes, vec, lex, changes>>

\* normalise_evidence: one record without a source fails the whole result.
NormaliseEvidence(s) == \A i \in DOMAIN s : s[i].sourced
ToolExecute ==
    /\ step = "tool"
    /\ step' = IF NormaliseEvidence(output) THEN "rehydrate" ELSE "failed"
    /\ UNCHANGED <<stored, ctx, scopes, vec, lex, output, changes>>

\* evidence_from_tool_output: the same records in the same order; a failed tool
\* raises instead.
EvidenceFromToolOutput ==
    /\ step = "rehydrate" /\ step' = "done"
    /\ UNCHANGED <<stored, ctx, scopes, vec, lex, output, changes>>

\* The adapter raises: the tool reports a failure, never an empty success.
AdapterFails ==
    /\ step = "vector" /\ step' = "failed"
    /\ UNCHANGED <<stored, ctx, scopes, vec, lex, output, changes>>

(* ------------------------------ the store ------------------------------ *)

\* add_documents (upsert), delete_document and delete_by_tenant.
StoreChange ==
    /\ step \in {"vector", "lexical"} /\ changes < MaxChanges
    /\ changes' = changes + 1
    /\ \/ \E c \in Chunks \ stored : stored' = stored \cup {c}
       \/ \E c \in stored : stored' = {d \in stored : d.doc # c.doc \/ d.tenant # c.tenant}
       \/ \E c \in stored : stored' = {d \in stored : d.tenant # c.tenant}
    /\ UNCHANGED <<ctx, step, scopes, vec, lex, output>>

RetrievalNext ==
    \/ ToolRequest \/ VectorScope \/ LexicalScope \/ LexicalFails \/ Fuse
    \/ ToolExecute \/ EvidenceFromToolOutput
    \/ AdapterFails \/ StoreChange

RetrievalSpec == RetrievalInit /\ [][RetrievalNext]_retrVars

(* ----------------------------- properties ------------------------------ *)

Visible(c) ==
    (c.tenant = ctx.tenant \/ (ctx.public /\ c.tenant = 0)) /\ ApplyFilters(c)

\* Chunks of one document and one normalised text may be cut into words
\* differently: the key is NFKC normalised, the words are not.
Matches(c) == \A d \in stored : Key(d) = Key(c) => d.bm25 > 0

\* What a retrieval returns is visible to the tenant and passes the filters,
\* named by its source, without duplicates and within top_k, whatever happens
\* to the store; and if the store stands still, a visible chunk that shares a
\* word with the question (however its text is written in the store) is not
\* missed altogether because nearer chunks that the filters reject fill the
\* vector channel.
RetrievalSound ==
    step = "done" =>
        /\ Len(output) <= ctx.topk
        /\ \A i \in DOMAIN output : Visible(output[i]) /\ output[i].sourced
        /\ \A i, j \in DOMAIN output : Key(output[i]) = Key(output[j]) => i = j
        /\ changes = 0 /\ LexicalWeight > 0 /\ (\E c \in stored : Visible(c) /\ Matches(c))
             => output # <<>>
============================================================================
