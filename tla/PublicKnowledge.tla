--------------------------- MODULE PublicKnowledge ---------------------------
(***************************************************************************)
(* The public demo knowledge of the vector store: the bootstrap a starting  *)
(* API container runs, the refresh an administrator requests, and the       *)
(* script that gives a tenant to vectors stored before tenants existed,    *)
(* beside workers that store and delete private vectors.                   *)
(* A PDF is one chunk: its vector's id is made from its content alone.      *)
(***************************************************************************)
EXTENDS Integers, FiniteSets

CONSTANTS
    PdfNames,      \* names ending in .pdf in some letter case
    UpperNames,    \* those whose suffix is not written in lower case
    PdfContents,   \* contents of a PDF; "unreadable" yields no chunk
    Refreshers,    \* concurrent refresh requests
    PrivateIds,    \* private vectors a worker stores and deletes
    LegacyIds,     \* vectors without a tenant
    MaxReleases,   \* bound on changes of the shipped PDFs and profile
    MaxKnowledgeFaults \* bound on failures and crashes

ASSUME KnowledgeAssumption ==
    /\ UpperNames \subseteq PdfNames /\ MaxReleases \in Nat /\ MaxKnowledgeFaults \in Nat
    /\ "boot" \notin Refreshers
    \* ids begin with public_ or tenant_; those of older stores with neither
    /\ PdfContents \cap PrivateIds = {} /\ LegacyIds \cap (PdfContents \cup PrivateIds) = {}

VARIABLES
    shipped,   \* the demo directory: a function from names to contents
    profile,   \* embedding, parser and chunker versions of the release
    vectors,   \* the vectors of the store
    api,       \* the API container: down, booting, up
    jobs,      \* bootstrap and refreshes: where they are, what they loaded
    migration, \* the tenant script: ids it found without a tenant
    owned,     \* private vectors written and not deleted (for the property)
    gap,       \* the last delete of public vectors was not followed by an upsert
    releases, troubles \* counters of the bounds

knowVars == <<shipped, profile, vectors, api, jobs, migration, owned, gap, releases, troubles>>

Public == 0
NoTenant == -1        \* metadata without tenant_id
Migrated == -2        \* DEFAULT_MIGRATION_TENANT, a string no query asks for
Everyone == {"boot"} \cup Refreshers
Resting == [at |-> "idle", expected |-> {}, loaded |-> {}]

VectorRow(id, source, tenant, p) == [id |-> id, source |-> source, tenant |-> tenant, profile |-> p]

KnowledgeTypeOK ==
    /\ DOMAIN shipped \subseteq PdfNames /\ \A n \in DOMAIN shipped : shipped[n] \in PdfContents
    /\ api \in {"down", "boot", "up"} /\ gap \in BOOLEAN
    /\ \A p \in Everyone : jobs[p].at \in {"idle", "load", "delete", "add", "check"}
    /\ \A r \in vectors : r.tenant \in {Migrated, NoTenant, Public, 1}
    /\ migration \subseteq LegacyIds /\ releases <= MaxReleases /\ troubles <= MaxKnowledgeFaults

KnowledgeInit ==
    /\ shipped \in UNION {[S -> PdfContents] : S \in SUBSET PdfNames} /\ profile = 0
    /\ vectors = {VectorRow(i, "legacy", NoTenant, 0) : i \in LegacyIds}
    /\ api = "down" /\ jobs = [p \in Everyone |-> Resting] /\ migration = {}
    /\ owned = {} /\ gap = FALSE /\ releases = 0 /\ troubles = 0

Corpus(tenant) == {r \in vectors : r.tenant = tenant}

\* The bootstrap looks for *.pdf, in lower case; the loader takes any case.
ExpectedDemoSources == DOMAIN shipped \ UpperNames
Loadable == DOMAIN shipped

\* What a look at the public vectors returns; a store that fails looks empty.
IndexedPublicSources == {r.source : r \in Corpus(Public)}
IndexedPublicProfiles == {r.profile : r \in Corpus(Public)}

Trouble(failed) ==
    /\ failed => troubles < MaxKnowledgeFaults
    /\ troubles' = troubles + (IF failed THEN 1 ELSE 0)

\* A failing bootstrap stops the container (set -e), a refresh answers 500.
StopJob(p) ==
    /\ jobs' = [jobs EXCEPT ![p] = Resting]
    /\ api' = IF p = "boot" THEN "down" ELSE api

\* bootstrap, up to the decision: skip, or load everything again.
Bootstrap ==
    /\ api = "down"
    /\ \E blindSources, blindProfiles \in BOOLEAN :
        LET expected == ExpectedDemoSources
            sources == IF blindSources THEN {} ELSE IndexedPublicSources
            profiles == IF blindProfiles THEN {} ELSE IndexedPublicProfiles
            nothing == expected = {} /\ sources = {}
            current == expected = sources /\ (expected = {} \/ profiles = {profile})
        IN  /\ Trouble(blindSources \/ blindProfiles)
            /\ IF nothing \/ current
               THEN api' = "up" /\ UNCHANGED jobs
               ELSE /\ api' = "boot"
                    /\ jobs' = [jobs EXCEPT !["boot"] =
                                  [at |-> "load", expected |-> expected, loaded |-> {}]]
    /\ UNCHANGED <<shipped, profile, vectors, migration, owned, gap, releases>>

\* POST /refresh: requests run in threads of the API and may overlap.
RefreshRequest(p) ==
    /\ api = "up" /\ jobs[p].at = "idle"
    /\ jobs' = [jobs EXCEPT ![p].at = "load"]
    /\ UNCHANGED <<shipped, profile, vectors, api, migration, owned, gap, releases, troubles>>

\* The chunks of every PDF of the directory, as vectors.
LoadedRows == {VectorRow(shipped[n], n, Public, profile) : n \in Loadable}

\* load_documents and embed_passages: a missing directory, a PDF without
\* chunks or a failing model raises before anything is deleted.
LoadDocuments(p) ==
    /\ jobs[p].at = "load"
    /\ \E fails \in BOOLEAN :
        /\ Trouble(fails)
        /\ IF fails \/ (\E n \in Loadable : shipped[n] = "unreadable")
           THEN StopJob(p)
           ELSE /\ jobs' = [jobs EXCEPT ![p].at = "delete",
                                          ![p].loaded = LoadedRows]
                /\ UNCHANGED api
    /\ UNCHANGED <<shipped, profile, vectors, migration, owned, gap, releases>>

\* Mutant: every row goes, as the implementation before delete_by_tenant did.
DeletedAlways == {}
\* delete_by_tenant: what is left of the vectors.
DeletedByTenant == vectors \ Corpus(Public)

\* A delete that fails, for the caller, may have been applied (a lost reply).
DeletePublic(p) ==
    /\ jobs[p].at = "delete"
    /\ \E fails, applied \in BOOLEAN :
        /\ Trouble(fails) /\ (fails \/ applied)
        /\ IF applied THEN vectors' = DeletedByTenant /\ gap' = TRUE
           ELSE UNCHANGED <<vectors, gap>>
        /\ IF fails THEN StopJob(p)
           ELSE jobs' = [jobs EXCEPT ![p].at = "add"] /\ UNCHANGED api
    /\ UNCHANGED <<shipped, profile, migration, owned, releases>>

\* Two PDFs of the same content have the same ids: the store refuses the call.
DuplicateIds(new) == Cardinality({r.id : r \in new}) # Cardinality(new)

Upserted(new) == {r \in vectors : \A n \in new : r.id # n.id} \cup new

\* add_documents: one upsert of every chunk; again a failing one may be applied.
AddPublic(p) ==
    /\ jobs[p].at = "add"
    /\ \E fails, applied \in BOOLEAN :
        LET refused == DuplicateIds(jobs[p].loaded) IN
        /\ Trouble(fails)
        /\ (applied => ~refused) /\ (applied \/ fails \/ refused)
        /\ IF applied THEN vectors' = Upserted(jobs[p].loaded) /\ gap' = FALSE
           ELSE UNCHANGED <<vectors, gap>>
        /\ IF fails \/ refused THEN StopJob(p)
           ELSE /\ jobs' = [jobs EXCEPT ![p] = IF p = "boot" THEN [@ EXCEPT !.at = "check"] ELSE Resting]
                /\ UNCHANGED api
    /\ UNCHANGED <<shipped, profile, migration, owned, releases>>

\* bootstrap, after the refresh: the sources and the profile must match now.
BootstrapCheck ==
    /\ jobs["boot"].at = "check"
    /\ \E blind \in BOOLEAN :
        LET expected == jobs["boot"].expected
            sources == IF blind THEN {} ELSE IndexedPublicSources
            profiles == IF blind THEN {} ELSE IndexedPublicProfiles
            good == expected = sources /\ (expected = {} \/ profiles = {profile})
        IN  /\ Trouble(blind)
            /\ jobs' = [jobs EXCEPT !["boot"] = Resting]
            /\ api' = IF good THEN "up" ELSE "down"
    /\ UNCHANGED <<shipped, profile, vectors, migration, owned, gap, releases>>

\* The container dies, with the requests it serves.
ContainerDies ==
    /\ api # "down" /\ Trouble(TRUE) /\ api' = "down"
    /\ jobs' = [p \in Everyone |-> Resting]
    /\ UNCHANGED <<shipped, profile, vectors, migration, owned, gap, releases>>

\* A new image: other PDFs, other versions.
Release ==
    /\ api = "down" /\ releases < MaxReleases /\ releases' = releases + 1
    /\ shipped' \in UNION {[S -> PdfContents] : S \in SUBSET PdfNames}
    /\ profile' \in {profile, profile + 1}
    /\ UNCHANGED <<vectors, api, jobs, migration, owned, gap, troubles>>

\* A worker stores a private vector, or deletes it with its document.
PrivateStore(i) ==
    /\ vectors' = Upserted({VectorRow(i, "private", 1, profile)}) /\ owned' = owned \cup {i}
    /\ UNCHANGED <<shipped, profile, api, jobs, migration, gap, releases, troubles>>
PrivateDelete(i) ==
    /\ i \in owned /\ owned' = owned \ {i}
    /\ vectors' = {r \in vectors : r.tenant # 1 \/ r.id # i}
    /\ UNCHANGED <<shipped, profile, api, jobs, migration, gap, releases, troubles>>

MissingTenant == {r.id : r \in Corpus(NoTenant)}

\* migrate_vector_tenant: one get of the collection, then one update per row.
MigrateScan ==
    /\ migration = {} /\ MissingTenant # {} /\ migration' = MissingTenant
    /\ UNCHANGED <<shipped, profile, vectors, api, jobs, owned, gap, releases, troubles>>
MigrateRow(i) ==
    /\ i \in migration /\ migration' = migration \ {i}
    /\ vectors' = {IF r.id = i THEN [r EXCEPT !.tenant = Migrated] ELSE r : r \in vectors}
    /\ UNCHANGED <<shipped, profile, api, jobs, owned, gap, releases, troubles>>
MigrateDies ==
    /\ migration # {} /\ Trouble(TRUE) /\ migration' = {}
    /\ UNCHANGED <<shipped, profile, vectors, api, jobs, owned, gap, releases>>

KnowledgeNext ==
    \/ Bootstrap \/ BootstrapCheck \/ ContainerDies \/ Release
    \/ \E p \in Refreshers : RefreshRequest(p)
    \/ \E p \in Everyone : LoadDocuments(p) \/ DeletePublic(p) \/ AddPublic(p)
    \/ \E i \in PrivateIds : PrivateStore(i) \/ PrivateDelete(i)
    \/ MigrateScan \/ MigrateDies \/ \E i \in LegacyIds : MigrateRow(i)

KnowledgeSpec == KnowledgeInit /\ [][KnowledgeNext]_knowVars

(***************************************************************************)
(* Properties                                                              *)
(***************************************************************************)

\* While the API serves a release that ships *.pdf files, the public knowledge is
\* all or nothing.  Either it is made with the release's profile, of exactly the
\* *.pdf files the release ships or of exactly all its PDFs, with those named .PDF
\* (which the bootstrap does not look for, so that they may be missing until a
\* refresh is requested); or there is none, because a refresh has deleted it and
\* not yet, or never, put any back.  Parts of a release, or of two, are not served.
\* And whatever the bootstrap, overlapping refreshes, crashes and the migration do,
\* every private and every legacy vector is still there.
KnowledgeKept ==
    /\ api = "up" /\ ExpectedDemoSources # {} =>
        \/ gap /\ Corpus(Public) = {}
        \/ /\ IndexedPublicSources \in {ExpectedDemoSources, DOMAIN shipped}
           /\ IndexedPublicProfiles = {profile}
    /\ {r.id : r \in Corpus(1)} = owned
    /\ {r.id : r \in Corpus(NoTenant) \cup Corpus(Migrated)} = LegacyIds
=============================================================================
