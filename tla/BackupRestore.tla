--------------------------- MODULE BackupRestore ---------------------------
(***************************************************************************)
(* The backup directory and the programs that work on it: backup_db.py     *)
(* (database and local Chroma, then retention), chroma_volume.py (offline  *)
(* snapshot and restore of the Compose volume) and restore_db.py.  Jobs run*)
(* concurrently and may be killed between any two steps.                   *)
(*                                                                         *)
(* A file is named by its kind, the day of its timestamp and its job (the  *)
(* timestamps have microseconds).  Its content is the version of the store *)
(* it was copied from, or Torn when the store was written during the copy  *)
(* or the file was damaged; the checksum of a manifest is the content it   *)
(* was computed from.  The hidden `.partial' file of a manifest behaves as *)
(* that of an artifact and is not separate.                                *)
(***************************************************************************)
EXTENDS Integers, Sequences, FiniteSets

CONSTANTS
    Scheduled,     \* jobs that run backup_db.py
    Operators,     \* shells that run chroma_volume.py and restore_db.py
    Sources,       \* what runs of backup_db.py are asked for: sequences of kinds
    KeepDays,      \* --keep-days
    LastDay,       \* bound on the days that pass
    MaxArtifacts,  \* bound on the artifacts present when a backup begins
    MaxWrites,     \* bound on the writes of the services to each store
    MaxBackupFaults \* bound on kills, failed commands and damaged files

ASSUME BackupAssumption ==
    /\ KeepDays \in Nat /\ KeepDays >= 1
    /\ Sources \subseteq Seq({"postgresql", "sqlite", "chroma_local"}) /\ <<>> \notin Sources
    /\ LastDay \in Nat /\ MaxArtifacts \in Nat /\ MaxWrites \in Nat /\ MaxBackupFaults \in Nat

Jobs == Scheduled \cup Operators
Kinds == {"postgresql", "sqlite", "chroma_local", "chroma_volume"}
Names == Kinds \X (0 .. LastDay) \X Jobs
Versions == 0 .. MaxWrites
None == -1
Torn == -2
Unfinished == -3      \* what an interrupted extraction leaves
NoName == <<>>
Contents == Versions \cup {Torn, Unfinished}

VARIABLES
    day,        \* the clock
    partial,    \* .backup_*.partial files
    artifact,   \* published files
    manifest,   \* sidecars: the content whose checksum they hold
    live,       \* the database and the vector volume
    writers,    \* do backend, agent-worker and chromadb run?
    job,        \* program counter and arguments of every job
    reported,   \* files a successful job has reported
    hurt,       \* the artifact a volume restore was interrupted on, or NoName
    backupFaults

backupVars == <<day, partial, artifact, manifest, live, writers, job,
                reported, hurt, backupFaults>>
files == <<partial, artifact, manifest>>

Idle == [pc |-> "idle", todo |-> <<>>, name |-> NoName, list |-> {}, files |-> {}]
Stores == {"postgresql", "chroma_volume"}
StoreOf(k) == IF k = "chroma_local" THEN "chroma_volume"
              ELSE IF k = "sqlite" THEN "postgresql" ELSE k

BackupTypeOK ==
    /\ day \in 0 .. LastDay
    /\ partial \in [Names -> Contents \cup {None}]
    /\ artifact \in [Names -> Contents \cup {None}]
    /\ manifest \in [Names -> Contents \cup {None}]
    /\ live \in [Stores -> Contents \cup {None}]
    /\ writers \in BOOLEAN
    /\ reported \subseteq Names /\ hurt \in Names \cup {NoName}
    /\ backupFaults \in 0 .. MaxBackupFaults
    /\ \A j \in Jobs : job[j].name \in Names \cup {NoName}

BackupInit ==
    /\ day = 0
    /\ partial = [n \in Names |-> None]
    /\ artifact = [n \in Names |-> None]
    /\ manifest = [n \in Names |-> None]
    /\ live = [s \in Stores |-> 0]
    /\ writers = TRUE
    /\ job = [j \in Jobs |-> Idle]
    /\ reported = {} /\ hurt = NoName /\ backupFaults = 0

Goto(j, pc) == job' = [job EXCEPT ![j].pc = pc]
Exit(j) == job' = [job EXCEPT ![j] = Idle]
Fault == backupFaults < MaxBackupFaults /\ backupFaults' = backupFaults + 1
NoFault == UNCHANGED backupFaults
World == <<day, live, writers, hurt>>

(* ------------------------------ backups -------------------------------- *)

Room == Cardinality({n \in Names : artifact[n] # None}) < MaxArtifacts

\* main: the sources in order, each with today's timestamp.
BackupMain(j) ==
    /\ job[j].pc = "idle" /\ Room
    /\ \E s \in Sources : job' = [job EXCEPT ![j] =
            [Idle EXCEPT !.pc = "paths", !.todo = s, !.name = <<Head(s), day, j>>]]
    /\ UNCHANGED <<World, files, reported>> /\ NoFault

\* require_writers_stopped: no writer runs and no container has the volume
\* mounted.  The check and the start of the container are one step: volume
\* operations are started by one operator, one at a time.
VolumeIdle ==
    \A j \in Jobs : job[j].pc # "idle" => job[j].name[1] # "chroma_volume"
WritersStopped == ~writers /\ VolumeIdle

\* backup_chroma_volume: refused while a writer runs.
VolumeBackup(j) ==
    /\ job[j].pc = "idle" /\ Room /\ WritersStopped
    /\ live["chroma_volume"] # None       \* test -n "$(ls -A /volume)"
    /\ job' = [job EXCEPT ![j] = [Idle EXCEPT !.pc = "paths",
            !.todo = <<"chroma_volume">>, !.name = <<"chroma_volume", day, j>>]]
    /\ UNCHANGED <<World, files, reported>> /\ NoFault

\* atomic_artifact_paths: never over an existing backup; an old partial goes.
AtomicArtifactPaths(j) ==
    LET n == job[j].name IN
    /\ job[j].pc = "paths"
    /\ IF artifact[n] # None \/ manifest[n] # None
       THEN Exit(j) /\ UNCHANGED partial
       ELSE Goto(j, "dump") /\ partial' = [partial EXCEPT ![n] = None]
    /\ UNCHANGED <<World, artifact, manifest, reported>> /\ NoFault

\* The command has opened the partial file and is writing.
DumpBegin(j) ==
    /\ job[j].pc = "dump"
    /\ Goto(j, "dumping")
    /\ partial' = [partial EXCEPT ![job[j].name] = Torn]
    /\ UNCHANGED <<World, artifact, manifest, reported>> /\ NoFault

\* pg_dump reads one snapshot; the copies read the files of whoever writes.
Copied(n) ==
    IF n[1] # "postgresql" /\ writers
    THEN {live[StoreOf(n[1])], Torn} ELSE {live[StoreOf(n[1])]}
DumpEnd(j) ==
    LET n == job[j].name IN
    /\ job[j].pc = "dumping" /\ live[StoreOf(n[1])] # None
    /\ Goto(j, "publish")
    /\ \E c \in Copied(n) : partial' = [partial EXCEPT ![n] = c]
    /\ UNCHANGED <<World, artifact, manifest, reported>> /\ NoFault

\* The command failed: the partial is removed, except by backup_sqlite.
DumpFail(j) ==
    LET n == job[j].name IN
    /\ job[j].pc = "dumping" /\ Fault /\ Exit(j)
    /\ partial' = IF n[1] = "sqlite" THEN partial ELSE [partial EXCEPT ![n] = None]
    /\ UNCHANGED <<World, artifact, manifest, reported>>

\* publish_artifact: rename, unless another job was faster.
PublishArtifact(j) ==
    LET n == job[j].name IN
    /\ job[j].pc = "publish"
    /\ IF partial[n] = None \/ artifact[n] # None
       THEN Exit(j) /\ UNCHANGED <<partial, artifact>>
       ELSE /\ Goto(j, "manifest")
            /\ artifact' = [artifact EXCEPT ![n] = partial[n]]
            /\ partial' = [partial EXCEPT ![n] = None]
    /\ UNCHANGED <<World, manifest, reported>> /\ NoFault

\* write_manifest: the checksum of the file that is there, then the next
\* source, the cleanup of backup_db.py, or the end.
Continue(j) ==
    LET rest == Tail(job[j].todo)
        made == job[j].files \cup {job[j].name} IN
    IF rest # <<>>
    THEN /\ job' = [job EXCEPT ![j] = [Idle EXCEPT !.pc = "paths", !.todo = rest,
                        !.name = <<Head(rest), day, j>>, !.files = made]]
         /\ UNCHANGED reported
    ELSE IF job[j].name[1] = "chroma_volume"
    THEN Exit(j) /\ reported' = reported \cup made
    ELSE /\ job' = [job EXCEPT ![j].pc = "scan", ![j].files = made]
         /\ UNCHANGED reported

WriteManifest(j) ==
    LET n == job[j].name IN
    /\ job[j].pc = "manifest" /\ artifact[n] # None
    /\ manifest' = [manifest EXCEPT ![n] = artifact[n]]
    /\ Continue(j)
    /\ UNCHANGED <<World, partial, artifact>> /\ NoFault

\* Any exception of write_manifest takes the artifact back.
ManifestFail(j) ==
    LET n == job[j].name IN
    /\ job[j].pc = "manifest" /\ Exit(j) /\ Fault
    /\ artifact' = [artifact EXCEPT ![n] = None]
    /\ UNCHANGED <<World, partial, manifest, reported>>

(* ----------------------------- retention ------------------------------- *)

\* Mutant: >= for >.
ExpiredEarly(n) == day - n[2] >= KeepDays
\* mtime < now - keep_days * 86400
Expired(n) == day - n[2] > KeepDays
CleanupScan(j) ==
    /\ job[j].pc = "scan"
    /\ job' = [job EXCEPT ![j].pc = "clean", ![j].list =
            {n \in Names : artifact[n] # None /\ Expired(n)}]
    /\ UNCHANGED <<World, files, reported>> /\ NoFault

\* The sidecar goes first ...
CleanManifest(j) ==
    /\ job[j].pc = "clean"
    /\ \E n \in job[j].list :
        /\ manifest' = [manifest EXCEPT ![n] = None]
        /\ job' = [job EXCEPT ![j].pc = "unlink", ![j].name = n]
    /\ UNCHANGED <<World, partial, artifact, reported>> /\ NoFault

\* ... then the artifact; one that somebody else removed ends the run.
CleanArtifact(j) ==
    LET n == job[j].name IN
    /\ job[j].pc = "unlink"
    /\ IF artifact[n] = None THEN Exit(j)
       ELSE job' = [job EXCEPT ![j].pc = "clean", ![j].list = @ \ {n}]
    /\ artifact' = [artifact EXCEPT ![n] = None]
    /\ UNCHANGED <<World, partial, manifest, reported>> /\ NoFault

\* Old manifests without an artifact and old partial files; the job reports.
CleanLeftovers(j) ==
    /\ job[j].pc = "clean" /\ job[j].list = {}
    /\ manifest' = [n \in Names |->
            IF artifact[n] = None /\ Expired(n) THEN None ELSE manifest[n]]
    /\ partial' = [n \in Names |-> IF Expired(n) THEN None ELSE partial[n]]
    /\ reported' = reported \cup job[j].files
    /\ Exit(j)
    /\ UNCHANGED <<World, artifact>> /\ NoFault

(* ------------------------------ restores ------------------------------- *)

\* Mutant: the checksum is not compared.
VerifiedByName(n) == artifact[n] # None /\ manifest[n] # None
\* load_and_verify_manifest
Verified(n) == artifact[n] # None /\ manifest[n] = artifact[n]

\* restore_postgresql: the confirmation, the checksum, the type and the format
\* of the dump come before the command; a dry run ends here.
RestorePostgresql(j) ==
    /\ job[j].pc = "idle"
    /\ \E n \in Names :
        /\ n[1] = "postgresql" /\ Verified(n)
        /\ job' = [job EXCEPT ![j] = [Idle EXCEPT !.pc = "pg_restore", !.name = n]]
    /\ UNCHANGED <<World, files, reported>> /\ NoFault

\* _restore_command, --single-transaction: all of the artifact or nothing.
RestoreCommand(n) ==
    {live["postgresql"]} \cup (IF artifact[n] = None THEN {} ELSE {artifact[n]})
PgRestore(j) ==
    /\ job[j].pc = "pg_restore" /\ Exit(j)
    /\ \E c \in RestoreCommand(job[j].name) :
        live' = [live EXCEPT !["postgresql"] = c]
    /\ UNCHANGED <<day, writers, hurt, files, reported>> /\ NoFault

\* _validate_tar_members: the archive can be listed.
ValidTar(n) == artifact[n] \notin {None, Torn}

\* restore_chroma_volume: everything before the container.
RestoreVolume(j) ==
    /\ job[j].pc = "idle"
    /\ \E n \in Names :
        /\ n[1] = "chroma_volume" /\ Verified(n) /\ ValidTar(n) /\ WritersStopped
        /\ job' = [job EXCEPT ![j] = [Idle EXCEPT !.pc = "tar_list", !.name = n]]
    /\ UNCHANGED <<World, files, reported>> /\ NoFault

\* tar -t; rm -rf; tar -x in a container: three steps under set -e.
TarList(j) ==
    /\ job[j].pc = "tar_list"
    /\ IF artifact[job[j].name] = None THEN Exit(j) ELSE Goto(j, "remove")
    /\ UNCHANGED <<World, files, reported>> /\ NoFault
TarRemove(j) ==
    /\ job[j].pc = "remove" /\ Goto(j, "extract")
    /\ live' = [live EXCEPT !["chroma_volume"] = None]
    /\ hurt' = job[j].name
    /\ UNCHANGED <<day, writers, files, reported>> /\ NoFault
TarExtract(j) ==
    LET n == job[j].name IN
    /\ job[j].pc = "extract" /\ Exit(j)
    /\ IF artifact[n] = None THEN UNCHANGED <<live, hurt>> /\ NoFault
       ELSE \/ /\ live' = [live EXCEPT !["chroma_volume"] = artifact[n]]
               /\ hurt' = NoName /\ NoFault
            \/ /\ live' = [live EXCEPT !["chroma_volume"] = Unfinished]
               /\ Fault /\ UNCHANGED hurt
    /\ UNCHANGED <<day, writers, files, reported>>

(* ---------------------------- surroundings ----------------------------- *)

\* A job is killed; the container of a volume restore dies with it.
KillJob(j) ==
    /\ job[j].pc # "idle" /\ Fault /\ Exit(j)
    /\ UNCHANGED <<World, files, reported>>

\* A file is damaged on disk or in a copy; not between the verification of a
\* restore and its command.
Damage ==
    /\ \E n \in Names :
        /\ n \in reported
        /\ \A j \in Jobs : job[j].name # n
        /\ artifact' = [artifact EXCEPT ![n] = Torn]
        /\ reported' = reported \ {n}
    /\ hurt = NoName /\ Fault
    /\ UNCHANGED <<World, partial, manifest, job>>

\* The operator keeps the services stopped during volume operations and while
\* the volume is damaged (docs/BACKUP_RECOVERY.md).
SwitchWriters ==
    /\ VolumeIdle /\ live["chroma_volume"] \in Versions
    /\ writers' = ~writers
    /\ UNCHANGED <<day, live, hurt, files, job, reported>> /\ NoFault
ServiceWrite ==
    /\ writers
    /\ \E s \in Stores :
        /\ live[s] \in 0 .. MaxWrites - 1
        /\ live' = [live EXCEPT ![s] = @ + 1]
    /\ UNCHANGED <<day, writers, hurt, files, job, reported>> /\ NoFault

\* Jobs are short against the retention unit of a day.
NextDay ==
    /\ day < LastDay /\ \A j \in Jobs : job[j].pc = "idle"
    /\ day' = day + 1
    /\ UNCHANGED <<live, writers, hurt, files, job, reported>> /\ NoFault

BackupNext ==
    \/ \E j \in Jobs :
        \/ AtomicArtifactPaths(j)
        \/ DumpBegin(j) \/ DumpEnd(j) \/ DumpFail(j) \/ PublishArtifact(j)
        \/ WriteManifest(j) \/ ManifestFail(j)
        \/ CleanupScan(j) \/ CleanManifest(j) \/ CleanArtifact(j) \/ CleanLeftovers(j)
        \/ PgRestore(j) \/ TarList(j) \/ TarRemove(j) \/ TarExtract(j)
        \/ KillJob(j)
    \/ \E j \in Scheduled : BackupMain(j)
    \/ \E j \in Operators : VolumeBackup(j) \/ RestorePostgresql(j) \/ RestoreVolume(j)
    \/ Damage \/ SwitchWriters \/ ServiceWrite \/ NextDay

BackupSpec == BackupInit /\ [][BackupNext]_backupVars

(* ----------------------------- properties ------------------------------ *)

Retained(n) == day - n[2] <= KeepDays
Restorable(n) == artifact[n] # None /\ manifest[n] = artifact[n]

\* Every file a successful run has reported verifies until it expires, and
\* is one consistent copy when it comes from pg_dump or from the offline
\* volume: whatever other runs, kills and cleanups do to the directory.
RetainedRestorable ==
    \A n \in reported :
        Retained(n) => /\ Restorable(n)
                       /\ n[1] \in Stores => artifact[n] # Torn

\* A restore never leaves a torn database; and a volume that an interrupted
\* restore left empty or unfinished can be restored from the same artifact,
\* as long as that is within its retention.
RestoreSafe ==
    /\ live["postgresql"] \in Versions
    /\ (live["chroma_volume"] \in {None, Unfinished} /\ hurt # NoName /\ Retained(hurt))
            => Restorable(hurt)
============================================================================
