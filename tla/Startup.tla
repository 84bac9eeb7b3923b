-------------------------------- MODULE Startup --------------------------------
(***************************************************************************)
(* What backend/entrypoint.sh does before it starts the server, in any     *)
(* number of backend replicas sharing one database: run_migrations.py up,  *)
(* then ensure_ingested.py, each under a Postgres advisory lock.  A        *)
(* container that exits is restarted (docker-compose, unless-stopped).     *)
(*                                                                         *)
(* Postgres is modelled by what the scripts rely on: READ COMMITTED reads, *)
(* a writer of a row another transaction has inserted waits for it to end, *)
(* advisory locks belong to the connection, and a lost connection rolls    *)
(* back.  A version of the knowledge directory stands for its hash         *)
(* together with the embedding settings.                                   *)
(***************************************************************************)
EXTENDS Integers, FiniteSets

CONSTANTS
    Replicas,           \* backend containers
    LastMigration,      \* migration files are 1..LastMigration, in name order
    CategoryMigration,  \* the one that copies and drops knowledge_chunks.category
    Schemas,            \* databases: "legacy" has that column, "fresh" is init.sql's
    FailFasts,          \* values AUTO_STARTUP_FAIL_FAST may have
    Forces,             \* values FORCE_REINGEST may have
    LastVersion,        \* bound: versions of the knowledge directory
    Rollbacks,          \* the directory may go back to an earlier version
    MaxFaults           \* bound: crashes and failing calls

Files == 1..LastMigration
Versions == 1..LastVersion
Nobody == "nobody"

ASSUME StartupAssumption ==
    /\ LastMigration \in Nat /\ LastVersion \in Nat \ {0} /\ MaxFaults \in Nat
    /\ CategoryMigration \in Files
    /\ Schemas \subseteq {"fresh", "legacy"}
    /\ FailFasts \subseteq BOOLEAN /\ Forces \subseteq BOOLEAN /\ Rollbacks \in BOOLEAN
    /\ Nobody \notin Replicas

VARIABLES
    pc,             \* where each replica is
    failFast,       \* AUTO_STARTUP_FAIL_FAST
    force,          \* FORCE_REINGEST
    fresh,          \* the database was set up by today's init.sql
    tracking,       \* schema_migrations exists
    applied,        \* files recorded in it
    category,       \* knowledge_chunks.category exists
    pending,        \* files a runner has still to apply
    mine,           \* files applied in its open transaction
    migrationLock, ingestLock,  \* holders of the advisory locks
    knowledge,      \* version of the knowledge directory
    chunks,         \* version knowledge_chunks was built from, 0 when empty
    recorded,       \* version in knowledge_ingestion_state, 0 for no row
    populated,      \* whether a replica counted any rows
    version,        \* the version it computed the hash of
    loaded,         \* the version whose cards it read and embedded
    faults          \* crashes and failing calls so far

migrating == <<tracking, applied, category, pending, mine, migrationLock>>
ingesting == <<ingestLock, chunks, recorded, populated, version, loaded>>
world == <<failFast, force, fresh, knowledge>>
vars == <<pc, migrating, ingesting, world, faults>>

Places == {"boot", "create", "lock", "plan", "apply", "unlocked",
           "count", "hash", "wait", "decide", "embed", "record", "serve"}

Init ==
    /\ pc = [r \in Replicas |-> "boot"]
    /\ failFast \in FailFasts /\ force \in Forces
    /\ fresh \in {s = "fresh" : s \in Schemas} /\ category = ~fresh
    /\ tracking = FALSE /\ applied = {}
    /\ pending = [r \in Replicas |-> {}] /\ mine = [r \in Replicas |-> {}]
    /\ migrationLock = Nobody /\ ingestLock = Nobody
    /\ knowledge = 1 /\ recorded = 0
    /\ chunks \in IF fresh THEN {0} ELSE {0, 1}
    /\ populated = [r \in Replicas |-> FALSE]
    /\ version = [r \in Replicas |-> 0] /\ loaded = [r \in Replicas |-> 0]
    /\ faults = 0

\* A database or provider call of the script fails.
Fault == faults < MaxFaults /\ faults' = faults + 1

Goto(r, place) == pc' = [pc EXCEPT ![r] = place]

Released(lock, r) == IF lock = r THEN Nobody ELSE lock

-------------------------------------------------------------------------------
(***************************************************************************)
(* run_migrations.py up.                                                   *)
(***************************************************************************)

\* CREATE TABLE IF NOT EXISTS looks first.
FindTracking(r) ==
    /\ pc[r] = "boot"
    /\ Goto(r, IF tracking THEN "lock" ELSE "create")
    /\ UNCHANGED <<migrating, ingesting, world, faults>>

CreateTracking(r) ==
    /\ pc[r] = "create" /\ ~tracking
    /\ tracking' = TRUE
    /\ Goto(r, "lock")
    /\ UNCHANGED <<applied, category, pending, mine, migrationLock, ingesting, world, faults>>

LockMigrations(r) ==
    /\ pc[r] = "lock" /\ migrationLock = Nobody
    /\ migrationLock' = r
    /\ Goto(r, "plan")
    /\ UNCHANGED <<tracking, applied, category, pending, mine, ingesting, world, faults>>

Plan(r) ==
    /\ pc[r] = "plan"
    /\ pending' = [pending EXCEPT ![r] = Files \ applied]
    /\ Goto(r, "apply")
    /\ UNCHANGED <<tracking, applied, category, mine, migrationLock, ingesting, world, faults>>

NextFile(r) == CHOOSE m \in pending[r] : \A n \in pending[r] : m <= n

\* Another runner's open transaction holds the tables and the ledger row.
Blocked(r) == \E s \in Replicas \ {r} : NextFile(r) \in mine[s]

\* The ledger has the file by now, or the column to copy is not there.
Rejected(r) == NextFile(r) \in applied \/ (NextFile(r) = CategoryMigration /\ ~category)

\* Mutant: the statements of a file are committed as they run.
ApplyFile_Autocommit(r) ==
    /\ pc[r] = "apply" /\ pending[r] # {} /\ ~Blocked(r) /\ ~Rejected(r)
    /\ mine' = [mine EXCEPT ![r] = @ \cup {NextFile(r)}]
    /\ category' = (category /\ NextFile(r) # CategoryMigration)
    /\ pending' = [pending EXCEPT ![r] = @ \ {NextFile(r)}]
    /\ UNCHANGED <<pc, tracking, applied, migrationLock, ingesting, world, faults>>

\* Statements and ledger row go into the transaction that the first read of
\* the connection opened; the nested transaction() is a savepoint of it.
ApplyFile(r) ==
    /\ pc[r] = "apply" /\ pending[r] # {} /\ ~Blocked(r) /\ ~Rejected(r)
    /\ mine' = [mine EXCEPT ![r] = @ \cup {NextFile(r)}]
    /\ pending' = [pending EXCEPT ![r] = @ \ {NextFile(r)}]
    /\ UNCHANGED <<pc, tracking, applied, category, migrationLock, ingesting, world, faults>>

\* The lock goes before the transaction does.
UnlockMigrations(r) ==
    /\ pc[r] = "apply" /\ pending[r] = {}
    /\ migrationLock' = Nobody
    /\ Goto(r, "unlocked")
    /\ UNCHANGED <<tracking, applied, category, pending, mine, ingesting, world, faults>>

\* Leaving the connection's block commits.
CommitMigrations(r) ==
    /\ pc[r] = "unlocked"
    /\ applied' = applied \cup mine[r]
    /\ category' = (category /\ CategoryMigration \notin mine[r])
    /\ mine' = [mine EXCEPT ![r] = {}]
    /\ Goto(r, "count")
    /\ UNCHANGED <<tracking, pending, migrationLock, ingesting, world, faults>>

\* What is left of a replica whose connection is gone.
Abandoned(r) ==
    /\ pending' = [pending EXCEPT ![r] = {}]
    /\ mine' = [mine EXCEPT ![r] = {}]
    /\ migrationLock' = Released(migrationLock, r)
    /\ ingestLock' = Released(ingestLock, r)

\* The table appeared since the look, or a file is rejected: the runner exits
\* and everything it did is rolled back.
MigrationsFail(r) ==
    /\ \/ pc[r] = "create" /\ tracking
       \/ pc[r] = "apply" /\ pending[r] # {} /\ ~Blocked(r) /\ Rejected(r)
    /\ Abandoned(r)
    /\ Goto(r, IF failFast THEN "boot" ELSE "count")
    /\ UNCHANGED <<tracking, applied, category, chunks, recorded, populated, version, loaded,
                   world, faults>>

-------------------------------------------------------------------------------
(***************************************************************************)
(* ensure_ingested.py.                                                     *)
(***************************************************************************)

\* Both reads come before the lock.  A count that fails is zero.
CountChunks(r) ==
    /\ pc[r] = "count"
    /\ \/ populated' = [populated EXCEPT ![r] = chunks # 0] /\ UNCHANGED faults
       \/ Fault /\ populated' = [populated EXCEPT ![r] = FALSE]
    /\ Goto(r, "hash")
    /\ UNCHANGED <<migrating, ingestLock, chunks, recorded, version, loaded, world>>

ComputeHash(r) ==
    /\ pc[r] = "hash"
    /\ version' = [version EXCEPT ![r] = knowledge]
    /\ Goto(r, "wait")
    /\ UNCHANGED <<migrating, ingestLock, chunks, recorded, populated, loaded, world, faults>>

\* Mutant: the lock is only tried, and its answer ignored.
LockIngestion_Tried(r) ==
    /\ pc[r] = "wait"
    /\ ingestLock' = IF ingestLock = Nobody THEN r ELSE ingestLock
    /\ Goto(r, "decide")
    /\ UNCHANGED <<migrating, chunks, recorded, populated, version, loaded, world, faults>>

LockIngestion(r) ==
    /\ pc[r] = "wait" /\ ingestLock = Nobody
    /\ ingestLock' = r
    /\ Goto(r, "decide")
    /\ UNCHANGED <<migrating, chunks, recorded, populated, version, loaded, world, faults>>

UpToDate(r) == populated[r] /\ recorded = version[r]

\* Mutant: rows are enough to skip.
SkipIngestion_CountOnly(r) ==
    /\ pc[r] = "decide" /\ populated[r] /\ ~force
    /\ ingestLock' = Nobody
    /\ Goto(r, "serve")
    /\ UNCHANGED <<migrating, chunks, recorded, populated, version, loaded, world, faults>>

\* Mutant: the early return leaves the lock to a connection kept open.
SkipIngestion_Locked(r) ==
    /\ pc[r] = "decide" /\ UpToDate(r) /\ ~force
    /\ Goto(r, "serve")
    /\ UNCHANGED <<migrating, ingesting, world, faults>>

SkipIngestion(r) ==
    /\ pc[r] = "decide" /\ UpToDate(r) /\ ~force
    /\ ingestLock' = Nobody
    /\ Goto(r, "serve")
    /\ UNCHANGED <<migrating, chunks, recorded, populated, version, loaded, world, faults>>

\* ingest_cards.py reads the directory again.  A state that cannot be read
\* counts as none.
LoadCards(r) ==
    /\ pc[r] = "decide"
    /\ \/ (~UpToDate(r) \/ force) /\ UNCHANGED faults
       \/ UpToDate(r) /\ Fault
    /\ loaded' = [loaded EXCEPT ![r] = knowledge]
    /\ Goto(r, "embed")
    /\ UNCHANGED <<migrating, ingestLock, chunks, recorded, populated, version, world>>

\* Mutant: the table is not truncated.
RebuildChunks_NoTruncate(r) ==
    /\ pc[r] = "embed" /\ ~category
    /\ chunks' = chunks + loaded[r]
    /\ Goto(r, "record")
    /\ UNCHANGED <<migrating, ingestLock, recorded, populated, version, loaded, world, faults>>

\* TRUNCATE and the inserts are one transaction.
RebuildChunks(r) ==
    /\ pc[r] = "embed" /\ ~category
    /\ chunks' = loaded[r]
    /\ Goto(r, "record")
    /\ UNCHANGED <<migrating, ingestLock, recorded, populated, version, loaded, world, faults>>

\* Mutant: the exception ingest_cards.py ends with is caught and passed over.
IngestionFails_Unchecked(r) ==
    /\ pc[r] = "embed" /\ category
    /\ Goto(r, "record")
    /\ UNCHANGED <<migrating, ingesting, world, faults>>

\* The table still has the old column, and the script exits.
IngestionFails(r) ==
    /\ pc[r] = "embed" /\ category
    /\ Abandoned(r)
    /\ Goto(r, IF failFast THEN "boot" ELSE "serve")
    /\ UNCHANGED <<tracking, applied, category, chunks, recorded, populated, version, loaded,
                   world, faults>>

\* Mutant: the hash is taken again when it is recorded.
RecordState_Rehashed(r) ==
    /\ pc[r] = "record"
    /\ recorded' = knowledge
    /\ ingestLock' = Nobody
    /\ Goto(r, "serve")
    /\ UNCHANGED <<migrating, chunks, populated, version, loaded, world, faults>>

\* Recording is best effort.
RecordState(r) ==
    /\ pc[r] = "record"
    /\ \/ recorded' = version[r] /\ UNCHANGED faults
       \/ Fault /\ UNCHANGED recorded
    /\ ingestLock' = Nobody
    /\ Goto(r, "serve")
    /\ UNCHANGED <<migrating, chunks, populated, version, loaded, world>>

-------------------------------------------------------------------------------

\* A call of a script fails where nothing catches it: the script exits, and
\* entrypoint.sh exits or goes on to what comes after it.
ScriptFails(r) ==
    /\ pc[r] \notin {"count", "record", "serve"} /\ Fault
    /\ Abandoned(r)
    /\ Goto(r, IF failFast THEN "boot"
               ELSE IF pc[r] \in {"hash", "wait", "decide", "embed"} THEN "serve" ELSE "count")
    /\ UNCHANGED <<tracking, applied, category, chunks, recorded, populated, version, loaded, world>>

\* The container dies; what it had committed stays.
Crash(r) ==
    /\ Fault
    /\ Abandoned(r)
    /\ Goto(r, "boot")
    /\ UNCHANGED <<tracking, applied, category, chunks, recorded, populated, version, loaded, world>>

\* A serving replica is restarted, to pick up new cards for instance.
Restart(r) ==
    /\ pc[r] = "serve"
    /\ Goto(r, "boot")
    /\ UNCHANGED <<migrating, ingesting, world, faults>>

\* The mounted directory changes under the replicas.
Deploy ==
    /\ \/ knowledge < LastVersion /\ knowledge' = knowledge + 1
       \/ Rollbacks /\ knowledge > 1 /\ knowledge' = knowledge - 1
    /\ UNCHANGED <<pc, migrating, ingesting, failFast, force, fresh, faults>>

Lock(r) == LockMigrations(r) \/ LockIngestion(r)

Work(r) ==
    \/ FindTracking(r) \/ CreateTracking(r) \/ Plan(r) \/ ApplyFile(r)
    \/ UnlockMigrations(r) \/ CommitMigrations(r) \/ MigrationsFail(r)
    \/ CountChunks(r) \/ ComputeHash(r) \/ SkipIngestion(r) \/ LoadCards(r)
    \/ RebuildChunks(r) \/ IngestionFails(r) \/ RecordState(r)

Next ==
    \/ \E r \in Replicas : Lock(r) \/ Work(r) \/ ScriptFails(r) \/ Crash(r) \/ Restart(r)
    \/ Deploy

Spec == Init /\ [][Next]_vars

\* Scripts run to their end and exited containers are restarted; Postgres
\* grants an advisory lock in the order of the queue, so a waiter whose lock is
\* free time and again gets it.
FairSpec ==
    /\ Spec
    /\ \A r \in Replicas :
        /\ WF_vars(Work(r))
        /\ SF_vars(LockMigrations(r)) /\ SF_vars(LockIngestion(r))

-------------------------------------------------------------------------------
(***************************************************************************)
(* Properties.                                                             *)
(***************************************************************************)

\* Every variable holds a value of its kind.
TypeOK ==
    /\ pc \in [Replicas -> Places]
    /\ failFast \in BOOLEAN /\ force \in BOOLEAN /\ fresh \in BOOLEAN /\ tracking \in BOOLEAN /\ category \in BOOLEAN
    /\ applied \subseteq Files
    /\ pending \in [Replicas -> SUBSET Files] /\ mine \in [Replicas -> SUBSET Files]
    /\ migrationLock \in Replicas \cup {Nobody} /\ ingestLock \in Replicas \cup {Nobody}
    /\ knowledge \in Versions /\ chunks \in 0..LastVersion /\ recorded \in 0..LastVersion
    /\ populated \in [Replicas -> BOOLEAN]
    /\ version \in [Replicas -> 0..LastVersion] /\ loaded \in [Replicas -> 0..LastVersion]
    /\ faults \in 0..MaxFaults

\* The ledger and the schema agree whatever crashes: a file is recorded
\* exactly when its statements took effect, and files take effect together,
\* so none is missing before one that is there.
LedgerMatchesSchema ==
    /\ ~fresh => (CategoryMigration \in applied <=> ~category)
    /\ \A m \in applied : 1..m \subseteq applied

\* Replicas ingest one at a time (MIGRATIONS.md:127), and what they decide on
\* cannot change under them.
OneIngests ==
    \A r \in Replicas : pc[r] \in {"decide", "embed", "record"} => ingestLock = r

\* Knowledge that only moves forward is never recorded as ingested before it
\* is: the recorded version is at most the one the chunks are from, though
\* hash, cards and record are read and written at different times.
RecordedWasIngested == ~Rollbacks => recorded <= chunks /\ chunks <= knowledge

\* With fail-fast, a server never starts on an unmigrated database, nor with
\* chunks older than the cards it found when it started.
ServesCurrent ==
    failFast /\ ~Rollbacks =>
        \A r \in Replicas : pc[r] = "serve" =>
            applied = Files /\ chunks # 0 /\ chunks >= version[r]

\* A table that still has the old column is never recorded as ingested, with
\* or without fail-fast: ingestion that runs after migrations failed leaves no
\* record, so a later start on the migrated table does not take the old rows
\* for an ingestion and skip (entrypoint.sh:30, ensure_ingested.py:226).
UnmigratedNotRecorded ==
    category => recorded = 0 /\ \A r \in Replicas : pc[r] # "record"

\* A replica that starts comes to serve in the end, also when it loses a race
\* for the tracking table or a migration and has to be restarted.
StartupEnds == \A r \in Replicas : pc[r] = "boot" ~> pc[r] = "serve"

\* MIGRATIONS.md:99: "only one backend instance applies migrations at a time".
OneInstanceApplies ==
    \A r, s \in Replicas : mine[r] # {} /\ pc[s] = "apply" /\ pending[s] # {} => r = s

\* MIGRATIONS.md:8: migrations are idempotent, so they can be run against the
\* schema init.sql creates.
FreshInstallMigrates ==
    fresh => \A r \in Replicas : pc[r] = "apply" /\ pending[r] # {} => ~Rejected(r)

\* ensure_ingested.py:15: cards that changed since the last ingestion are
\* ingested again, so what is skipped is what the chunks were built from.
SkippedMeansUnchanged ==
    [][\A r \in Replicas : SkipIngestion(r) => chunks = version[r]]_vars

===============================================================================
