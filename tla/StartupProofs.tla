----------------------------- MODULE StartupProofs -----------------------------
(***************************************************************************)
(* The safety of the start-up scripts for any number of replicas, of       *)
(* migration files, of versions of the cards and of faults, and what       *)
(* their coming to an end rests on.                                        *)
(***************************************************************************)
EXTENDS Startup, LeastElements, TLAPS

Migrating == {"apply", "unlocked"}
Ingesting == {"decide", "embed", "record"}
Migrated == {"count", "hash", "wait", "decide", "embed", "record", "serve"}

\* What a runner has planned, it has still to do, has done in its open
\* transaction, or finds done; what it has done has no gap before it.
PendingInv ==
    \A r \in Replicas :
        /\ pc[r] \in Migrating => Files \subseteq applied \cup mine[r] \cup pending[r]
        /\ pc[r] = "unlocked" => pending[r] = {}
        /\ \A m \in mine[r] : 1..m \subseteq applied \cup mine[r]

\* With fail-fast nothing gets past unfinished migrations.
MigratedInv == failFast => \A r \in Replicas : pc[r] \in Migrated => applied = Files

\* Rows do not disappear, and only existing cards are loaded.
RowsInv ==
    \A r \in Replicas :
        /\ populated[r] => chunks # 0
        /\ pc[r] = "embed" => loaded[r] # 0
        /\ pc[r] \in {"record", "serve"} /\ failFast => chunks # 0

\* While the cards only move forward, every version read is at most the
\* current one, and the holder of the lock loads no older cards than it
\* hashed or than the table is built from.
VersionInv ==
    ~Rollbacks => \A r \in Replicas :
        /\ version[r] <= knowledge /\ loaded[r] <= knowledge
        /\ pc[r] = "embed" => version[r] <= loaded[r] /\ chunks <= loaded[r]
        /\ pc[r] = "record" => version[r] <= chunks
        /\ pc[r] = "serve" /\ failFast => version[r] <= chunks

IInv ==
    /\ TypeOK /\ LedgerMatchesSchema /\ OneIngests /\ RecordedWasIngested
    /\ PendingInv /\ MigratedInv /\ RowsInv /\ VersionInv

LEMMA InitInv == Init => IInv
<1> SUFFICES ASSUME Init PROVE IInv
  OBVIOUS
<1> USE StartupAssumption DEF Init
<1>1. TypeOK
  <2>1. failFast \in BOOLEAN /\ force \in BOOLEAN /\ tracking \in BOOLEAN
    OBVIOUS
  <2>2. fresh \in BOOLEAN
    <3>1. {s = "fresh" : s \in Schemas} \subseteq BOOLEAN
      BY Zenon
    <3>2. QED BY <3>1
  <2>3. category \in BOOLEAN
    BY Zenon
  <2>4. /\ pc \in [Replicas -> Places] /\ applied \subseteq Files
        /\ pending \in [Replicas -> SUBSET Files] /\ mine \in [Replicas -> SUBSET Files]
        /\ populated \in [Replicas -> BOOLEAN]
        /\ migrationLock = Nobody /\ ingestLock = Nobody
    BY DEF Places
  <2>5. /\ knowledge \in Versions /\ chunks \in 0..LastVersion /\ recorded \in 0..LastVersion
        /\ version \in [Replicas -> 0..LastVersion] /\ loaded \in [Replicas -> 0..LastVersion]
        /\ faults \in 0..MaxFaults
    BY DEF Versions
  <2> HIDE DEF Init
  <2>6. QED BY <2>1, <2>2, <2>3, <2>4, <2>5 DEF TypeOK
<1>2. LedgerMatchesSchema
  BY Zenon DEF LedgerMatchesSchema
<1>3. OneIngests /\ RecordedWasIngested
  <2>1. chunks \in 0..1
    OBVIOUS
  <2>2. QED BY <2>1 DEF OneIngests, RecordedWasIngested
<1>4. PendingInv /\ MigratedInv /\ RowsInv /\ VersionInv
  BY DEF PendingInv, MigratedInv, RowsInv, VersionInv, Migrating, Migrated
<1>5. QED BY <1>1, <1>2, <1>3, <1>4 DEF IInv

\* The runner takes the first of the files it has still to apply.
LEMMA NextFileIsFirst ==
    ASSUME NEW r \in Replicas, TypeOK, pending[r] # {}
    PROVE  NextFile(r) \in pending[r] /\ \A n \in pending[r] : NextFile(r) <= n
<1>1. pending[r] \subseteq Nat
  BY StartupAssumption DEF TypeOK, Files
<1>2. PICK m \in pending[r] : \A n \in pending[r] : m <= n
  BY <1>1, SmallestExists
<1>3. QED BY <1>2 DEF NextFile

(***************************************************************************)
(* Every action preserves the invariant.                                   *)
(***************************************************************************)

LEMMA FindTrackingInv == \A r \in Replicas : IInv /\ FindTracking(r) => IInv'
<1> SUFFICES ASSUME NEW r \in Replicas, IInv, FindTracking(r) PROVE IInv'
  OBVIOUS
<1> USE StartupAssumption DEF IInv, TypeOK, FindTracking, Goto, migrating, ingesting, world
<1>1. TypeOK'
  BY DEF Places, Versions
<1>2. LedgerMatchesSchema' /\ OneIngests' /\ RecordedWasIngested'
  BY DEF LedgerMatchesSchema, OneIngests, RecordedWasIngested
<1>3. PendingInv' /\ MigratedInv'
  BY DEF PendingInv, Migrating, MigratedInv, Migrated
<1>4. RowsInv' /\ VersionInv'
  BY DEF RowsInv, VersionInv
<1>5. QED BY <1>1, <1>2, <1>3, <1>4

LEMMA CreateTrackingInv == \A r \in Replicas : IInv /\ CreateTracking(r) => IInv'
<1> SUFFICES ASSUME NEW r \in Replicas, IInv, CreateTracking(r) PROVE IInv'
  OBVIOUS
<1> USE StartupAssumption DEF IInv, TypeOK, CreateTracking, Goto, ingesting, world
<1>1. TypeOK'
  BY DEF Places, Versions
<1>2. LedgerMatchesSchema' /\ OneIngests' /\ RecordedWasIngested'
  BY DEF LedgerMatchesSchema, OneIngests, RecordedWasIngested
<1>3. PendingInv' /\ MigratedInv'
  BY DEF PendingInv, Migrating, MigratedInv, Migrated
<1>4. RowsInv' /\ VersionInv'
  BY DEF RowsInv, VersionInv
<1>5. QED BY <1>1, <1>2, <1>3, <1>4

LEMMA LockMigrationsInv == \A r \in Replicas : IInv /\ LockMigrations(r) => IInv'
<1> SUFFICES ASSUME NEW r \in Replicas, IInv, LockMigrations(r) PROVE IInv'
  OBVIOUS
<1> USE StartupAssumption DEF IInv, TypeOK, LockMigrations, Goto, ingesting, world
<1>1. TypeOK'
  BY DEF Places, Versions
<1>2. LedgerMatchesSchema' /\ OneIngests' /\ RecordedWasIngested'
  BY DEF LedgerMatchesSchema, OneIngests, RecordedWasIngested
<1>3. PendingInv' /\ MigratedInv'
  BY DEF PendingInv, Migrating, MigratedInv, Migrated
<1>4. RowsInv' /\ VersionInv'
  BY DEF RowsInv, VersionInv
<1>5. QED BY <1>1, <1>2, <1>3, <1>4

LEMMA PlanInv == \A r \in Replicas : IInv /\ Plan(r) => IInv'
<1> SUFFICES ASSUME NEW r \in Replicas, IInv, Plan(r) PROVE IInv'
  OBVIOUS
<1> USE StartupAssumption DEF IInv, TypeOK, Plan, Goto, ingesting, world
<1>1. TypeOK'
  BY DEF Places, Versions
<1>2. LedgerMatchesSchema' /\ OneIngests' /\ RecordedWasIngested'
  BY DEF LedgerMatchesSchema, OneIngests, RecordedWasIngested
<1>3. PendingInv' /\ MigratedInv'
  BY DEF PendingInv, Migrating, MigratedInv, Migrated
<1>4. RowsInv' /\ VersionInv'
  BY DEF RowsInv, VersionInv
<1>5. QED BY <1>1, <1>2, <1>3, <1>4

LEMMA ApplyFileInv == \A r \in Replicas : IInv /\ ApplyFile(r) => IInv'
<1> SUFFICES ASSUME NEW r \in Replicas, IInv, ApplyFile(r) PROVE IInv'
  OBVIOUS
<1> USE StartupAssumption DEF IInv, TypeOK, ApplyFile, Goto, ingesting, world
<1>0. NextFile(r) \in pending[r] /\ \A n \in pending[r] : NextFile(r) <= n
  BY NextFileIsFirst
<1>1. TypeOK'
  BY <1>0 DEF Places
<1>2. LedgerMatchesSchema' /\ OneIngests' /\ RecordedWasIngested'
  BY DEF LedgerMatchesSchema, OneIngests, RecordedWasIngested
<1>3. PendingInv'
  <2>1. \A n \in 1..NextFile(r) : n \in Files /\ (n \in applied \cup mine[r] \/ n = NextFile(r))
    BY <1>0 DEF PendingInv, Migrating, Files
  <2>2. QED BY <1>0, <2>1 DEF PendingInv, Migrating
<1>4. MigratedInv'
  BY DEF MigratedInv, Migrated
<1>5. RowsInv' /\ VersionInv'
  BY DEF RowsInv, VersionInv
<1>6. QED BY <1>1, <1>2, <1>3, <1>4, <1>5

LEMMA UnlockMigrationsInv == \A r \in Replicas : IInv /\ UnlockMigrations(r) => IInv'
<1> SUFFICES ASSUME NEW r \in Replicas, IInv, UnlockMigrations(r) PROVE IInv'
  OBVIOUS
<1> USE StartupAssumption DEF IInv, TypeOK, UnlockMigrations, Goto, ingesting, world
<1>1. TypeOK'
  BY DEF Places, Versions
<1>2. LedgerMatchesSchema' /\ OneIngests' /\ RecordedWasIngested'
  BY DEF LedgerMatchesSchema, OneIngests, RecordedWasIngested
<1>3. PendingInv' /\ MigratedInv'
  BY DEF PendingInv, Migrating, MigratedInv, Migrated
<1>4. RowsInv' /\ VersionInv'
  BY DEF RowsInv, VersionInv
<1>5. QED BY <1>1, <1>2, <1>3, <1>4

LEMMA CommitMigrationsInv == \A r \in Replicas : IInv /\ CommitMigrations(r) => IInv'
<1> SUFFICES ASSUME NEW r \in Replicas, IInv, CommitMigrations(r) PROVE IInv'
  OBVIOUS
<1> USE StartupAssumption DEF IInv, TypeOK, CommitMigrations, Goto, ingesting, world
<1>1. TypeOK'
  BY DEF Places, Versions
<1>2. LedgerMatchesSchema' /\ OneIngests' /\ RecordedWasIngested'
  BY DEF LedgerMatchesSchema, OneIngests, RecordedWasIngested, PendingInv
<1>3. PendingInv' /\ MigratedInv'
  BY DEF PendingInv, Migrating, MigratedInv, Migrated
<1>4. RowsInv' /\ VersionInv'
  BY DEF RowsInv, VersionInv
<1>5. QED BY <1>1, <1>2, <1>3, <1>4

LEMMA MigrationsFailInv == \A r \in Replicas : IInv /\ MigrationsFail(r) => IInv'
<1> SUFFICES ASSUME NEW r \in Replicas, IInv, MigrationsFail(r) PROVE IInv'
  OBVIOUS
<1> USE StartupAssumption DEF IInv, TypeOK, MigrationsFail, Goto, Abandoned, world, Released
<1>1. TypeOK'
  BY DEF Places, Versions
<1>2. LedgerMatchesSchema' /\ OneIngests' /\ RecordedWasIngested'
  BY DEF LedgerMatchesSchema, OneIngests, RecordedWasIngested
<1>3. PendingInv' /\ MigratedInv'
  BY DEF PendingInv, Migrating, MigratedInv, Migrated
<1>4. RowsInv' /\ VersionInv'
  BY DEF RowsInv, VersionInv
<1>5. QED BY <1>1, <1>2, <1>3, <1>4

LEMMA CountChunksInv == \A r \in Replicas : IInv /\ CountChunks(r) => IInv'
<1> SUFFICES ASSUME NEW r \in Replicas, IInv, CountChunks(r) PROVE IInv'
  OBVIOUS
<1> USE StartupAssumption DEF IInv, TypeOK, CountChunks, Goto, Fault, migrating, world
<1>1. TypeOK'
  <2>1. populated' \in [Replicas -> BOOLEAN]
    BY Zenon
  <2>2. QED BY <2>1 DEF Places
<1>2. LedgerMatchesSchema' /\ OneIngests' /\ RecordedWasIngested'
  BY DEF LedgerMatchesSchema, OneIngests, RecordedWasIngested
<1>3. PendingInv' /\ MigratedInv'
  BY DEF PendingInv, Migrating, MigratedInv, Migrated
<1>4. RowsInv' /\ VersionInv'
  BY DEF RowsInv, VersionInv
<1>5. QED BY <1>1, <1>2, <1>3, <1>4

LEMMA ComputeHashInv == \A r \in Replicas : IInv /\ ComputeHash(r) => IInv'
<1> SUFFICES ASSUME NEW r \in Replicas, IInv, ComputeHash(r) PROVE IInv'
  OBVIOUS
<1> USE StartupAssumption DEF IInv, TypeOK, ComputeHash, Goto, migrating, world
<1>1. TypeOK'
  BY DEF Places, Versions
<1>2. LedgerMatchesSchema' /\ OneIngests' /\ RecordedWasIngested'
  BY DEF LedgerMatchesSchema, OneIngests, RecordedWasIngested
<1>3. PendingInv' /\ MigratedInv'
  BY DEF PendingInv, Migrating, MigratedInv, Migrated
<1>4. RowsInv' /\ VersionInv'
  BY DEF RowsInv, VersionInv, Versions
<1>5. QED BY <1>1, <1>2, <1>3, <1>4

LEMMA LockIngestionInv == \A r \in Replicas : IInv /\ LockIngestion(r) => IInv'
<1> SUFFICES ASSUME NEW r \in Replicas, IInv, LockIngestion(r) PROVE IInv'
  OBVIOUS
<1> USE StartupAssumption DEF IInv, TypeOK, LockIngestion, Goto, migrating, world
<1>1. TypeOK'
  BY DEF Places, Versions
<1>2. LedgerMatchesSchema' /\ OneIngests' /\ RecordedWasIngested'
  BY DEF LedgerMatchesSchema, OneIngests, RecordedWasIngested
<1>3. PendingInv' /\ MigratedInv'
  BY DEF PendingInv, Migrating, MigratedInv, Migrated
<1>4. RowsInv' /\ VersionInv'
  BY DEF RowsInv, VersionInv
<1>5. QED BY <1>1, <1>2, <1>3, <1>4

LEMMA SkipIngestionInv == \A r \in Replicas : IInv /\ SkipIngestion(r) => IInv'
<1> SUFFICES ASSUME NEW r \in Replicas, IInv, SkipIngestion(r) PROVE IInv'
  OBVIOUS
<1> USE StartupAssumption DEF IInv, TypeOK, SkipIngestion, Goto, UpToDate, migrating, world
<1>1. TypeOK'
  BY DEF Places, Versions
<1>2. LedgerMatchesSchema' /\ OneIngests' /\ RecordedWasIngested'
  BY DEF LedgerMatchesSchema, OneIngests, RecordedWasIngested
<1>3. PendingInv' /\ MigratedInv'
  BY DEF PendingInv, Migrating, MigratedInv, Migrated
<1>4. RowsInv' /\ VersionInv'
  BY DEF RowsInv, VersionInv, RecordedWasIngested
<1>5. QED BY <1>1, <1>2, <1>3, <1>4

LEMMA LoadCardsInv == \A r \in Replicas : IInv /\ LoadCards(r) => IInv'
<1> SUFFICES ASSUME NEW r \in Replicas, IInv, LoadCards(r) PROVE IInv'
  OBVIOUS
<1> USE StartupAssumption DEF IInv, TypeOK, LoadCards, Goto, Fault, UpToDate, migrating, world
<1>1. TypeOK'
  BY DEF Places, Versions
<1>2. LedgerMatchesSchema' /\ OneIngests' /\ RecordedWasIngested'
  BY DEF LedgerMatchesSchema, OneIngests, RecordedWasIngested
<1>3. PendingInv' /\ MigratedInv'
  BY DEF PendingInv, Migrating, MigratedInv, Migrated
<1>4. RowsInv' /\ VersionInv'
  BY DEF RowsInv, VersionInv, RecordedWasIngested, OneIngests, Versions
<1>5. QED BY <1>1, <1>2, <1>3, <1>4

LEMMA RebuildChunksInv == \A r \in Replicas : IInv /\ RebuildChunks(r) => IInv'
<1> SUFFICES ASSUME NEW r \in Replicas, IInv, RebuildChunks(r) PROVE IInv'
  OBVIOUS
<1> USE StartupAssumption DEF IInv, TypeOK, RebuildChunks, Goto, migrating, world
<1>1. TypeOK'
  BY DEF Places, Versions
<1>2. LedgerMatchesSchema' /\ OneIngests' /\ RecordedWasIngested'
  BY DEF LedgerMatchesSchema, OneIngests, RecordedWasIngested, VersionInv, Versions
<1>3. PendingInv' /\ MigratedInv'
  BY DEF PendingInv, Migrating, MigratedInv, Migrated
<1>4. RowsInv' /\ VersionInv'
  BY DEF RowsInv, VersionInv, OneIngests, Versions
<1>5. QED BY <1>1, <1>2, <1>3, <1>4

LEMMA IngestionFailsInv == \A r \in Replicas : IInv /\ IngestionFails(r) => IInv'
<1> SUFFICES ASSUME NEW r \in Replicas, IInv, IngestionFails(r) PROVE IInv'
  OBVIOUS
<1> USE StartupAssumption DEF IInv, TypeOK, IngestionFails, Goto, Abandoned, world, Released
<1>1. TypeOK'
  BY DEF Places, Versions
<1>2. LedgerMatchesSchema' /\ OneIngests' /\ RecordedWasIngested'
  BY DEF LedgerMatchesSchema, OneIngests, RecordedWasIngested
<1>3. PendingInv' /\ MigratedInv'
  BY DEF PendingInv, Migrating, MigratedInv, Migrated
<1>4. RowsInv' /\ VersionInv'
  BY DEF RowsInv, VersionInv
<1>5. QED BY <1>1, <1>2, <1>3, <1>4

LEMMA RecordStateInv == \A r \in Replicas : IInv /\ RecordState(r) => IInv'
<1> SUFFICES ASSUME NEW r \in Replicas, IInv, RecordState(r) PROVE IInv'
  OBVIOUS
<1> USE StartupAssumption DEF IInv, TypeOK, RecordState, Goto, Fault, migrating, world
<1>1. TypeOK'
  BY DEF Places, Versions
<1>2. LedgerMatchesSchema' /\ OneIngests' /\ RecordedWasIngested'
  BY DEF LedgerMatchesSchema, OneIngests, RecordedWasIngested, VersionInv, Versions
<1>3. PendingInv' /\ MigratedInv'
  BY DEF PendingInv, Migrating, MigratedInv, Migrated
<1>4. RowsInv' /\ VersionInv'
  BY DEF RowsInv, VersionInv, OneIngests
<1>5. QED BY <1>1, <1>2, <1>3, <1>4

LEMMA ScriptFailsInv == \A r \in Replicas : IInv /\ ScriptFails(r) => IInv'
<1> SUFFICES ASSUME NEW r \in Replicas, IInv, ScriptFails(r) PROVE IInv'
  OBVIOUS
<1> USE StartupAssumption DEF IInv, TypeOK, ScriptFails, Goto, Fault, Abandoned, world, Released
<1>1. TypeOK'
  BY DEF Places, Versions
<1>2. LedgerMatchesSchema' /\ OneIngests' /\ RecordedWasIngested'
  BY DEF LedgerMatchesSchema, OneIngests, RecordedWasIngested
<1>3. PendingInv' /\ MigratedInv'
  BY DEF PendingInv, Migrating, MigratedInv, Migrated
<1>4. RowsInv' /\ VersionInv'
  BY DEF RowsInv, VersionInv
<1>5. QED BY <1>1, <1>2, <1>3, <1>4

LEMMA CrashInv == \A r \in Replicas : IInv /\ Crash(r) => IInv'
<1> SUFFICES ASSUME NEW r \in Replicas, IInv, Crash(r) PROVE IInv'
  OBVIOUS
<1> USE StartupAssumption DEF IInv, TypeOK, Crash, Goto, Fault, Abandoned, world, Released
<1>1. TypeOK'
  BY DEF Places, Versions
<1>2. LedgerMatchesSchema' /\ OneIngests' /\ RecordedWasIngested'
  BY DEF LedgerMatchesSchema, OneIngests, RecordedWasIngested
<1>3. PendingInv' /\ MigratedInv'
  BY DEF PendingInv, Migrating, MigratedInv, Migrated
<1>4. RowsInv' /\ VersionInv'
  BY DEF RowsInv, VersionInv
<1>5. QED BY <1>1, <1>2, <1>3, <1>4

LEMMA RestartInv == \A r \in Replicas : IInv /\ Restart(r) => IInv'
<1> SUFFICES ASSUME NEW r \in Replicas, IInv, Restart(r) PROVE IInv'
  OBVIOUS
<1> USE StartupAssumption DEF IInv, TypeOK, Restart, Goto, migrating, ingesting, world
<1>1. TypeOK'
  BY DEF Places, Versions
<1>2. LedgerMatchesSchema' /\ OneIngests' /\ RecordedWasIngested'
  BY DEF LedgerMatchesSchema, OneIngests, RecordedWasIngested
<1>3. PendingInv' /\ MigratedInv'
  BY DEF PendingInv, Migrating, MigratedInv, Migrated
<1>4. RowsInv' /\ VersionInv'
  BY DEF RowsInv, VersionInv
<1>5. QED BY <1>1, <1>2, <1>3, <1>4

LEMMA DeployInv == IInv /\ Deploy => IInv'
<1> SUFFICES ASSUME IInv, Deploy PROVE IInv'
  OBVIOUS
<1> USE StartupAssumption DEF IInv, TypeOK, Deploy, migrating, ingesting, Versions
<1>1. TypeOK'
  OBVIOUS
<1>2. LedgerMatchesSchema' /\ OneIngests' /\ RecordedWasIngested'
  BY DEF LedgerMatchesSchema, OneIngests, RecordedWasIngested
<1>3. PendingInv' /\ MigratedInv' /\ RowsInv' /\ VersionInv'
  BY DEF PendingInv, MigratedInv, RowsInv, VersionInv
<1>4. QED BY <1>1, <1>2, <1>3

LEMMA StepInv == IInv /\ [Next]_vars => IInv'
<1> SUFFICES ASSUME IInv, [Next]_vars PROVE IInv'
  OBVIOUS
<1>1. CASE UNCHANGED vars
  <2> USE <1>1 DEF vars, migrating, ingesting, world, IInv
  <2>1. TypeOK' /\ LedgerMatchesSchema' /\ OneIngests' /\ RecordedWasIngested'
    BY DEF TypeOK, LedgerMatchesSchema, OneIngests, RecordedWasIngested
  <2>2. PendingInv' /\ MigratedInv' /\ RowsInv' /\ VersionInv'
    BY DEF PendingInv, MigratedInv, RowsInv, VersionInv
  <2>3. QED BY <2>1, <2>2
<1>2. ASSUME NEW r \in Replicas, Lock(r) \/ ScriptFails(r) \/ Crash(r) \/ Restart(r)
      PROVE  IInv'
  BY <1>2, LockMigrationsInv, LockIngestionInv, ScriptFailsInv, CrashInv, RestartInv DEF Lock
<1>3. ASSUME NEW r \in Replicas, Work(r)
      PROVE  IInv'
  BY <1>3, FindTrackingInv, CreateTrackingInv, PlanInv, ApplyFileInv, UnlockMigrationsInv,
     CommitMigrationsInv, MigrationsFailInv, CountChunksInv, ComputeHashInv, SkipIngestionInv,
     LoadCardsInv, RebuildChunksInv, IngestionFailsInv, RecordStateInv DEF Work
<1>4. CASE Deploy
  BY <1>4, DeployInv
<1>5. QED BY <1>1, <1>2, <1>3, <1>4 DEF Next

\* The invariant the theorems of the start-up scripts rest on holds in every
\* state, for any interleaving of replicas, crashes and deployments.
THEOREM Invariance == Spec => []IInv
BY InitInv, StepInv, PTL DEF Spec

\* Every variable holds a value of its kind, however many replicas start.
THEOREM TypeCorrect == Spec => []TypeOK
<1>1. IInv => TypeOK
  BY DEF IInv
<1>2. QED BY <1>1, Invariance, PTL

\* Whatever crashes, exits or runs at the same time, schema_migrations records
\* a file exactly when its statements took effect (run_migrations.py:190), and
\* never a later file without the earlier ones.
THEOREM LedgerIsTrue == Spec => []LedgerMatchesSchema
<1>1. IInv => LedgerMatchesSchema
  BY DEF IInv
<1>2. QED BY <1>1, Invariance, PTL

\* From its decision to its record an ingestion holds the advisory lock
\* (ensure_ingested.py:206), for any number of replicas and faults.
THEOREM IngestionsExclude == Spec => []OneIngests
<1>1. IInv => OneIngests
  BY DEF IInv
<1>2. QED BY <1>1, Invariance, PTL

\* As long as the cards only move forward, hashing them before the lock and
\* reading them again under it (ensure_ingested.py:199, ingest_cards.py:103)
\* records no version the table is not at least as new as.
THEOREM RecordsFollowIngestion == Spec => []RecordedWasIngested
<1>1. IInv => RecordedWasIngested
  BY DEF IInv
<1>2. QED BY <1>1, Invariance, PTL

\* A server that starts under fail-fast has the whole schema and chunks at
\* least as new as the cards it hashed.
THEOREM ServersAreCurrent == Spec => []ServesCurrent
<1>1. IInv => ServesCurrent
  BY DEF IInv, TypeOK, ServesCurrent, MigratedInv, Migrated, RowsInv, VersionInv
<1>2. QED BY <1>1, Invariance, PTL

\* Only RebuildChunks leads to the record, on a table that has lost the old
\* column; and the column does not come back, whoever migrates or crashes.
LEMMA UnmigratedStep == IInv /\ UnmigratedNotRecorded /\ [Next]_vars => UnmigratedNotRecorded'
<1> SUFFICES ASSUME IInv, UnmigratedNotRecorded, [Next]_vars, category'
             PROVE  recorded' = 0 /\ \A r \in Replicas : pc'[r] # "record"
  BY DEF UnmigratedNotRecorded
<1>1. pc \in [Replicas -> Places]
  BY DEF IInv, TypeOK
<1>2. CASE UNCHANGED vars
  BY <1>2 DEF vars, migrating, ingesting, world, UnmigratedNotRecorded
<1>3. CASE Deploy
  BY <1>3 DEF Deploy, migrating, ingesting, UnmigratedNotRecorded
<1>4. ASSUME NEW r \in Replicas, Lock(r) \/ Work(r) \/ ScriptFails(r) \/ Crash(r) \/ Restart(r)
      PROVE  /\ category
             /\ recorded' = recorded \/ pc[r] = "record"
             /\ \E place : pc' = [pc EXCEPT ![r] = place] /\ (place = "record" => ~category)
  <2>1. CASE ApplyFile(r)
    <3>1. pc' = [pc EXCEPT ![r] = "apply"]
      BY <1>1, <2>1 DEF ApplyFile
    <3>2. QED BY <2>1, <3>1 DEF ApplyFile, ingesting
  <2>2. CASE Lock(r) \/ FindTracking(r) \/ CreateTracking(r) \/ Plan(r) \/ UnlockMigrations(r)
             \/ CommitMigrations(r) \/ MigrationsFail(r)
    BY <2>2 DEF Lock, LockMigrations, LockIngestion, FindTracking, CreateTracking, Plan,
       UnlockMigrations, CommitMigrations, MigrationsFail, Goto, migrating, ingesting
  <2>3. CASE CountChunks(r) \/ ComputeHash(r) \/ SkipIngestion(r) \/ LoadCards(r)
             \/ RebuildChunks(r) \/ IngestionFails(r) \/ RecordState(r)
    BY <2>3 DEF CountChunks, ComputeHash, SkipIngestion, LoadCards, RebuildChunks,
       IngestionFails, RecordState, Goto, migrating
  <2>4. CASE ScriptFails(r) \/ Crash(r) \/ Restart(r)
    BY <2>4 DEF ScriptFails, Crash, Restart, Goto, migrating, ingesting
  <2>5. QED BY <1>4, <2>1, <2>2, <2>3, <2>4 DEF Work
<1>5. ASSUME NEW r \in Replicas, Lock(r) \/ Work(r) \/ ScriptFails(r) \/ Crash(r) \/ Restart(r)
      PROVE  recorded' = 0 /\ \A s \in Replicas : pc'[s] # "record"
  <2>1. category /\ recorded = 0 /\ \A s \in Replicas : pc[s] # "record"
    BY <1>4, <1>5 DEF UnmigratedNotRecorded
  <2>2. PICK place : pc' = [pc EXCEPT ![r] = place] /\ place # "record"
    BY <1>4, <1>5, <2>1
  <2>3. QED BY <1>1, <1>4, <1>5, <2>1, <2>2
<1>6. QED BY <1>2, <1>3, <1>5 DEF Next

\* Whatever order migrations and ingestions of any number of replicas fail in,
\* a record in knowledge_ingestion_state means a migrated table.
THEOREM RecordsMeanMigrated == Spec => []UnmigratedNotRecorded
<1>1. Init => UnmigratedNotRecorded
  BY DEF Init, UnmigratedNotRecorded
<1>2. QED BY Invariance, <1>1, UnmigratedStep, PTL DEF Spec

-------------------------------------------------------------------------------
(***************************************************************************)
(* What StartupEnds rests on, short of fairness: nobody goes back without  *)
(* end, and nobody waits in a circle.                                      *)
(***************************************************************************)

\* The places of a starting replica in order, the last one lowest.
Rank(place) ==
    CASE place = "boot" -> 12 [] place = "create" -> 11 [] place = "lock" -> 10
      [] place = "plan" -> 9 [] place = "apply" -> 8 [] place = "unlocked" -> 7
      [] place = "count" -> 6 [] place = "hash" -> 5 [] place = "wait" -> 4
      [] place = "decide" -> 3 [] place = "embed" -> 2 [] place = "record" -> 1 [] OTHER -> 0

\* How often others can still make a replica start again without a fault: once
\* by creating the tracking table, and once by each commit to the ledger.
Creation(r) == IF ~tracking THEN 2 ELSE IF pc[r] = "create" THEN 1 ELSE 0

Stale(r) == IF pending[r] \cap applied # {} THEN 1 ELSE 0

Setbacks(r) == 2 * Cardinality(Files \ applied) + Creation(r) + Stale(r)

Closer(r) ==
    \/ faults' > faults
    \/ /\ faults' = faults
       /\ Setbacks(r) \in Nat /\ Setbacks(r)' \in Nat
       /\ \/ Setbacks(r)' < Setbacks(r)
          \/ /\ Setbacks(r)' = Setbacks(r)
             /\ \/ Rank(pc'[r]) < Rank(pc[r])
                \/ /\ pc'[r] = pc[r]
                   /\ Cardinality(pending[r]) \in Nat /\ Cardinality(pending'[r]) \in Nat
                   /\ Cardinality(pending'[r]) < Cardinality(pending[r])

\* On a database with the old schema every step of a script brings its replica
\* closer to serving or uses up a fault, and so does every step of others that
\* concerns it.
ReplicasAdvance ==
    ~fresh => \A r \in Replicas :
        /\ Work(r) \/ Lock(r) => Closer(r)
        /\ pc[r] # "serve" =>
               \/ Closer(r)
               \/ UNCHANGED <<faults, Setbacks(r), pc[r], pending[r]>>

\* What keeps a replica waiting: a lock, or the rows of an open transaction.
WaitsFor(r, s) ==
    \/ pc[r] = "lock" /\ migrationLock = s
    \/ pc[r] = "wait" /\ ingestLock = s
    \/ pc[r] = "apply" /\ pending[r] # {} /\ s # r /\ NextFile(r) \in mine[s]

WaitRank(place) == CASE place = "lock" -> 2 [] place \in {"wait", "apply"} -> 1 [] OTHER -> 0

\* A replica waits only for one of a lower rank, so replicas cannot wait for
\* each other in a circle: the lock of the migrations is held by one that waits
\* for rows at most, and rows and the other lock by one that waits for nothing.
WaitsDescend ==
    \A r, s \in Replicas : WaitsFor(r, s) => WaitRank(pc[s]) < WaitRank(pc[r])

\* Locks and open transactions are held where the scripts hold them.
HoldersInv ==
    \A r \in Replicas :
        /\ migrationLock = r <=> pc[r] \in {"plan", "apply"}
        /\ ingestLock = r => pc[r] \in Ingesting
        /\ mine[r] # {} => pc[r] \in Migrating

\* Locks and transactions are taken and given back where HoldersInv says.
LEMMA HoldersStep == IInv /\ HoldersInv /\ [Next]_vars => HoldersInv'
<1> SUFFICES ASSUME IInv, HoldersInv, [Next]_vars PROVE HoldersInv'
  OBVIOUS
<1> USE StartupAssumption DEF HoldersInv, Migrating, Ingesting
<1>1. /\ pc \in [Replicas -> Places] /\ mine \in [Replicas -> SUBSET Files]
      /\ \A r \in Replicas : pc[r] \in {"decide", "embed", "record"} => ingestLock = r
      /\ \A r \in Replicas : pc[r] = "unlocked" => pending[r] = {}
  BY DEF IInv, TypeOK, OneIngests, PendingInv
<1>2. ASSUME NEW r \in Replicas, Lock(r) \/ Restart(r) PROVE HoldersInv'
  BY <1>1, <1>2 DEF Lock, LockMigrations, LockIngestion, Restart, Goto, migrating, ingesting
<1>3. ASSUME NEW r \in Replicas, ScriptFails(r) \/ Crash(r) \/ MigrationsFail(r) \/ IngestionFails(r)
      PROVE  HoldersInv'
  <2>1. PICK place \in {"boot", "count", "serve"} : Goto(r, place)
    BY <1>3 DEF ScriptFails, Crash, MigrationsFail, IngestionFails
  <2>2. Abandoned(r)
    BY <1>3 DEF ScriptFails, Crash, MigrationsFail, IngestionFails
  <2>3. QED BY <1>1, <2>1, <2>2 DEF Goto, Abandoned, Released
<1>4. ASSUME NEW r \in Replicas,
             \/ FindTracking(r) \/ CreateTracking(r) \/ CountChunks(r) \/ ComputeHash(r) \/ LoadCards(r)
             \/ RebuildChunks(r)
      PROVE  HoldersInv'
  BY <1>1, <1>4 DEF FindTracking, CreateTracking, CountChunks, ComputeHash, LoadCards,
     RebuildChunks, Goto, migrating, ingesting
<1>5. ASSUME NEW r \in Replicas, Plan(r) \/ UnlockMigrations(r) \/ SkipIngestion(r) \/ RecordState(r)
      PROVE  HoldersInv'
  BY <1>1, <1>5 DEF Plan, UnlockMigrations, SkipIngestion, RecordState, Goto, migrating, ingesting
<1>6. ASSUME NEW r \in Replicas, ApplyFile(r) \/ CommitMigrations(r) PROVE HoldersInv'
  BY <1>1, <1>6 DEF ApplyFile, CommitMigrations, Goto, migrating, ingesting
<1>7. CASE Deploy \/ UNCHANGED vars
  BY <1>7 DEF Deploy, vars, migrating, ingesting
<1>8. QED BY <1>2, <1>3, <1>4, <1>5, <1>6, <1>7 DEF Next, Work

\* What is left to set a replica back and to apply is a number.
LEMMA LeftIsNatural ==
    ASSUME TypeOK, NEW r \in Replicas
    PROVE  /\ IsFiniteSet(Files \ applied) /\ Cardinality(Files \ applied) \in Nat
           /\ IsFiniteSet(pending[r]) /\ Cardinality(pending[r]) \in Nat
           /\ Creation(r) \in 0..2 /\ Stale(r) \in 0..1 /\ Setbacks(r) \in Nat
<1>1. IsFiniteSet(Files)
  BY StartupAssumption, FS_Interval DEF Files
<1>2. IsFiniteSet(Files \ applied) /\ IsFiniteSet(pending[r])
  BY <1>1, FS_Subset DEF TypeOK
<1>3. Cardinality(Files \ applied) \in Nat /\ Cardinality(pending[r]) \in Nat
  BY <1>2, FS_CardinalityType
<1>4. Creation(r) \in 0..2 /\ Stale(r) \in 0..1
  BY DEF Creation, Stale
<1>5. QED BY <1>2, <1>3, <1>4 DEF Setbacks

\* A ledger and a tracking table that only grow leave no more setbacks, and
\* fewer when a file was recorded, whatever becomes of a plan that is outdated.
LEMMA SetbacksShrink ==
    ASSUME TypeOK, TypeOK', NEW r \in Replicas,
           applied \subseteq applied', Creation(r)' <= Creation(r),
           pending'[r] \subseteq pending[r] \/ pending'[r] \cap applied' = {}
    PROVE  /\ Setbacks(r) \in Nat /\ Setbacks(r)' \in Nat /\ Setbacks(r)' <= Setbacks(r)
           /\ Creation(r)' < Creation(r) => Setbacks(r)' < Setbacks(r)
           /\ applied' = applied /\ Stale(r)' < Stale(r) => Setbacks(r)' < Setbacks(r)
           /\ Setbacks(r)' = Setbacks(r) => applied' = applied
<1>1. /\ Cardinality(Files \ applied) \in Nat /\ IsFiniteSet(Files \ applied)
      /\ Creation(r) \in 0..2 /\ Stale(r) \in 0..1 /\ Setbacks(r) \in Nat
  BY LeftIsNatural
<1>2. /\ Cardinality(Files \ applied') \in Nat
      /\ Creation(r)' \in 0..2 /\ Stale(r)' \in 0..1 /\ Setbacks(r)' \in Nat
  <2>1. IsFiniteSet(Files \ applied')
    BY <1>1, FS_Subset
  <2>2. Cardinality(Files \ applied') \in Nat
    BY <2>1, FS_CardinalityType
  <2>3. QED BY <2>2 DEF Setbacks, Creation, Stale
<1>3. /\ Setbacks(r) = 2 * Cardinality(Files \ applied) + Creation(r) + Stale(r)
      /\ Setbacks(r)' = 2 * Cardinality(Files \ applied') + Creation(r)' + Stale(r)'
  BY DEF Setbacks
<1>4. CASE applied' = applied
  <2>1. Stale(r)' <= Stale(r)
    BY <1>4 DEF Stale
  <2>2. QED BY <1>1, <1>2, <1>3, <1>4, <2>1
<1>5. CASE applied' # applied
  <2>1. Files \ applied' \subseteq Files \ applied /\ Files \ applied' # Files \ applied
    BY <1>5 DEF TypeOK
  <2>2. Cardinality(Files \ applied') < Cardinality(Files \ applied)
    BY <1>1, <1>2, <2>1, FS_Subset
  <2>3. QED BY <1>1, <1>2, <1>3, <1>5, <2>2
<1>6. QED BY <1>4, <1>5

\* A step to a later place that adds no setback brings its replica closer.
LEMMA Onward ==
    ASSUME TypeOK, TypeOK', NEW r \in Replicas, faults' = faults \/ faults' = faults + 1,
           applied \subseteq applied', Creation(r)' <= Creation(r),
           pending'[r] \subseteq pending[r] \/ pending'[r] \cap applied' = {},
           Rank(pc'[r]) < Rank(pc[r])
    PROVE  Closer(r)
<1>1. faults \in Nat
  BY StartupAssumption DEF TypeOK
<1>2. Setbacks(r) \in Nat /\ Setbacks(r)' \in Nat /\ Setbacks(r)' <= Setbacks(r)
  BY SetbacksShrink
<1>3. QED BY <1>1, <1>2 DEF Closer

LEMMA OwnStep ==
    ASSUME IInv, IInv', ~fresh, NEW r \in Replicas, Work(r) \/ Lock(r)
    PROVE  Closer(r)
<1> USE DEF Goto, Rank
<1>1. TypeOK /\ TypeOK' /\ pc \in [Replicas -> Places] /\ pending \in [Replicas -> SUBSET Files]
  BY DEF IInv, TypeOK
<1>2. CASE Lock(r)
  BY <1>1, <1>2, Onward DEF Lock, LockMigrations, LockIngestion, Creation, migrating, ingesting
<1>3. CASE FindTracking(r)
  BY <1>1, <1>3, Onward DEF FindTracking, Creation, migrating
<1>4. CASE CreateTracking(r)
  BY <1>1, <1>4, Onward DEF CreateTracking, Creation
<1>5. CASE Plan(r)
  <2>1. pending'[r] \cap applied' = {} /\ applied' = applied
    BY <1>1, <1>5 DEF Plan
  <2>2. QED BY <1>1, <1>5, <2>1, Onward DEF Plan, Creation
<1>6. CASE ApplyFile(r)
  <2>1. /\ pending[r] # {} /\ pending'[r] = pending[r] \ {NextFile(r)} /\ pc' = pc
        /\ UNCHANGED <<tracking, applied, faults>>
    BY <1>1, <1>6 DEF ApplyFile
  <2>2. NextFile(r) \in pending[r]
    BY <1>1, <2>1, NextFileIsFirst
  <2>3. Setbacks(r) \in Nat /\ Setbacks(r)' \in Nat /\ Setbacks(r)' <= Setbacks(r)
    <3>1. Creation(r)' <= Creation(r)
      BY <2>1 DEF Creation
    <3>2. QED BY <1>1, <2>1, <3>1, SetbacksShrink
  <2>4. /\ Cardinality(pending[r]) \in Nat /\ Cardinality(pending'[r]) \in Nat
        /\ Cardinality(pending'[r]) = Cardinality(pending[r]) - 1
    <3>1. IsFiniteSet(pending[r]) /\ Cardinality(pending[r]) \in Nat
      BY <1>1, LeftIsNatural
    <3>2. IsFiniteSet(pending'[r]) /\ Cardinality(pending'[r]) = Cardinality(pending[r]) - 1
      BY <2>1, <2>2, <3>1, FS_RemoveElement
    <3>3. QED BY <3>1, <3>2, FS_CardinalityType
  <2>5. QED BY <2>1, <2>3, <2>4 DEF Closer
<1>7. CASE UnlockMigrations(r)
  BY <1>1, <1>7, Onward DEF UnlockMigrations, Creation, ingesting, world
<1>8. CASE CommitMigrations(r)
  BY <1>1, <1>8, Onward DEF CommitMigrations, Creation
<1>9. CASE MigrationsFail(r)
  <2>1. UNCHANGED <<tracking, applied, faults>> /\ pending'[r] = {} /\ pc'[r] \in {"boot", "count"}
    BY <1>1, <1>9 DEF MigrationsFail, Abandoned
  <2>2. CASE pc[r] = "create" /\ tracking
    <3>1. Creation(r)' < Creation(r)
      BY <2>1, <2>2 DEF Creation
    <3>2. Creation(r)' <= Creation(r)
      BY <2>1, <2>2 DEF Creation
    <3>3. QED BY <1>1, <2>1, <3>1, <3>2, SetbacksShrink DEF Closer
  <2>3. CASE pc[r] = "apply" /\ pending[r] # {} /\ Rejected(r)
    <3>1. NextFile(r) \in pending[r]
      BY <1>1, <2>3, NextFileIsFirst
    <3>2. NextFile(r) \in applied
      BY <2>3 DEF Rejected, IInv, LedgerMatchesSchema
    <3>3. Stale(r)' < Stale(r)
      BY <2>1, <3>1, <3>2 DEF Stale
    <3>4. Creation(r)' <= Creation(r)
      BY <2>1, <2>3 DEF Creation
    <3>5. QED BY <1>1, <2>1, <3>3, <3>4, SetbacksShrink DEF Closer
  <2>4. QED BY <1>9, <2>2, <2>3 DEF MigrationsFail
<1>10. CASE CountChunks(r) \/ ComputeHash(r) \/ SkipIngestion(r) \/ LoadCards(r) \/ RebuildChunks(r) \/ RecordState(r)
  <2>1. UNCHANGED <<tracking, applied, pending>> /\ (faults' = faults \/ faults' = faults + 1)
    BY <1>10 DEF CountChunks, ComputeHash, SkipIngestion, LoadCards, RebuildChunks, RecordState,
       Fault, migrating
  <2>2. pc[r] # "create" /\ pc'[r] # "create" /\ Rank(pc'[r]) < Rank(pc[r])
    BY <1>1, <1>10 DEF CountChunks, ComputeHash, SkipIngestion, LoadCards, RebuildChunks, RecordState
  <2>3. Creation(r)' <= Creation(r)
    BY <2>1, <2>2 DEF Creation
  <2>4. QED BY <1>1, <2>1, <2>2, <2>3, Onward
<1>11. CASE IngestionFails(r)
  <2>1. ~failFast
    <3>1. failFast => applied = Files
      BY <1>11 DEF IngestionFails, IInv, MigratedInv, Migrated
    <3>2. category /\ CategoryMigration \in Files
      BY <1>11, StartupAssumption DEF IngestionFails
    <3>3. QED BY <3>1, <3>2 DEF IInv, LedgerMatchesSchema
  <2>2. /\ UNCHANGED <<tracking, applied, faults>> /\ pending'[r] = {}
        /\ pc[r] = "embed" /\ pc'[r] = "serve"
    BY <1>1, <1>11, <2>1 DEF IngestionFails, Abandoned, world
  <2>3. Creation(r)' <= Creation(r)
    BY <2>2 DEF Creation
  <2>4. QED BY <1>1, <2>2, <2>3, Onward
<1>12. QED
  BY <1>2, <1>3, <1>4, <1>5, <1>6, <1>7, <1>8, <1>9, <1>10, <1>11 DEF Work

LEMMA AdvanceStep == IInv /\ [Next]_vars => ReplicasAdvance
<1> SUFFICES ASSUME IInv, [Next]_vars, ~fresh, NEW r \in Replicas, pc[r] # "serve"
             PROVE  \/ Closer(r)
                    \/ UNCHANGED <<faults, Setbacks(r), pc[r], pending[r]>>
  BY StepInv, OwnStep DEF ReplicasAdvance
<1>1. IInv' /\ TypeOK /\ TypeOK' /\ faults \in Nat
  BY StepInv, StartupAssumption DEF IInv, TypeOK
<1>2. CASE faults' = faults + 1
  BY <1>1, <1>2 DEF Closer
<1>3. CASE Work(r) \/ Lock(r)
  BY <1>1, <1>3, OwnStep
<1>4. CASE UNCHANGED vars \/ Deploy
  BY <1>4 DEF vars, Deploy, migrating, Setbacks, Creation, Stale
<1>5. ASSUME NEW u \in Replicas \ {r}, Work(u) \/ Lock(u) \/ Restart(u), faults' # faults + 1
      PROVE  \/ Closer(r)
             \/ UNCHANGED <<faults, Setbacks(r), pc[r], pending[r]>>
  <2>1. faults' = faults
    BY <1>5 DEF Work, Lock, Restart, FindTracking, CreateTracking, LockMigrations, Plan, ApplyFile,
       UnlockMigrations, CommitMigrations, MigrationsFail, CountChunks, ComputeHash, LockIngestion,
       SkipIngestion, LoadCards, RebuildChunks, IngestionFails, RecordState, Fault, world
  <2>2. pc'[r] = pc[r]
    BY <1>1, <1>5 DEF Work, Lock, Restart, FindTracking, CreateTracking, LockMigrations, Plan,
       ApplyFile, UnlockMigrations, CommitMigrations, MigrationsFail, CountChunks, ComputeHash,
       LockIngestion, SkipIngestion, LoadCards, RebuildChunks, IngestionFails, RecordState, Goto, TypeOK
  <2>3. pending'[r] = pending[r]
    BY <1>1, <1>5 DEF Work, Lock, Restart, FindTracking, CreateTracking, LockMigrations, Plan,
       ApplyFile, UnlockMigrations, CommitMigrations, MigrationsFail, CountChunks, ComputeHash,
       LockIngestion, SkipIngestion, LoadCards, RebuildChunks, IngestionFails, RecordState, Abandoned,
       migrating, TypeOK
  <2>4. applied \subseteq applied' /\ (tracking => tracking')
    BY <1>5 DEF Work, Lock, Restart, FindTracking, CreateTracking, LockMigrations, Plan,
       ApplyFile, UnlockMigrations, CommitMigrations, MigrationsFail, CountChunks, ComputeHash,
       LockIngestion, SkipIngestion, LoadCards, RebuildChunks, IngestionFails, RecordState, migrating
  <2>5. Creation(r)' <= Creation(r)
    BY <2>2, <2>4 DEF Creation
  <2>6. Setbacks(r) \in Nat /\ Setbacks(r)' \in Nat /\ Setbacks(r)' <= Setbacks(r)
    BY <1>1, <2>3, <2>4, <2>5, SetbacksShrink
  <2>7. QED BY <2>1, <2>2, <2>3, <2>6 DEF Closer
<1>6. ASSUME NEW u \in Replicas, ScriptFails(u) \/ Crash(u) PROVE faults' = faults + 1
  BY <1>6 DEF ScriptFails, Crash, Fault
<1>7. ~Restart(r)
  BY DEF Restart
<1>8. QED BY <1>2, <1>3, <1>4, <1>5, <1>6, <1>7 DEF Next

\* Short of a crash, a failing call or a commit that outdates its plan, a
\* starting replica only goes on, and each of those happens a bounded number of
\* times: run_migrations.py, ensure_ingested.py and the restarts of the
\* container (entrypoint.sh) cannot send it round for ever.
THEOREM ReplicasRunDown == Spec => [][ReplicasAdvance]_vars
<1>1. IInv /\ [Next]_vars => [ReplicasAdvance]_vars
  BY AdvanceStep
<1>2. QED BY <1>1, Invariance, PTL DEF Spec

\* The two advisory locks and the ledger rows that outlive the first of them
\* (run_migrations.py:277) put no replicas into a deadlock.
THEOREM NoCircularWait == Spec => []WaitsDescend
<1>1. Init => HoldersInv
  BY StartupAssumption DEF Init, HoldersInv, Migrating, Ingesting
<1>2. IInv /\ HoldersInv => WaitsDescend
  <2> SUFFICES ASSUME IInv, HoldersInv, NEW r \in Replicas, NEW s \in Replicas, WaitsFor(r, s)
               PROVE  WaitRank(pc[s]) < WaitRank(pc[r])
    BY DEF WaitsDescend
  <2>1. CASE pc[r] = "lock" /\ migrationLock = s
    BY <2>1 DEF HoldersInv, WaitRank
  <2>2. CASE pc[r] = "wait" /\ ingestLock = s
    BY <2>2 DEF HoldersInv, Ingesting, WaitRank
  <2>3. CASE pc[r] = "apply" /\ s # r /\ mine[s] # {}
    <3>1. pc[s] # "apply" /\ pc[s] \in Migrating
      BY <2>3 DEF HoldersInv
    <3>2. QED BY <2>3, <3>1 DEF Migrating, WaitRank
  <2>4. QED BY <2>1, <2>2, <2>3 DEF WaitsFor
<1>3. QED BY <1>1, <1>2, HoldersStep, Invariance, PTL DEF Spec

===============================================================================
