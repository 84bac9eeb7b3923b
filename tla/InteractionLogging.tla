-------------------------- MODULE InteractionLogging --------------------------
(***************************************************************************)
(* write_interaction_log (backend/app/interaction_logging.py) as the       *)
(* background tasks of one or more gunicorn workers run it: each writer    *)
(* inserts one row at a time, creates the table when it is missing, and    *)
(* switches logging off for its process when that does not help.           *)
(*                                                                         *)
(* A writer's step ends where another thread may run: after a database     *)
(* call.  A test of a module flag and the assignment under it have no call *)
(* in between and are one step.                                            *)
(***************************************************************************)
EXTENDS Integers, FiniteSets

CONSTANTS
    Processes,      \* worker processes
    Writers,        \* background-task threads
    ProcessOf       \* the process a writer belongs to

ASSUME LoggingAssumption == ProcessOf \in [Writers -> Processes]

VARIABLES
    faulty,         \* database calls may fail and workers may be killed
    table,          \* interaction_logs exists
    attempted,      \* _INTERACTION_LOGS_TABLE_CREATE_ATTEMPTED, per process
    disabled,       \* _INTERACTION_LOGGING_DISABLED_REASON, per process
    pc,             \* where each writer is
    copies,         \* how often the row a writer holds has been stored
    installed       \* whether the table was there from the start (history)

vars == <<faulty, table, attempted, disabled, pc, copies, installed>>

Reasons == {"none", "table_missing_and_create_failed", "write_failed_after_create",
            "table_missing_create_already_attempted"}

Places == {"idle", "insert", "missing", "check", "create", "insert_after_create", "retry"}

WritersOf(p) == {w \in Writers : ProcessOf[w] = p}

Init ==
    /\ faulty \in BOOLEAN
    /\ table \in BOOLEAN /\ installed = table
    /\ attempted = [p \in Processes |-> FALSE]
    /\ disabled = [p \in Processes |-> "none"]
    /\ pc = [w \in Writers |-> "idle"]
    /\ copies = [w \in Writers |-> 0]

-------------------------------------------------------------------------------

Goto(w, place) == pc' = [pc EXCEPT ![w] = place]

Disable(w, reason) == disabled' = [disabled EXCEPT ![ProcessOf[w]] = reason]

\* What one transaction inserting the row may do: how it ends, and how many
\* rows it leaves.  A connection lost at commit leaves the row or does not.
Insertions ==
    (IF table THEN {<<"ok", 1>>} ELSE {<<"undefined_table", 0>>})
        \cup (IF faulty THEN {<<"other_error", 0>>} ELSE {})
        \cup (IF faulty /\ table THEN {<<"programming_error", 0>>, <<"other_error", 1>>} ELSE {})

\* _write_interaction_log_once
WriteOnce(w, end) ==
    \E outcome \in Insertions :
        /\ outcome[1] = end
        /\ copies' = [copies EXCEPT ![w] = @ + outcome[2]]

\* A task starts with a new row, unless logging is off: then nothing happens.
StartWrite(w) ==
    /\ pc[w] = "idle"
    /\ disabled[ProcessOf[w]] = "none"
    /\ Goto(w, "insert")
    /\ copies' = [copies EXCEPT ![w] = 0]
    /\ UNCHANGED <<faulty, table, attempted, disabled, installed>>

\* Mutant: every failed insert is handled like a missing table.
FirstWrite_RetriesAll(w) ==
    /\ pc[w] = "insert"
    /\ \/ WriteOnce(w, "ok") /\ Goto(w, "idle")
       \/ /\ \E end \in {"undefined_table", "programming_error", "other_error"} : WriteOnce(w, end)
          /\ Goto(w, "missing")
    /\ UNCHANGED <<faulty, table, attempted, disabled, installed>>

\* Mutant: any failed insert switches logging off.
FirstWrite_DisablesAll(w) ==
    /\ pc[w] = "insert"
    /\ \/ WriteOnce(w, "ok") /\ Goto(w, "idle") /\ UNCHANGED disabled
       \/ WriteOnce(w, "undefined_table") /\ Goto(w, "missing") /\ UNCHANGED disabled
       \/ /\ \E end \in {"programming_error", "other_error"} : WriteOnce(w, end)
          /\ Disable(w, "write_failed_after_create")
          /\ Goto(w, "idle")
    /\ UNCHANGED <<faulty, table, attempted, installed>>

\* Any failure but a missing table loses the row and nothing else.
FirstWrite(w) ==
    /\ pc[w] = "insert"
    /\ \/ /\ \E end \in {"ok", "programming_error", "other_error"} : WriteOnce(w, end)
          /\ Goto(w, "idle")
       \/ WriteOnce(w, "undefined_table") /\ Goto(w, "missing")
    /\ UNCHANGED <<faulty, table, attempted, disabled, installed>>

\* Mutant: the attempt is not remembered.
ClaimCreate_Forgotten(w) ==
    /\ pc[w] = "missing"
    /\ ~attempted[ProcessOf[w]]
    /\ Goto(w, "check")
    /\ UNCHANGED <<faulty, table, attempted, disabled, copies, installed>>

\* The first writer of the process to find the table missing creates it.
ClaimCreate(w) ==
    /\ pc[w] = "missing"
    /\ ~attempted[ProcessOf[w]]
    /\ attempted' = [attempted EXCEPT ![ProcessOf[w]] = TRUE]
    /\ Goto(w, "check")
    /\ UNCHANGED <<faulty, table, disabled, copies, installed>>

LeaveCreateToOther(w) ==
    /\ pc[w] = "missing"
    /\ attempted[ProcessOf[w]]
    /\ Goto(w, "retry")
    /\ UNCHANGED <<faulty, table, attempted, disabled, copies, installed>>

\* create_all looks for the table before it creates it.
CheckTable(w) ==
    /\ pc[w] = "check"
    /\ Goto(w, IF table THEN "insert_after_create" ELSE "create")
    /\ UNCHANGED <<faulty, table, attempted, disabled, copies, installed>>

\* Mutant: the creation is not committed.
CreateTable_Uncommitted(w) ==
    /\ pc[w] = "create" /\ ~table
    /\ Goto(w, "insert_after_create")
    /\ UNCHANGED <<faulty, table, attempted, disabled, copies, installed>>

CreateTable(w) ==
    /\ pc[w] = "create" /\ ~table
    /\ table' = TRUE
    /\ Goto(w, "insert_after_create")
    /\ UNCHANGED <<faulty, attempted, disabled, copies, installed>>

\* A database error, or the table another process created since the check.
CreateFails(w) ==
    /\ \/ pc[w] \in {"check", "create"} /\ faulty
       \/ pc[w] = "create" /\ table
    /\ Disable(w, "table_missing_and_create_failed")
    /\ Goto(w, "idle")
    /\ UNCHANGED <<faulty, table, attempted, copies, installed>>

WriteAfterCreate(w) ==
    /\ pc[w] = "insert_after_create"
    /\ \/ WriteOnce(w, "ok") /\ UNCHANGED disabled
       \/ /\ \E end \in {"undefined_table", "programming_error", "other_error"} : WriteOnce(w, end)
          /\ Disable(w, "write_failed_after_create")
    /\ Goto(w, "idle")
    /\ UNCHANGED <<faulty, table, attempted, installed>>

\* Mutant: the retry is repeated until the row is in.
RetryWrite_Repeats(w) ==
    /\ pc[w] = "retry"
    /\ \/ WriteOnce(w, "ok") /\ Goto(w, "idle")
       \/ /\ \E end \in {"undefined_table", "programming_error", "other_error"} : WriteOnce(w, end)
          /\ UNCHANGED pc
    /\ UNCHANGED <<faulty, table, attempted, disabled, installed>>

RetryWrite(w) ==
    /\ pc[w] = "retry"
    /\ \/ \E end \in {"ok", "programming_error"} : WriteOnce(w, end) /\ UNCHANGED disabled
       \/ WriteOnce(w, "undefined_table") /\ Disable(w, "table_missing_create_already_attempted")
       \/ WriteOnce(w, "other_error") /\ Disable(w, "write_failed_after_create")
    /\ Goto(w, "idle")
    /\ UNCHANGED <<faulty, table, attempted, installed>>

\* gunicorn replaces a worker it had to kill: the flags start afresh and the
\* rows its writers held are gone, stored or not.
Restart(p) ==
    /\ faulty
    /\ attempted' = [attempted EXCEPT ![p] = FALSE]
    /\ disabled' = [disabled EXCEPT ![p] = "none"]
    /\ pc' = [w \in Writers |-> IF ProcessOf[w] = p THEN "idle" ELSE pc[w]]
    /\ UNCHANGED <<faulty, table, copies, installed>>

WriterStep(w) ==
    \/ FirstWrite(w) \/ ClaimCreate(w) \/ LeaveCreateToOther(w) \/ CheckTable(w)
    \/ CreateTable(w) \/ CreateFails(w) \/ WriteAfterCreate(w) \/ RetryWrite(w)

Next ==
    \/ \E w \in Writers : StartWrite(w) \/ WriterStep(w)
    \/ \E p \in Processes : Restart(p)

Spec == Init /\ [][Next]_vars

\* A started task is run by its thread to the end; nobody has to log.
FairSpec == Spec /\ \A w \in Writers : WF_vars(WriterStep(w))

-------------------------------------------------------------------------------
(***************************************************************************)
(* Properties.                                                             *)
(***************************************************************************)

\* Every variable holds a value of its kind; no row is inserted a third time.
TypeOK ==
    /\ faulty \in BOOLEAN /\ table \in BOOLEAN /\ installed \in BOOLEAN
    /\ attempted \in [Processes -> BOOLEAN]
    /\ disabled \in [Processes -> Reasons]
    /\ pc \in [Writers -> Places]
    /\ copies \in [Writers -> 0..2]

\* Writers that have found the table missing and taken its creation on.
Creators(p) == {w \in WritersOf(p) : pc[w] \in {"check", "create", "insert_after_create"}}

\* A process has at most one creation attempt under way, and remembers it, so
\* burst traffic on a fresh database cannot start another
\* (interaction_logging.py:36).
OneCreator ==
    \A p \in Processes :
        /\ \A v, w \in Creators(p) : v = w
        /\ Creators(p) # {} => attempted[p]

\* An interaction is stored at most once, although a row may be inserted two
\* times and a connection may die after the commit: only an insert that
\* cannot have stored anything is repeated.
StoredAtMostOnce == \A w \in Writers : copies[w] <= 1

\* Where the table was installed with the database, no error and no
\* interleaving of errors switches logging off.
InstalledNeverDisabled == installed => \A p \in Processes : disabled[p] = "none"

\* On a healthy database, one writer finding the table missing is enough for
\* the table to be there in the end, whoever creates it.
MissingTableIsCreated ==
    \A w \in Writers : (pc[w] = "missing" /\ ~faulty) ~> table

\* Whatever fails, every write comes to an end: logging cannot hold a
\* background task for ever.
WritesEnd == \A w \in Writers : pc[w] # "idle" ~> pc[w] = "idle"

\* On a healthy database only a race over the creation switches logging off: a
\* process gives up after a failed creation only when another one created the
\* table, after a failed retry only when its own creation is under way or
\* done, and after an insert into a table it created never.  No process is off
\* while the table is missing and nobody creates it.
OffOnlyByRace ==
    ~faulty => \A p \in Processes :
        /\ disabled[p] # "write_failed_after_create"
        /\ disabled[p] = "table_missing_and_create_failed" => table
        /\ disabled[p] = "table_missing_create_already_attempted"
               => table \/ \E w \in WritersOf(p) : pc[w] \in {"check", "create"}

===============================================================================
