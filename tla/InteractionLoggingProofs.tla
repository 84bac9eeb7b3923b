----------------------- MODULE InteractionLoggingProofs -----------------------
(***************************************************************************)
(* The safety of interaction logging for any number of worker processes    *)
(* and background writers.                                                 *)
(***************************************************************************)
EXTENDS InteractionLogging, TLAPS

\* A row not yet done with has not been stored: every branch that inserts
\* again comes from an insert that found no table.
UnstoredInFlight == \A w \in Writers : pc[w] # "idle" => copies[w] = 0

\* With the table installed no writer leaves the first insert.
InstalledInv ==
    installed => table /\ \A w \in Writers : pc[w] \in {"idle", "insert"}

IInv ==
    /\ TypeOK /\ OneCreator /\ StoredAtMostOnce /\ UnstoredInFlight
    /\ InstalledInv /\ InstalledNeverDisabled

LEMMA InitInv == Init => IInv
BY LoggingAssumption DEF Init, IInv, TypeOK, Places, Reasons, OneCreator, Creators, WritersOf,
   StoredAtMostOnce, UnstoredInFlight, InstalledInv, InstalledNeverDisabled

\* An insertion leaves at most one row, and none when it found no table.
LEMMA InsertionsAreSound ==
    \A o \in Insertions :
        /\ o[1] \in {"ok", "undefined_table", "programming_error", "other_error"}
        /\ o[2] \in 0..1
        /\ o[1] = "undefined_table" => o[2] = 0 /\ ~table
BY DEF Insertions

\* What an insertion of the row w holds leaves behind.
LEMMA WriteOnceIsSound ==
    ASSUME IInv, NEW w \in Writers, pc[w] # "idle", NEW end, WriteOnce(w, end)
    PROVE  /\ copies' \in [Writers -> 0..1]
           /\ \A v \in Writers \ {w} : copies'[v] = copies[v]
           /\ end = "undefined_table" => copies' = copies /\ ~table
<1>1. PICK o \in Insertions : o[1] = end /\ copies' = [copies EXCEPT ![w] = @ + o[2]]
  BY DEF WriteOnce
<1>2. copies \in [Writers -> 0..1] /\ copies[w] = 0
  BY DEF IInv, TypeOK, StoredAtMostOnce, UnstoredInFlight
<1>3. o[2] \in 0..1 /\ (end = "undefined_table" => o[2] = 0 /\ ~table)
  BY <1>1, InsertionsAreSound
<1>4. QED BY <1>1, <1>2, <1>3

\* A step that moves one writer on without making it a creator, and changes
\* neither the table nor the flags of creation.
LEMMA QuietStep ==
    ASSUME IInv, NEW w \in Writers, NEW place \in Places, Goto(w, place),
           place \in {"check", "create", "insert_after_create"}
               => pc[w] \in {"check", "create", "insert_after_create"},
           UNCHANGED attempted
    PROVE  OneCreator' /\ pc' \in [Writers -> Places]
<1>1. pc' = [pc EXCEPT ![w] = place] /\ pc \in [Writers -> Places]
  BY DEF Goto, IInv, TypeOK
<1>2. \A p \in Processes : Creators(p)' \subseteq Creators(p)
  BY <1>1 DEF Creators, WritersOf
<1>3. OneCreator'
  BY <1>2 DEF OneCreator, IInv
<1>4. QED BY <1>1, <1>3

LEMMA StartWriteInv == ASSUME NEW w \in Writers PROVE IInv /\ StartWrite(w) => IInv'
<1> SUFFICES ASSUME IInv, StartWrite(w) PROVE IInv'
  OBVIOUS
<1>1. OneCreator' /\ pc' \in [Writers -> Places]
  BY QuietStep DEF StartWrite, Places
<1>2. QED
  BY <1>1 DEF StartWrite, Goto, IInv, TypeOK, StoredAtMostOnce, UnstoredInFlight,
     InstalledInv, InstalledNeverDisabled

LEMMA FirstWriteInv == ASSUME NEW w \in Writers PROVE IInv /\ FirstWrite(w) => IInv'
<1> SUFFICES ASSUME IInv, FirstWrite(w) PROVE IInv'
  OBVIOUS
<1>1. PICK end, place : /\ WriteOnce(w, end) /\ Goto(w, place)
                        /\ \/ place = "idle" /\ end # "undefined_table"
                           \/ place = "missing" /\ end = "undefined_table"
  BY DEF FirstWrite
<1>2. pc[w] = "insert" /\ UNCHANGED <<faulty, table, attempted, disabled, installed>>
  BY DEF FirstWrite
<1>3. OneCreator' /\ pc' \in [Writers -> Places]
  BY <1>1, <1>2, QuietStep DEF Places
<1>4. /\ copies' \in [Writers -> 0..1]
      /\ \A v \in Writers \ {w} : copies'[v] = copies[v]
      /\ end = "undefined_table" => copies' = copies /\ ~table
  BY <1>1, <1>2, WriteOnceIsSound
<1>5. QED
  BY <1>1, <1>2, <1>3, <1>4 DEF Goto, IInv, TypeOK, StoredAtMostOnce, UnstoredInFlight,
     InstalledInv, InstalledNeverDisabled

\* The flag is what keeps a second writer of the process from creating.
LEMMA ClaimCreateInv == ASSUME NEW w \in Writers PROVE IInv /\ ClaimCreate(w) => IInv'
<1> SUFFICES ASSUME IInv, ClaimCreate(w) PROVE IInv'
  OBVIOUS
<1> USE DEF ClaimCreate, Goto
<1>1. TypeOK'
  BY DEF IInv, TypeOK, Places
<1>2. OneCreator'
  <2>1. \A p \in Processes \ {ProcessOf[w]} : Creators(p)' = Creators(p) /\ attempted'[p] = attempted[p]
    BY DEF IInv, TypeOK, Creators, WritersOf
  <2>2. ProcessOf[w] \in Processes
    BY LoggingAssumption
  <2>3. Creators(ProcessOf[w])' = {w} /\ attempted'[ProcessOf[w]]
    BY <2>2 DEF IInv, TypeOK, OneCreator, Creators, WritersOf
  <2>4. ASSUME NEW p \in Processes
        PROVE  /\ \A u, v \in Creators(p)' : u = v
               /\ Creators(p)' # {} => attempted'[p]
    <3>1. CASE p = ProcessOf[w]
      BY <2>3, <3>1
    <3>2. CASE p # ProcessOf[w]
      BY <2>1, <3>2 DEF IInv, OneCreator
    <3>3. QED BY <3>1, <3>2
  <2>5. QED BY <2>4 DEF OneCreator
<1>3. QED
  BY <1>1, <1>2 DEF IInv, TypeOK, StoredAtMostOnce, UnstoredInFlight, InstalledInv,
     InstalledNeverDisabled

LEMMA LeaveCreateToOtherInv ==
    ASSUME NEW w \in Writers PROVE IInv /\ LeaveCreateToOther(w) => IInv'
<1> SUFFICES ASSUME IInv, LeaveCreateToOther(w) PROVE IInv'
  OBVIOUS
<1>1. OneCreator' /\ pc' \in [Writers -> Places]
  BY QuietStep DEF LeaveCreateToOther, Places
<1>2. QED
  BY <1>1 DEF LeaveCreateToOther, Goto, IInv, TypeOK, StoredAtMostOnce, UnstoredInFlight,
     InstalledInv, InstalledNeverDisabled

\* The steps of create_all.
LEMMA CreationInv ==
    ASSUME NEW w \in Writers
    PROVE  IInv /\ (CheckTable(w) \/ CreateTable(w) \/ CreateFails(w)) => IInv'
<1> SUFFICES ASSUME IInv, CheckTable(w) \/ CreateTable(w) \/ CreateFails(w) PROVE IInv'
  OBVIOUS
<1>1. pc[w] \in {"check", "create"} /\ UNCHANGED <<faulty, attempted, copies, installed>>
  BY DEF CheckTable, CreateTable, CreateFails
<1>2. PICK place \in {"idle", "create", "insert_after_create"} : Goto(w, place)
  BY DEF CheckTable, CreateTable, CreateFails
<1>3. table' \in BOOLEAN /\ disabled' \in [Processes -> Reasons]
  BY DEF CheckTable, CreateTable, CreateFails, Disable, Reasons, IInv, TypeOK
<1>4. OneCreator' /\ pc' \in [Writers -> Places]
  BY <1>1, <1>2, QuietStep DEF Places
<1>5. ~installed
  BY <1>1 DEF IInv, InstalledInv
<1>6. QED
  BY <1>1, <1>2, <1>3, <1>4, <1>5 DEF Goto, IInv, TypeOK, StoredAtMostOnce, UnstoredInFlight,
     InstalledInv, InstalledNeverDisabled

\* The second insert of a row, after the table was found missing.
LEMMA SecondWriteInv ==
    ASSUME NEW w \in Writers
    PROVE  IInv /\ (WriteAfterCreate(w) \/ RetryWrite(w)) => IInv'
<1> SUFFICES ASSUME IInv, WriteAfterCreate(w) \/ RetryWrite(w) PROVE IInv'
  OBVIOUS
<1>1. /\ pc[w] \in {"insert_after_create", "retry"} /\ Goto(w, "idle")
      /\ UNCHANGED <<faulty, table, attempted, installed>>
  BY DEF WriteAfterCreate, RetryWrite
<1>2. PICK end : WriteOnce(w, end)
  BY DEF WriteAfterCreate, RetryWrite
<1>3. disabled' \in [Processes -> Reasons]
  BY DEF WriteAfterCreate, RetryWrite, Disable, Reasons, IInv, TypeOK
<1>4. OneCreator' /\ pc' \in [Writers -> Places]
  BY <1>1, QuietStep DEF Places
<1>5. /\ copies' \in [Writers -> 0..1]
      /\ \A v \in Writers \ {w} : copies'[v] = copies[v]
  BY <1>1, <1>2, WriteOnceIsSound
<1>6. ~installed
  BY <1>1 DEF IInv, InstalledInv
<1>7. QED
  BY <1>1, <1>3, <1>4, <1>5, <1>6 DEF Goto, IInv, TypeOK, StoredAtMostOnce, UnstoredInFlight,
     InstalledInv, InstalledNeverDisabled

LEMMA RestartInv == ASSUME NEW p \in Processes PROVE IInv /\ Restart(p) => IInv'
<1> SUFFICES ASSUME IInv, Restart(p) PROVE IInv'
  OBVIOUS
<1> USE DEF Restart
<1>1. TypeOK'
  BY DEF IInv, TypeOK, Places, Reasons
<1>2. OneCreator'
  <2>1. Creators(p)' = {}
    BY DEF Creators, WritersOf
  <2>2. \A q \in Processes \ {p} : Creators(q)' \subseteq Creators(q) /\ attempted'[q] = attempted[q]
    BY DEF IInv, TypeOK, Creators, WritersOf
  <2>3. QED BY <2>1, <2>2 DEF IInv, OneCreator
<1>3. QED
  BY <1>1, <1>2 DEF IInv, TypeOK, StoredAtMostOnce, UnstoredInFlight, InstalledInv,
     InstalledNeverDisabled

\* The invariant the theorems of logging rest on holds in every state,
\* however writers, failures and restarts are interleaved.
THEOREM Invariance == Spec => []IInv
<1>1. IInv /\ [Next]_vars => IInv'
  <2> SUFFICES ASSUME IInv, [Next]_vars PROVE IInv'
    OBVIOUS
  <2>1. CASE \E w \in Writers : StartWrite(w) \/ WriterStep(w)
    BY <2>1, StartWriteInv, FirstWriteInv, ClaimCreateInv, LeaveCreateToOtherInv, CreationInv,
       SecondWriteInv DEF WriterStep
  <2>2. CASE \E p \in Processes : Restart(p)
    BY <2>2, RestartInv
  <2>3. CASE UNCHANGED vars
    BY <2>3 DEF vars, IInv, TypeOK, OneCreator, Creators, WritersOf, StoredAtMostOnce,
       UnstoredInFlight, InstalledInv, InstalledNeverDisabled
  <2>4. QED BY <2>1, <2>2, <2>3 DEF Next
<1>2. QED BY InitInv, <1>1, PTL DEF Spec

\* A writer is always at one of the places of write_interaction_log, a
\* disabled process always has its reason, and no count of stored rows leaves
\* its range.
THEOREM TypeCorrect == Spec => []TypeOK
<1>1. IInv => TypeOK
  BY DEF IInv
<1>2. QED BY <1>1, Invariance, PTL

\* The flag _INTERACTION_LOGS_TABLE_CREATE_ATTEMPTED (interaction_logging.py:89)
\* is enough to keep CREATE attempts of one process apart, for any number of
\* writers, whatever fails or is restarted.
THEOREM CreatorsAreAlone == Spec => []OneCreator
<1>1. IInv => OneCreator
  BY DEF IInv
<1>2. QED BY <1>1, Invariance, PTL

\* Neither the insert after a creation (interaction_logging.py:97) nor the
\* best-effort retry (:115) can store a row a second time.
THEOREM RowsAreStoredOnce == Spec => []StoredAtMostOnce
<1>1. IInv => StoredAtMostOnce
  BY DEF IInv
<1>2. QED BY <1>1, Invariance, PTL

\* With the table installed, no failure of any number of writers reaches an
\* assignment of _INTERACTION_LOGGING_DISABLED_REASON.
THEOREM InstalledStaysEnabled == Spec => []InstalledNeverDisabled
<1>1. IInv => InstalledNeverDisabled
  BY DEF IInv
<1>2. QED BY <1>1, Invariance, PTL

-------------------------------------------------------------------------------
(***************************************************************************)
(* What the liveness of logging rests on, short of fairness: writers never *)
(* go back, and a creation that was claimed is under way until it worked.  *)
(***************************************************************************)

\* How many steps a writer has at most before it.
StepsLeft(place) ==
    CASE place = "insert" -> 5 [] place = "missing" -> 4 [] place = "check" -> 3
      [] place = "create" -> 2 [] place \in {"insert_after_create", "retry"} -> 1
      [] OTHER -> 0

\* Every step of a writer, and everything that moves one at work, brings it
\* closer to the end of its write.
WritersAdvance ==
    \A w \in Writers :
        WriterStep(w) \/ (pc[w] # "idle" /\ pc'[w] # pc[w])
            => StepsLeft(pc'[w]) < StepsLeft(pc[w])

\* Without failures, a process that has used up its attempt and has no table
\* yet has a writer in create_all.
CreationUnderWay ==
    ~faulty /\ ~table =>
        \A p \in Processes : attempted[p] => \E w \in WritersOf(p) : pc[w] \in {"check", "create"}

LEMMA AdvanceStep == IInv /\ [Next]_vars => WritersAdvance
<1> SUFFICES ASSUME IInv, [Next]_vars, NEW w \in Writers,
                    WriterStep(w) \/ (pc[w] # "idle" /\ pc'[w] # pc[w])
             PROVE  StepsLeft(pc'[w]) < StepsLeft(pc[w])
  BY DEF WritersAdvance
<1> USE DEF StepsLeft
<1>1. pc \in [Writers -> Places]
  BY DEF IInv, TypeOK
<1>2. ASSUME NEW v \in Writers, WriterStep(v)
      PROVE  StepsLeft(pc'[v]) < StepsLeft(pc[v]) /\ \A u \in Writers \ {v} : pc'[u] = pc[u]
  <2>1. PICK place \in Places : Goto(v, place) /\ StepsLeft(place) < StepsLeft(pc[v])
    BY <1>2 DEF WriterStep, FirstWrite, ClaimCreate, LeaveCreateToOther, CheckTable, CreateTable,
       CreateFails, WriteAfterCreate, RetryWrite, Places
  <2>2. QED BY <1>1, <2>1 DEF Goto
<1>3. CASE WriterStep(w)
  BY <1>2, <1>3
<1>4. CASE pc[w] # "idle" /\ pc'[w] # pc[w]
  <2>1. ASSUME NEW v \in Writers, StartWrite(v) PROVE FALSE
    BY <1>1, <1>4, <2>1 DEF StartWrite, Goto
  <2>2. ASSUME NEW v \in Writers, WriterStep(v) PROVE StepsLeft(pc'[w]) < StepsLeft(pc[w])
    BY <1>2, <1>4, <2>2
  <2>3. ASSUME NEW p \in Processes, Restart(p) PROVE StepsLeft(pc'[w]) < StepsLeft(pc[w])
    BY <1>1, <1>4, <2>3 DEF Restart, Places
  <2>4. CASE UNCHANGED vars
    BY <1>4, <2>4 DEF vars
  <2>5. QED BY <2>1, <2>2, <2>3, <2>4 DEF Next
<1>5. QED BY <1>3, <1>4

LEMMA CreationStep == IInv /\ CreationUnderWay /\ [Next]_vars => CreationUnderWay'
<1> SUFFICES ASSUME IInv, CreationUnderWay, [Next]_vars, ~faulty', ~table',
                    NEW p \in Processes, attempted'[p]
             PROVE  \E w \in WritersOf(p) : pc'[w] \in {"check", "create"}
  BY DEF CreationUnderWay, WritersOf
<1>1. pc \in [Writers -> Places] /\ attempted \in [Processes -> BOOLEAN]
  BY DEF IInv, TypeOK
<1>2. ~faulty /\ ~table
  BY DEF Next, StartWrite, WriterStep, FirstWrite, ClaimCreate, LeaveCreateToOther, CheckTable,
     CreateTable, CreateFails, WriteAfterCreate, RetryWrite, Restart, vars
<1>3. \A q \in Processes : ~Restart(q)
  BY <1>2 DEF Restart
<1>4. CASE attempted[p]
  <2>1. PICK w \in WritersOf(p) : pc[w] \in {"check", "create"}
    BY <1>2, <1>4 DEF CreationUnderWay
  <2>2. w \in Writers
    BY DEF WritersOf
  <2>3. pc'[w] \in {"check", "create"}
    BY <1>1, <1>2, <1>3, <2>1, <2>2 DEF Next, StartWrite, WriterStep, FirstWrite, ClaimCreate,
       LeaveCreateToOther, CheckTable, CreateTable, CreateFails, WriteAfterCreate, RetryWrite,
       Goto, vars
  <2>4. QED BY <2>3
<1>5. CASE ~attempted[p]
  <2>1. PICK w \in Writers : ClaimCreate(w)
    BY <1>3, <1>5 DEF Next, StartWrite, WriterStep, FirstWrite, ClaimCreate,
       LeaveCreateToOther, CheckTable, CreateTable, CreateFails, WriteAfterCreate, RetryWrite, vars
  <2>2. ProcessOf[w] = p /\ pc'[w] = "check"
    BY <1>1, <1>5, <2>1 DEF ClaimCreate, Goto
  <2>3. QED BY <2>1, <2>2 DEF WritersOf
<1>6. QED BY <1>4, <1>5

\* write_interaction_log has no way back: from its first insert to its end a
\* writer takes at most five steps, so it ends as soon as its calls do.
THEOREM WritesAreBounded == Spec => [][WritersAdvance]_vars
<1>1. IInv /\ [Next]_vars => [WritersAdvance]_vars
  BY AdvanceStep
<1>2. QED BY Invariance, <1>1, PTL DEF Spec

\* Claiming the one attempt of a process (interaction_logging.py:90) always
\* leads into create_all: without failures the claim is not lost, whatever
\* other writers of this and other processes do meanwhile.
THEOREM ClaimsAreHonoured == Spec => []CreationUnderWay
<1>1. Init => CreationUnderWay
  BY DEF Init, CreationUnderWay
<1>2. QED BY Invariance, <1>1, CreationStep, PTL DEF Spec

-------------------------------------------------------------------------------
(***************************************************************************)
(* What can switch logging off on a healthy database.                      *)
(***************************************************************************)

\* What a writer on a healthy database knows of the table: where a creation
\* was found needless or worked, it is there.
CreatedInv ==
    ~faulty => \A w \in Writers : pc[w] = "insert_after_create" => table

\* A writer retries because its process has used up its attempt.
RetryInv == \A w \in Writers : pc[w] = "retry" => attempted[ProcessOf[w]]

LEMMA RetryStep == IInv /\ RetryInv /\ [Next]_vars => RetryInv'
<1> SUFFICES ASSUME IInv, RetryInv, [Next]_vars, NEW w \in Writers, pc'[w] = "retry"
             PROVE  attempted'[ProcessOf[w]]
  BY DEF RetryInv
<1>1. pc \in [Writers -> Places] /\ attempted \in [Processes -> BOOLEAN]
      /\ ProcessOf[w] \in Processes
  BY LoggingAssumption DEF IInv, TypeOK
<1>2. ASSUME NEW v \in Writers, StartWrite(v) \/ WriterStep(v) PROVE attempted'[ProcessOf[w]]
  <2>1. attempted[ProcessOf[w]]
    BY <1>1, <1>2 DEF RetryInv, StartWrite, WriterStep, FirstWrite, ClaimCreate,
       LeaveCreateToOther, CheckTable, CreateTable, CreateFails, WriteAfterCreate, RetryWrite, Goto
  <2>2. QED BY <1>1, <1>2, <2>1 DEF StartWrite, WriterStep, FirstWrite, ClaimCreate,
       LeaveCreateToOther, CheckTable, CreateTable, CreateFails, WriteAfterCreate, RetryWrite
<1>3. ASSUME NEW p \in Processes, Restart(p) PROVE attempted'[ProcessOf[w]]
  BY <1>1, <1>3 DEF Restart, RetryInv
<1>4. CASE UNCHANGED vars
  BY <1>4 DEF vars, RetryInv
<1>5. QED BY <1>2, <1>3, <1>4 DEF Next

\* On a healthy database an insertion fails only for want of the table.
LEMMA HealthyInsertions ==
    ASSUME ~faulty, NEW w, NEW end, WriteOnce(w, end)
    PROVE  end = IF table THEN "ok" ELSE "undefined_table"
BY DEF WriteOnce, Insertions

LEMMA CreatedStep == IInv /\ CreatedInv /\ [Next]_vars => CreatedInv'
<1> SUFFICES ASSUME IInv, CreatedInv, [Next]_vars, ~faulty', NEW w \in Writers,
                    pc'[w] = "insert_after_create"
             PROVE  table'
  BY DEF CreatedInv
<1>1. pc \in [Writers -> Places]
  BY DEF IInv, TypeOK
<1>2. ~faulty /\ (table => table')
  BY DEF Next, StartWrite, WriterStep, FirstWrite, ClaimCreate, LeaveCreateToOther, CheckTable,
     CreateTable, CreateFails, WriteAfterCreate, RetryWrite, Restart, vars
<1>3. CASE pc[w] = "insert_after_create"
  BY <1>2, <1>3 DEF CreatedInv
<1>4. CASE pc[w] # "insert_after_create"
  BY <1>1, <1>2, <1>4 DEF Next, StartWrite, WriterStep, FirstWrite, ClaimCreate,
     LeaveCreateToOther, CheckTable, CreateTable, CreateFails, WriteAfterCreate, RetryWrite,
     Restart, Goto, vars
<1>5. QED BY <1>3, <1>4

\* The three assignments of _INTERACTION_LOGGING_DISABLED_REASON: what holds
\* of the reason when it is set stays true of it.
LEMMA OffStep ==
    IInv /\ CreatedInv /\ CreationUnderWay /\ RetryInv /\ OffOnlyByRace /\ [Next]_vars
        => OffOnlyByRace'
<1> SUFFICES ASSUME IInv, CreatedInv, CreationUnderWay, RetryInv, OffOnlyByRace, [Next]_vars,
                    ~faulty', NEW p \in Processes
             PROVE  /\ disabled'[p] # "write_failed_after_create"
                    /\ disabled'[p] = "table_missing_and_create_failed" => table'
                    /\ disabled'[p] = "table_missing_create_already_attempted"
                           => table' \/ \E w \in WritersOf(p) : pc'[w] \in {"check", "create"}
  BY DEF OffOnlyByRace, WritersOf
<1>1. /\ pc \in [Writers -> Places] /\ attempted \in [Processes -> BOOLEAN]
      /\ disabled \in [Processes -> Reasons]
  BY DEF IInv, TypeOK
<1>2. ~faulty /\ (table => table') /\ \A q \in Processes : ~Restart(q)
  BY DEF Next, StartWrite, WriterStep, FirstWrite, ClaimCreate, LeaveCreateToOther, CheckTable,
     CreateTable, CreateFails, WriteAfterCreate, RetryWrite, Restart, vars
<1>3. CASE disabled'[p] = disabled[p]
  <2>1. CASE table'
    BY <1>2, <1>3, <2>1 DEF OffOnlyByRace
  <2>2. CASE ~table'
    <3>1. /\ disabled[p] # "write_failed_after_create"
          /\ disabled[p] # "table_missing_and_create_failed"
          /\ disabled[p] = "table_missing_create_already_attempted"
                 => \E w \in WritersOf(p) : pc[w] \in {"check", "create"}
      BY <1>2, <2>2 DEF OffOnlyByRace
    <3>2. ASSUME NEW w \in WritersOf(p), pc[w] \in {"check", "create"}
          PROVE  pc'[w] \in {"check", "create"}
      BY <1>1, <1>2, <2>2, <3>2 DEF WritersOf, Next, StartWrite, WriterStep, FirstWrite,
         ClaimCreate, LeaveCreateToOther, CheckTable, CreateTable, CreateFails,
         WriteAfterCreate, RetryWrite, Goto, vars
    <3>3. QED BY <1>3, <3>1, <3>2
  <2>3. QED BY <2>1, <2>2
<1>4. CASE disabled'[p] # disabled[p]
  <2>1. PICK w \in Writers : CreateFails(w) \/ WriteAfterCreate(w) \/ RetryWrite(w)
    BY <1>2, <1>4 DEF Next, StartWrite, WriterStep, FirstWrite, ClaimCreate,
       LeaveCreateToOther, CheckTable, CreateTable, vars
  <2>2. UNCHANGED <<table, attempted>> /\ Goto(w, "idle")
    BY <2>1 DEF CreateFails, WriteAfterCreate, RetryWrite
  <2>3. CASE CreateFails(w)
    <3>1. table /\ Disable(w, "table_missing_and_create_failed")
      BY <1>2, <2>3 DEF CreateFails
    <3>2. disabled'[p] = "table_missing_and_create_failed"
      BY <1>1, <1>4, <3>1 DEF Disable
    <3>3. QED BY <2>2, <3>1, <3>2
  <2>4. CASE WriteAfterCreate(w)
    <3>1. table
      BY <1>2, <2>4 DEF CreatedInv, WriteAfterCreate
    <3>2. ~WriteOnce(w, "undefined_table") /\ ~WriteOnce(w, "programming_error")
          /\ ~WriteOnce(w, "other_error")
      BY <1>2, <3>1, HealthyInsertions
    <3>3. disabled' = disabled
      BY <2>4, <3>2 DEF WriteAfterCreate
    <3>4. QED BY <1>4, <3>3
  <2>5. CASE RetryWrite(w)
    <3>1. ~WriteOnce(w, "other_error")
      BY <1>2, HealthyInsertions
    <3>2. WriteOnce(w, "undefined_table") /\ Disable(w, "table_missing_create_already_attempted")
      BY <1>4, <2>5, <3>1 DEF RetryWrite
    <3>3. ~table
      BY <1>2, <3>2, HealthyInsertions
    <3>4. ProcessOf[w] = p /\ disabled'[p] = "table_missing_create_already_attempted"
      BY <1>1, <1>4, <3>2 DEF Disable
    <3>5. attempted[p]
      BY <2>5, <3>4 DEF RetryInv, RetryWrite
    <3>6. PICK v \in WritersOf(p) : pc[v] \in {"check", "create"}
      BY <1>2, <3>3, <3>5 DEF CreationUnderWay
    <3>7. v # w /\ v \in Writers
      BY <2>5, <3>6 DEF RetryWrite, WritersOf
    <3>8. pc'[v] \in {"check", "create"}
      BY <1>1, <2>2, <3>6, <3>7 DEF Goto
    <3>9. QED BY <3>4, <3>6, <3>8
  <2>6. QED BY <2>1, <2>3, <2>4, <2>5
<1>5. QED BY <1>3, <1>4

\* Where the table was not installed, logging of a healthy process goes off
\* only when a creation it did not wait for is under way (interaction_logging.py:119)
\* or was another process's (:106), for any number of processes and writers.
THEOREM OffNeedsARace == Spec => []OffOnlyByRace
<1>1. Init => CreatedInv /\ CreationUnderWay /\ RetryInv /\ OffOnlyByRace
  BY DEF Init, CreatedInv, CreationUnderWay, RetryInv, OffOnlyByRace
<1>2. QED BY Invariance, <1>1, CreatedStep, CreationStep, RetryStep, OffStep, PTL DEF Spec

\* A writer on its own creates what it found missing and keeps what it created.
LoneInv ==
    ~faulty => /\ \A p \in Processes : disabled[p] = "none"
               /\ \A w \in Writers : pc[w] = "create" => ~table

LEMMA LoneStep ==
    ASSUME \A v, w \in Writers : v = w
    PROVE  IInv /\ CreatedInv /\ CreationUnderWay /\ RetryInv /\ LoneInv /\ [Next]_vars => LoneInv'
<1>0. [Next]_vars => faulty' = faulty
  BY DEF Next, StartWrite, WriterStep, FirstWrite, ClaimCreate, LeaveCreateToOther, CheckTable,
     CreateTable, CreateFails, WriteAfterCreate, RetryWrite, Restart, vars
<1> SUFFICES ASSUME IInv, CreatedInv, CreationUnderWay, RetryInv, LoneInv, [Next]_vars, ~faulty
             PROVE  /\ disabled' = disabled
                    /\ \A w \in Writers : pc'[w] = "create" => ~table'
  BY <1>0 DEF LoneInv
<1>1. pc \in [Writers -> Places]
  BY DEF IInv, TypeOK
<1>2. ~faulty /\ \A q \in Processes : ~Restart(q)
  BY DEF Next, StartWrite, WriterStep, FirstWrite, ClaimCreate, LeaveCreateToOther, CheckTable,
     CreateTable, CreateFails, WriteAfterCreate, RetryWrite, Restart, vars
<1>3. CASE UNCHANGED vars
  BY <1>2, <1>3 DEF vars, LoneInv
<1>4. ASSUME NEW w \in Writers, StartWrite(w) \/ WriterStep(w)
      PROVE  disabled' = disabled /\ (pc'[w] = "create" => ~table')
  <2>1. ~CreateFails(w)
    BY <1>2 DEF CreateFails, LoneInv
  <2>2. CASE WriteAfterCreate(w)
    <3>1. table
      BY <1>2, <2>2 DEF CreatedInv, WriteAfterCreate
    <3>2. \A end \in {"undefined_table", "programming_error", "other_error"} : ~WriteOnce(w, end)
      BY <1>2, <3>1, HealthyInsertions
    <3>3. QED BY <1>1, <2>2, <3>2 DEF WriteAfterCreate, Goto
  <2>3. CASE RetryWrite(w)
    <3>1. pc[w] = "retry" /\ attempted[ProcessOf[w]] /\ ProcessOf[w] \in Processes
      BY <2>3, LoggingAssumption DEF RetryWrite, RetryInv
    <3>2. table
      <4>1. \A v \in Writers : pc[v] = "retry"
        BY <3>1
      <4>2. QED BY <1>2, <3>1, <4>1 DEF CreationUnderWay, WritersOf
    <3>3. ~WriteOnce(w, "undefined_table") /\ ~WriteOnce(w, "other_error")
      BY <1>2, <3>2, HealthyInsertions
    <3>4. QED BY <1>1, <2>3, <3>3 DEF RetryWrite, Goto
  <2>4. CASE StartWrite(w) \/ FirstWrite(w) \/ ClaimCreate(w) \/ LeaveCreateToOther(w)
             \/ CheckTable(w) \/ CreateTable(w)
    BY <1>1, <2>4 DEF StartWrite, FirstWrite, ClaimCreate, LeaveCreateToOther, CheckTable,
       CreateTable, Goto
  <2>5. QED BY <1>4, <2>1, <2>2, <2>3, <2>4 DEF WriterStep
<1>5. QED BY <1>2, <1>3, <1>4 DEF Next

\* It takes two writers: where rows are written one at a time, a missing table
\* on a healthy database is created and logging stays on.
THEOREM LoneWriterStaysOn ==
    ASSUME \A v, w \in Writers : v = w
    PROVE  Spec => [](~faulty => \A p \in Processes : disabled[p] = "none")
<1>1. Init => CreatedInv /\ CreationUnderWay /\ RetryInv /\ LoneInv
  BY DEF Init, CreatedInv, CreationUnderWay, RetryInv, LoneInv
<1>2. LoneInv => (~faulty => \A p \in Processes : disabled[p] = "none")
  BY DEF LoneInv
<1>3. IInv /\ CreatedInv /\ CreationUnderWay /\ RetryInv /\ LoneInv /\ [Next]_vars => LoneInv'
  BY LoneStep
<1>4. QED
  BY Invariance, <1>1, <1>2, <1>3, CreatedStep, CreationStep, RetryStep, PTL DEF Spec

===============================================================================
