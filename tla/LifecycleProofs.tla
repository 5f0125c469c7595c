-------------------------- MODULE LifecycleProofs --------------------------
(***************************************************************************)
(* Proofs about Lifecycle and the Migrations it extends: the migrations     *)
(* implement SchemaLog, a process serves on a whole schema only, and what a *)
(* process has open at each point of its life, for any number of processes, *)
(* migrations, faults, signals and reverts.                                 *)
(***************************************************************************)
EXTENDS Lifecycle, FiniteSetTheorems, TLAPS

-----------------------------------------------------------------------------
(* Type correctness *)

PC == Stage \cup {"serving", "draining", "shutdown", "closing", "down"}

ProcessState ==
  [pc : PC, open : SUBSET Resource, inflight : 0..MaxRequests, signalled : BOOLEAN,
   why : {"none"} \cup Stage \cup Ending, base : 0..MaxDowns]

\* What a step of Next does to the state of the migrations: nothing, or one of
\* the steps of Migrations.
MigrationNext ==
  \/ UNCHANGED <<db, mig>>
  \/ \E p \in Process :
       \/ mig[p] = Off /\ st[p].pc = "migrate" /\ BeginMigrations(p)
       \/ st[p].pc = "migrate" /\ MigrationStep(p)
       \/ Rollback(p) /\ UNCHANGED db
  \/ NothingToRevert \/ latestAppliedMigration \/ revertMigration \/ RevertFails

\* Seen from the migrations, Next is MigrationNext.
LEMMA MigrationView == [Next]_vars => MigrationNext
<1> SUFFICES ASSUME [Next]_vars PROVE MigrationNext
  OBVIOUS
<1> USE DEF MigrationNext
<1>1. ASSUME NEW p \in Process, Step(p) PROVE MigrationNext
  <2>1. CASE StartMigrations(p)
    BY <2>1 DEF StartMigrations
  <2>2. CASE Migrate(p)
    BY <2>2 DEF Migrate
  <2>3. CASE Migrated(p)
    BY <2>3 DEF Migrated, Rollback
  <2>4. CASE LostRace(p) \/ BlobsCanceled(p)
    BY <2>4 DEF LostRace, BlobsCanceled, AbortStart
  <2>5. CASE Drain(p) \/ Shutdown(p) \/ Drained(p) \/ ShutdownTimeout(p)
             \/ Close(p) \/ Closed(p) \/ Restart(p)
    BY <2>5 DEF Drain, Shutdown, Drained, ShutdownTimeout, Close, Closed, Restart, Return
  <2>6. CASE buildCrier(p) \/ openDatabase(p) \/ buildDBBreaker(p)
             \/ buildCachedTaskRepository(p) \/ newCSRF(p) \/ newLimiters(p)
             \/ buildBlobStore(p) \/ newLinkShortener(p)
    BY <2>6 DEF buildCrier, openDatabase, buildDBBreaker, buildCachedTaskRepository,
                newCSRF, newLimiters, buildBlobStore, newLinkShortener, Built
  <2> QED BY <1>1, <2>1, <2>2, <2>3, <2>4, <2>5, <2>6 DEF Step
<1>2. ASSUME NEW p \in Process,
             Request(p) \/ Respond(p) \/ Signal(p) \/ ServerFails(p) \/ CloseFails(p)
      PROVE  MigrationNext
  BY <1>2 DEF Request, Respond, Signal, ServerFails, CloseFails, Return
<1>3. ASSUME NEW p \in Process, StageFails(p) \/ Crash(p) PROVE MigrationNext
  BY <1>3 DEF StageFails, AbortStart, Crash
<1>4. CASE MigrateDown \/ Operator
  BY <1>4 DEF MigrateDown, Operator
<1>5. CASE UNCHANGED vars
  BY <1>5 DEF vars
<1> QED BY <1>1, <1>2, <1>3, <1>4, <1>5 DEF Next

InTx(p) == mig[p].pc \in {"record", "commit"}

\* Where the loop of RunMigrations can be, what a transaction about to commit
\* and a revert may rely on, and no DDL in effect without its record.
LogInv ==
  /\ \A p \in Process :
       /\ Migrating(p) => mig[p].v \in 1..(N + 1)
       /\ mig[p].pc \in {"apply", "record", "commit"} => mig[p].v <= N
       /\ mig[p].pc = "commit" => mig[p].v \notin recorded
  /\ revert # 0 => revert \in recorded
  /\ schema \subseteq recorded

\* The locks of its DDL leave a version to one transaction.
LockInv ==
  \A p, q \in Process : InTx(p) /\ InTx(q) /\ mig[p].v = mig[q].v => p = q

\* Until a revert runs into a start, schema and record agree and have no hole,
\* the loop has seen every migration before its version recorded, and that of
\* an open transaction is not.
OrderInv ==
  ~overlap =>
    /\ \E n \in 0..N : schema = 1..n /\ recorded = 1..n
    /\ \A p \in Process :
         /\ Migrating(p) => \A w \in Version : w < mig[p].v => w \in recorded
         /\ InTx(p) => mig[p].v \notin recorded

MigrationInv == MigrationTypeOK /\ LogInv /\ LockInv /\ OrderInv

\* A process that could commit holds the version that comes next.
LEMMA CommitsNext ==
  ASSUME MigrationInv, ~overlap, NEW p \in Process, InTx(p),
         NEW n \in 0..N, schema = 1..n, recorded = 1..n
  PROVE  mig[p].v = n + 1 /\ n + 1 \in 1..N
<1>1. mig[p].v \in 1..N /\ mig[p].v \notin 1..n
  BY MigrationsAssumption DEF MigrationInv, LogInv, OrderInv, InTx, Migrating
<1>2. \A w \in 1..N : w < mig[p].v => w \in 1..n
  BY DEF MigrationInv, OrderInv, InTx, Migrating, Version
<1>3. mig[p].v > n
  BY <1>1
<1>4. CASE mig[p].v > n + 1
  <2>1. n + 1 \in 1..N /\ n + 1 < mig[p].v
    BY <1>1, <1>4, MigrationsAssumption
  <2> QED BY <1>2, <2>1
<1> QED BY <1>1, <1>3, <1>4, MigrationsAssumption

\* The latest of the first n migrations is the n-th.
LEMMA MaxPrefix ==
  ASSUME NEW n \in Nat \ {0}
  PROVE  Max(1..n) = n
<1>1. \A x \in 1..n : (\A y \in 1..n : x >= y) => x = n
  OBVIOUS
<1>2. \E x \in 1..n : \A y \in 1..n : x >= y
  <2> WITNESS n \in 1..n
  <2> QED OBVIOUS
<1> DEFINE P(x) == \A y \in 1..n : x >= y
<1>3. Max(1..n) = CHOOSE x \in 1..n : P(x)
  BY DEF Max
<1>4. (CHOOSE x \in 1..n : P(x)) \in 1..n /\ P(CHOOSE x \in 1..n : P(x))
  BY <1>2
<1> QED BY <1>1, <1>3, <1>4

\* A commit adds the next migration to a schema without holes.
LEMMA CommitMoves ==
  ASSUME MigrationInv, ~overlap, NEW p \in Process, Commit(p),
         NEW n \in 0..N, schema = 1..n, recorded = 1..n
  PROVE  /\ n + 1 \in 0..N /\ mig[p].v = n + 1
         /\ schema' = 1..(n + 1) /\ recorded' = 1..(n + 1)
<1>1. mig[p].v = n + 1 /\ n + 1 \in 1..N
  BY CommitsNext DEF Commit, InTx
<1>2. (1..n) \cup {n + 1} = 1..(n + 1)
  OBVIOUS
<1> QED BY <1>1, <1>2 DEF Commit

\* A revert away from any start takes the last migration from a schema without
\* holes, and nothing else.
LEMMA DownMoves ==
  ASSUME MigrationInv, revertMigration, ~overlap',
         NEW n \in 0..N, schema = 1..n, recorded = 1..n
  PROVE  /\ revert = n /\ n > 0 /\ n - 1 \in 0..N
         /\ schema' = 1..(n - 1) /\ recorded' = 1..(n - 1)
         /\ ~overlap /\ \A p \in Process : ~Migrating(p)
<1>1. revert \in 1..n
  BY DEF MigrationInv, LogInv, revertMigration
<1>2. n \in Nat \ {0}
  BY <1>1, MigrationsAssumption
<1>3. ~overlap /\ revert = Max(recorded) /\ \A p \in Process : ~Migrating(p)
  BY DEF revertMigration
<1>4. revert = n
  BY <1>2, <1>3, MaxPrefix
<1>5. (1..n) \ {n} = 1..(n - 1) /\ {w \in 1..n : w > n} = {}
  BY <1>2
<1>6. recorded' = 1..(n - 1)
  BY <1>4, <1>5 DEF revertMigration
<1>7. PICK lost \in SUBSET {w \in schema : w > revert} :
        schema' = schema \ ({revert} \cup lost)
  BY DEF revertMigration
<1>8. lost = {}
  BY <1>4, <1>5, <1>7
<1>9. schema' = 1..(n - 1)
  BY <1>4, <1>5, <1>7, <1>8
<1> QED BY <1>2, <1>3, <1>4, <1>6, <1>9, MigrationsAssumption

\* While migrations come in order, the latest of them is a recorded one.
LEMMA LatestIsRecorded ==
  ASSUME MigrationInv, ~overlap, recorded # {}
  PROVE  Max(recorded) \in recorded
<1>1. PICK n \in 0..N : recorded = 1..n
  BY DEF MigrationInv, OrderInv
<1>2. n \in Nat \ {0}
  BY <1>1, MigrationsAssumption
<1> QED BY <1>1, <1>2, MaxPrefix

\* Every step keeps the types of the migrations.
LEMMA MigrationTypes == MigrationInv /\ MigrationNext => MigrationTypeOK'
<1> SUFFICES ASSUME MigrationInv, MigrationNext PROVE MigrationTypeOK'
  OBVIOUS
<1> USE MigrationsAssumption DEF MigrationInv, MigrationTypeOK, db
<1>1. ASSUME NEW p \in Process, BeginMigrations(p) \/ CreateTable(p) PROVE MigrationTypeOK'
  <2>1. ledger' \in BOOLEAN /\ overlap' \in BOOLEAN
    BY <1>1, Zenon DEF BeginMigrations, CreateTable
  <2>2. mig' \in [Process ->
         [pc : {"off", "create", "check", "apply", "record", "commit", "done"},
          v : 0..(N + 1)]]
    BY <1>1 DEF BeginMigrations, CreateTable, Goto
  <2>3. UNCHANGED <<schema, recorded, revert>>
    BY <1>1 DEF BeginMigrations, CreateTable
  <2> QED BY <2>1, <2>2, <2>3
<1>2. ASSUME NEW p \in Process, AllSeen(p) \/ NotApplied(p) \/ ExecDDL(p) \/ RecordVersion(p)
      PROVE  MigrationTypeOK'
  BY <1>2 DEF AllSeen, NotApplied, ExecDDL, RecordVersion, Goto
<1>3. ASSUME NEW p \in Process, Skip(p) PROVE MigrationTypeOK'
  BY <1>3 DEF Skip, LastVersion
<1>4. ASSUME NEW p \in Process, Commit(p) PROVE MigrationTypeOK'
  <2>1. mig[p].v \in Version /\ mig[p].v + 1 \in 0..(N + 1)
    BY <1>4 DEF LogInv, Commit, Migrating, Version
  <2> QED BY <1>4, <2>1 DEF Commit
<1>5. ASSUME NEW p \in Process, Rollback(p) /\ UNCHANGED db PROVE MigrationTypeOK'
  BY <1>5 DEF Rollback, Off
<1>6. CASE NothingToRevert \/ RevertFails
  <2>1. ledger' \in BOOLEAN /\ overlap' \in BOOLEAN
    BY <1>6, Zenon DEF NothingToRevert, RevertFails
  <2>2. UNCHANGED <<schema, recorded, mig>> /\ revert' \in 0..N
    BY <1>6 DEF NothingToRevert, RevertFails
  <2> QED BY <2>1, <2>2
<1>7. CASE latestAppliedMigration
  <2>1. overlap => revert' \in recorded
    BY <1>7 DEF latestAppliedMigration
  <2>2. ~overlap => revert' \in recorded
    BY <1>7, LatestIsRecorded DEF latestAppliedMigration
  <2> QED BY <1>7, <2>1, <2>2 DEF latestAppliedMigration, Version
<1>8. CASE revertMigration
  BY <1>8 DEF revertMigration
<1>9. CASE UNCHANGED <<db, mig>>
  BY <1>9
<1> QED BY <1>1, <1>2, <1>3, <1>4, <1>5, <1>6, <1>7, <1>8, <1>9
        DEF MigrationNext, MigrationStep

\* Every step keeps LogInv.
LEMMA LogStep == MigrationInv /\ MigrationNext => LogInv'
<1> SUFFICES ASSUME MigrationInv, MigrationNext PROVE LogInv'
  OBVIOUS
<1> USE MigrationsAssumption DEF MigrationInv, MigrationTypeOK, db, LogInv, Migrating
<1>1. ASSUME NEW p \in Process, BeginMigrations(p) \/ CreateTable(p) PROVE LogInv'
  BY <1>1 DEF BeginMigrations, CreateTable, Goto
<1>2. ASSUME NEW p \in Process, AllSeen(p) \/ NotApplied(p) \/ ExecDDL(p) \/ RecordVersion(p)
      PROVE  LogInv'
  BY <1>2 DEF AllSeen, NotApplied, ExecDDL, RecordVersion, Goto, LastVersion
<1>3. ASSUME NEW p \in Process, Skip(p) PROVE LogInv'
  BY <1>3 DEF Skip, LastVersion
<1>4. ASSUME NEW p \in Process, Commit(p) PROVE LogInv'
  <2>1. \A q \in Process \ {p} : mig[q].pc = "commit" => mig[q].v # mig[p].v
    BY <1>4 DEF Commit, LockInv, InTx
  <2>2. mig[p].v \in 1..N
    BY <1>4 DEF Commit
  <2> QED BY <1>4, <2>1, <2>2 DEF Commit
<1>5. ASSUME NEW p \in Process, Rollback(p) /\ UNCHANGED db PROVE LogInv'
  BY <1>5 DEF Rollback, Off
<1>6. CASE NothingToRevert \/ RevertFails
  BY <1>6 DEF NothingToRevert, RevertFails
<1>7. CASE latestAppliedMigration
  <2>1. overlap => revert' \in recorded
    BY <1>7 DEF latestAppliedMigration
  <2>2. ~overlap => revert' \in recorded
    BY <1>7, LatestIsRecorded DEF latestAppliedMigration
  <2> QED BY <1>7, <2>1, <2>2 DEF latestAppliedMigration
<1>8. CASE revertMigration
  BY <1>8 DEF revertMigration
<1>9. CASE UNCHANGED <<db, mig>>
  BY <1>9
<1> QED BY <1>1, <1>2, <1>3, <1>4, <1>5, <1>6, <1>7, <1>8, <1>9
        DEF MigrationNext, MigrationStep

\* Every step keeps LockInv.
LEMMA LockStep == MigrationInv /\ MigrationNext => LockInv'
<1> SUFFICES ASSUME MigrationInv, MigrationNext PROVE LockInv'
  OBVIOUS
<1> USE DEF MigrationInv, MigrationTypeOK, db, LockInv, InTx
<1>1. ASSUME NEW p \in Process, BeginMigrations(p) \/ CreateTable(p) PROVE LockInv'
  BY <1>1 DEF BeginMigrations, CreateTable, Goto
<1>2. ASSUME NEW p \in Process, AllSeen(p) \/ NotApplied(p) \/ RecordVersion(p)
      PROVE  LockInv'
  BY <1>2 DEF AllSeen, NotApplied, RecordVersion, Goto
<1>3. ASSUME NEW p \in Process, Skip(p) PROVE LockInv'
  BY <1>3 DEF Skip
<1>4. ASSUME NEW p \in Process, ExecDDL(p) PROVE LockInv'
  BY <1>4 DEF ExecDDL, Goto, InTransaction
<1>5. ASSUME NEW p \in Process, Commit(p) PROVE LockInv'
  BY <1>5 DEF Commit
<1>6. ASSUME NEW p \in Process, Rollback(p) PROVE LockInv'
  BY <1>6 DEF Rollback, Off
<1>7. ASSUME UNCHANGED mig PROVE LockInv'
  BY <1>7
<1> QED BY <1>1, <1>2, <1>3, <1>4, <1>5, <1>6, <1>7
        DEF MigrationNext, MigrationStep, NothingToRevert, latestAppliedMigration,
            revertMigration, RevertFails

\* Every step keeps OrderInv.
LEMMA OrderStep == MigrationInv /\ MigrationNext => OrderInv'
<1> SUFFICES ASSUME MigrationInv, MigrationNext, ~overlap' PROVE OrderInv'
  BY DEF OrderInv
<1>0. ~overlap
  BY DEF MigrationNext, MigrationStep, BeginMigrations, CreateTable, AllSeen, Skip,
         NotApplied, ExecDDL, RecordVersion, Commit, NothingToRevert,
         latestAppliedMigration, revertMigration, RevertFails, db
<1> USE MigrationsAssumption, <1>0 DEF MigrationInv, MigrationTypeOK, db
<1> PICK n \in 0..N : schema = 1..n /\ recorded = 1..n
  BY DEF OrderInv
<1> DEFINE Seen(p) == /\ Migrating(p) => \A w \in Version : w < mig[p].v => w \in recorded
                      /\ InTx(p) => mig[p].v \notin recorded
<1>a. \A p \in Process : Seen(p)
  BY DEF OrderInv
<1>b. ASSUME UNCHANGED <<schema, recorded>>, \A p \in Process : Seen(p)' PROVE OrderInv'
  BY <1>b DEF OrderInv
<1>1. ASSUME NEW p \in Process, BeginMigrations(p) \/ CreateTable(p) PROVE OrderInv'
  <2>1. \A q \in Process : Seen(q)'
    BY <1>1, <1>a DEF BeginMigrations, CreateTable, Goto, Migrating, InTx, LogInv, Version
  <2> QED BY <1>1, <1>b, <2>1 DEF BeginMigrations, CreateTable
<1>2. ASSUME NEW p \in Process, AllSeen(p) \/ NotApplied(p) \/ RecordVersion(p)
      PROVE  OrderInv'
  <2>1. \A q \in Process : Seen(q)'
    BY <1>2, <1>a DEF AllSeen, NotApplied, RecordVersion, Goto, Migrating, InTx
  <2> QED BY <1>2, <1>b, <2>1 DEF AllSeen, NotApplied, RecordVersion
<1>3. ASSUME NEW p \in Process, Skip(p) PROVE OrderInv'
  <2>1. \A q \in Process : Seen(q)'
    BY <1>3, <1>a DEF Skip, Applied, Migrating, InTx, Version
  <2> QED BY <1>3, <1>b, <2>1 DEF Skip
<1>4. ASSUME NEW p \in Process, ExecDDL(p) PROVE OrderInv'
  <2>1. \A q \in Process : Seen(q)'
    BY <1>4, <1>a DEF ExecDDL, Goto, Migrating, InTx
  <2> QED BY <1>4, <1>b, <2>1 DEF ExecDDL
<1>5. ASSUME NEW p \in Process, Commit(p) PROVE OrderInv'
  <2>1. /\ n + 1 \in 0..N /\ mig[p].v = n + 1
        /\ schema' = 1..(n + 1) /\ recorded' = 1..(n + 1)
    BY <1>5, CommitMoves
  <2>2. mig' = [mig EXCEPT ![p] = [pc |-> "check", v |-> n + 2]]
    BY <1>5, <2>1 DEF Commit
  <2>3. ASSUME NEW q \in Process, q # p, InTx(q) PROVE mig[q].v # n + 1
    BY <1>5, <2>1, <2>3 DEF Commit, InTx, LockInv
  <2>4. \A q \in Process : Seen(q)'
    BY <1>a, <2>1, <2>2, <2>3 DEF InTx, Migrating, Version
  <2> QED BY <2>1, <2>4 DEF OrderInv
<1>6. ASSUME NEW p \in Process, Rollback(p) /\ UNCHANGED db PROVE OrderInv'
  <2>1. \A q \in Process : Seen(q)'
    BY <1>6, <1>a DEF Rollback, Off, Migrating, InTx
  <2> QED BY <1>6, <1>b, <2>1
<1>7. ASSUME UNCHANGED <<schema, recorded, mig>> PROVE OrderInv'
  <2>1. \A q \in Process : Seen(q)'
    BY <1>7, <1>a DEF Migrating, InTx
  <2> QED BY <1>7, <1>b, <2>1
<1>8. CASE revertMigration
  <2>1. /\ n - 1 \in 0..N /\ schema' = 1..(n - 1) /\ recorded' = 1..(n - 1)
        /\ \A p \in Process : ~Migrating(p)
    BY <1>8, DownMoves
  <2>2. mig' = mig
    BY <1>8 DEF revertMigration
  <2> QED BY <2>1, <2>2 DEF OrderInv, Migrating, InTx
<1> QED BY <1>1, <1>2, <1>3, <1>4, <1>5, <1>6, <1>7, <1>8
        DEF MigrationNext, MigrationStep, NothingToRevert, latestAppliedMigration,
            RevertFails

\* The invariant of the migrations holds of Lifecycle.
LEMMA MigrationsInvariant == Spec => []MigrationInv
<1>1. Init => MigrationInv
  <2> SUFFICES ASSUME Init PROVE MigrationInv
    OBVIOUS
  <2>1. 0 \in 0..N /\ schema = 1..0 /\ recorded = 1..0
    BY MigrationsAssumption DEF Init, MigrationInit
  <2>a. ledger \in BOOLEAN /\ overlap \in BOOLEAN
    BY Zenon DEF Init, MigrationInit
  <2>2. MigrationTypeOK
    BY <2>a, MigrationsAssumption DEF Init, MigrationInit, Off, MigrationTypeOK
  <2>3. LogInv /\ LockInv
    BY DEF Init, MigrationInit, Off, LogInv, LockInv, InTx, Migrating
  <2>4. OrderInv
    BY <2>1 DEF Init, MigrationInit, Off, OrderInv, InTx, Migrating
  <2> QED BY <2>2, <2>3, <2>4 DEF MigrationInv
<1>2. MigrationInv /\ [Next]_vars => MigrationInv'
  BY MigrationView, MigrationTypes, LogStep, LockStep, OrderStep DEF MigrationInv
<1> QED BY <1>1, <1>2, PTL DEF Spec

-----------------------------------------------------------------------------
(* The migrations implement SchemaLog *)

\* A step of the migrations is a step of SchemaLog, or does not show.
LEMMA MigrationRefines ==
  MigrationInv /\ MigrationNext => Log!Next \/ UNCHANGED <<schema, recorded, ~overlap>>
<1> SUFFICES ASSUME MigrationInv, MigrationNext
             PROVE  Log!Next \/ UNCHANGED <<schema, recorded, ~overlap>>
  OBVIOUS
<1> USE MigrationsAssumption
<1>1. ASSUME NEW p \in Process, Commit(p) PROVE Log!Next
  <2>1. mig[p].v \in 1..N /\ mig[p].v \notin recorded
    BY <1>1 DEF MigrationInv, MigrationTypeOK, LogInv, Commit, Migrating
  <2>2. ASSUME ~overlap PROVE schema = 1..(mig[p].v - 1) /\ recorded = 1..(mig[p].v - 1)
    <3>1. PICK n \in 0..N : schema = 1..n /\ recorded = 1..n
      BY <2>2 DEF MigrationInv, OrderInv
    <3>2. mig[p].v = n + 1
      BY <1>1, <2>2, <3>1, CommitMoves
    <3> QED BY <3>1, <3>2
  <2>3. Log!Up(mig[p].v)
    BY <1>1, <2>1, <2>2 DEF Log!Up, Commit
  <2> QED BY <2>1, <2>3 DEF Log!Next
<1>2. CASE revertMigration
  <2>1. revert \in 1..N /\ revert \in recorded
    BY <1>2 DEF MigrationInv, MigrationTypeOK, LogInv, revertMigration
  <2>2. schema' \subseteq schema \ {revert} /\ recorded' = recorded \ {revert}
    BY <1>2 DEF revertMigration
  <2>3. ASSUME ~overlap'
        PROVE  ~overlap /\ schema' = 1..(revert - 1) /\ recorded' = 1..(revert - 1)
    <3>0. ~overlap
      BY <1>2, <2>3 DEF revertMigration
    <3>1. PICK n \in 0..N : schema = 1..n /\ recorded = 1..n
      BY <3>0 DEF MigrationInv, OrderInv
    <3> QED BY <1>2, <2>3, <3>0, <3>1, DownMoves
  <2>4. Log!Down(revert)
    BY <2>1, <2>2, <2>3 DEF Log!Down
  <2> QED BY <2>1, <2>4 DEF Log!Next
<1>3. ASSUME NEW p \in Process, BeginMigrations(p) \/ CreateTable(p) \/ AllSeen(p)
             \/ Skip(p) \/ NotApplied(p) \/ ExecDDL(p) \/ RecordVersion(p)
      PROVE  UNCHANGED <<schema, recorded, ~overlap>>
  BY <1>3 DEF BeginMigrations, CreateTable, AllSeen, Skip, NotApplied, ExecDDL,
              RecordVersion, db
<1>4. CASE NothingToRevert \/ latestAppliedMigration \/ RevertFails \/ UNCHANGED db
  BY <1>4 DEF NothingToRevert, latestAppliedMigration, RevertFails, db
<1> QED BY <1>1, <1>2, <1>3, <1>4 DEF MigrationNext, MigrationStep

\* Any number of processes that migrate together, fail or die between two
\* statements, and an operator who reverts, move the schema by whole
\* migrations, in order until a revert runs into a start: applyMigration and
\* revertMigration are atomic, for every N.
THEOREM SchemaIsAtomic == Spec => SchemaAtomic
<1>1. Init => Log!Init
  BY DEF Init, MigrationInit, Log!Init
<1>2. MigrationInv /\ [Next]_vars => [Log!Next]_<<schema, recorded, ~overlap>>
  BY MigrationView, MigrationRefines
<1> QED BY <1>1, <1>2, MigrationsInvariant, PTL DEF Spec, SchemaAtomic, Log!Spec, Log!log
-----------------------------------------------------------------------------
(* What a process has open *)

\* What newServer has opened when it comes to a stage, and run after it.
OpenAt(pc) ==
  CASE pc = "crier" -> {}
    [] pc = "database" -> {"crier"}
    [] pc \in {"migrate", "breaker", "cache"} -> {"crier", "db"}
    [] pc \in {"csrf", "addressKey"} -> {"crier", "db", "cache"}
    [] pc = "blobs" -> {"crier", "db", "cache", "limiters"}
    [] OTHER -> Resource

\* One process: what is open at each point of its life, where requests can be,
\* and what run left open when it returned.
Life(s) ==
  /\ s.pc \notin {"closing", "down"} => s.open = OpenAt(s.pc) /\ s.why = "none"
  /\ s.inflight > 0 => s.pc \in {"serving", "draining", "shutdown", "closing"}
  /\ s.pc = "closing" => /\ s.why \in {"drained", "timeout", "server"}
                         /\ s.why = "drained" => s.inflight = 0
  /\ s.pc = "down" =>
       /\ s.why \in {"drained", "timeout", "server"} => s.open = {}
       /\ "db" \in s.open => s.why \in {"csrf", "close"}
       /\ s.why \in Stage => s.open \cap {"limiters", "blobs"} = {}

BudgetOK ==
  faults \in 0..MaxFaults /\ stops \in 0..MaxStops /\ downs \in 0..MaxDowns

LifeInv ==
  /\ st \in [Process -> ProcessState]
  /\ \A p \in Process : Life(st[p])
  /\ BudgetOK

\* A step that gives one process a good state keeps LifeInv.
LEMMA OneProcess ==
  ASSUME LifeInv, NEW p \in Process, NEW s \in ProcessState, Life(s),
         st' = [st EXCEPT ![p] = s], BudgetOK'
  PROVE  LifeInv'
BY DEF LifeInv

\* A start opens what OpenAt says, one stage after the other.
LEMMA BuiltLife ==
  ASSUME LifeInv, NEW p \in Process,
         NEW stage \in Stage, NEW next \in Stage \cup {"serving"},
         NEW opened \in SUBSET Resource,
         OpenAt(next) = OpenAt(stage) \cup opened, Built(p, stage, opened, next)
  PROVE  LifeInv'
<1> DEFINE s == [st[p] EXCEPT !.open = @ \cup opened, !.pc = next]
<1>1. st[p] \in ProcessState /\ Life(st[p]) /\ st[p].pc = stage
  BY DEF LifeInv, Built
<1>2. s \in ProcessState
  BY <1>1 DEF ProcessState, PC
<1>3. s.pc = next /\ s.open = st[p].open \cup opened /\ s.why = st[p].why
      /\ s.inflight = st[p].inflight
  BY <1>1 DEF ProcessState
<1>4. stage \notin {"closing", "down", "serving", "draining", "shutdown"}
      /\ next \notin {"closing", "down"}
  BY DEF Stage
<1>5. st[p].open = OpenAt(stage) /\ st[p].why = "none" /\ ~(st[p].inflight > 0)
  BY <1>1, <1>4 DEF Life
<1>6. Life(s)
  BY <1>3, <1>4, <1>5 DEF Life
<1>7. st' = [st EXCEPT ![p] = s] /\ BudgetOK'
  BY DEF Built, LifeInv, budget, BudgetOK
<1> QED BY <1>2, <1>6, <1>7, OneProcess

\* The stages of a start keep LifeInv.
LEMMA StartLife ==
  ASSUME LifeInv, NEW p \in Process,
         \/ buildCrier(p) \/ openDatabase(p) \/ buildDBBreaker(p)
         \/ buildCachedTaskRepository(p) \/ newCSRF(p) \/ newLimiters(p)
         \/ buildBlobStore(p) \/ newLinkShortener(p)
  PROVE  LifeInv'
<1> USE DEF Stage, Resource, OpenAt
<1>1. CASE buildCrier(p)
  BY <1>1, BuiltLife DEF buildCrier
<1>2. CASE openDatabase(p)
  BY <1>2, BuiltLife DEF openDatabase
<1>3. CASE buildDBBreaker(p)
  BY <1>3, BuiltLife DEF buildDBBreaker
<1>4. CASE buildCachedTaskRepository(p)
  BY <1>4, BuiltLife DEF buildCachedTaskRepository
<1>5. CASE newCSRF(p)
  BY <1>5, BuiltLife DEF newCSRF
<1>6. CASE newLimiters(p)
  BY <1>6, BuiltLife DEF newLimiters
<1>7. CASE buildBlobStore(p)
  BY <1>7, BuiltLife DEF buildBlobStore
<1>8. CASE newLinkShortener(p)
  BY <1>8, BuiltLife DEF newLinkShortener
<1> QED BY <1>1, <1>2, <1>3, <1>4, <1>5, <1>6, <1>7, <1>8

\* A step that leaves what is open, why and the requests alone, and moves the
\* process between points of its life with the same resources.
LEMMA MoveLife ==
  ASSUME LifeInv, NEW p \in Process, BudgetOK', NEW next \in PC,
         st[p].pc \notin {"closing", "down"}, next \notin {"closing", "down"},
         OpenAt(next) = OpenAt(st[p].pc),
         st[p].pc \in {"serving", "draining", "shutdown"}
           => next \in {"serving", "draining", "shutdown"},
         NEW b \in 0..MaxDowns, NEW g \in BOOLEAN,
         st' = [st EXCEPT ![p] = [@ EXCEPT !.pc = next, !.base = b, !.signalled = g]]
  PROVE  LifeInv'
<1> DEFINE s == [st[p] EXCEPT !.pc = next, !.base = b, !.signalled = g]
<1>1. st[p] \in ProcessState /\ Life(st[p])
  BY DEF LifeInv
<1>2. s \in ProcessState
  BY <1>1 DEF ProcessState
<1>3. s.pc = next /\ s.open = st[p].open /\ s.why = st[p].why
      /\ s.inflight = st[p].inflight
  BY <1>1 DEF ProcessState
<1>4. Life(s)
  BY <1>1, <1>3 DEF Life
<1>5. st' = [st EXCEPT ![p] = s]
  BY DEF LifeInv
<1> QED BY <1>2, <1>4, <1>5, OneProcess

\* The way from the migrations to the shutdown keeps LifeInv.
LEMMA MovingLife ==
  ASSUME LifeInv, NEW p \in Process,
         \/ StartMigrations(p) \/ Migrated(p) \/ Signal(p)
         \/ Drain(p) \/ Shutdown(p)
  PROVE  LifeInv'
<1>0. st[p] \in ProcessState /\ BudgetOK
  BY DEF LifeInv
<1> DEFINE Moves(next, b, g) ==
      st' = [st EXCEPT ![p] = [@ EXCEPT !.pc = next, !.base = b, !.signalled = g]]
<1>1. CASE StartMigrations(p)
  <2>1. Moves("migrate", downs, st[p].signalled) /\ BudgetOK'
    BY <1>0, <1>1 DEF StartMigrations, LifeInv, ProcessState, budget, BudgetOK
  <2>2. st[p].pc = "migrate" /\ downs \in 0..MaxDowns /\ st[p].signalled \in BOOLEAN
    BY <1>0, <1>1 DEF StartMigrations, ProcessState, BudgetOK
  <2> QED BY <2>1, <2>2, MoveLife DEF PC, Stage
<1>2. CASE Migrated(p)
  <2>1. Moves("breaker", st[p].base, st[p].signalled) /\ BudgetOK'
    BY <1>0, <1>2 DEF Migrated, Move, LifeInv, ProcessState, budget, BudgetOK
  <2>2. st[p].pc = "migrate" /\ st[p].base \in 0..MaxDowns /\ st[p].signalled \in BOOLEAN
    BY <1>0, <1>2 DEF Migrated, ProcessState
  <2>3. OpenAt("breaker") = OpenAt("migrate")
    BY DEF OpenAt
  <2> QED BY <2>1, <2>2, <2>3, MoveLife DEF PC, Stage
<1>3. CASE Signal(p)
  <2>1. Moves(st[p].pc, st[p].base, TRUE)
    BY <1>0, <1>3 DEF Signal, LifeInv, ProcessState
  <2>2. BudgetOK'
    BY <1>0, <1>3, LifecycleAssumption DEF Signal, BudgetOK
  <2>3. st[p].pc \in PC \ {"closing", "down"} /\ st[p].base \in 0..MaxDowns
    BY <1>0, <1>3 DEF Signal, ProcessState
  <2> QED BY <2>1, <2>2, <2>3, MoveLife
<1>4. CASE Drain(p)
  <2>1. Moves("draining", st[p].base, st[p].signalled) /\ BudgetOK'
    BY <1>0, <1>4 DEF Drain, Move, LifeInv, ProcessState, budget, BudgetOK
  <2>2. st[p].pc = "serving" /\ st[p].base \in 0..MaxDowns /\ st[p].signalled \in BOOLEAN
    BY <1>0, <1>4 DEF Drain, ProcessState
  <2>3. OpenAt("draining") = OpenAt("serving")
    BY DEF OpenAt
  <2> QED BY <2>1, <2>2, <2>3, MoveLife DEF PC
<1>5. CASE Shutdown(p)
  <2>1. Moves("shutdown", st[p].base, st[p].signalled) /\ BudgetOK'
    BY <1>0, <1>5 DEF Shutdown, Move, LifeInv, ProcessState, budget, BudgetOK
  <2>2. st[p].pc = "draining" /\ st[p].base \in 0..MaxDowns /\ st[p].signalled \in BOOLEAN
    BY <1>0, <1>5 DEF Shutdown, ProcessState
  <2>3. OpenAt("shutdown") = OpenAt("draining")
    BY DEF OpenAt
  <2> QED BY <2>1, <2>2, <2>3, MoveLife DEF PC
<1> QED BY <1>1, <1>2, <1>3, <1>4, <1>5

\* A fault is counted within its bound.
LEMMA FaultBudget == LifeInv /\ Fault => BudgetOK'
BY LifecycleAssumption DEF LifeInv, Fault, BudgetOK

\* Requests come and go, the server returns, closeAll takes a resource.
LEMMA ServingLife ==
  ASSUME LifeInv, NEW p \in Process,
         \/ Request(p) \/ Respond(p)
         \/ Drained(p) \/ ShutdownTimeout(p) \/ ServerFails(p) \/ Close(p)
  PROVE  LifeInv'
<1>0. st[p] \in ProcessState /\ Life(st[p]) /\ BudgetOK
  BY DEF LifeInv
<1>1. CASE Request(p) \/ Respond(p)
  <2>1. PICK n \in 0..MaxRequests :
          /\ st' = [st EXCEPT ![p] = [@ EXCEPT !.inflight = n]]
          /\ n > 0 => st[p].pc \in {"serving", "draining"} \/ st[p].inflight > 0
          /\ st[p].inflight = 0 => st[p].pc # "closing"
    <3>1. CASE Request(p)
      <4>1. st[p].inflight + 1 \in 0..MaxRequests
        BY <1>0, <3>1, LifecycleAssumption DEF Request, ProcessState
      <4>2. st' = [st EXCEPT ![p] = [@ EXCEPT !.inflight = st[p].inflight + 1]]
        BY <1>0, <3>1 DEF Request, LifeInv
      <4> QED BY <3>1, <4>1, <4>2 DEF Request
    <3>2. CASE Respond(p)
      <4>1. st[p].inflight - 1 \in 0..MaxRequests /\ st[p].inflight # 0
        BY <1>0, <3>2, LifecycleAssumption DEF Respond, ProcessState
      <4>2. st' = [st EXCEPT ![p] = [@ EXCEPT !.inflight = st[p].inflight - 1]]
        BY <1>0, <3>2 DEF Respond, LifeInv
      <4> QED BY <3>2, <4>1, <4>2 DEF Respond
    <3> QED BY <1>1, <3>1, <3>2
  <2> DEFINE s == [st[p] EXCEPT !.inflight = n]
  <2>2. s \in ProcessState
    BY <1>0 DEF ProcessState
  <2>3. s.pc = st[p].pc /\ s.open = st[p].open /\ s.why = st[p].why /\ s.inflight = n
    BY <1>0 DEF ProcessState
  <2>4. n > 0 => s.pc \in {"serving", "draining", "shutdown", "closing"}
    BY <1>0, <2>1, <2>3 DEF Life
  <2>5. s.pc = "closing" /\ s.why = "drained" => FALSE
    <3> SUFFICES ASSUME s.pc = "closing", s.why = "drained" PROVE FALSE
      OBVIOUS
    <3>1. st[p].pc = "closing" /\ st[p].why = "drained"
      BY <2>3
    <3>2. st[p].inflight = 0
      BY <1>0, <3>1 DEF Life
    <3> QED BY <2>1, <3>1, <3>2
  <2>6. Life(s)
    BY <1>0, <2>3, <2>4, <2>5 DEF Life
  <2>7. st' = [st EXCEPT ![p] = s] /\ BudgetOK'
    BY <1>0, <1>1, <2>1 DEF Request, Respond, budget, BudgetOK, LifeInv
  <2> QED BY <2>2, <2>6, <2>7, OneProcess
<1>2. ASSUME NEW why \in {"drained", "timeout", "server"},
             why = "drained" => st[p].inflight = 0,
             Return(p, why), BudgetOK'
      PROVE  LifeInv'
  <2> DEFINE s == [st[p] EXCEPT !.pc = "closing", !.why = why]
  <2>1. s \in ProcessState
    BY <1>0, <1>2 DEF ProcessState, PC, Ending
  <2>2. s.pc = "closing" /\ s.why = why /\ s.inflight = st[p].inflight
    BY <1>0 DEF ProcessState
  <2>3. Life(s)
    BY <1>2, <2>2 DEF Life
  <2>4. st' = [st EXCEPT ![p] = s]
    BY <1>2 DEF Return, LifeInv
  <2> QED BY <1>2, <2>1, <2>3, <2>4, OneProcess
<1>3. CASE Drained(p)
  BY <1>0, <1>2, <1>3 DEF Drained, budget, BudgetOK
<1>4. CASE ShutdownTimeout(p)
  BY <1>0, <1>2, <1>4 DEF ShutdownTimeout, budget, BudgetOK
<1>5. CASE ServerFails(p)
  BY <1>2, <1>5, FaultBudget DEF ServerFails
<1>6. CASE Close(p)
  <2> DEFINE s == [st[p] EXCEPT !.open = @ \ {NextToClose(p)}]
  <2>1. s \in ProcessState
    BY <1>0 DEF ProcessState
  <2>2. s.pc = "closing" /\ s.why = st[p].why /\ s.inflight = st[p].inflight
    BY <1>0, <1>6 DEF ProcessState, Close
  <2>3. Life(s)
    BY <1>0, <1>6, <2>2 DEF Life, Close
  <2>4. st' = [st EXCEPT ![p] = s] /\ BudgetOK'
    BY <1>0, <1>6 DEF Close, budget, BudgetOK, LifeInv
  <2> QED BY <2>1, <2>3, <2>4, OneProcess
<1> QED BY <1>1, <1>3, <1>4, <1>5, <1>6

\* Every way to exit leaves open no more than LeakBound says.
LEMMA ExitLife ==
  ASSUME LifeInv, NEW p \in Process,
         \/ LostRace(p) \/ BlobsCanceled(p) \/ StageFails(p)
         \/ Closed(p) \/ CloseFails(p) \/ Crash(p) \/ Restart(p)
  PROVE  LifeInv'
<1>0. st[p] \in ProcessState /\ Life(st[p]) /\ BudgetOK
  BY DEF LifeInv
<1>1. ASSUME NEW open \in SUBSET Resource, NEW why \in Stage \cup Ending,
             why \in {"drained", "timeout", "server"} => open = {},
             "db" \in open => why \in {"csrf", "close"},
             why \in Stage => open \cap {"limiters", "blobs"} = {},
             Exit(p, open, why), BudgetOK'
      PROVE  LifeInv'
  <2> DEFINE s == [st[p] EXCEPT !.pc = "down", !.open = open, !.why = why, !.inflight = 0]
  <2>0. 0 \in 0..MaxRequests /\ "down" \in PC /\ why \in {"none"} \cup Stage \cup Ending
    BY <1>1, LifecycleAssumption DEF PC
  <2>1. s \in ProcessState
    BY <1>0, <1>1, <2>0 DEF ProcessState
  <2>2. s.pc = "down" /\ s.why = why /\ s.inflight = 0 /\ s.open = open
    BY <1>0 DEF ProcessState
  <2>3. Life(s)
    BY <1>1, <2>2 DEF Life
  <2>4. st' = [st EXCEPT ![p] = s]
    BY <1>1 DEF Exit, LifeInv
  <2> QED BY <1>1, <2>1, <2>3, <2>4, OneProcess
<1>2. ASSUME AbortStart(p), BudgetOK' PROVE LifeInv'
  <2> DEFINE left == st[p].open \ ClosedOnError(st[p].pc)
  <2>1. st[p].pc \in Stage /\ st[p].open = OpenAt(st[p].pc)
    BY <1>0, <1>2 DEF AbortStart, Life, Stage
  <2>2. left \in SUBSET Resource
    BY <1>0 DEF ProcessState
  <2>3. "db" \in left => st[p].pc = "csrf"
    BY <2>1 DEF OpenAt, ClosedOnError, Stage, MigrateError, BreakerError, CacheError,
                AddressKeyError, BlobsError, LinksError
  <2>4. left \cap {"limiters", "blobs"} = {}
    BY <2>1 DEF OpenAt, ClosedOnError, Stage, Resource, BlobsError, LinksError
  <2>5. st[p].pc \notin {"drained", "timeout", "server"}
    BY <2>1 DEF Stage
  <2> QED BY <1>1, <1>2, <2>1, <2>2, <2>3, <2>4, <2>5 DEF AbortStart
<1>3. CASE LostRace(p) \/ BlobsCanceled(p)
  BY <1>0, <1>2, <1>3 DEF LostRace, BlobsCanceled, budget, BudgetOK
<1>4. CASE StageFails(p)
  BY <1>2, <1>4, FaultBudget DEF StageFails
<1>5. CASE Closed(p)
  <2>1. st[p].why \in {"drained", "timeout", "server"}
    BY <1>0, <1>5 DEF Closed, Life
  <2>2. Exit(p, {}, st[p].why) /\ BudgetOK'
    BY <1>0, <1>5 DEF Closed, budget, BudgetOK
  <2> QED BY <1>1, <2>1, <2>2 DEF Ending, Stage
<1>6. CASE CloseFails(p)
  <2>1. st[p].open \in SUBSET Resource
    BY <1>0 DEF ProcessState
  <2>2. Exit(p, st[p].open, "close") /\ BudgetOK'
    BY <1>6, FaultBudget DEF CloseFails
  <2> QED BY <1>1, <2>1, <2>2 DEF Ending, Stage
<1>7. CASE Crash(p)
  BY <1>1, <1>7, FaultBudget DEF Crash, Ending, Stage
<1>8. CASE Restart(p)
  <2>1. Fresh \in ProcessState
    BY LifecycleAssumption DEF Fresh, ProcessState, PC, Stage
  <2>2. Life(Fresh)
    BY DEF Life, Fresh, OpenAt
  <2>3. st' = [st EXCEPT ![p] = Fresh] /\ BudgetOK'
    BY <1>0, <1>8 DEF Restart, budget, BudgetOK
  <2> QED BY <2>1, <2>2, <2>3, OneProcess
<1> QED BY <1>3, <1>4, <1>5, <1>6, <1>7, <1>8

\* Every step keeps LifeInv.
LEMMA LifeStep == LifeInv /\ [Next]_vars => LifeInv'
<1> SUFFICES ASSUME LifeInv, [Next]_vars PROVE LifeInv'
  OBVIOUS
<1>1. ASSUME NEW p \in Process, Step(p) PROVE LifeInv'
  <2>1. CASE Migrate(p)
    BY <2>1 DEF Migrate, budget, LifeInv, BudgetOK
  <2> QED BY <1>1, <2>1, StartLife, MovingLife, ServingLife, ExitLife DEF Step
<1>2. CASE MigrateDown
  BY <1>2, LifecycleAssumption DEF MigrateDown, LifeInv, BudgetOK
<1>3. CASE UNCHANGED vars \/ Operator
  BY <1>3 DEF vars, Operator, budget, LifeInv, BudgetOK
<1> QED BY <1>1, <1>2, <1>3, MovingLife, ServingLife, ExitLife DEF Next

\* LifeInv holds of Lifecycle.
LEMMA LifeInvariant == Spec => []LifeInv
<1>1. Init => LifeInv
  <2> SUFFICES ASSUME Init PROVE LifeInv
    OBVIOUS
  <2>1. Fresh \in ProcessState
    BY LifecycleAssumption DEF Fresh, ProcessState, PC, Stage
  <2>2. Life(Fresh)
    BY DEF Life, Fresh, OpenAt
  <2>3. BudgetOK
    BY LifecycleAssumption DEF Init, BudgetOK
  <2> QED BY <2>1, <2>2, <2>3 DEF Init, LifeInv
<1> QED BY <1>1, LifeStep, PTL DEF Spec

\* No resource is closed under a request in flight but after the shutdown
\* timeout or a failure of the server: run waits before its deferred close.
THEOREM ClosesAfterRequests == Spec => []NoRequestOnClosed
<1>1. LifeInv => NoRequestOnClosed
  <2> SUFFICES ASSUME LifeInv, NEW p \in Process, st[p].inflight > 0, st[p].open # Resource
               PROVE  st[p].why \in {"timeout", "server"}
    BY DEF NoRequestOnClosed
  <2>1. Life(st[p]) /\ st[p] \in ProcessState
    BY DEF LifeInv
  <2>2. st[p].pc \in {"serving", "draining", "shutdown", "closing"}
    BY <2>1 DEF Life
  <2>3. st[p].pc \in {"serving", "draining", "shutdown"} => st[p].open = Resource
    BY <2>1 DEF Life, OpenAt
  <2>4. st[p].pc = "closing"
    BY <2>2, <2>3
  <2>5. st[p].inflight # 0
    BY <2>1 DEF ProcessState
  <2> QED BY <2>1, <2>4, <2>5 DEF Life
<1> QED BY <1>1, LifeInvariant, PTL

\* What a process that is down has left open, whichever way it came to be down:
\* the error paths of newServer and closeAll together.
THEOREM LeaksAreBounded == Spec => []LeakBound
<1>1. LifeInv => LeakBound
  BY DEF LifeInv, Life, LeakBound
<1> QED BY <1>1, LifeInvariant, PTL

-----------------------------------------------------------------------------
(* A process serves on the whole schema *)

\* What a start does after its migrations.
Ready(p) ==
  \/ st[p].pc \in {"breaker", "cache", "csrf", "addressKey", "blobs", "links",
                   "serving", "draining", "shutdown"}
  \/ st[p].pc = "migrate" /\ mig[p].pc = "done"

ServesInv ==
  \A p \in Process :
    /\ mig[p] # Off => st[p].pc = "migrate"
    /\ st[p].base <= downs
    /\ Migrating(p) /\ st[p].base = downs
         => \A w \in Version : w < mig[p].v => w \in recorded
    /\ Ready(p) /\ st[p].base = downs => recorded = Version

LifecycleInv == MigrationInv /\ LifeInv /\ ServesInv

\* A process whose loop is over, without a revert meanwhile, has found every
\* migration recorded.
LEMMA AllSeenWhole ==
  ASSUME MigrationInv, ServesInv, NEW p \in Process, AllSeen(p), st[p].base = downs
  PROVE  recorded = Version
<1>1. \A w \in Version : w < mig[p].v => w \in recorded
  BY DEF ServesInv, AllSeen, Migrating
<1>2. mig[p].v \in 0..(N + 1) /\ mig[p].v > N
  BY DEF MigrationInv, MigrationTypeOK, AllSeen, LastVersion
<1>3. Version \subseteq recorded
  BY <1>1, <1>2, MigrationsAssumption DEF Version
<1> QED BY <1>3 DEF MigrationInv, MigrationTypeOK

\* Nothing but a revert takes from the records.
LEMMA StaysWhole ==
  ASSUME MigrationInv', recorded = Version, recorded \subseteq recorded'
  PROVE  recorded' = Version
BY DEF MigrationInv, MigrationTypeOK, Version

\* A step of p keeps ServesInv when it keeps the conjuncts of p, touches no
\* other process and takes no record.
LEMMA OneServes ==
  ASSUME LifecycleInv, MigrationInv', NEW p \in Process,
         \A q \in Process \ {p} : st'[q] = st[q] /\ mig'[q] = mig[q],
         downs' = downs, recorded \subseteq recorded',
         mig'[p] # Off => st'[p].pc = "migrate",
         st'[p].base <= downs,
         Migrating(p)' /\ st'[p].base = downs
           => \A w \in Version : w < mig'[p].v => w \in recorded',
         Ready(p)' /\ st'[p].base = downs
           => (Ready(p) /\ st'[p].base = st[p].base) \/ recorded' = Version
  PROVE  ServesInv'
<1>1. recorded = Version => recorded' = Version
  BY StaysWhole
<1>2. ASSUME NEW q \in Process, q # p
      PROVE  /\ mig'[q] # Off => st'[q].pc = "migrate"
             /\ st'[q].base <= downs'
             /\ Migrating(q)' /\ st'[q].base = downs'
                  => \A w \in Version : w < mig'[q].v => w \in recorded'
             /\ Ready(q)' /\ st'[q].base = downs' => recorded' = Version
  BY <1>1, <1>2 DEF LifecycleInv, ServesInv, Ready, Migrating
<1>3. Ready(p)' /\ st'[p].base = downs' => recorded' = Version
  BY <1>1 DEF LifecycleInv, ServesInv
<1> QED BY <1>2, <1>3 DEF ServesInv, Version

\* The stages of a start before and after the migrations.
LEMMA BuiltServes ==
  ASSUME LifecycleInv, MigrationInv', NEW p \in Process, NEW stage, NEW opened, NEW next,
         Built(p, stage, opened, next), stage # "migrate",
         next \notin {"database", "migrate"}
           => stage \in {"breaker", "cache", "csrf", "addressKey", "blobs", "links"}
  PROVE  ServesInv'
<1>1. st[p] \in ProcessState /\ st \in [Process -> ProcessState]
  BY DEF LifecycleInv, LifeInv
<1>2. /\ st'[p].pc = next /\ st'[p].base = st[p].base /\ st[p].pc = stage
      /\ \A q \in Process \ {p} : st'[q] = st[q]
  BY <1>1 DEF Built, ProcessState
<1>3. mig' = mig /\ recorded' = recorded /\ downs' = downs
  BY DEF Built, db, budget
<1>4. mig[p] = Off /\ st[p].base <= downs
  BY <1>2 DEF LifecycleInv, ServesInv
<1>5. Ready(p)' => Ready(p)
  BY <1>2, <1>3, <1>4 DEF Ready, Off
<1>6. ~Migrating(p)'
  BY <1>3, <1>4 DEF Migrating, Off
<1> QED BY <1>2, <1>3, <1>4, <1>5, <1>6, OneServes

\* A process that goes down or starts anew.
LEMMA GoneServes ==
  ASSUME LifecycleInv, MigrationInv', NEW p \in Process, NEW s \in ProcessState,
         st' = [st EXCEPT ![p] = s], s.pc \in {"crier", "closing", "down"},
         s.base \in {0, st[p].base},
         Rollback(p) \/ (mig' = mig /\ mig[p] = Off),
         downs' = downs, recorded' = recorded
  PROVE  ServesInv'
<1>1. st[p] \in ProcessState /\ st \in [Process -> ProcessState]
  BY DEF LifecycleInv, LifeInv
<1>2. st'[p] = s /\ \A q \in Process \ {p} : st'[q] = st[q]
  BY <1>1
<1>3. mig'[p] = Off /\ \A q \in Process \ {p} : mig'[q] = mig[q]
  BY DEF Rollback, LifecycleInv, MigrationInv, MigrationTypeOK
<1>4. s.base <= downs
  BY <1>1 DEF LifecycleInv, ServesInv, LifeInv, BudgetOK
<1>5. ~Ready(p)' /\ ~Migrating(p)'
  BY <1>2, <1>3 DEF Ready, Migrating, Off
<1> QED BY <1>2, <1>3, <1>4, <1>5, OneServes

\* Every step keeps ServesInv.
LEMMA ServesStep ==
  ASSUME LifecycleInv, [Next]_vars, MigrationInv', LifeInv'
  PROVE  ServesInv'
<1>0. st \in [Process -> ProcessState] /\ st' \in [Process -> ProcessState]
      /\ mig \in [Process ->
           [pc : {"off", "create", "check", "apply", "record", "commit", "done"},
            v : 0..(N + 1)]]
      /\ downs \in Nat
  BY DEF LifecycleInv, LifeInv, MigrationInv, MigrationTypeOK, BudgetOK
<1>1. ASSUME NEW p \in Process,
             \/ buildCrier(p) \/ openDatabase(p) \/ buildDBBreaker(p)
             \/ buildCachedTaskRepository(p) \/ newCSRF(p) \/ newLimiters(p)
             \/ buildBlobStore(p) \/ newLinkShortener(p)
      PROVE  ServesInv'
  BY <1>1, BuiltServes DEF buildCrier, openDatabase, buildDBBreaker,
       buildCachedTaskRepository, newCSRF, newLimiters, buildBlobStore, newLinkShortener
<1>2. ASSUME NEW p \in Process, StartMigrations(p) PROVE ServesInv'
  <2>1. st'[p].pc = "migrate" /\ st'[p].base = downs
        /\ mig'[p].pc \in {"create", "check"} /\ mig'[p].v = 1
        /\ \A q \in Process \ {p} : st'[q] = st[q] /\ mig'[q] = mig[q]
    BY <1>0, <1>2 DEF StartMigrations, BeginMigrations, ProcessState
  <2>2. recorded' = recorded /\ downs' = downs
    BY <1>2 DEF StartMigrations, BeginMigrations, db, budget
  <2>3. ~Ready(p)' /\ \A w \in Version : ~(w < mig'[p].v)
    BY <2>1 DEF Ready, Version
  <2> QED BY <1>0, <2>1, <2>2, <2>3, OneServes
<1>3. ASSUME NEW p \in Process, Migrate(p) PROVE ServesInv'
  <2>1. st' = st /\ downs' = downs /\ st[p].pc = "migrate" /\ MigrationStep(p)
    BY <1>3 DEF Migrate, budget
  <2>2. recorded \subseteq recorded' /\ \A q \in Process \ {p} : mig'[q] = mig[q]
    BY <1>0, <2>1 DEF MigrationStep, CreateTable, AllSeen, Skip, NotApplied, ExecDDL,
                      RecordVersion, Commit, Goto, db
  <2>3. CASE AllSeen(p)
    <3>1. st[p].base = downs => recorded' = Version
      BY <2>2, <2>3, AllSeenWhole, StaysWhole DEF LifecycleInv
    <3>2. ~Migrating(p)'
      BY <1>0, <2>3 DEF AllSeen, Goto, Migrating
    <3> QED BY <2>1, <2>2, <3>1, <3>2, OneServes DEF LifecycleInv, ServesInv
  <2>4. CASE ~AllSeen(p)
    <3>1. mig'[p].pc # "done"
      BY <1>0, <2>1, <2>4 DEF MigrationStep, CreateTable, Skip, NotApplied, ExecDDL,
                              RecordVersion, Commit, Goto
    <3>2. ~Ready(p)'
      BY <2>1, <3>1 DEF Ready
    <3>3. ASSUME st[p].base = downs, NEW w \in Version, w < mig'[p].v PROVE w \in recorded'
      <4>1. Migrating(p)
        BY <2>1 DEF MigrationStep, CreateTable, AllSeen, Skip, NotApplied, ExecDDL,
                    RecordVersion, Commit, Migrating
      <4>2. w < mig[p].v => w \in recorded
        BY <3>3, <4>1 DEF LifecycleInv, ServesInv
      <4>3. CASE Skip(p) \/ Commit(p)
        <5>1. mig'[p].v = mig[p].v + 1 /\ mig[p].v \in recorded'
          BY <1>0, <4>3 DEF Skip, Commit, Applied, db
        <5>2. w \in Nat /\ mig[p].v \in Nat
          BY <1>0 DEF Version
        <5>3. w < mig[p].v \/ w = mig[p].v
          BY <3>3, <5>1, <5>2
        <5> QED BY <2>2, <4>2, <5>1, <5>3
      <4>4. CASE ~(Skip(p) \/ Commit(p))
        <5>1. mig'[p].v = mig[p].v
          BY <1>0, <2>1, <2>4, <4>4 DEF MigrationStep, CreateTable, NotApplied, ExecDDL,
                                        RecordVersion, Goto
        <5> QED BY <2>2, <3>3, <4>2, <5>1
      <4> QED BY <4>3, <4>4
    <3> QED BY <2>1, <2>2, <3>2, <3>3, OneServes DEF LifecycleInv, ServesInv
  <2> QED BY <2>3, <2>4
<1>4. ASSUME NEW p \in Process, Migrated(p) PROVE ServesInv'
  <2>1. mig'[p] = Off /\ st'[p].base = st[p].base /\ Ready(p)
        /\ \A q \in Process \ {p} : st'[q] = st[q] /\ mig'[q] = mig[q]
    BY <1>0, <1>4 DEF Migrated, Move, ProcessState, Ready
  <2>2. recorded' = recorded /\ downs' = downs
    BY <1>4 DEF Migrated, db, budget
  <2> QED BY <2>1, <2>2, OneServes DEF LifecycleInv, ServesInv
<1>5. ASSUME NEW p \in Process, Signal(p) \/ Request(p) \/ Respond(p) \/ Close(p)
      PROVE  ServesInv'
  <2>1. mig' = mig /\ recorded' = recorded /\ downs' = downs
    BY <1>5 DEF Signal, Request, Respond, Close, db, budget
  <2>2. st'[p].pc = st[p].pc /\ st'[p].base = st[p].base
        /\ \A q \in Process \ {p} : st'[q] = st[q]
    BY <1>0, <1>5 DEF Signal, Request, Respond, Close, ProcessState
  <2>3. Ready(p)' => Ready(p)
    BY <2>1, <2>2 DEF Ready
  <2>4. Migrating(p)' => Migrating(p)
    BY <2>1 DEF Migrating
  <2> QED BY <2>1, <2>2, <2>3, <2>4, OneServes DEF LifecycleInv, ServesInv
<1>6. ASSUME NEW p \in Process, Drain(p) \/ Shutdown(p) PROVE ServesInv'
  <2>1. mig' = mig /\ recorded' = recorded /\ downs' = downs
    BY <1>6 DEF Drain, Shutdown, db, budget
  <2>2. st[p].pc \in {"serving", "draining"} /\ st'[p].base = st[p].base
        /\ \A q \in Process \ {p} : st'[q] = st[q]
    BY <1>0, <1>6 DEF Drain, Shutdown, Move, ProcessState
  <2>3. Ready(p) /\ mig[p] = Off
    BY <2>2 DEF Ready, LifecycleInv, ServesInv
  <2> QED BY <2>1, <2>2, <2>3, OneServes DEF LifecycleInv, ServesInv
<1>7. ASSUME NEW p \in Process, Drained(p) \/ ShutdownTimeout(p) \/ ServerFails(p)
      PROVE  ServesInv'
  <2>1. mig' = mig /\ recorded' = recorded /\ downs' = downs
    BY <1>7 DEF Drained, ShutdownTimeout, ServerFails, Return, Fault, db, budget
  <2>2. st' = [st EXCEPT ![p] = st'[p]] /\ st'[p].pc = "closing"
        /\ st'[p].base = st[p].base /\ st[p].pc # "migrate"
    BY <1>0, <1>7 DEF Drained, ShutdownTimeout, ServerFails, Return, ProcessState
  <2>3. mig[p] = Off
    BY <2>2 DEF LifecycleInv, ServesInv
  <2> QED BY <1>0, <2>1, <2>2, <2>3, GoneServes
<1>8. ASSUME NEW p \in Process, NEW open, NEW why, Exit(p, open, why)
      PROVE  st' = [st EXCEPT ![p] = st'[p]] /\ st'[p].pc = "down"
             /\ st'[p].base = st[p].base
  BY <1>0, <1>8 DEF Exit, ProcessState
<1>9. ASSUME NEW p \in Process, LostRace(p) \/ BlobsCanceled(p) \/ StageFails(p) \/ Crash(p)
      PROVE  ServesInv'
  <2>1. recorded' = recorded /\ downs' = downs /\ Rollback(p)
    BY <1>9 DEF LostRace, BlobsCanceled, StageFails, Crash, AbortStart, Fault, db, budget
  <2>2. st' = [st EXCEPT ![p] = st'[p]] /\ st'[p].pc = "down"
        /\ st'[p].base = st[p].base
    BY <1>8, <1>9 DEF LostRace, BlobsCanceled, StageFails, Crash, AbortStart
  <2> QED BY <1>0, <2>1, <2>2, GoneServes
<1>10. ASSUME NEW p \in Process, Closed(p) \/ CloseFails(p) PROVE ServesInv'
  <2>1. recorded' = recorded /\ downs' = downs /\ mig' = mig /\ st[p].pc = "closing"
    BY <1>10 DEF Closed, CloseFails, Fault, db, budget
  <2>2. st' = [st EXCEPT ![p] = st'[p]] /\ st'[p].pc = "down"
        /\ st'[p].base = st[p].base
    BY <1>8, <1>10 DEF Closed, CloseFails
  <2>3. mig[p] = Off
    BY <2>1 DEF LifecycleInv, ServesInv
  <2> QED BY <1>0, <2>1, <2>2, <2>3, GoneServes
<1>11. ASSUME NEW p \in Process, Restart(p) PROVE ServesInv'
  <2>1. recorded' = recorded /\ downs' = downs /\ mig' = mig /\ st[p].pc = "down"
    BY <1>11 DEF Restart, db, budget
  <2>2. st' = [st EXCEPT ![p] = st'[p]] /\ st'[p].pc = "crier" /\ st'[p].base = 0
    BY <1>0, <1>11 DEF Restart, Fresh
  <2>3. mig[p] = Off
    BY <2>1 DEF LifecycleInv, ServesInv
  <2> QED BY <1>0, <2>1, <2>2, <2>3, GoneServes
<1>12. CASE MigrateDown
  <2>1. st' = st /\ mig' = mig /\ downs' = downs + 1
    BY <1>12 DEF MigrateDown, revertMigration
  <2>2. \A p \in Process : st[p].base \in Nat
    BY <1>0 DEF ProcessState
  <2> QED BY <1>0, <2>1, <2>2 DEF LifecycleInv, ServesInv
<1>13. CASE UNCHANGED vars \/ Operator
  BY <1>13 DEF vars, Operator, NothingToRevert, latestAppliedMigration, RevertFails, db,
               budget, LifecycleInv, ServesInv, Ready, Migrating
<1> QED BY <1>1, <1>2, <1>3, <1>4, <1>5, <1>6, <1>7, <1>9, <1>10, <1>11, <1>12, <1>13
        DEF Next, Step

\* The combined invariant holds of Lifecycle.
LEMMA LifecycleInvariant == Spec => []LifecycleInv
<1>1. Init => ServesInv
  BY DEF Init, MigrationInit, Fresh, Off, ServesInv, Ready, Migrating
<1>2. LifecycleInv /\ [Next]_vars /\ MigrationInv' /\ LifeInv' => LifecycleInv'
  BY ServesStep DEF LifecycleInv
<1> QED BY <1>1, <1>2, MigrationsInvariant, LifeInvariant, PTL DEF Spec, LifecycleInv

\* Every variable keeps its type, and only a process in its migrate stage is
\* inside RunMigrations.
THEOREM LifecycleTypes == Spec => []TypeOK
<1>1. LifecycleInv => TypeOK
  BY DEF LifecycleInv, MigrationInv, LifeInv, BudgetOK, ServesInv, TypeOK, ProcessState,
         PC, Migrating, Off
<1> QED BY <1>1, LifecycleInvariant, PTL

\* A process that serves has every embedded migration recorded under it, unless
\* the operator reverted one after its start began to migrate, and in effect
\* unless a revert ever ran into a start: the loop of RunMigrations and its
\* lookups are enough without a lock around them.
THEOREM ServesOnWholeSchema == Spec => []ServesMigrated
<1>1. LifecycleInv => ServesMigrated
  <2> SUFFICES ASSUME LifecycleInv, NEW p \in Process, st[p].base = downs,
                      st[p].pc \in {"serving", "draining", "shutdown"}
               PROVE  recorded = Version /\ (schema = Version \/ overlap)
    BY DEF ServesMigrated
  <2>1. recorded = Version
    BY DEF LifecycleInv, ServesInv, Ready
  <2>2. ~overlap => schema = recorded
    BY DEF LifecycleInv, MigrationInv, OrderInv
  <2> QED BY <2>1, <2>2
<1> QED BY <1>1, LifecycleInvariant, PTL
=============================================================================
