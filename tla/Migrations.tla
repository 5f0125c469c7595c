---------------------------- MODULE Migrations ----------------------------
(***************************************************************************)
(* RunMigrations by any number of starting processes, and RunMigrationsDown *)
(* by one operator, over one PostgreSQL database.  Nothing spans the loop:  *)
(* a version is looked up in schema_migrations, then applied in a           *)
(* transaction of its own that runs the DDL and inserts the record.  A      *)
(* revert too is a lookup and then a transaction, and nothing keeps it from *)
(* a database that processes are migrating.                                 *)
(*                                                                          *)
(* None of the embedded migrations tolerates being run twice (CREATE and    *)
(* ALTER without IF NOT EXISTS).  DDL holds its locks to the end of the     *)
(* transaction: a second execution of the same migration waits, and fails   *)
(* if the first one committed.                                              *)
(***************************************************************************)
EXTENDS Integers, FiniteSets, FiniteSetsExt

CONSTANTS
  Process,
  N         \* number of embedded migrations

ASSUME MigrationsAssumption == N \in Nat

VARIABLES
  schema,     \* migrations whose DDL is in effect
  recorded,   \* rows of schema_migrations
  ledger,     \* schema_migrations itself exists
  revert,     \* the version RunMigrationsDown has found to revert, or 0
  overlap,    \* history: a revert has run into a start
  mig         \* mig[p]: where RunMigrations of p is, and at which version

db == <<schema, recorded, ledger, revert, overlap>>

Version == 1..N
Off == [pc |-> "off", v |-> 0]

MigrationTypeOK ==
  /\ schema \in SUBSET Version
  /\ recorded \in SUBSET Version
  /\ ledger \in BOOLEAN /\ overlap \in BOOLEAN
  /\ revert \in 0..N
  /\ mig \in [Process ->
       [pc : {"off", "create", "check", "apply", "record", "commit", "done"},
        v : 0..(N + 1)]]

MigrationInit ==
  /\ schema = {}
  /\ recorded = {}
  /\ ledger = FALSE /\ revert = 0 /\ overlap = FALSE
  /\ mig = [p \in Process |-> Off]

Migrating(p) == mig[p].pc \in {"create", "check", "apply", "record", "commit"}
Goto(p, pc) == mig' = [mig EXCEPT ![p].pc = pc]

(* An open transaction has executed the DDL of its version.                  *)
InTransaction(v) == \E p \in Process : mig[p].pc \in {"record", "commit"} /\ mig[p].v = v

-----------------------------------------------------------------------------
(* ensureMigrationsTable.  CREATE TABLE IF NOT EXISTS looks for the table    *)
(* first: statements that all find none collide, and one of them succeeds.   *)
BeginMigrations(p) ==
  /\ mig' = [mig EXCEPT ![p] = [pc |-> IF ledger THEN "check" ELSE "create", v |-> 1]]
  /\ UNCHANGED db

CreateTable(p) ==
  /\ mig[p].pc = "create" /\ ~ledger
  /\ ledger' = TRUE
  /\ Goto(p, "check")
  /\ UNCHANGED <<schema, recorded, revert, overlap>>

LastVersion_OffByOne == N + 1
LastVersion == N

AllSeen(p) ==
  /\ mig[p].pc = "check" /\ mig[p].v > LastVersion
  /\ Goto(p, "done")
  /\ UNCHANGED db

Applied_Never(v) == FALSE
Applied(v) == v \in recorded

Skip_Returns(p) ==
  /\ mig[p].pc = "check" /\ mig[p].v <= LastVersion
  /\ Applied(mig[p].v)
  /\ Goto(p, "done")
  /\ UNCHANGED db

Skip(p) ==
  /\ mig[p].pc = "check" /\ mig[p].v <= LastVersion
  /\ Applied(mig[p].v)
  /\ mig' = [mig EXCEPT ![p].v = @ + 1]
  /\ UNCHANGED db

NotApplied(p) ==
  /\ mig[p].pc = "check" /\ mig[p].v <= LastVersion
  /\ ~Applied(mig[p].v)
  /\ Goto(p, "apply")
  /\ UNCHANGED db

(* applyMigration: BEGIN and the DDL.  The effect is visible at the commit.  *)
ExecDDL_Autocommit(p) ==
  /\ mig[p].pc = "apply"
  /\ ~InTransaction(mig[p].v) /\ mig[p].v \notin schema
  /\ schema' = schema \cup {mig[p].v}
  /\ Goto(p, "record")
  /\ UNCHANGED <<recorded, ledger, revert, overlap>>

ExecDDL(p) ==
  /\ mig[p].pc = "apply"
  /\ ~InTransaction(mig[p].v) /\ mig[p].v \notin schema
  /\ Goto(p, "record")
  /\ UNCHANGED db

(* Another process has created the table or committed this migration since   *)
(* p looked, or a revert has dropped the table this migration is about: the  *)
(* statement is refused.                                                     *)
Refused(p) ==
  \/ mig[p].pc = "create" /\ ledger
  \/ mig[p].pc = "apply" /\ ~InTransaction(mig[p].v) /\ mig[p].v \in schema
  \/ mig[p].pc = "apply" /\ \E w \in Version : w < mig[p].v /\ w \notin recorded
  \/ mig[p].pc = "record" /\ mig[p].v \in recorded

RecordVersion(p) ==
  /\ mig[p].pc = "record"
  /\ mig[p].v \notin recorded
  /\ Goto(p, "commit")
  /\ UNCHANGED db

Commit(p) ==
  /\ mig[p].pc = "commit"
  /\ schema' = schema \cup {mig[p].v}
  /\ recorded' = recorded \cup {mig[p].v}
  /\ mig' = [mig EXCEPT ![p] = [pc |-> "check", v |-> mig[p].v + 1]]
  /\ UNCHANGED <<ledger, revert, overlap>>

(* An error return or a dead process rolls its transaction back.             *)
Rollback(p) == mig' = [mig EXCEPT ![p] = Off]

MigrationStep(p) ==
  \/ CreateTable(p) \/ AllSeen(p) \/ Skip(p) \/ NotApplied(p)
  \/ ExecDDL(p) \/ RecordVersion(p) \/ Commit(p)

(* cmd/migrate -direction down.  RunMigrationsDown creates the table too,    *)
(* and gives up when it is empty.                                            *)
NothingToRevert ==
  /\ recorded = {} /\ revert = 0
  /\ ledger' = TRUE
  /\ UNCHANGED <<schema, recorded, revert, overlap, mig>>

(* The greatest applied_at: versions are applied in order until a revert     *)
(* runs into a start; after that, any of them may be the latest.             *)
latestAppliedMigration ==
  /\ recorded # {} /\ revert = 0
  /\ revert' \in IF overlap THEN recorded ELSE {Max(recorded)}
  /\ UNCHANGED <<schema, recorded, ledger, overlap, mig>>

(* The down DDL and the deletion of the record, in one transaction.  What    *)
(* later migrations built on the objects that are dropped goes with them.    *)
revertMigration ==
  /\ revert # 0
  /\ \E lost \in SUBSET {w \in schema : w > revert} :
       schema' = schema \ ({revert} \cup lost)
  /\ recorded' = recorded \ {revert}
  /\ overlap' = (overlap \/ revert # Max(recorded) \/ \E p \in Process : Migrating(p))
  /\ revert' = 0
  /\ UNCHANGED <<ledger, mig>>

(* An error (an object still referenced, say) rolls the transaction back.    *)
RevertFails ==
  /\ revert # 0
  /\ revert' = 0
  /\ UNCHANGED <<schema, recorded, ledger, overlap, mig>>

-----------------------------------------------------------------------------
Log == INSTANCE SchemaLog WITH applied <- schema, orderly <- ~overlap

(* Processes that start together, fail or die between two statements never    *)
(* leave DDL without its record, and a record without its DDL or a gap only   *)
(* once a revert has run into a start: "a crash or error between the two can  *)
(* never leave the database with the migration's DDL applied but not          *)
(* recorded" (applyMigration).                                                *)
SchemaAtomic == Log!Spec
=============================================================================
