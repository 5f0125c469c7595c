----------------------------- MODULE Lifecycle -----------------------------
(***************************************************************************)
(* The life of the API processes of one deployment: run and newServer open  *)
(* the resources one stage at a time, a stage that fails closes what its    *)
(* error path names, a serving process drains on a signal, and closeAll     *)
(* gives the resources back in a fixed order.  The migrate stage is         *)
(* RunMigrations (Migrations), where starting processes meet.               *)
(*                                                                          *)
(* Every optional part is configured (PostgreSQL with DB_AUTO_MIGRATE,      *)
(* Redis, attachments, links, the OTLP mirror).  The orchestrator restarts  *)
(* a process that has exited.                                               *)
(***************************************************************************)
EXTENDS Migrations

CONSTANTS
  MaxRequests,  \* bound: requests in flight in one process
  MaxFaults,    \* bound: failing calls and crashes
  MaxStops,     \* bound: termination signals
  MaxDowns      \* bound: reverts by the operator

ASSUME LifecycleAssumption ==
  /\ MaxRequests \in Nat /\ MaxFaults \in Nat
  /\ MaxStops \in Nat /\ MaxDowns \in Nat

VARIABLES
  st,       \* st[p]: the state of process p
  faults, stops, downs

budget == <<faults, stops, downs>>
vars == <<db, mig, st, budget>>

Resource == {"crier", "db", "cache", "limiters", "blobs"}
Stage == {"crier", "database", "migrate", "breaker", "cache", "csrf",
          "addressKey", "blobs", "links"}

(* What the error path of a stage closes.  None closes the crier or, once    *)
(* built, the cache; that of csrf.New closes nothing.                        *)
MigrateError == {"db"}
BreakerError == {"db"}
CacheError == {"db"}
AddressKeyError == {"db"}
BlobsError_NoLimiters == {"db"}
BlobsError == {"limiters", "db"}
LinksError == {"limiters", "db", "blobs"}

ClosedOnError(s) ==
  CASE s = "migrate" -> MigrateError
    [] s = "breaker" -> BreakerError
    [] s = "cache" -> CacheError
    [] s = "addressKey" -> AddressKeyError
    [] s = "blobs" -> BlobsError
    [] s = "links" -> LinksError
    [] OTHER -> {}

Ending == {"drained", "timeout", "server", "close", "crash"}

(* pc: the stage of the start, or what run is doing after it; open: what has *)
(* been opened and not closed; signalled: ctx is canceled; why: how the last *)
(* life of the process ended; base: reverts seen when its migrations began.  *)
Fresh == [pc |-> "crier", open |-> {}, inflight |-> 0, signalled |-> FALSE,
          why |-> "none", base |-> 0]

TypeOK ==
  /\ MigrationTypeOK
  /\ st \in [Process ->
       [pc : Stage \cup {"serving", "draining", "shutdown", "closing", "down"},
        open : SUBSET Resource, inflight : 0..MaxRequests, signalled : BOOLEAN,
        why : {"none"} \cup Stage \cup Ending, base : 0..MaxDowns]]
  /\ \A p \in Process : Migrating(p) => st[p].pc = "migrate"
  /\ faults \in 0..MaxFaults /\ stops \in 0..MaxStops /\ downs \in 0..MaxDowns

Init ==
  /\ MigrationInit
  /\ st = [p \in Process |-> Fresh]
  /\ faults = 0 /\ stops = 0 /\ downs = 0

Move(p, pc) == st' = [st EXCEPT ![p].pc = pc]
Fault == faults < MaxFaults /\ faults' = faults + 1 /\ UNCHANGED <<stops, downs>>

(* run has returned: main exits.                                             *)
Exit(p, open, why) ==
  st' = [st EXCEPT ![p] = [@ EXCEPT !.pc = "down", !.open = open, !.why = why,
                                    !.inflight = 0]]

-----------------------------------------------------------------------------
(* Starting: buildCrier, then newServer.                                     *)
Built(p, stage, opened, next) ==
  /\ st[p].pc = stage
  /\ st' = [st EXCEPT ![p].open = @ \cup opened, ![p].pc = next]
  /\ UNCHANGED <<db, mig, budget>>

buildCrier(p) == Built(p, "crier", {"crier"}, "database")
openDatabase(p) == Built(p, "database", {"db"}, "migrate")
buildDBBreaker(p) == Built(p, "breaker", {}, "cache")
buildCachedTaskRepository(p) == Built(p, "cache", {"cache"}, "csrf")
newCSRF(p) == Built(p, "csrf", {}, "addressKey")
newLimiters(p) == Built(p, "addressKey", {"limiters"}, "blobs")
buildBlobStore(p) == Built(p, "blobs", {"blobs"}, "links")
newLinkShortener(p) == Built(p, "links", {}, "serving")

(* RunMigrations, within openDatabase.                                       *)
StartMigrations(p) ==
  /\ st[p].pc = "migrate" /\ mig[p] = Off
  /\ BeginMigrations(p)
  /\ st' = [st EXCEPT ![p].base = downs]
  /\ UNCHANGED budget

Migrate(p) ==
  /\ st[p].pc = "migrate"
  /\ MigrationStep(p)
  /\ UNCHANGED <<st, budget>>

Migrated(p) ==
  /\ st[p].pc = "migrate" /\ mig[p].pc = "done"
  /\ mig' = [mig EXCEPT ![p] = Off]
  /\ Move(p, "breaker")
  /\ UNCHANGED <<db, budget>>

(* newServer returns an error and so does run, without its deferred close.   *)
AbortStart(p) ==
  /\ st[p].pc \in Stage
  /\ Rollback(p)
  /\ Exit(p, st[p].open \ ClosedOnError(st[p].pc), st[p].pc)
  /\ UNCHANGED db

StageFails(p) == AbortStart(p) /\ Fault

(* No fault is needed: another process was faster.                           *)
LostRace(p) == Refused(p) /\ AbortStart(p) /\ UNCHANGED budget

(* NewS3BlobStore probes the bucket under ctx; the local store does not.     *)
BlobsCanceled(p) ==
  /\ st[p].pc = "blobs" /\ st[p].signalled
  /\ AbortStart(p)
  /\ UNCHANGED budget

-----------------------------------------------------------------------------
(* Serving, and the signal.  Of a start only BlobsCanceled watches ctx: run  *)
(* finds it canceled once the server is up.                                  *)
Request(p) ==
  /\ st[p].pc \in {"serving", "draining"} /\ st[p].inflight < MaxRequests
  /\ st' = [st EXCEPT ![p].inflight = @ + 1]
  /\ UNCHANGED <<db, mig, budget>>

Respond(p) ==
  /\ st[p].inflight > 0
  /\ st' = [st EXCEPT ![p].inflight = @ - 1]
  /\ UNCHANGED <<db, mig, budget>>

Signal(p) ==
  /\ st[p].pc \notin {"closing", "down"} /\ ~st[p].signalled
  /\ stops < MaxStops
  /\ stops' = stops + 1
  /\ st' = [st EXCEPT ![p].signalled = TRUE]
  /\ UNCHANGED <<db, mig, faults, downs>>

(* PRE_SHUTDOWN_DELAY: the server still accepts.                             *)
Drain(p) ==
  /\ st[p].pc = "serving" /\ st[p].signalled
  /\ Move(p, "draining")
  /\ UNCHANGED <<db, mig, budget>>

Shutdown(p) ==
  /\ st[p].pc = "draining"
  /\ Move(p, "shutdown")
  /\ UNCHANGED <<db, mig, budget>>

(* The deferred close runs next, however run returns from here on.           *)
Return(p, why) ==
  /\ st' = [st EXCEPT ![p].pc = "closing", ![p].why = why]
  /\ UNCHANGED <<db, mig>>

Drained_NotAwaited(p) ==
  st[p].pc = "shutdown" /\ Return(p, "drained") /\ UNCHANGED budget

Drained(p) ==
  /\ st[p].pc = "shutdown" /\ st[p].inflight = 0
  /\ Return(p, "drained")
  /\ UNCHANGED budget

ShutdownTimeout(p) ==
  /\ st[p].pc = "shutdown" /\ st[p].inflight > 0
  /\ Return(p, "timeout")
  /\ UNCHANGED budget

ServerFails(p) ==
  /\ st[p].pc \in {"serving", "draining"}
  /\ Return(p, "server")
  /\ Fault

-----------------------------------------------------------------------------
(* closeAll.  Requests a timeout or a failed server left behind still run.   *)
CloseOrder == <<"limiters", "blobs", "cache", "crier", "db">>

NextToClose(p) ==
  CloseOrder[Min({i \in DOMAIN CloseOrder : CloseOrder[i] \in st[p].open})]

Close(p) ==
  /\ st[p].pc = "closing" /\ st[p].open # {}
  /\ st' = [st EXCEPT ![p].open = @ \ {NextToClose(p)}]
  /\ UNCHANGED <<db, mig, budget>>

Closed(p) ==
  /\ st[p].pc = "closing" /\ st[p].open = {}
  /\ Exit(p, {}, st[p].why)
  /\ UNCHANGED <<db, mig, budget>>

(* closeAll returns at the first error; closing a limiter reports none.      *)
CloseFails(p) ==
  /\ st[p].pc = "closing" /\ st[p].open # {}
  /\ NextToClose(p) # "limiters"
  /\ Exit(p, st[p].open, "close")
  /\ Fault
  /\ UNCHANGED <<db, mig>>

-----------------------------------------------------------------------------
(* The operating system takes everything back from a process that dies.      *)
Crash(p) ==
  /\ st[p].pc # "down"
  /\ Rollback(p)
  /\ Exit(p, {}, "crash")
  /\ Fault
  /\ UNCHANGED db

Restart(p) ==
  /\ st[p].pc = "down"
  /\ st' = [st EXCEPT ![p] = Fresh]
  /\ UNCHANGED <<db, mig, budget>>

MigrateDown ==
  /\ downs < MaxDowns
  /\ revertMigration
  /\ downs' = downs + 1
  /\ UNCHANGED <<st, faults, stops>>

(* The rest of RunMigrationsDown changes no migration.                       *)
Operator ==
  /\ downs < MaxDowns
  /\ NothingToRevert \/ latestAppliedMigration \/ RevertFails
  /\ UNCHANGED <<st, budget>>

(* What a process does on its own: faults, signals and clients are not.      *)
Step(p) ==
  \/ buildCrier(p) \/ openDatabase(p)
  \/ StartMigrations(p) \/ Migrate(p) \/ Migrated(p) \/ LostRace(p) \/ BlobsCanceled(p)
  \/ buildDBBreaker(p) \/ buildCachedTaskRepository(p) \/ newCSRF(p)
  \/ newLimiters(p) \/ buildBlobStore(p) \/ newLinkShortener(p)
  \/ Drain(p) \/ Shutdown(p) \/ Drained(p) \/ ShutdownTimeout(p)
  \/ Close(p) \/ Closed(p) \/ Restart(p)

Next ==
  \/ \E p \in Process :
       \/ Step(p)
       \/ Request(p) \/ Respond(p) \/ Signal(p)
       \/ StageFails(p) \/ ServerFails(p) \/ CloseFails(p) \/ Crash(p)
  \/ MigrateDown \/ Operator

Spec == Init /\ [][Next]_vars

(* A process that can go on does; every wait in it has a timeout.            *)
FairSpec == Spec /\ \A p \in Process : WF_vars(Step(p))

-----------------------------------------------------------------------------
(* A process that serves has every migration recorded under it, unless the   *)
(* operator reverted one after its start began to migrate; and in effect,    *)
(* unless a revert has ever run into a start.                                *)
ServesMigrated ==
  \A p \in Process :
    st[p].pc \in {"serving", "draining", "shutdown"} /\ st[p].base = downs
      => recorded = Version /\ (schema = Version \/ overlap)

(* A resource is closed under a request in flight only after the shutdown    *)
(* timeout or a failure of the server itself: "closing the database out from *)
(* under a request still in flight would turn a clean shutdown into request  *)
(* failures for no reason" (run).                                            *)
NoRequestOnClosed ==
  \A p \in Process :
    st[p].inflight > 0 /\ st[p].open # Resource => st[p].why \in {"timeout", "server"}

(* What run leaves open when it returns.  Nothing after a start that         *)
(* succeeded and a closeAll without an error; the connection pool only when  *)
(* csrf.New failed or an earlier close did; limiters and blobs never after a *)
(* start that failed ("close what you opened").                              *)
LeakBound ==
  \A p \in Process : st[p].pc = "down" =>
    /\ st[p].why \in {"drained", "timeout", "server"} => st[p].open = {}
    /\ "db" \in st[p].open => st[p].why \in {"csrf", "close"}
    /\ st[p].why \in Stage => st[p].open \cap {"limiters", "blobs"} = {}

(* Once faults, signals and reverts end, every process comes to serve:       *)
(* starting together costs the loser of a migration a restart, never more,   *)
(* and a shutdown always ends.                                               *)
EventuallyServes == <>[](\A p \in Process : st[p].pc = "serving")
=============================================================================
