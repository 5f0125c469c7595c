# TLA+ verification of task-api

TLA+ models of the task API (Go, `src/`), the TLC runs that check them on small
instances, and TLAPS proofs of the central properties for every value of the
constants. `PROJECT.json` holds the machine-readable index: components, runs,
mutants, the map from definitions to source lines, findings, hazards, theorems.

## 1. Inventory

The system is a REST service that runs as any number of identical API processes
over one PostgreSQL database (or, for development, in-memory repositories of a
single process), with a blob store for attachments (local disk or S3), an
optional list cache, and a React client.

| Component | State | Operations | What is hard |
|---|---|---|---|
| sessions and accounts (`internal/user`) | tables `users`, `sessions` | Register, Authenticate, CreateSession, ValidateToken, Logout, LogoutAll, RevokeSession, ChangePassword, DeleteAccount, PruneExpiredSessions | every method is a chain of database and cache calls with nothing held in between; a session cap kept by a transaction under READ COMMITTED |
| token cache (`token_cache.go`) | per-process map token -> (user, expiry) | get, set, delete, deleteAllForUser, deleteAllForUserExcept, sweep | stale answers, entries put back after a deletion |
| login backoff (`login_backoff.go`) | per-process failure counts by e-mail | delay, recordFailure, recordSuccess, sweep | check and record are two steps; shift overflow |
| task service (`internal/task`) | table `tasks` with a version column | CreateTask, UpdateTask, TransitionStatus, CompleteTask, DeleteTask, GetTask, TaskStats, lists, export | read, check and write over several calls: optimistic concurrency |
| task list cache (`cached_repository.go`) | external cache, entries tagged by owner | FindAll through GetOrLoad, invalidation after writes | load racing an invalidation, invalidation that fails |
| attachments (`internal/attachment`) | table `attachments`, blob store | Upload, Download, Delete, ListByTask, CollectOrphans | two stores without a common transaction; a garbage collector beside uploads; limits checked long before the insert |
| blob stores | files or objects, with modification times | Put, Open, Delete, List | partial writes, ignored errors of removals |
| circuit breakers | external breaker state | wrap every repository and store call | calls refused at any point |
| account deletion cascade (`cmd/api`) | none of its own | deleteAccountCascade over tasks and attachments, then DeleteAccount | one step of several failing, tasks created meanwhile |
| process lifecycle (`cmd/api`) | opened resources, requests in flight | run, newServer, signal, drain, Shutdown, closeAll, periodic cleanup | early returns that leave resources open; closing under a request |
| schema migrations (`internal/platform/migrate`, `cmd/migrate`) | `schema_migrations` and the schema itself | RunMigrations, RunMigrationsDown | several processes starting at once, crashes between statements |
| middleware, config, link shortening, seed, web server | none or read-only | | |
| web client (`web/src`) | cached CSRF token promise | apiFetch | a fetch that ends after an invalidation |

Interactions. Every authenticated route passes `RequireAuth`, which calls
`ValidateToken` and hands the identity to the handler. The handlers of tasks and
attachments are independent of sessions from there on. Tasks and attachments
meet in the foreign key of `attachments` (a task's deletion cascades over the
metadata rows, never over the blobs). Account deletion runs through all three
services. A goroutine of every process calls PruneExpiredSessions and
CollectOrphans on a ticker.

What makes each part correct:

- sessions: the cap holds at every moment; a revoked or expired token dies
  within a bounded time everywhere, and at once where nobody overlapped the
  revocation; no session outlives its account.
- tasks: an accepted write is an atomic change of the current row; no status
  moves along an illegal edge; a 304 never confirms a stale copy.
- attachments: an acknowledged attachment keeps row and bytes until deleted;
  every orphaned blob is collected; the limits are exceeded at most by the
  requests in progress.
- list cache and account deletion: a stale list always has one of the causes the
  design accepts; a deleted account owns nothing, an incomplete cascade leaves
  the account usable, and a client that retries succeeds.
- login backoff: the delay follows its curve for every failure count; overlap
  buys a bounded number of free guesses; nothing but a right password or the
  idle time forgives.
- lifecycle and migrations: the schema moves by whole recorded migrations;
  nobody serves on an incomplete one; a clean stop closes nothing under a
  request and leaves nothing open; in the end every process serves.

The full list of hazards, each at its line, with the property that covers it or
the reason none does, is `hazards` in `PROJECT.json`.

## 2. Modules

| Module | Role |
|---|---|
| `Sessions` | sessions table, token caches, all requests that touch them |
| `SessionsProofs`, `RevocationProofs` | its theorems; the second on settled revocations |
| `MCSessions` | symmetry for TLC |
| `TaskStore` | abstract: an atomic task table |
| `Tasks` | the task service over the repository; implements `TaskStore` |
| `TasksProofs`, `MCTasks` | theorems; symmetry |
| `Attachments` | attachment service, blob store, collector |
| `AttachmentsProofs`, `MCAttachments` | theorems; symmetry |
| `TaskCache` | the two-level list cache of every process over the task table (actions only) |
| `AccountDeletion` | extends `TaskCache`: clients, the deletion cascade and DeleteAccount over it |
| `AccountDeletionProofs`, `MCAccountDeletion` | theorems; symmetry |
| `LoginBackoff` | the progressive delay around Authenticate |
| `LoginBackoffProofs`, `MCLoginBackoff` | theorems; symmetry |
| `SchemaLog` | abstract: a schema that moves by whole migrations |
| `Migrations` | RunMigrations and RunMigrationsDown; implements `SchemaLog` |
| `Lifecycle` | extends `Migrations`: the life of the processes, from start to exit |
| `LifecycleProofs`, `MCLifecycle` | theorems, those on migrations included; TLC instance |

The state machines of requests share one shape. A request is a record in `req`, its
`pc` names the repository, store or cache call it makes next, and each such call
is one action: that is the granularity at which other requests, and other
processes, interleave. `Abort` ends a request at any such point, which covers a
refused call (database error, open circuit breaker), an expired deadline, a
panic and a dead process; since an action that took effect may be followed by
`Abort`, it also covers a call whose effect was applied although its caller saw
an error. Early returns of the code that change nothing (404, 401, a validation
error) are not actions: they are the absence of a step, or `Abort`.

Definitions with a suffix after an underscore (`Locked_Never`,
`Candidates_AnyAge`, ...) are plausible defects of the operator they precede.
No specification uses them; each shows that some property notices the defect.

### Sessions

`users`, `password`, `sessions` are the tables (a password is a number, the n-th
one the account has had); `tokenCache[r]` is the cache of process `r`; `now` is
one clock for processes and database. `issued`, `goneAt`, `opened`,
`revocations`, `rotated` are history. A token stands for its hash.

- Login: `Authenticate`, `MintToken` (`Service.CreateSession` up to the
  repository), then the transaction of `postgresRepository.CreateSession`:
  `InsertSession` (advisory lock and INSERT, refused by the foreign key),
  `EvictOldest` (the DELETE, which sees committed rows and its own),
  `CommitSession`. The rows become visible at the commit.
- `ValidateToken`: `ValidateHit`, or `ValidateMiss` (the row is read),
  `ValidateExpired`/`ValidateFresh` (the expiry check), `ValidateStore`
  (`tokenCache.set`).
- Handlers: `Logout`, `RevokeSession`/`DeleteRevoked`, `ForgetToken`;
  `LogoutAll`/`ForgetUser`; `VerifyForChange`, `UpdateUserPassword`,
  `RevokeOthers`, `ForgetOthers` (ChangePassword); `VerifyForDelete`,
  `CloseSessions`, `CloseForget`, `DeleteUser` (account deletion).
- `Prune` (PruneExpiredSessions: the sweep of the cache and the DELETE are
  separate steps), `Restart` (the process comes back with an empty cache), `Tick`.

The in-memory repository runs `CreateSession` under its mutex: these are the
behaviours in which the statements of the transaction follow one another at
once. One difference is not covered: it has no foreign key, so a login finishing
after `DeleteUser` leaves a session there (listed as a hazard).

### Tasks and TaskStore

`tasks` is the table, `held[t]` a copy some client keeps together with its ETag.
`UpdateTask` and `TransitionStatus` read a row and prepare the copy to write;
`LockVersion` is `SELECT version ... FOR UPDATE`, `RejectUpdate` its
ErrNotFound/ErrConflict, `CommitUpdate` the UPDATE of every column and the
commit. `DeleteTask` is one statement that waits for the row lock. `GetTask` is
the conditional GET answering 200; `NotModified` is the 304 for an ETag the client
holds. `If-None-Match: *` also answers 304, but says nothing about a copy; of a list
of ETags the handler takes any that matches, which is the case of that one.
`CountByStatus` and
`CountByPriority` are the two queries of the statistics. Title and description
are one `Text`; lists, filters, pagination and CSV only read.

`TaskStore` is what callers may rely on: one indivisible read-modify-write per
accepted write. `Tasks` implements it with the identity mapping on `tasks` and
`used` (`AtomicWrites`).

### Attachments

`rows[k]` is the metadata row with storage key `k`, `blobs[k]` the blob
(`partial` while `Put` copies), `old` the keys whose blob is older than the
collector's `minAge`. Upload: `CheckQuota`, `CheckCount`, `BeginPut`, `EndPut` or
`PutFails`, `Create`, `CreateAnswerLost` or `CreateFails`, `Compensate`.
Delete: `DeleteRow`, `DeleteBlob`. `DeleteTask` is the database's cascade.
CollectOrphans: `ListBlobs`, `SelectOrphans`, `DeleteOrphan`, `PassEnds`.
`TotalBytesForUser`, a SUM in the database, counts the bytes of all attachments
one by one, as pairs of a key and a number: the same value, and open to proof.

Assumptions of this model:

- One user: to every query a foreign task answers like one that does not exist.
- `Age` does not happen to a blob between its creation and the insertion of its
  row. This is the requirement the code states for `minAge` ("must exceed the
  longest plausible gap"); it is an assumption on the configuration, and
  `AckedDurable` fails without it (mutant `Candidates_AnyAge`).
- An S3 object appears only when complete. The model lets a partial blob be
  seen; S3 is the case in which nobody looks until `EndPut`. A partial blob that
  stays after `PutFails` is, for S3, an object that was stored although the
  client saw an error.
- `CreateAnswerLost`: the INSERT commits and the caller gets an error (broken
  connection, DB_CALL_TIMEOUT).

### TaskCache and AccountDeletion

`tasks`, `used`, `account` stand for the tables; `l1[p]` and `l2` are the levels
of the cache, an entry being a page with its remaining life; `events` holds the
processes an invalidation event is on its way to. The cache library (cistern)
and Redis are external, modelled from what `CachedRepository` and
`buildCachedTaskRepository` ask of them.

- `FindAll` is GetOrLoad: `HitL1` answers, `HitL2` and `Load` read a page that
  `Fill` stores later (`FillL1Only` when Redis refuses); `LoadPastL2` is the
  library's fail-open read, of the table, when Redis cannot answer for an entry it
  holds. Between reading and storing anything may happen: that is the race the
  cache is about.
- `Create`, `Update`, `Delete` write the table, and `Invalidate` (InvalidateTag)
  follows as a step of its own; `InvalidationFails` is the error that only
  reaches `OnInvalidationError`.
- `Receive`, `LoseEvent`, `Evict`, `Tick`: the bus, Redis and time. A received
  event empties the L1 of its process and touches no page a request holds.
- `BeginDelete` (VerifyPassword has passed, ListTasks through the cache),
  `CascadeDelete`, `CascadeStops` (ErrNotFound for a task already gone),
  `DeleteFails`, `CloseSessions`, `DeleteUser` or `DeleteUserRefused` (the foreign
  key of tasks, which does not cascade), `Login`.

One user and one key: the unfiltered, unlimited list, which a GET without
parameters, the export and the cascade share. Filters and windows make other
keys, which these steps neither read nor write; the owner's tag retires them all
alike. A page is the set of its ids, so `Update` invalidates without changing it.
The sessions are one flag: `Sessions` has the rest.

`missed` in an entry and `listed` in a cascade are history.

### LoginBackoff

`entries[e]` is the failure count with the age of the last failure. `Begin` reads
the delay (and forgets an idle entry), `Reject` and `Accept` record the outcome,
`Respond` ends the sleep, `sweep` is the part of PruneExpiredSessions. An attempt
keeps the delay it read. Durations are counted in 250 ms; `Mantissa` and
`Negative` are the 64-bit shift of the nanosecond value, without numbers TLC
could not hold. `free[e]` (history) counts failures since the last reset that had
nothing to pay. The table belongs to one process; replicas each have their own,
as the design says.

### Migrations and SchemaLog

`schema` is the set of migrations in effect, `recorded` the rows of
`schema_migrations`, `ledger` whether that table exists, `mig[p]` the place of
process `p` in RunMigrations. `BeginMigrations` and `CreateTable` are
ensureMigrationsTable: processes that all found no table collide, and one
succeeds. Then the lookup (`Skip`, `NotApplied`), the DDL (`ExecDDL`), the record
(`RecordVersion`) and the `Commit` are steps of their own. The embedded migrations
create and alter without IF NOT EXISTS, and PostgreSQL holds DDL locks to the end
of the transaction: a second execution waits for the first and is `Refused` if that
one committed. `Refused` also covers a record that is already there and a table
that a revert has dropped (what a later migration needs of an earlier one is its
table, and only the revert of the migration that created a table drops it).
`Rollback` is an error or the death of the process.

RunMigrationsDown is `latestAppliedMigration` (or `NothingToRevert`), which picks
the version in `revert`, and later `revertMigration` or `RevertFails`. Nothing in the
code keeps it from a database that processes are migrating, and neither does the
model. `overlap` (history) becomes true when a revert commits while a process is
migrating, or takes a version that is no longer the latest. Until then `applied_at`
follows the versions, and the latest is the greatest; afterwards the model lets any
recorded version be the latest. Dropping a table takes along what later migrations
added to it (`lost`).

The mapping to `SchemaLog` is the identity on `schema` and `recorded`, with
`orderly` for `~overlap`. It says what survives a revert in the middle of a start:
DDL in effect is recorded, always. What does not survive it: the order, and that a
recorded migration is in effect.

### Lifecycle

`st[p]` holds the stage of the start or what `run` does after it, the resources
opened and not closed, the requests in flight, whether ctx is canceled and how
the process ended last. All optional parts are configured; without one its stage
is absent.

- Start: `buildCrier`, `openDatabase`, the migrations, `buildDBBreaker`,
  `buildCachedTaskRepository`, `newCSRF`, `newLimiters`, `buildBlobStore`,
  `newLinkShortener`. `StageFails` is an error in any of them, `LostRace` a
  statement another process was faster with; `ClosedOnError` is what each error
  path of newServer closes, one definition per path (`MigrateError`, ...).
- `Signal` may come at any time, also during the start. Of the start only the S3
  store's probe of its bucket watches ctx (`BlobsCanceled`; whether it comes too late
  for that, or the store is the local one, is left open).
  `Drain` and `Shutdown` follow once the server is up; `Drained`,
  `ShutdownTimeout` and `ServerFails` return into the deferred closeAll.
- `Close` follows the order of closeAll, `CloseFails` is its first error: the
  resource that failed and those after it count as left open.
- `Crash`, `Restart` (the orchestrator), `MigrateDown` and `Operator` (cmd/migrate: the
  revert that commits, and the rest of RunMigrationsDown). There is one operator.

`cmd/migrate -direction up` is a process that stops after the migrate stage, and
adds nothing to those that crash there.

## 3. Runs

| Run | Instance | Shows |
|---|---|---|
| `sessions_login` | 1 user, 2 tokens, 1 process, 2 requests, cap 1, 2 passwords, 1 tick | `TypeOK`, `SessionCap`, `SessionsHaveUsers`, `SettledRevocation` |
| `sessions_stale` | 1 user, 1 token, 2 processes, 2 requests, 4 ticks with all windows 1 | `RevocationBound`, `ExpiryBound` |
| `sessions_same_process` | 1 token, 1 process, 2 requests | finding: `SameProcessRevocation` is violated |
| `sessions_rotation` | 2 tokens, 2 requests | finding: `OldPasswordSessionsGone` is violated |
| `tasks` | 1 task, 2 users, 2 texts, 2 priorities, 2 requests, versions up to 3 | `TypeOK`, `ETagSound`, `AtomicWrites` |
| `task_stats` | 1 task, 1 request | finding: `StatsAgree` is violated |
| `attachments` | 2 tasks, 3 keys, 2 requests, 1 collector, 1 attachment per task, quota 2 | `TypeOK`, `AckedDurable`, `QuotaOvershoot`, `CountOvershoot` |
| `attachment_orphans` | 1 task, 2 keys, 1 request, 2 collectors, fairness | `OrphansCollected` |
| `account_deletion` | 2 processes, 1 client, 1 deleter, 2 tasks, lives 2 and 1, 1 fault, fairness | `TypeOK`, `StaleExplained`, `NothingLeft`, `StoppedCascade`, `DeletionSucceeds` |
| `login_backoff` | 3 attempts, 1 address, idle time 1, 64 failures | `TypeOK`, `CurveKept`, `BurstBound`, `OwedFalls` |
| `lifecycle` | 2 processes, 3 migrations, 1 request each, 2 faults, 1 signal, 1 revert, fairness | `TypeOK`, `ServesMigrated`, `NoRequestOnClosed`, `LeakBound`, `SchemaAtomic`, `EventuallyServes` |
| `attachment_rows` | 1 task, 1 key, 1 request | finding: `RowsHaveBlobs` is violated |

Why the bounds are enough. Two requests give every pairwise race; no action
looks at more than one other request. In `sessions_login` a cap of one with two
tokens makes the second login evict, and two logins race under the lock. In
`sessions_stale` the clock runs to 4: latency 1 and cache window 1 after a
removal at 0 or 1 leave at least one tick in which the bound could be broken.
Three versions let a writer lose against two successive others, and a client
hold a copy two versions old. Three keys over two tasks with a limit of one
each let both limits be exceeded by one request while another finishes; sizes
0..2 against a quota of 2 hit the boundary from both sides. In
`account_deletion` two processes are what the bus needs, one task can be gone
while another is new, L2 outlives L1, and one fault suffices for each way in
which an invalidation goes missing. In `login_backoff` 64 failures carry the
shift past bit 63, where it wraps, and past bit 64, where nothing is left. In
`lifecycle` three migrations let one process skip the first, lose the second and
find the third open, and a revert take the first or the second from under a
process at the next one; two faults let a restart fail as well, and the revert's
lookup may come long before its transaction. What does not depend
on the bounds is proved (section 4).

`MaxTime`, `MaxPasswords`, `MaxVersion`, `MaxFailures`, `MaxRequests`, `MaxStops`,
`MaxDowns` and `MaxFaults` bound counters in the guards; ids,
tokens and storage keys are finite and used once. Deadlock is checked in every
run. Requests and tokens (and where possible tasks, keys, texts) are symmetric;
the liveness runs use no symmetry.

Fairness in `Attachments` (`FairSpec`, only for `OrphansCollected`):

- weak for `Age`: time passes;
- weak for `ListBlobs`: the ticker of `runPeriodicCleanup` starts pass after
  pass;
- strong for `SelectOrphans` and `DeleteOrphan`: a pass may end at any point (a
  failing call, a restarted process: `PassEnds` is always possible), but no call
  fails for ever. The code needs this: a pass stops at the first blob it cannot
  delete, so one that never can be deleted starves those listed after it.

Its requests get no fairness: clients may go away at any moment.

Fairness in `AccountDeletion`, all weak: a request in progress goes on
(`Proceed`: every call has a deadline), time passes, and the client whose
deletion failed logs in and asks again. Reads and writes of the other client, the
bus and Redis get none. Faults are bounded and task ids are finite, so `DeletionSucceeds` says: once
failures stop and the user's other client creates no more tasks. It needs the expiry of entries: a stale list makes every attempt
fail alike until it has expired (mutant `Later_Kept`).

Fairness in `Lifecycle`: each process goes on with what it can do by itself
(`Step`), every wait having a timeout, and the orchestrator restarts it. Clients,
signals, faults and the operator get none; they are bounded, so
`EventuallyServes` says: once they stop. It holds after a revert that ran into a
start as well: the next start fills the gap in the record.

### Findings

1. `sessions_same_process`: ValidateToken caches a row it read before a Logout
   of the same process, so the process accepts the token it has just revoked
   (token_cache.go says it never does). `RevocationBound` bounds the window,
   `SettledRevocation` shows that only an overlap causes it.
2. `sessions_rotation`: a login that proved the old password opens its session
   after ChangePassword has revoked all the others.
3. `task_stats`: the two groupings of the statistics come from two snapshots, so
   `by_status` and `by_priority` can have different sums, unlike what
   openapi.yaml says.
4. `attachment_rows`: an INSERT that commits with a lost answer makes Upload
   delete the blob under a committed row, the state its order of writes is meant
   to exclude.

Comments that `Lifecycle` contradicts, kept as notes because they cost a test at
most: newServer "returns a non-nil error only if the database itself could not be
opened ... there is nothing to close" (main.go:257-259; csrf.New fails with the
pool and the cache open); "close what you opened" (main.go:465-466; no error path
closes the cache or the crier); "all four must run" (main.go:786-787; closeAll
returns at the first error); closeDB "runs last, after the HTTP server has fully
stopped serving requests" (main.go:155-158; not after the shutdown timeout).
`LeakBound` and `NoRequestOnClosed` state what does hold.

## 4. Proofs

For arbitrary constants subject to the ASSUMEs of the modules (limits are
naturals, "no value" is no value, and the sets that are counted are finite):

| Theorem | Statement |
|---|---|
| `SessionsProofs!TypeCorrect` | `Spec => []TypeOK` |
| `SessionsProofs!StaleTokensDie` | `Spec => []RevocationBound` |
| `SessionsProofs!ExpiredTokensDie` | `Spec => []ExpiryBound` |
| `SessionsProofs!CapHolds` | `Spec => []SessionCap` |
| `SessionsProofs!SessionsAreOwned` | `Spec => []SessionsHaveUsers` |
| `RevocationProofs!RevocationsSettle` | `Spec => []SettledRevocation` |
| `TasksProofs!TypeCorrect` | `Spec => []TypeOK` |
| `TasksProofs!ETagsAreSound` | `Spec => []ETagSound` |
| `TasksProofs!WritesAreAtomic` | `Spec => AtomicWrites` (refinement of `TaskStore`) |
| `AttachmentsProofs!TypeCorrect` | `Spec => []TypeOK` |
| `AttachmentsProofs!AttachmentsAreDurable` | `Spec => []AckedDurable` |
| `AttachmentsProofs!CountIsBounded` | `Spec => []CountOvershoot` |
| `AttachmentsProofs!QuotaIsBounded` | `Spec => []QuotaOvershoot` |
| `AccountDeletionProofs!TypeCorrect` | `Spec => []TypeOK` |
| `AccountDeletionProofs!StaleListsExplained` | `Spec => []StaleExplained` |
| `AccountDeletionProofs!NothingIsLeft` | `Spec => []NothingLeft` |
| `AccountDeletionProofs!CascadeFinishesFirst` | `Spec => []StoppedCascade` |
| `LoginBackoffProofs!TypeCorrect` | `Spec => []TypeOK` |
| `LoginBackoffProofs!DelayKeepsItsCurve` | `Spec => []CurveKept` |
| `LoginBackoffProofs!BurstsAreBounded` | `Spec => []BurstBound` |
| `LoginBackoffProofs!OwedIsKept` | `Spec => OwedFalls` (action property) |
| `LifecycleProofs!LifecycleTypes` | `Spec => []TypeOK` |
| `LifecycleProofs!SchemaIsAtomic` | `Spec => SchemaAtomic` (refinement of `SchemaLog`) |
| `LifecycleProofs!ServesOnWholeSchema` | `Spec => []ServesMigrated` |
| `LifecycleProofs!ClosesAfterRequests` | `Spec => []NoRequestOnClosed` |
| `LifecycleProofs!LeaksAreBounded` | `Spec => []LeakBound` |

The arguments:

- StaleTokensDie and ExpiredTokensDie. `InFlightInv`: a request between reading a row and caching it
  read it at most MaxLatency ago, and if the row is gone by now it went after the
  read. `EntryInv`: a cache entry's window ends at most MaxLatency +
  TokenCacheTTL after its row went, or after its own expiry. The first is needed
  because the entry is created when the row may be long gone.
- CapHolds. The cap alone is not inductive: a commit adds a row. `LockInv` says
  that a user has one open transaction at most, `RoomInv` that a transaction past
  its eviction would leave at most MaxSessions rows if it committed now; others
  may only delete rows meanwhile. The table must be finite to be counted.
- SessionsAreOwned. `OwnerInv` adds that the user of an open transaction exists:
  DeleteUser waits for it, and then cascades.
- RevocationsSettle. `KnowInv`: a token is known to nobody but the login that
  minted it until its commit, and every copy of a known token, in the table, a
  cache, a request or a set of deleted rows, names one owner. Hence a token that
  was issued, has no row and belongs to no login in progress (`Dead`) stays so.
  `DroppedInv`: what a request has deleted is dead; the owner's uniqueness is
  needed here, because the rows are selected by user and the cache is purged by
  user. `SettledInv`: the token of a finished revocation without overlap is dead,
  nobody in that process carries its row, and its cache has no entry; only a
  request that carries the row could make one.
- ETagsAreSound and WritesAreAtomic. `CopyOf(c, t)`: a copy's version is no newer
  than the row's, and equal versions mean equal rows; it holds of what clients
  hold (`HeldInv`) and of what writers read (`ReadInv`). `WriteInv`: what is about
  to be written is a legal change of what was read. `LockInv`: the holder of the
  row lock sees the row it read, alone. At the commit the row read is therefore
  the row stored, and the write is a step of `TaskStore`.
- AttachmentsAreDurable. An upload in flight is alone with its key, whose blob is
  young (`OwnInv`, `FreshInv`) and complete before the insert (`StoredInv`); no
  request is about to remove an acknowledged blob (`RemovalInv`); a collector's
  keys are old, hence of no upload in flight, and once selected have no row and
  never get one (`SweepInv`).
- CountIsBounded. A task's rows plus the uploads past the count check are at most
  MaxPerTask - 1 + the number of requests (`CountInv`).
- QuotaIsBounded. The same with bytes: an upload past the quota check reserves
  MaxBytes, as pairs of the request and a number, and the bytes stored plus those
  reserved are at most MaxBytesPerUser - 1 plus what all requests could reserve
  (`QuotaInv`). An insertion trades a reservation for at most as many bytes.
- StaleListsExplained, NothingIsLeft, CascadeFinishesFirst. `FreshInv` extends the
  explanation from the levels of the cache to the pages that requests have read
  and not yet stored: a page that differs from the table is marked as missed, or
  an invalidation is on its way. `CascadeInv`: ids are not reused, so what a
  cascade has listed and already handled is never in the table again. That a set
  of task ids has a least one (the order of the cascade) is proved from the
  well-foundedness of strict inclusion.
- DelayKeepsItsCurve, OwedIsKept. The curve by cases of the count, the last one
  covering every count whose shift wraps or vanishes; what a failure, a sweep or
  the passing of time does to an entry follows from it.
- BurstsAreBounded. The failures that had nothing to pay plus the attempts in
  progress that read no delay are bounded, and below the threshold the former are
  at most the failures counted (`BurstAt`); at the threshold nobody reads a zero
  delay any more.
- SchemaIsAtomic. DDL in effect is recorded, a transaction about to commit found no
  record of its version, and a version picked for a revert is recorded (`LogInv`);
  the DDL locks leave a version to one transaction (`LockInv`), so no two commit the
  same one. As long as no revert has run into a start, record and schema are the
  same prefix of the versions, a process in the loop has every earlier version
  recorded, and that of an open transaction is not (`OrderInv`): what it commits is
  the next one, and what a revert takes is the last. A commit and a revert then map
  to steps of `SchemaLog` and everything else to a stutter.
- ServesOnWholeSchema, ClosesAfterRequests, LeaksAreBounded. For each place in run
  the resources open there (`OpenAt`), and how the process got there (`LifeInv`); a
  process that no revert has overtaken since its migrations began has every version
  before its own recorded, and past the migrate stage all of them (`ServesInv`).

`LoginBackoffProofs` needs one assumption on the model's own constants: "no entry"
is not an entry. The proofs use no other assumption than the ASSUMEs of the modules,
which TLC evaluates in the runs.

Only model-checked: `OrphansCollected`, `DeletionSucceeds` and `EventuallyServes`,
because liveness under fairness is out of the prover's reach. Every safety property,
action property and refinement that a passing run checks is proved.

## 5. Not modelled

- Reads that change nothing: filters, pagination, CSV formatting, downloads.
- Middleware other than the identity RequireAuth establishes, configuration
  parsing, seed and web server: stateless or run once.
- Link shortening: calls of an external library over its own in-memory store.
- Circuit breakers: library state; a refused call is an `Abort` or another of the
  failures of the modules.
- The codec of the list cache (a round trip of the rows), and the columns of the
  cached rows.
- The rate limiters: library state, no part in any property.
- The goroutine of runPeriodicCleanup during a shutdown: not awaited, so closeAll
  may close the database under a pass, which then logs errors. Its passes are
  `Prune` of Sessions and the collector of Attachments.
- Several operators who revert at the same time, and the exact `applied_at` order
  once a revert has run into a start (any recorded version may then be the latest).
- The in-memory repositories where they differ from the database (no foreign
  key of sessions).
- The web client: one CSRF token promise per page, in one thread; a hazard is
  listed for it.

## 6. Plan

1. Done: `Sessions`, `TaskStore`/`Tasks`, `Attachments`,
   `TaskCache`/`AccountDeletion`, `LoginBackoff`, `SchemaLog`/`Migrations`/`Lifecycle`,
   and the proofs of all their safety properties.
2. An abstract specification of a session store that `Sessions` implements, and the
   proof that it does.
3. `CsrfClient`: the token promise of the web client. An in-memory variant of the
   sessions table without the foreign key.
