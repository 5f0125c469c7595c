------------------------------- MODULE Tasks -------------------------------
(***************************************************************************)
(* The task service over postgresRepository (internal/task): writes under  *)
(* optimistic concurrency control, the conditional reads that reuse the    *)
(* version as ETag, and the statistics.                                    *)
(*                                                                         *)
(* A request is a sequence of repository calls, and Update itself a        *)
(* transaction of two statements; others run in between.  memoryRepository *)
(* runs Update under its mutex: the behaviours in which the two statements *)
(* follow each other at once.                                              *)
(***************************************************************************)
EXTENDS Integers, FiniteSets

CONSTANTS Task,        \* task ids
          User,        \* user ids
          Text,        \* titles with their descriptions
          Priority,    \* validPriorities: low, medium and high
          Request,     \* concurrent HTTP requests
          Absent,      \* "no row", "no value"
          MaxVersion   \* bound on the writes to one task

ASSUME TasksAssumption ==
  /\ IsFiniteSet(Task)
  /\ "medium" \in Priority
  /\ Absent \notin Priority
  /\ MaxVersion \in Nat \ {0}

VARIABLES tasks,   \* the tasks table: tasks[t] is t's row, or Absent
          used,    \* ids newID has given out
          req,     \* req[p]: the request p
          held,    \* held[t]: a copy of t that some client keeps with the
                   \* ETag that came with it, or Absent
          stats    \* history: the totals of the last GET /tasks/stats

vars == <<tasks, used, req, held, stats>>

Status == {"pending", "in_progress", "done", "cancelled"}

legalTransitions ==
  [from \in Status |->
     CASE from = "pending"     -> {"in_progress", "done", "cancelled"}
       [] from = "in_progress" -> {"pending", "done", "cancelled"}
       [] from = "done"        -> {"pending", "in_progress"}
       [] from = "cancelled"   -> {"pending"}]

Row == [user : User, text : Text, status : Status, priority : Priority,
        version : Nat \ {0}]

ASSUME AbsentNoRow == Absent \notin Row

PC == {"idle", "write", "locked", "counted"}

Idle == [pc |-> "idle", task |-> Absent, read |-> Absent, write |-> Absent,
         user |-> Absent, total |-> 0]

\* A request: the call it makes next, the task it is about, the row FindByID
\* gave it, the row it wants written, and for the statistics the caller and
\* the total by status.
RequestState == [pc : PC, task : Task \cup {Absent}, read : Row \cup {Absent},
                 write : Row \cup {Absent}, user : User \cup {Absent},
                 total : Nat]

TypeOK ==
  /\ tasks \in [Task -> Row \cup {Absent}]
  /\ used \subseteq Task
  /\ req \in [Request -> RequestState]
  /\ \A p \in Request : req[p].pc \in {"write", "locked"} =>
       req[p].task \in Task /\ req[p].read \in Row /\ req[p].write \in Row
  /\ held \in [Task -> Row \cup {Absent}]
  /\ stats \in [byStatus : Nat, byPriority : Nat]

Init ==
  /\ tasks = [t \in Task |-> Absent]
  /\ used = {}
  /\ req = [p \in Request |-> Idle]
  /\ held = [t \in Task |-> Absent]
  /\ stats = [byStatus |-> 0, byPriority |-> 0]

-----------------------------------------------------------------------------
(* Helpers *)

At(p, label) == req[p].pc = label

Finish(p) == req' = [req EXCEPT ![p] = Idle]

Stored(t) == tasks[t] # Absent

\* validatePriority: a priority not given (Absent) stands for the fallback.
validatePriority_NoFallback(priority, fallback) == priority

validatePriority(priority, fallback) ==
  IF priority = Absent THEN fallback ELSE priority

\* FindByID and Delete see only the caller's own tasks.
Owned(t, u) == Stored(t) /\ tasks[t].user = u

\* The row lock of SELECT ... FOR UPDATE.
Locked_Never(t) == FALSE

Locked(t) == \E q \in Request : At(q, "locked") /\ req[q].task = t

\* Goes on to Repository.Update with this row.
WriteBack(p, t, row) ==
  req' = [req EXCEPT ![p] =
    [Idle EXCEPT !.pc = "write", !.task = t, !.read = tasks[t], !.write = row]]

-----------------------------------------------------------------------------
(* Writes *)

\* CreateTask: a pending task at version 1.
CreateTask(t, u, text, priority) ==
  /\ t \notin used
  /\ used' = used \cup {t}
  /\ tasks' = [tasks EXCEPT ![t] =
       [user |-> u, text |-> text, status |-> "pending",
        priority |-> validatePriority(priority, "medium"), version |-> 1]]
  /\ UNCHANGED <<req, held, stats>>

\* UpdateTask up to Repository.Update: FindByID, then the text and perhaps the
\* priority replaced in the copy.
UpdateTask(p, u, t, text, priority) ==
  /\ At(p, "idle")
  /\ Owned(t, u)
  /\ WriteBack(p, t,
       [tasks[t] EXCEPT !.text = text,
          !.priority = validatePriority(priority, tasks[t].priority)])
  /\ UNCHANGED <<tasks, used, held, stats>>

\* TransitionStatus (CompleteTask is the target "done") up to
\* Repository.Update: the check is on the copy.  The current status is a
\* success without a write, an illegal one an error: neither changes anything.
TransitionStatus(p, u, t, target) ==
  /\ At(p, "idle")
  /\ Owned(t, u)
  /\ target \in legalTransitions[tasks[t].status]
  /\ WriteBack(p, t, [tasks[t] EXCEPT !.status = target])
  /\ UNCHANGED <<tasks, used, held, stats>>

\* Repository.Update, first statement: SELECT version ... FOR UPDATE, which
\* waits for the row's lock.
SameVersion_Unchecked(p) == TRUE

SameVersion(p) ==
  /\ Owned(req[p].task, req[p].write.user)
  /\ tasks[req[p].task].version = req[p].write.version

LockVersion(p) ==
  /\ At(p, "write")
  /\ ~Locked(req[p].task)
  /\ SameVersion(p)
  /\ req' = [req EXCEPT ![p].pc = "locked"]
  /\ UNCHANGED <<tasks, used, held, stats>>

\* ... which answers ErrNotFound or ErrConflict otherwise.
RejectUpdate(p) ==
  /\ At(p, "write")
  /\ ~Locked(req[p].task)
  /\ ~SameVersion(p)
  /\ Finish(p)
  /\ UNCHANGED <<tasks, used, held, stats>>

\* The version the UPDATE leaves: version + 1 of the row as it is now.
NextVersion_Same(row) == row.version

NextVersion(row) == row.version + 1

\* Second statement and commit: every column but created_at is written.  The
\* lock keeps the row stored.
CommitUpdate(p) ==
  /\ At(p, "locked")
  /\ LET t == req[p].task
     IN  /\ Stored(t)
         /\ tasks[t].version < MaxVersion
         /\ tasks' = [tasks EXCEPT ![t] =
              [req[p].write EXCEPT !.version = NextVersion(tasks[t])]]
  /\ Finish(p)
  /\ UNCHANGED <<used, held, stats>>

\* DeleteTask: one DELETE, which waits for the row's lock.
DeleteTask(u, t) ==
  /\ Owned(t, u)
  /\ ~Locked(t)
  /\ tasks' = [tasks EXCEPT ![t] = Absent]
  /\ UNCHANGED <<used, req, held, stats>>

-----------------------------------------------------------------------------
(* Reads *)

\* taskETag.
taskETag_IdOnly(t, row) == <<t, 0>>

taskETag(t, row) == <<t, row.version>>

\* A 304: the client sends the ETag of its copy and it is still the row's.  A
\* list of ETags is this comparison for each of them; "*", answered 304 for any
\* stored row, is about no copy and changes nothing.
NotModified(t) ==
  /\ held[t] # Absent
  /\ Stored(t)
  /\ taskETag(t, held[t]) = taskETag(t, tasks[t])

\* getTask answering 200: the client replaces its copy.
GetTask(u, t) ==
  /\ Owned(t, u)
  /\ ~NotModified(t)
  /\ held' = [held EXCEPT ![t] = tasks[t]]
  /\ UNCHANGED <<tasks, used, req, stats>>

\* The rows a query without a filter sees.
RowsOf(u) == {t \in Task : Owned(t, u)}

\* TaskStats (without a filter): CountByStatusAndPriority is two queries, and
\* the counts of a grouping add up to the number of rows it sees.
CountByStatus(p, u) ==
  /\ At(p, "idle")
  /\ req' = [req EXCEPT ![p] =
       [Idle EXCEPT !.pc = "counted", !.user = u,
                    !.total = Cardinality(RowsOf(u))]]
  /\ UNCHANGED <<tasks, used, held, stats>>

CountByPriority(p) ==
  /\ At(p, "counted")
  /\ stats' = [byStatus |-> req[p].total,
               byPriority |-> Cardinality(RowsOf(req[p].user))]
  /\ Finish(p)
  /\ UNCHANGED <<tasks, used, held>>

-----------------------------------------------------------------------------
\* A call fails or its answer is lost; an open transaction rolls back.
Abort(p) ==
  /\ ~At(p, "idle")
  /\ Finish(p)
  /\ UNCHANGED <<tasks, used, held, stats>>

Next ==
  \/ \E t \in Task, u \in User :
       \/ \E text \in Text, priority \in Priority \cup {Absent} :
            \/ CreateTask(t, u, text, priority)
            \/ \E p \in Request : UpdateTask(p, u, t, text, priority)
       \/ \E p \in Request, target \in Status : TransitionStatus(p, u, t, target)
       \/ DeleteTask(u, t)
       \/ GetTask(u, t)
  \/ \E p \in Request :
       \/ LockVersion(p) \/ RejectUpdate(p) \/ CommitUpdate(p)
       \/ \E u \in User : CountByStatus(p, u)
       \/ CountByPriority(p)
       \/ Abort(p)

Spec == Init /\ [][Next]_vars

-----------------------------------------------------------------------------
(* Properties *)

Store == INSTANCE TaskStore

\* Read, check and write of UpdateTask and TransitionStatus run unlocked over
\* two repository calls, and the write stores every column of the copy; still
\* each accepted write is an indivisible change of the row as it was then: no
\* update is lost, no status ever moves along an illegal edge.
AtomicWrites == Store!Spec

\* A 304 (and the precondition of a version check) is sound: while the ETag a
\* client holds is still the row's ETag, its copy is the row.
ETagSound == \A t \in Task : NotModified(t) => held[t] = tasks[t]

\* What openapi.yaml says of GET /tasks/stats: the counts by status and the
\* counts by priority have the same sum.
StatsAgree == stats.byStatus = stats.byPriority
=============================================================================
