-------------------------- MODULE AccountDeletion --------------------------
(***************************************************************************)
(* DELETE /auth/me over the task list cache: the handler verifies the       *)
(* password, deleteAccountCascade lists the user's tasks (through           *)
(* CachedRepository) and deletes them one by one, then                      *)
(* Service.DeleteAccount removes the sessions and the user's row.  The      *)
(* foreign key of tasks has no cascade, so the row cannot go before them.   *)
(* A client whose deletion failed logs in again if need be and retries.     *)
(*                                                                          *)
(* The attachments deleted on the way are the subject of Attachments: here  *)
(* they are calls that may fail (DeleteFails) between two tasks.            *)
(***************************************************************************)
EXTENDS TaskCache

VARIABLE sessions  \* the user has a session

vars == <<store, levels, req, faults, sessions>>

(* listed, all that the cascade was given, is history.                      *)
Cascade == [pc : {"cascade"}, proc : Process, todo : SUBSET Task, listed : SUBSET Task]

RequestState ==
  [pc : {"idle"}]
    \cup [pc : {"counted"}, proc : Process]
    \cup [pc : {"fill"}, proc : Process, then : {"answer", "cascade"},
          from : {"l2", "repository"}, page : Page, missed : BOOLEAN]
    \cup [pc : {"invalidate"}, proc : Process, next : {Idle} \cup Cascade]
    \cup Cascade
    \cup [pc : {"user"}, listed : SUBSET Task]

TypeOK ==
  /\ tasks \in SUBSET Task
  /\ used \in SUBSET Task
  /\ account \in BOOLEAN
  /\ l1 \in [Process -> Entry \cup {None}]
  /\ l2 \in Entry \cup {None}
  /\ events \in SUBSET Process
  /\ req \in [Request -> RequestState]
  /\ faults \in 0..MaxFaults
  /\ sessions \in BOOLEAN

(* A registered and logged-in user without tasks, cold caches.              *)
Init ==
  /\ tasks = {}
  /\ used = {}
  /\ account = TRUE
  /\ l1 = [p \in Process |-> None]
  /\ l2 = None
  /\ events = {}
  /\ req = [r \in Request |-> Idle]
  /\ faults = 0
  /\ sessions = TRUE

-----------------------------------------------------------------------------
(* VerifyPassword has succeeded; the cascade asks for the list.             *)
BeginDelete(r, p) ==
  /\ At(r, "idle") /\ account /\ sessions
  /\ FindAll(r, p, "cascade")
  /\ UNCHANGED sessions

Oldest(r) == Min(req[r].todo)

CascadeDelete(r) ==
  /\ At(r, "cascade") /\ req[r].todo # {}
  /\ Oldest(r) \in tasks
  /\ tasks' = tasks \ {Oldest(r)}
  /\ req' = [req EXCEPT ![r] = [pc |-> "invalidate", proc |-> req[r].proc,
                                next |-> [req[r] EXCEPT !.todo = @ \ {Oldest(r)}]]]
  /\ UNCHANGED <<used, account, levels, faults, sessions>>

(* DeleteTask answers ErrNotFound: 500, nothing further is deleted.         *)
CascadeStops(r) ==
  /\ At(r, "cascade") /\ req[r].todo # {}
  /\ Oldest(r) \notin tasks
  /\ Finish(r)
  /\ UNCHANGED <<store, levels, faults, sessions>>

(* A call for an attachment or a task fails.                                *)
DeleteFails_Ignored(r) ==
  /\ At(r, "cascade") /\ req[r].todo # {}
  /\ Fail
  /\ req' = [req EXCEPT ![r].todo = @ \ {Oldest(r)}]
  /\ UNCHANGED <<store, levels, sessions>>

DeleteFails(r) ==
  /\ At(r, "cascade") /\ req[r].todo # {}
  /\ Fail
  /\ Finish(r)
  /\ UNCHANGED <<store, levels, sessions>>

CloseSessions(r) ==
  /\ At(r, "cascade") /\ req[r].todo = {}
  /\ sessions' = FALSE
  /\ req' = [req EXCEPT ![r] = [pc |-> "user", listed |-> req[r].listed]]
  /\ UNCHANGED <<store, levels, faults>>

NoTasksLeft_Unchecked == TRUE
NoTasksLeft == tasks = {}

DeleteUser(r) ==
  /\ At(r, "user")
  /\ account /\ NoTasksLeft
  /\ account' = FALSE
  /\ sessions' = FALSE
  /\ Finish(r)
  /\ UNCHANGED <<tasks, used, levels, faults>>

(* The foreign key refuses, or another deletion was first.                  *)
DeleteUserRefused(r) ==
  /\ At(r, "user")
  /\ ~account \/ ~NoTasksLeft
  /\ Finish(r)
  /\ UNCHANGED <<store, levels, faults, sessions>>

Login ==
  /\ account /\ ~sessions
  /\ sessions' = TRUE
  /\ UNCHANGED <<store, levels, req, faults>>

(* A refused call, an expired deadline or a dead process ends a request.  A  *)
(* write that is not followed by its invalidation leaves every level as is. *)
Abort(r) ==
  /\ ~At(r, "idle")
  /\ Fail
  /\ IF At(r, "invalidate")
     THEN /\ l1' = [p \in Process |-> Missed(l1[p])]
          /\ l2' = Missed(l2)
          /\ req' = [q \in Request |-> IF q = r THEN Idle ELSE Overtaken(q)]
     ELSE UNCHANGED <<l1, l2>> /\ Finish(r)
  /\ UNCHANGED <<store, events, sessions>>

-----------------------------------------------------------------------------
Write(r, p) ==
  \/ Create(r, p)
  \/ Update(r, p)
  \/ \E t \in Task : Delete(r, p, t)

ClientStep(r) ==
  /\ \E p \in Process : ListTasks(r, p) \/ ExportTasks(r, p) \/ Write(r, p)
  /\ UNCHANGED sessions

CacheStep(r) ==
  /\ \/ ExportCounted(r)
     \/ Fill(r) \/ FillL1Only(r)
     \/ Invalidate(r) \/ InvalidationFails(r)
  /\ UNCHANGED sessions

Environment ==
  /\ \/ \E p \in Process : Receive(p) \/ LoseEvent(p)
     \/ Evict
     \/ Tick
  /\ UNCHANGED sessions

Deletion(r) ==
  \/ \E p \in Process : BeginDelete(r, p)
  \/ CascadeDelete(r) \/ CascadeStops(r) \/ DeleteFails(r)
  \/ CloseSessions(r) \/ DeleteUser(r) \/ DeleteUserRefused(r)

Next ==
  \/ \E r \in Client : ClientStep(r)
  \/ \E r \in Deleter : Deletion(r)
  \/ \E r \in Request : CacheStep(r) \/ Abort(r)
  \/ Environment
  \/ Login

Spec == Init /\ [][Next]_vars

(* Requests proceed, time passes, and the client keeps asking.  Failures are *)
(* bounded, so this says: once they stop.                                    *)
Proceed(r) ==
  \/ CascadeDelete(r) \/ CascadeStops(r) \/ CloseSessions(r)
  \/ DeleteUser(r) \/ DeleteUserRefused(r)
  \/ (ExportCounted(r) \/ Fill(r) \/ Invalidate(r)) /\ UNCHANGED sessions

Retry == Login \/ \E r \in Deleter, p \in Process : BeginDelete(r, p)

Fairness ==
  /\ \A r \in Request : WF_vars(Proceed(r))
  /\ WF_vars(Tick /\ UNCHANGED sessions)
  /\ WF_vars(Retry)

FairSpec == Spec /\ Fairness

-----------------------------------------------------------------------------
Invalidating == \E r \in Request : At(r, "invalidate")

Explained(entry, onItsWay) ==
  entry # None /\ entry.page # tasks => entry.missed \/ onItsWay

(* A cached list that is not what the table would answer is either about to  *)
(* be retired (a write whose invalidation is still to come, an event still    *)
(* under way), or an invalidation failed, was lost, or ran between its read   *)
(* and its store: with a working Redis and no such overlap, invalidateOwner   *)
(* after every write keeps all levels of all processes fresh.                 *)
StaleExplained ==
  /\ Explained(l2, Invalidating)
  /\ \A p \in Process : Explained(l1[p], Invalidating \/ p \in events)

(* Once an account is gone it owns nothing: the list that the cascade works   *)
(* from may be stale or overtaken by a new task, DeleteUser must notice.      *)
NothingLeft == ~account => tasks = {} /\ ~sessions

(* "a failure here must stop the account's own row and sessions from being    *)
(* deleted" (AccountCascadeFunc): sessions are only removed by a deletion     *)
(* none of whose listed tasks is left.                                        *)
StoppedCascade ==
  \A r \in Request : At(r, "user") => req[r].listed \cap tasks = {}

(* A client that keeps asking gets its account deleted, although a stale list *)
(* makes the cascade stop at a task that is already gone, or overlook one;    *)
(* it must not create tasks for ever meanwhile (Task is finite).              *)
DeletionSucceeds == <>~account
=============================================================================
