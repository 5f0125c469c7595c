----------------------------- MODULE TaskCache -----------------------------
(***************************************************************************)
(* The cache-aside layer over FindAll (CachedRepository) of every API       *)
(* process, in front of the task table: an in-process level (L1), a shared  *)
(* Redis level (L2) and a best-effort bus that carries invalidations to the *)
(* other processes.  The cache library is external: its calls are modelled  *)
(* from how the repository configures and uses them.                        *)
(*                                                                          *)
(* One user, and one key of that user: the unfiltered, unlimited list that  *)
(* GET /v1/tasks without parameters, the CSV export and the account         *)
(* deletion share.  Keys of other users, filters or windows are never read  *)
(* or written by these steps, except that the owner's tag retires them all. *)
(***************************************************************************)
EXTENDS Naturals, FiniteSets, FiniteSetsExt

CONSTANTS
  Process,        \* API processes
  Client,         \* requests that list, export or write
  Deleter,        \* requests that delete the account
  Task,           \* task ids in the order in which they are created
  TTL, L1TTL,     \* REDIS_CACHE_TTL and REDIS_CACHE_L1_TTL, in ticks
  MaxFaults,      \* bound: failed calls, lost events and dead requests
  maxExportRows,
  None

ASSUME TaskCacheAssumption ==
  /\ Task \subseteq Nat /\ IsFiniteSet(Task)
  /\ TTL \in Nat \ {0} /\ L1TTL \in 1..TTL
  /\ MaxFaults \in Nat /\ maxExportRows \in Nat

VARIABLES
  tasks,     \* the table: ids of the user's rows, also what FindAll answers
  used,      \* ids handed out so far
  account,   \* the user's row exists
  l1, l2,    \* l1[p], l2: the cached list, or None
  events,    \* processes with an invalidation event under way to them
  req,       \* requests in progress
  faults     \* failures so far

Request == Client \cup Deleter

store == <<tasks, used, account>>
levels == <<l1, l2, events>>

(* missed is history: an invalidation has failed, got lost or come too early *)
(* for this page.                                                            *)
Page == SUBSET Task
Entry == [page : Page, life : 1..TTL, missed : BOOLEAN]

At(r, pc) == req[r].pc = pc
Idle == [pc |-> "idle"]
Finish(r) == req' = [req EXCEPT ![r] = Idle]

Holding(r) == req[r].pc = "fill"
Fail == faults < MaxFaults /\ faults' = faults + 1

-----------------------------------------------------------------------------
(* Reads: FindAll = cache.GetOrLoad.  `then' is what the caller does with    *)
(* the page: a list or an export answers it, a cascade works through it.     *)

Return(r, p, then, page) ==
  req' = [req EXCEPT ![r] = IF then = "answer" THEN Idle
                            ELSE [pc |-> "cascade", proc |-> p,
                                  todo |-> page, listed |-> page]]

HitL1(r, p, then) ==
  /\ l1[p] # None
  /\ Return(r, p, then, l1[p].page)

Hold(r, p, then, from, page, missed) ==
  req' = [req EXCEPT ![r] = [pc |-> "fill", proc |-> p, then |-> then, from |-> from,
                             page |-> page, missed |-> missed]]

HitL2(r, p, then) ==
  /\ l1[p] = None /\ l2 # None
  /\ Hold(r, p, then, "l2", l2.page, l2.missed)

Load(r, p, then) ==
  /\ l1[p] = None /\ l2 = None
  /\ Hold(r, p, then, "repository", tasks, FALSE)

(* A Redis that does not answer is passed over ("fail open").                *)
LoadPastL2(r, p, then) ==
  /\ l1[p] = None /\ l2 # None
  /\ Fail
  /\ Hold(r, p, then, "repository", tasks, FALSE)

FindAll(r, p, then) ==
  /\ \/ /\ HitL1(r, p, then) \/ HitL2(r, p, then) \/ Load(r, p, then)
        /\ UNCHANGED faults
     \/ LoadPastL2(r, p, then)
  /\ UNCHANGED <<store, levels>>

ListTasks(r, p) ==
  /\ At(r, "idle") /\ account
  /\ FindAll(r, p, "answer")

(* The count, never cached, is checked before FindAll is called.             *)
ExportTasks(r, p) ==
  /\ At(r, "idle") /\ account
  /\ Cardinality(tasks) <= maxExportRows
  /\ req' = [req EXCEPT ![r] = [pc |-> "counted", proc |-> p]]
  /\ UNCHANGED <<store, levels, faults>>

ExportCounted(r) ==
  /\ At(r, "counted")
  /\ FindAll(r, req[r].proc, "answer")

(* A page of L2 is kept in L1, a loaded one in both; Redis may refuse it.    *)
Kept(r, life) ==
  [page |-> req[r].page, life |-> life, missed |-> req[r].missed]

Fill(r) ==
  /\ At(r, "fill")
  /\ l1' = [l1 EXCEPT ![req[r].proc] = Kept(r, L1TTL)]
  /\ l2' = IF req[r].from = "l2" THEN l2 ELSE Kept(r, TTL)
  /\ Return(r, req[r].proc, req[r].then, req[r].page)
  /\ UNCHANGED <<store, events, faults>>

FillL1Only(r) ==
  /\ At(r, "fill") /\ req[r].from = "repository"
  /\ Fail
  /\ l1' = [l1 EXCEPT ![req[r].proc] = Kept(r, L1TTL)]
  /\ Return(r, req[r].proc, req[r].then, req[r].page)
  /\ UNCHANGED <<store, l2, events>>

-----------------------------------------------------------------------------
(* Writes: the repository first, then invalidateOwner, then `next' (a        *)
(* request that ends, or a cascade that goes on).                            *)

Written(r, p) ==
  req' = [req EXCEPT ![r] = [pc |-> "invalidate", proc |-> p, next |-> Idle]]

Create(r, p) ==
  /\ At(r, "idle") /\ account
  /\ Task \ used # {}
  /\ LET t == Min(Task \ used)
     IN  tasks' = tasks \cup {t} /\ used' = used \cup {t}
  /\ Written(r, p)
  /\ UNCHANGED <<account, levels, faults>>

(* The list keeps its members; their columns are not part of this model.     *)
Update(r, p) ==
  /\ At(r, "idle")
  /\ tasks # {}
  /\ Written(r, p)
  /\ UNCHANGED <<store, levels, faults>>

Delete_NotInvalidated(r, p, t) ==
  /\ At(r, "idle")
  /\ t \in tasks
  /\ tasks' = tasks \ {t}
  /\ UNCHANGED <<used, account, levels, req, faults>>

Delete(r, p, t) ==
  /\ At(r, "idle")
  /\ t \in tasks
  /\ tasks' = tasks \ {t}
  /\ Written(r, p)
  /\ UNCHANGED <<used, account, levels, faults>>

(* Pages between read and store are out of an invalidation's reach.          *)
Overtaken(q) ==
  IF Holding(q) /\ req[q].page # tasks THEN [req[q] EXCEPT !.missed = TRUE] ELSE req[q]

Missed(entry) ==
  IF entry # None /\ entry.page # tasks THEN [entry EXCEPT !.missed = TRUE] ELSE entry

(* InvalidateTag: the process's own L1, L2, and an event to the others.      *)
Invalidate(r) ==
  /\ At(r, "invalidate")
  /\ l1' = [l1 EXCEPT ![req[r].proc] = None]
  /\ l2' = None
  /\ events' = events \cup (Process \ {req[r].proc})
  /\ req' = [q \in Request |-> IF q = r THEN req[r].next ELSE Overtaken(q)]
  /\ UNCHANGED <<store, faults>>

(* It is best effort: Redis down leaves L2 and the other processes as they   *)
(* were, OnInvalidationError logs it and the write is answered as usual.     *)
InvalidationFails(r) ==
  /\ At(r, "invalidate")
  /\ Fail
  /\ l1' = [p \in Process |-> IF p = req[r].proc THEN None ELSE Missed(l1[p])]
  /\ l2' = Missed(l2)
  /\ req' = [q \in Request |-> IF q = r THEN req[r].next ELSE Overtaken(q)]
  /\ UNCHANGED <<store, events>>

(* An invalidation event reaches another process, or is lost.                *)
Receive(p) ==
  /\ p \in events
  /\ l1' = [l1 EXCEPT ![p] = None]
  /\ events' = events \ {p}
  /\ UNCHANGED <<store, l2, req, faults>>

LoseEvent(p) ==
  /\ p \in events
  /\ Fail
  /\ events' = events \ {p}
  /\ l1' = [l1 EXCEPT ![p] = Missed(@)]
  /\ UNCHANGED <<store, l2, req>>

(* Redis drops an entry under memory pressure (allkeys-lru).                 *)
Evict ==
  /\ l2 # None
  /\ l2' = None
  /\ UNCHANGED <<store, l1, events, req, faults>>

-----------------------------------------------------------------------------
(* Time: entries expire at a fixed time after they were stored.              *)

Later_Kept(entry) == entry
Later_OffByOne(entry) ==
  IF entry = None \/ entry.life = 0 THEN None ELSE [entry EXCEPT !.life = @ - 1]

Later(entry) ==
  IF entry = None \/ entry.life = 1 THEN None ELSE [entry EXCEPT !.life = @ - 1]

Tick ==
  /\ l1' = [p \in Process |-> Later(l1[p])]
  /\ l2' = Later(l2)
  /\ UNCHANGED <<store, events, req, faults>>
=============================================================================
