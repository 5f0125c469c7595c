---------------------------- MODULE Attachments ----------------------------
(***************************************************************************)
(* The attachment service (internal/attachment): metadata rows in the      *)
(* database, bytes in a blob store, no transaction over both.  Upload      *)
(* writes bytes first, Delete removes the row first, a task's deletion     *)
(* cascades over the rows alone, and a periodic collector deletes the      *)
(* blobs no row references.                                                *)
(*                                                                         *)
(* One user is modelled: a task of somebody else answers every query here  *)
(* exactly as a task that does not exist.                                  *)
(***************************************************************************)
EXTENDS Integers, FiniteSets

CONSTANTS Task,             \* the user's task ids
          Key,              \* storage keys
          Request,          \* concurrent HTTP requests
          Collector,        \* processes, each with its runPeriodicCleanup
          Absent,           \* "no row", "no blob", "no key"
          MaxBytes,         \* Service.maxBytes
          MaxBytesPerUser,  \* Service.maxBytesPerUser
          MaxPerTask        \* maxAttachmentsPerTask

Size == 0..MaxBytes

Row == [task : Task, size : Size]

ASSUME AttachmentsAssumption ==
  /\ MaxBytes \in Nat
  /\ MaxBytesPerUser \in Nat \ {0}
  /\ MaxPerTask \in Nat \ {0}
  /\ IsFiniteSet(Key)
  /\ IsFiniteSet(Request)
  /\ Absent \notin Key \cup Task \cup Row \cup {"partial", "whole"}

VARIABLES tasks,      \* the tasks that exist
          rows,       \* the attachments table: rows[k] is the row with
                      \* storage_key k, or Absent
          blobs,      \* the blob store: blobs[k] is "partial" (created, not
                      \* all its bytes), "whole" or Absent
          old,        \* keys whose blob's ModTime is more than minAge ago
          used,       \* storage keys newIDFunc has given out
          req,        \* req[p]: the request p
          collector,  \* collector[c]: the pass of CollectOrphans c is in
          acked       \* history: uploads answered 201 and not deleted since

vars == <<tasks, rows, blobs, old, used, req, collector, acked>>

Idle == [pc |-> "idle", task |-> Absent, key |-> Absent, size |-> 0]
NoPass == [pc |-> "idle", keys |-> {}]

PC == {"idle", "checked", "counted", "putting", "stored", "compensating",
       "unlinked"}

\* A request: its next step and the task, storage key and size it has.
RequestState ==
  {r \in [pc : PC, task : Task \cup {Absent}, key : Key \cup {Absent},
          size : Size] :
     r.pc \in {"putting", "stored", "compensating", "unlinked"} => r.key \in Key}

TypeOK ==
  /\ tasks \subseteq Task
  /\ rows \in [Key -> Row \cup {Absent}]
  /\ blobs \in [Key -> {Absent, "partial", "whole"}]
  /\ old \subseteq Key
  /\ used \subseteq Key
  /\ req \in [Request -> RequestState]
  /\ collector \in [Collector -> [pc : {"idle", "listed", "deleting"},
                                  keys : SUBSET Key]]
  /\ acked \subseteq Key

Init ==
  /\ tasks = Task
  /\ rows = [k \in Key |-> Absent]
  /\ blobs = [k \in Key |-> Absent]
  /\ old = {}
  /\ used = {}
  /\ req = [p \in Request |-> Idle]
  /\ collector = [c \in Collector |-> NoPass]
  /\ acked = {}

-----------------------------------------------------------------------------
(* Helpers *)

At(p, pc) == req[p].pc = pc
Goto(p, pc) == req' = [req EXCEPT ![p].pc = pc]
Finish(p) == req' = [req EXCEPT ![p] = Idle]

Referenced == {k \in Key : rows[k] # Absent}
RowsOf(t) == {k \in Referenced : rows[k].task = t}
CountByTask(t) == Cardinality(RowsOf(t))
SizeOf(k) == rows[k].size

\* SUM(size_bytes): the bytes of all the attachments, counted one by one.
TotalBytesForUser == Cardinality(UNION {{k} \X (1..SizeOf(k)) : k \in Referenced})

\* An upload owns its key from the creation of the blob to the insertion of
\* the row.
InFlight(k) == \E p \in Request : req[p].key = k /\ req[p].pc \in {"putting", "stored"}

\* Delete of a BlobStore, when its caller ignores the error.
RemoveBestEffort(k) ==
  \/ blobs' = [blobs EXCEPT ![k] = Absent]
  \/ UNCHANGED blobs

-----------------------------------------------------------------------------
(* Service.Upload *)

\* The total is what the user has before this upload.
UnderQuota_OffByOne == TotalBytesForUser <= MaxBytesPerUser
UnderQuota == TotalBytesForUser < MaxBytesPerUser

CheckQuota(p, t) ==
  /\ At(p, "idle")
  /\ UnderQuota
  /\ req' = [req EXCEPT ![p] = [Idle EXCEPT !.pc = "checked", !.task = t]]
  /\ UNCHANGED <<tasks, rows, blobs, old, used, collector, acked>>

UnderCount_Unchecked(t) == TRUE
UnderCount(t) == CountByTask(t) < MaxPerTask

CheckCount(p) ==
  /\ At(p, "checked")
  /\ UnderCount(req[p].task)
  /\ Goto(p, "counted")
  /\ UNCHANGED <<tasks, rows, blobs, old, used, collector, acked>>

\* A fresh storage key; Put creates the blob and starts to copy.
BeginPut(p, k) ==
  /\ At(p, "counted")
  /\ k \notin used
  /\ used' = used \cup {k}
  /\ blobs' = [blobs EXCEPT ![k] = "partial"]
  /\ req' = [req EXCEPT ![p].pc = "putting", ![p].key = k]
  /\ UNCHANGED <<tasks, rows, old, collector, acked>>

\* The byte count Put accepts: it copies up to maxBytes + 1 bytes and refuses
\* the stream if it got them all.
Accepted_Unchecked == 0..(MaxBytes + 1)
Accepted == 0..MaxBytes

EndPut(p, n) ==
  /\ At(p, "putting")
  /\ n \in Accepted
  /\ blobs' = [blobs EXCEPT ![req[p].key] = "whole"]
  /\ req' = [req EXCEPT ![p].pc = "stored", ![p].size = n]
  /\ UNCHANGED <<tasks, rows, old, used, collector, acked>>

\* A read or write error, a client that went away, or a stream longer than
\* maxBytes: Put removes what it wrote, ignoring the error of the removal.
PutFails(p) ==
  /\ At(p, "putting")
  /\ RemoveBestEffort(req[p].key)
  /\ Finish(p)
  /\ UNCHANGED <<tasks, rows, old, used, collector, acked>>

\* INSERT ... SELECT ... FROM tasks: the row appears only while its task does.
InsertRow(p) ==
  /\ At(p, "stored")
  /\ req[p].task \in tasks
  /\ rows' = [rows EXCEPT ![req[p].key] =
                [task |-> req[p].task, size |-> req[p].size]]

Create(p) ==
  /\ InsertRow(p)
  /\ acked' = acked \cup {req[p].key}
  /\ Finish(p)
  /\ UNCHANGED <<tasks, blobs, old, used, collector>>

\* The statement commits and its answer is lost (the connection breaks, or
\* DB_CALL_TIMEOUT passes first): Create reports an error.
CreateAnswerLost(p) ==
  /\ InsertRow(p)
  /\ Goto(p, "compensating")
  /\ UNCHANGED <<tasks, blobs, old, used, collector, acked>>

\* No such task, or the database refused or never got the statement.
CreateFails(p) ==
  /\ At(p, "stored")
  /\ Goto(p, "compensating")
  /\ UNCHANGED <<tasks, rows, blobs, old, used, collector, acked>>

Compensate(p) ==
  /\ At(p, "compensating")
  /\ RemoveBestEffort(req[p].key)
  /\ Finish(p)
  /\ UNCHANGED <<tasks, rows, old, used, collector, acked>>

-----------------------------------------------------------------------------
(* Service.Delete: the row, then the blob, best effort. *)

\* The order the code's comment argues against: the blob goes first.
DeleteRow_BlobFirst(p, k) ==
  /\ At(p, "idle")
  /\ k \in Referenced
  /\ blobs' = [blobs EXCEPT ![k] = Absent]
  /\ req' = [req EXCEPT ![p] = [Idle EXCEPT !.pc = "unlinked", !.key = k]]
  /\ UNCHANGED <<tasks, rows, old, used, collector, acked>>

DeleteRow(p, k) ==
  /\ At(p, "idle")
  /\ k \in Referenced
  /\ rows' = [rows EXCEPT ![k] = Absent]
  /\ acked' = acked \ {k}
  /\ req' = [req EXCEPT ![p] = [Idle EXCEPT !.pc = "unlinked", !.key = k]]
  /\ UNCHANGED <<tasks, blobs, old, used, collector>>

DeleteBlob(p) ==
  /\ At(p, "unlinked")
  /\ RemoveBestEffort(req[p].key)
  /\ Finish(p)
  /\ UNCHANGED <<tasks, rows, old, used, collector, acked>>

\* A task is deleted: ON DELETE CASCADE removes the rows, not the blobs.
DeleteTask(t) ==
  /\ t \in tasks
  /\ tasks' = tasks \ {t}
  /\ rows' = [k \in Key |-> IF k \in RowsOf(t) THEN Absent ELSE rows[k]]
  /\ acked' = acked \ RowsOf(t)
  /\ UNCHANGED <<blobs, old, used, req, collector>>

-----------------------------------------------------------------------------
(* Service.CollectOrphans, one call of the store or the repository a step. *)

Candidates_Young == {k \in Key : blobs[k] # Absent /\ k \notin old}
Candidates_AnyAge == {k \in Key : blobs[k] # Absent}
Candidates == {k \in Key : blobs[k] # Absent /\ k \in old}

ListBlobs(c) ==
  /\ collector[c].pc = "idle"
  /\ Candidates # {}
  /\ collector' = [collector EXCEPT ![c] =
                     [pc |-> "listed", keys |-> Candidates]]
  /\ UNCHANGED <<tasks, rows, blobs, old, used, req, acked>>

\* The candidates keys that no row has.
UnreferencedKeys_All(keys) == keys
UnreferencedKeys(keys) == keys \ Referenced

SelectOrphans(c) ==
  /\ collector[c].pc = "listed"
  /\ LET orphans == UnreferencedKeys(collector[c].keys)
     IN collector' = [collector EXCEPT ![c] =
                        IF orphans = {} THEN NoPass
                        ELSE [pc |-> "deleting", keys |-> orphans]]
  /\ UNCHANGED <<tasks, rows, blobs, old, used, req, acked>>

DeleteOrphan(c, k) ==
  /\ collector[c].pc = "deleting"
  /\ k \in collector[c].keys
  /\ blobs' = [blobs EXCEPT ![k] = Absent]
  /\ collector' = [collector EXCEPT ![c] =
                     IF collector[c].keys = {k} THEN NoPass
                     ELSE [collector[c] EXCEPT !.keys = @ \ {k}]]
  /\ UNCHANGED <<tasks, rows, old, used, req, acked>>

\* A call fails, or the process stops: the pass is over.  The next one starts
\* from the listing.
PassEnds(c) ==
  /\ collector[c].pc # "idle"
  /\ collector' = [collector EXCEPT ![c] = NoPass]
  /\ UNCHANGED <<tasks, rows, blobs, old, used, req, acked>>

-----------------------------------------------------------------------------
(* The environment *)

\* minAge passes for a blob.  "minAge must exceed the longest plausible gap"
\* between the write of the blob and the insertion of its row.
Age(k) ==
  /\ blobs[k] # Absent
  /\ k \notin old
  /\ ~InFlight(k)
  /\ old' = old \cup {k}
  /\ UNCHANGED <<tasks, rows, blobs, used, req, collector, acked>>

\* The request is refused, its caller goes away, or its process dies.
Abort(p) ==
  /\ ~At(p, "idle")
  /\ Finish(p)
  /\ UNCHANGED <<tasks, rows, blobs, old, used, collector, acked>>

Upload(p) ==
  \/ \E t \in Task : CheckQuota(p, t)
  \/ CheckCount(p)
  \/ \E k \in Key : BeginPut(p, k)
  \/ \E n \in 0..(MaxBytes + 1) : EndPut(p, n)
  \/ PutFails(p)
  \/ Create(p)
  \/ CreateAnswerLost(p)
  \/ CreateFails(p)
  \/ Compensate(p)

Delete(p) ==
  \/ \E k \in Key : DeleteRow(p, k)
  \/ DeleteBlob(p)

CollectOrphans(c) ==
  \/ ListBlobs(c)
  \/ SelectOrphans(c)
  \/ \E k \in Key : DeleteOrphan(c, k)
  \/ PassEnds(c)

Next ==
  \/ \E p \in Request : Upload(p) \/ Delete(p) \/ Abort(p)
  \/ \E t \in Task : DeleteTask(t)
  \/ \E c \in Collector : CollectOrphans(c)
  \/ \E k \in Key : Age(k)

Spec == Init /\ [][Next]_vars

\* Time passes, the ticker of runPeriodicCleanup starts a pass again and
\* again, and no call of a pass fails for ever.
Fairness ==
  /\ \A k \in Key : WF_vars(Age(k))
  /\ \A c \in Collector :
       /\ WF_vars(ListBlobs(c))
       /\ SF_vars(SelectOrphans(c))
       /\ \A k \in Key : SF_vars(DeleteOrphan(c, k))

FairSpec == Spec /\ Fairness

-----------------------------------------------------------------------------
(* Properties *)

\* An attachment whose upload was answered 201 and that was not deleted since,
\* neither itself nor with its task, has its row and all its bytes: no
\* failure, no crash and no pass of the collector loses it.
AckedDurable ==
  \A k \in acked : rows[k] # Absent /\ blobs[k] = "whole"

\* Upload compares the quota with the total before the upload, so uploads
\* that race pass it together; the overshoot is bounded by one attachment of
\* maximal size for each request in progress.
QuotaOvershoot ==
  TotalBytesForUser <= MaxBytesPerUser - 1 + Cardinality(Request) * MaxBytes

\* The same for maxAttachmentsPerTask: at most one attachment past it for
\* every request but one.
CountOvershoot ==
  \A t \in Task : CountByTask(t) <= MaxPerTask - 1 + Cardinality(Request)

\* A blob left without a row by a failed upload, a failed delete, a crash or
\* the cascade of a task's deletion is deleted in the end.
OrphansCollected ==
  \A k \in Key :
    (blobs[k] # Absent /\ k \notin Referenced /\ ~InFlight(k)) ~> (blobs[k] = Absent)

\* Upload writes "bytes first, metadata second": the reverse order "would
\* leave a row pointing at a file that does not exist", this one "can leave
\* an unreferenced blob instead, which costs disk and nothing else".
RowsHaveBlobs == \A k \in Referenced : blobs[k] = "whole"

=============================================================================
