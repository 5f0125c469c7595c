------------------------- MODULE AttachmentsProofs -------------------------
(***************************************************************************)
(* Proofs about Attachments: no acknowledged attachment is lost, the       *)
(* attachments of a task exceed their limit by less than the number of     *)
(* concurrent requests, and the bytes of a user exceed the quota by less   *)
(* than one maximal attachment for each of them, for any number of tasks,  *)
(* keys, requests and collectors.                                          *)
(***************************************************************************)
EXTENDS Attachments, FiniteSetTheorems, TLAPS

-----------------------------------------------------------------------------
(* Type correctness *)

\* The fields of a request.
LEMMA RequestFields ==
  ASSUME TypeOK, NEW p \in Request
  PROVE  /\ req[p] \in RequestState
         /\ req[p].pc \in PC
         /\ req[p].task \in Task \cup {Absent}
         /\ req[p].pc \in {"putting", "stored", "compensating", "unlinked"} =>
              req[p].key \in Key
         /\ req[p].key \in Key \cup {Absent}
         /\ req[p].size \in Size
BY DEF TypeOK, RequestState

\* An idle request and the requests that start from one.
LEMMA IdleValid ==
  /\ Idle \in RequestState
  /\ Idle.pc = "idle" /\ Idle.key = Absent /\ Idle.task = Absent
  /\ NoPass \in [pc : {"idle", "listed", "deleting"}, keys : SUBSET Key]
  /\ NoPass.pc = "idle" /\ NoPass.keys = {}
BY AttachmentsAssumption DEF Idle, NoPass, RequestState, PC, Size

\* A request that ends.
LEMMA FinishType ==
  ASSUME TypeOK, NEW p \in Request, Finish(p)
  PROVE  req' \in [Request -> RequestState]
BY IdleValid DEF TypeOK, Finish

\* A request that goes on.
LEMMA GotoType ==
  ASSUME TypeOK, NEW p \in Request,
         \/ At(p, "checked") /\ Goto(p, "counted")
         \/ At(p, "stored") /\ Goto(p, "compensating")
  PROVE  req' \in [Request -> RequestState]
<1>1. /\ [req[p] EXCEPT !.pc = "counted"] \in RequestState
      /\ At(p, "stored") => [req[p] EXCEPT !.pc = "compensating"] \in RequestState
  BY RequestFields DEF RequestState, PC, At
<1>2. \/ req' = [req EXCEPT ![p] = [req[p] EXCEPT !.pc = "counted"]]
      \/ /\ At(p, "stored")
         /\ req' = [req EXCEPT ![p] = [req[p] EXCEPT !.pc = "compensating"]]
  BY DEF TypeOK, Goto
<1> QED BY <1>1, <1>2 DEF TypeOK

\* The removal of a blob.
LEMMA RemoveType ==
  ASSUME TypeOK, NEW p \in Request, RemoveBestEffort(req[p].key)
  PROVE  blobs' \in [Key -> {Absent, "partial", "whole"}]
BY DEF TypeOK, RemoveBestEffort

\* The insertion of a row.
LEMMA InsertType ==
  ASSUME TypeOK, NEW p \in Request, InsertRow(p)
  PROVE  rows' \in [Key -> Row \cup {Absent}]
BY RequestFields DEF TypeOK, InsertRow, Row

\* Every step keeps every type.
LEMMA TypeStep == TypeOK /\ [Next]_vars => TypeOK'
<1> SUFFICES ASSUME TypeOK, [Next]_vars PROVE TypeOK'
  OBVIOUS
<1>1. ASSUME NEW p \in Request, Upload(p) PROVE TypeOK'
  <2>1. ASSUME NEW t \in Task, CheckQuota(p, t) PROVE TypeOK'
    <3>1. [Idle EXCEPT !.pc = "checked", !.task = t] \in RequestState
      BY IdleValid DEF Idle, RequestState, PC
    <3> QED BY <2>1, <3>1 DEF CheckQuota, TypeOK
  <2>2. CASE CheckCount(p)
    BY <2>2, GotoType DEF CheckCount, TypeOK
  <2>3. ASSUME NEW k \in Key, BeginPut(p, k) PROVE TypeOK'
    <3>1. [req[p] EXCEPT !.pc = "putting", !.key = k] \in RequestState
      BY RequestFields DEF RequestState, PC
    <3>2. req' = [req EXCEPT ![p] = [req[p] EXCEPT !.pc = "putting", !.key = k]]
      BY <2>3 DEF BeginPut, TypeOK
    <3> QED BY <2>3, <3>1, <3>2 DEF BeginPut, TypeOK
  <2>4. ASSUME NEW n \in 0..(MaxBytes + 1), EndPut(p, n) PROVE TypeOK'
    <3>1. [req[p] EXCEPT !.pc = "stored", !.size = n] \in RequestState
      BY <2>4, RequestFields DEF EndPut, At, Accepted, Size, RequestState, PC
    <3>2. req' = [req EXCEPT ![p] = [req[p] EXCEPT !.pc = "stored", !.size = n]]
      BY <2>4 DEF EndPut, TypeOK
    <3> QED BY <2>4, <3>1, <3>2 DEF EndPut, TypeOK
  <2>5. CASE PutFails(p)
    BY <2>5, FinishType, RemoveType DEF PutFails, TypeOK
  <2>6. CASE Create(p)
    <3>1. rows' \in [Key -> Row \cup {Absent}]
      BY <2>6, InsertType DEF Create
    <3>2. req[p].key \in Key
      BY <2>6, RequestFields DEF Create, InsertRow, At
    <3> QED BY <2>6, <3>1, <3>2, FinishType DEF Create, TypeOK
  <2>7. CASE CreateAnswerLost(p)
    BY <2>7, InsertType, GotoType DEF CreateAnswerLost, InsertRow, TypeOK
  <2>8. CASE CreateFails(p)
    BY <2>8, GotoType DEF CreateFails, TypeOK
  <2>9. CASE Compensate(p)
    BY <2>9, FinishType, RemoveType DEF Compensate, TypeOK
  <2> QED BY <1>1, <2>1, <2>2, <2>3, <2>4, <2>5, <2>6, <2>7, <2>8, <2>9 DEF Upload
<1>2. ASSUME NEW p \in Request, Delete(p) PROVE TypeOK'
  <2>1. ASSUME NEW k \in Key, DeleteRow(p, k) PROVE TypeOK'
    <3>1. [Idle EXCEPT !.pc = "unlinked", !.key = k] \in RequestState
      BY IdleValid DEF Idle, RequestState, PC
    <3> QED BY <2>1, <3>1 DEF DeleteRow, TypeOK
  <2>2. CASE DeleteBlob(p)
    BY <2>2, FinishType, RemoveType DEF DeleteBlob, TypeOK
  <2> QED BY <1>2, <2>1, <2>2 DEF Delete
<1>3. ASSUME NEW p \in Request, Abort(p) PROVE TypeOK'
  BY <1>3, FinishType DEF Abort, TypeOK
<1>4. ASSUME NEW t \in Task, DeleteTask(t) PROVE TypeOK'
  BY <1>4 DEF DeleteTask, TypeOK
<1>5. ASSUME NEW c \in Collector, CollectOrphans(c) PROVE TypeOK'
  <2>1. CASE ListBlobs(c)
    BY <2>1 DEF ListBlobs, Candidates, TypeOK
  <2>2. CASE SelectOrphans(c)
    BY <2>2, IdleValid DEF SelectOrphans, UnreferencedKeys, TypeOK
  <2>3. ASSUME NEW k \in Key, DeleteOrphan(c, k) PROVE TypeOK'
    BY <2>3, IdleValid DEF DeleteOrphan, TypeOK
  <2>4. CASE PassEnds(c)
    BY <2>4, IdleValid DEF PassEnds, TypeOK
  <2> QED BY <1>5, <2>1, <2>2, <2>3, <2>4 DEF CollectOrphans
<1>6. ASSUME NEW k \in Key, Age(k) PROVE TypeOK'
  BY <1>6 DEF Age, TypeOK
<1>7. CASE UNCHANGED vars
  BY <1>7 DEF vars, TypeOK
<1> QED BY <1>1, <1>2, <1>3, <1>4, <1>5, <1>6, <1>7 DEF Next

\* Types are invariant.
THEOREM TypeCorrect == Spec => []TypeOK
<1>1. Init => TypeOK
  BY IdleValid DEF Init, TypeOK
<1> QED BY <1>1, TypeStep, PTL DEF Spec

-----------------------------------------------------------------------------
(* Durability.  AckedDurable is not inductive: the steps that remove a blob *)
(* must be known not to hold the key of an acknowledged attachment, which   *)
(* is a fact about who can hold a key, and since when.                      *)

\* A key not given out yet is nowhere.
FreshInv ==
  \A k \in Key \ used :
    /\ rows[k] = Absent
    /\ blobs[k] = Absent
    /\ k \notin old
    /\ \A p \in Request : req[p].key # k

\* The upload in flight with a key is alone with it, and the blob is younger
\* than minAge.
OwnInv ==
  \A p \in Request : req[p].pc \in {"putting", "stored"} =>
    /\ rows[req[p].key] = Absent
    /\ req[p].key \notin old
    /\ req[p].key \in used
    /\ \A q \in Request \ {p} : req[q].key # req[p].key

\* What an upload has stored is whole when its row is inserted.
StoredInv ==
  \A p \in Request : req[p].pc = "stored" => blobs[req[p].key] = "whole"

\* Nobody is about to remove an acknowledged blob: neither a request ...
RemovalInv ==
  \A p \in Request : req[p].pc \in {"compensating", "unlinked"} =>
    req[p].key \notin acked

\* ... nor a collector.  Its candidates are old, so no row can appear for them.
SweepInv ==
  \A c \in Collector :
    /\ collector[c].keys \subseteq old
    /\ collector[c].pc = "deleting" => collector[c].keys \cap Referenced = {}

Inv == TypeOK /\ FreshInv /\ OwnInv /\ StoredInv /\ RemovalInv /\ SweepInv
       /\ AckedDurable

\* A request that ends, removing a blob or not, removes none that another
\* upload in flight or an acknowledged attachment has.
LEMMA EndHarmless ==
  ASSUME Inv, NEW p \in Request, Finish(p),
         UNCHANGED <<tasks, rows, old, used, collector, acked>>,
         \/ UNCHANGED blobs
         \/ /\ req[p].pc \in {"putting", "compensating", "unlinked"}
            /\ RemoveBestEffort(req[p].key)
  PROVE  Inv'
<1>1. TypeOK'
  BY FinishType, RemoveType DEF Inv, TypeOK
<1>2. \A q \in Request : q # p => req'[q] = req[q]
  BY DEF Inv, TypeOK, Finish
<1>3. req'[p].pc = "idle" /\ req'[p].key = Absent /\ Absent \notin Key
  BY IdleValid, AttachmentsAssumption DEF Inv, TypeOK, Finish
<1>4. \A k \in Key : k # req[p].key => blobs'[k] = blobs[k]
  BY DEF Inv, TypeOK, RemoveBestEffort
<1>5. \A k \in Key : blobs[k] = Absent => blobs'[k] = Absent
  BY DEF Inv, TypeOK, RemoveBestEffort
<1>6. \/ blobs' = blobs
      \/ req[p].pc \in {"putting", "compensating", "unlinked"}
         /\ req[p].key \in Key /\ req[p].key \notin acked
  BY RequestFields DEF Inv, OwnInv, RemovalInv, AckedDurable
<1>7. FreshInv'
  BY <1>2, <1>3, <1>5 DEF Inv, FreshInv
<1>8. OwnInv'
  <2> SUFFICES ASSUME NEW q \in Request, req'[q].pc \in {"putting", "stored"}
               PROVE  /\ rows'[req'[q].key] = Absent
                      /\ req'[q].key \notin old'
                      /\ req'[q].key \in used'
                      /\ \A r \in Request \ {q} : req'[r].key # req'[q].key
    BY DEF OwnInv
  <2>1. req'[q] = req[q] /\ req[q].key \in Key
    BY <1>2, <1>3, RequestFields DEF Inv
  <2> QED BY <1>2, <1>3, <2>1 DEF Inv, OwnInv
<1>9. StoredInv'
  <2> SUFFICES ASSUME NEW q \in Request, req'[q].pc = "stored"
               PROVE  blobs'[req'[q].key] = "whole"
    BY DEF StoredInv
  <2>1. q # p /\ req'[q] = req[q]
    BY <1>2, <1>3
  <2>2. req[q].key \in Key /\ req[q].key # req[p].key
    BY <2>1, RequestFields DEF Inv, OwnInv
  <2> QED BY <1>4, <2>1, <2>2 DEF Inv, StoredInv
<1>10. RemovalInv'
  BY <1>2, <1>3 DEF Inv, RemovalInv
<1>11. SweepInv'
  BY DEF Inv, SweepInv, Referenced
<1>12. AckedDurable'
  BY <1>4, <1>6 DEF Inv, AckedDurable, TypeOK
<1> QED BY <1>1, <1>7, <1>8, <1>9, <1>10, <1>11, <1>12 DEF Inv

\* The insertion of a row touches neither what others hold nor what a
\* collector is about to delete.
LEMMA InsertHarmless ==
  ASSUME Inv, TypeOK', NEW p \in Request, InsertRow(p),
         \/ Finish(p) /\ acked' = acked \cup {req[p].key}
         \/ Goto(p, "compensating") /\ acked' = acked,
         UNCHANGED <<tasks, blobs, old, used, collector>>
  PROVE  Inv'
<1> DEFINE k == req[p].key
<1>1. k \in Key /\ req[p].pc = "stored"
  BY RequestFields DEF Inv, InsertRow, At
<1>2. /\ rows[k] = Absent /\ k \notin old /\ k \in used /\ blobs[k] = "whole"
      /\ k \notin acked
      /\ \A q \in Request \ {p} : req[q].key # k
  BY <1>1 DEF Inv, OwnInv, StoredInv, AckedDurable
<1>3. /\ \A j \in Key : j # k => rows'[j] = rows[j]
      /\ rows'[k] \in Row
  <2>1. rows' = [rows EXCEPT ![k] = [task |-> req[p].task, size |-> req[p].size]]
    BY DEF InsertRow
  <2>2. [task |-> req[p].task, size |-> req[p].size] \in Row
    BY RequestFields DEF InsertRow, Row, Inv, TypeOK
  <2> QED BY <1>1, <2>1, <2>2 DEF Inv, TypeOK
<1>4. \A q \in Request : q # p => req'[q] = req[q]
  BY DEF Inv, TypeOK, Finish, Goto
<1>5. \/ req'[p].pc = "idle" /\ req'[p].key = Absent /\ acked' = acked \cup {k}
      \/ req'[p].pc = "compensating" /\ req'[p].key = k /\ acked' = acked
  BY <1>1, IdleValid, RequestFields DEF Inv, TypeOK, Finish, Goto, RequestState
<1>6. Absent \notin Key /\ Absent \notin Row
  BY AttachmentsAssumption
<1> HIDE DEF k
<1>7. FreshInv'
  BY <1>2, <1>3, <1>4, <1>5, <1>6 DEF Inv, FreshInv
<1>8. OwnInv'
  <2> SUFFICES ASSUME NEW q \in Request, req'[q].pc \in {"putting", "stored"}
               PROVE  /\ rows'[req'[q].key] = Absent
                      /\ req'[q].key \notin old'
                      /\ req'[q].key \in used'
                      /\ \A r \in Request \ {q} : req'[r].key # req'[q].key
    BY DEF OwnInv
  <2>1. q # p /\ req'[q] = req[q]
    BY <1>4, <1>5
  <2>2. req[q].key \in Key /\ req[q].key # k
    BY <1>2, <2>1, RequestFields DEF Inv
  <2> QED BY <1>3, <1>4, <1>5, <1>6, <2>1, <2>2 DEF Inv, OwnInv
<1>9. StoredInv'
  BY <1>4, <1>5 DEF Inv, StoredInv
<1>10. RemovalInv'
  BY <1>2, <1>4, <1>5 DEF Inv, RemovalInv
<1>11. SweepInv'
  <2> SUFFICES ASSUME NEW c \in Collector, collector[c].pc = "deleting",
                      NEW j \in collector[c].keys, rows'[j] # Absent, j \in Key
               PROVE  FALSE
    BY DEF Inv, SweepInv, Referenced
  <2>1. j # k
    BY <1>2 DEF Inv, SweepInv
  <2> QED BY <1>3, <2>1 DEF Inv, SweepInv, Referenced
<1>12. AckedDurable'
  BY <1>1, <1>2, <1>3, <1>5, <1>6 DEF Inv, AckedDurable, TypeOK
<1> QED BY <1>7, <1>8, <1>9, <1>10, <1>11, <1>12 DEF Inv

\* Every step keeps the invariant.
LEMMA InvStep == Inv /\ [Next]_vars => Inv'
<1> SUFFICES ASSUME Inv, [Next]_vars PROVE Inv'
  OBVIOUS
<1> USE AttachmentsAssumption
<1>1. TypeOK'
  BY TypeStep DEF Inv
<1>2. ASSUME NEW p \in Request, Upload(p) PROVE Inv'
  <2>1. ASSUME NEW t \in Task, CheckQuota(p, t) PROVE Inv'
    <3>1. /\ \A q \in Request : q # p => req'[q] = req[q]
          /\ req'[p].pc = "checked" /\ req'[p].key = Absent
      BY <2>1 DEF CheckQuota, Inv, TypeOK, Idle
    <3> QED BY <1>1, <2>1, <3>1, RequestFields
            DEF CheckQuota, Inv, FreshInv, OwnInv, StoredInv, RemovalInv,
                SweepInv, AckedDurable, Referenced
  <2>2. CASE CheckCount(p)
    <3>1. /\ \A q \in Request : q # p => req'[q] = req[q]
          /\ req'[p].pc = "counted" /\ req'[p].key = req[p].key
      BY <2>2, RequestFields DEF CheckCount, Goto, Inv, TypeOK, RequestState
    <3> QED BY <1>1, <2>2, <3>1, RequestFields
            DEF CheckCount, Inv, FreshInv, OwnInv, StoredInv, RemovalInv,
                SweepInv, AckedDurable, Referenced
  <2>3. ASSUME NEW k \in Key, BeginPut(p, k) PROVE Inv'
    <3>1. /\ \A q \in Request : q # p => req'[q] = req[q]
          /\ req'[p].pc = "putting" /\ req'[p].key = k
      BY <2>3, RequestFields DEF BeginPut, Inv, TypeOK, RequestState
    <3>2. \A j \in Key : j # k => blobs'[j] = blobs[j]
      BY <2>3 DEF BeginPut, Inv, TypeOK
    <3>3. k \notin used /\ rows[k] = Absent /\ k \notin old
          /\ \A q \in Request : req[q].key # k
      BY <2>3 DEF BeginPut, Inv, FreshInv
    <3>4. k \notin acked
      BY <3>3 DEF Inv, AckedDurable
    <3>u. used' = used \cup {k} /\ UNCHANGED <<tasks, rows, old, collector, acked>>
      BY <2>3 DEF BeginPut
    <3>5. FreshInv'
      BY <3>u, <3>1, <3>2, <3>3 DEF Inv, FreshInv
    <3>6. OwnInv'
      BY <3>u, <3>1, <3>3 DEF Inv, OwnInv
    <3>7. StoredInv'
      BY <3>1, <3>2, <3>3, RequestFields DEF Inv, StoredInv
    <3>8. RemovalInv' /\ SweepInv'
      BY <3>u, <3>1 DEF Inv, RemovalInv, SweepInv, Referenced
    <3>9. AckedDurable'
      BY <3>u, <3>2, <3>4 DEF Inv, AckedDurable, TypeOK
    <3> QED BY <1>1, <3>5, <3>6, <3>7, <3>8, <3>9 DEF Inv
  <2>4. ASSUME NEW n \in 0..(MaxBytes + 1), EndPut(p, n) PROVE Inv'
    <3>1. /\ \A q \in Request : q # p => req'[q] = req[q]
          /\ req'[p].pc = "stored" /\ req'[p].key = req[p].key
          /\ req[p].pc = "putting" /\ req[p].key \in Key
      BY <2>4, RequestFields DEF EndPut, At, Inv, TypeOK, RequestState
    <3>2. /\ \A j \in Key : j # req[p].key => blobs'[j] = blobs[j]
          /\ blobs'[req[p].key] = "whole"
      BY <2>4, <3>1 DEF EndPut, Inv, TypeOK
    <3>u. UNCHANGED <<tasks, rows, old, used, collector, acked>>
      BY <2>4 DEF EndPut
    <3>3. FreshInv'
      BY <3>u, <3>1, <3>2 DEF Inv, FreshInv
    <3>4. OwnInv'
      BY <3>u, <3>1 DEF Inv, OwnInv
    <3>5. StoredInv'
      BY <3>1, <3>2, RequestFields DEF Inv, StoredInv
    <3>6. RemovalInv' /\ SweepInv'
      BY <3>u, <3>1 DEF Inv, RemovalInv, SweepInv, Referenced
    <3>7. AckedDurable'
      BY <3>u, <3>2 DEF Inv, AckedDurable, TypeOK
    <3> QED BY <1>1, <3>3, <3>4, <3>5, <3>6, <3>7 DEF Inv
  <2>5. CASE PutFails(p)
    BY <2>5, EndHarmless DEF PutFails, At
  <2>6. CASE Create(p)
    BY <1>1, <2>6, InsertHarmless DEF Create
  <2>7. CASE CreateAnswerLost(p)
    BY <1>1, <2>7, InsertHarmless DEF CreateAnswerLost
  <2>8. CASE CreateFails(p)
    <3>1. /\ \A q \in Request : q # p => req'[q] = req[q]
          /\ req'[p].pc = "compensating" /\ req'[p].key = req[p].key
          /\ req[p].pc = "stored"
      BY <2>8, RequestFields DEF CreateFails, At, Goto, Inv, TypeOK, RequestState
    <3>2. FreshInv' /\ OwnInv' /\ StoredInv' /\ SweepInv' /\ AckedDurable'
      BY <2>8, <3>1 DEF CreateFails, Inv, FreshInv, OwnInv, StoredInv, SweepInv,
                        AckedDurable, Referenced
    <3>3. RemovalInv'
      BY <2>8, <3>1 DEF CreateFails, Inv, OwnInv, RemovalInv, AckedDurable
    <3> QED BY <1>1, <3>2, <3>3 DEF Inv
  <2>9. CASE Compensate(p)
    BY <2>9, EndHarmless DEF Compensate, At
  <2> QED BY <1>2, <2>1, <2>2, <2>3, <2>4, <2>5, <2>6, <2>7, <2>8, <2>9 DEF Upload
<1>3. ASSUME NEW p \in Request, Delete(p) PROVE Inv'
  <2>1. ASSUME NEW k \in Key, DeleteRow(p, k) PROVE Inv'
    <3>1. /\ \A q \in Request : q # p => req'[q] = req[q]
          /\ req'[p].pc = "unlinked" /\ req'[p].key = k
      BY <2>1 DEF DeleteRow, Inv, TypeOK, Idle
    <3>2. /\ \A j \in Key : j # k => rows'[j] = rows[j]
          /\ rows'[k] = Absent /\ rows[k] # Absent /\ acked' = acked \ {k}
      BY <2>1 DEF DeleteRow, Referenced, Inv, TypeOK
    <3>3. k \in used /\ \A q \in Request :
            req[q].pc \in {"putting", "stored"} => req[q].key \in Key \ {k}
      BY <3>2, RequestFields DEF Inv, FreshInv, OwnInv
    <3>4. FreshInv'
      BY <2>1, <3>1, <3>2, <3>3 DEF DeleteRow, Inv, FreshInv
    <3>5. OwnInv'
      BY <2>1, <3>1, <3>2, <3>3 DEF DeleteRow, Inv, OwnInv
    <3>6. StoredInv' /\ RemovalInv'
      BY <2>1, <3>1, <3>2 DEF DeleteRow, Inv, StoredInv, RemovalInv
    <3>7. SweepInv'
      BY <2>1, <3>2 DEF DeleteRow, Inv, SweepInv, Referenced
    <3>8. AckedDurable'
      BY <2>1, <3>2 DEF DeleteRow, Inv, AckedDurable, TypeOK
    <3> QED BY <1>1, <3>4, <3>5, <3>6, <3>7, <3>8 DEF Inv
  <2>2. CASE DeleteBlob(p)
    BY <2>2, EndHarmless DEF DeleteBlob, At
  <2> QED BY <1>3, <2>1, <2>2 DEF Delete
<1>4. ASSUME NEW p \in Request, Abort(p) PROVE Inv'
  BY <1>4, EndHarmless DEF Abort
<1>5. ASSUME NEW t \in Task, DeleteTask(t) PROVE Inv'
  <2>1. /\ \A k \in Key : rows'[k] = rows[k] \/ rows'[k] = Absent
        /\ \A k \in acked' : k \in acked /\ rows'[k] = rows[k]
    BY <1>5 DEF DeleteTask, Inv, TypeOK
  <2>2. FreshInv' /\ StoredInv'
    BY <1>5, <2>1 DEF DeleteTask, Inv, FreshInv, StoredInv
  <2>3. OwnInv'
    BY <1>5, <2>1, RequestFields DEF DeleteTask, Inv, OwnInv
  <2>4. RemovalInv' /\ SweepInv'
    BY <1>5, <2>1 DEF DeleteTask, Inv, RemovalInv, SweepInv, Referenced
  <2>5. AckedDurable'
    BY <1>5, <2>1 DEF DeleteTask, Inv, AckedDurable
  <2> QED BY <1>1, <2>2, <2>3, <2>4, <2>5 DEF Inv
<1>6. ASSUME NEW c \in Collector, CollectOrphans(c) PROVE Inv'
  <2>1. CASE ListBlobs(c) \/ SelectOrphans(c) \/ PassEnds(c)
    <3>1. UNCHANGED <<tasks, rows, blobs, old, used, req, acked>>
      BY <2>1 DEF ListBlobs, SelectOrphans, PassEnds
    <3>2. FreshInv' /\ OwnInv' /\ StoredInv' /\ RemovalInv' /\ AckedDurable'
      BY <3>1 DEF Inv, FreshInv, OwnInv, StoredInv, RemovalInv, AckedDurable
    <3>3. \A d \in Collector : d # c => collector'[d] = collector[d]
      BY <2>1 DEF ListBlobs, SelectOrphans, PassEnds, Inv, TypeOK
    <3>4. /\ collector'[c].keys \subseteq old
          /\ collector'[c].pc = "deleting" =>
               collector'[c].keys \cap Referenced = {}
      <4>1. CASE ListBlobs(c)
        BY <4>1 DEF ListBlobs, Candidates, Inv, TypeOK
      <4>2. CASE SelectOrphans(c)
        BY <4>2, IdleValid DEF SelectOrphans, UnreferencedKeys, Inv, TypeOK, SweepInv
      <4>3. CASE PassEnds(c)
        BY <4>3, IdleValid DEF PassEnds, Inv, TypeOK
      <4> QED BY <2>1, <4>1, <4>2, <4>3
    <3>5. SweepInv'
      BY <3>1, <3>3, <3>4 DEF Inv, SweepInv, Referenced
    <3> QED BY <1>1, <3>2, <3>5 DEF Inv
  <2>2. ASSUME NEW k \in Key, DeleteOrphan(c, k) PROVE Inv'
    <3>1. /\ UNCHANGED <<tasks, rows, old, used, req, acked>>
          /\ \A j \in Key : j # k => blobs'[j] = blobs[j]
          /\ \A j \in Key : blobs[j] = Absent => blobs'[j] = Absent
      BY <2>2 DEF DeleteOrphan, Inv, TypeOK
    <3>2. k \in old /\ rows[k] = Absent
      BY <2>2 DEF DeleteOrphan, Inv, SweepInv, Referenced
    <3>3. FreshInv' /\ OwnInv' /\ RemovalInv'
      BY <3>1 DEF Inv, FreshInv, OwnInv, RemovalInv
    <3>4. StoredInv'
      BY <3>1, <3>2, RequestFields DEF Inv, StoredInv, OwnInv
    <3>5. AckedDurable'
      BY <3>1, <3>2 DEF Inv, AckedDurable, TypeOK
    <3>6. \A d \in Collector : /\ collector'[d].keys \subseteq collector[d].keys
                               /\ collector'[d].pc \in {collector[d].pc, "idle"}
      BY <2>2, IdleValid DEF DeleteOrphan, Inv, TypeOK
    <3>7. SweepInv'
      BY <3>1, <3>6 DEF Inv, SweepInv, Referenced
    <3> QED BY <1>1, <3>3, <3>4, <3>5, <3>7 DEF Inv
  <2> QED BY <1>6, <2>1, <2>2 DEF CollectOrphans
<1>7. ASSUME NEW k \in Key, Age(k) PROVE Inv'
  <2>1. k \in used /\ \A p \in Request :
          req[p].pc \in {"putting", "stored"} => req[p].key # k
    BY <1>7 DEF Age, InFlight, Inv, FreshInv
  <2>2. FreshInv' /\ OwnInv'
    BY <1>7, <2>1 DEF Age, Inv, FreshInv, OwnInv
  <2>3. StoredInv' /\ RemovalInv' /\ SweepInv' /\ AckedDurable'
    BY <1>7 DEF Age, Inv, StoredInv, RemovalInv, SweepInv, AckedDurable, Referenced
  <2> QED BY <1>1, <2>2, <2>3 DEF Inv
<1>8. CASE UNCHANGED vars
  BY <1>1, <1>8 DEF vars, Inv, FreshInv, OwnInv, StoredInv, RemovalInv, SweepInv,
                    AckedDurable, Referenced
<1> QED BY <1>2, <1>3, <1>4, <1>5, <1>6, <1>7, <1>8 DEF Next

\* An upload answered 201 keeps its row and its bytes until it is deleted,
\* whatever requests, failures and collectors run beside it: Upload's order,
\* Delete's order, minAge and UnreferencedKeys together lose nothing.
THEOREM AttachmentsAreDurable == Spec => []AckedDurable
<1>1. Init => Inv
  BY IdleValid, AttachmentsAssumption
  DEF Init, Inv, TypeOK, FreshInv, OwnInv, StoredInv, RemovalInv, SweepInv,
      AckedDurable
<1>2. Inv => AckedDurable
  BY DEF Inv
<1> QED BY <1>1, <1>2, InvStep, PTL DEF Spec

-----------------------------------------------------------------------------
(* The limit of a task.  An upload that CountByTask let through may still   *)
(* add its row, so it counts with the rows.                                 *)

\* Uploads to t that CountByTask let through.
Pending(t) ==
  {p \in Request : req[p].task = t /\ req[p].pc \in {"counted", "putting", "stored"}}

CountInv ==
  \A t \in Task :
    CountByTask(t) + Cardinality(Pending(t)) <= MaxPerTask - 1 + Cardinality(Request)

\* The sets counted are finite.
LEMMA CountedFinite ==
  ASSUME NEW t
  PROVE  /\ IsFiniteSet(RowsOf(t)) /\ Cardinality(RowsOf(t)) \in Nat
         /\ IsFiniteSet(Pending(t)) /\ Cardinality(Pending(t)) \in Nat
         /\ Cardinality(Pending(t)) <= Cardinality(Request)
         /\ Cardinality(Request) \in Nat
<1>1. RowsOf(t) \subseteq Key /\ Pending(t) \subseteq Request
  BY DEF RowsOf, Referenced, Pending
<1>2. IsFiniteSet(RowsOf(t)) /\ IsFiniteSet(Pending(t))
  BY <1>1, FS_Subset, AttachmentsAssumption
<1>3. Cardinality(Pending(t)) <= Cardinality(Request)
  BY <1>1, FS_Subset, AttachmentsAssumption
<1> QED BY <1>2, <1>3, FS_CardinalityType, AttachmentsAssumption

\* The same in the next state.
LEMMA CountedFiniteNext ==
  ASSUME NEW t
  PROVE  /\ IsFiniteSet(RowsOf(t)') /\ Cardinality(RowsOf(t)') \in Nat
         /\ IsFiniteSet(Pending(t)') /\ Cardinality(Pending(t)') \in Nat
         /\ Cardinality(Pending(t)') <= Cardinality(Request)
<1>1. RowsOf(t)' \subseteq Key /\ Pending(t)' \subseteq Request
  BY DEF RowsOf, Referenced, Pending
<1>2. IsFiniteSet(RowsOf(t)') /\ IsFiniteSet(Pending(t)')
  BY <1>1, FS_Subset, AttachmentsAssumption
<1>3. Cardinality(Pending(t)') <= Cardinality(Request)
  BY <1>1, FS_Subset, AttachmentsAssumption
<1> QED BY <1>2, <1>3, FS_CardinalityType, AttachmentsAssumption

\* A step that adds no row and lets no upload through.
LEMMA CountShrinks ==
  ASSUME CountInv, NEW t \in Task, RowsOf(t)' \subseteq RowsOf(t),
         Pending(t)' \subseteq Pending(t)
  PROVE  CountByTask(t)' + Cardinality(Pending(t)')
           <= MaxPerTask - 1 + Cardinality(Request)
<1>1. /\ Cardinality(RowsOf(t)') <= Cardinality(RowsOf(t))
      /\ Cardinality(Pending(t)') <= Cardinality(Pending(t))
  BY CountedFinite, FS_Subset
<1> QED BY <1>1, CountedFinite, CountedFiniteNext, AttachmentsAssumption
        DEF CountInv, CountByTask

\* The row of an upload takes the place of the upload.
LEMMA CountInsert ==
  ASSUME Inv, CountInv, NEW p \in Request, InsertRow(p),
         Finish(p) \/ Goto(p, "compensating"), NEW t \in Task
  PROVE  CountByTask(t)' + Cardinality(Pending(t)')
           <= MaxPerTask - 1 + Cardinality(Request)
<1> DEFINE k == req[p].key
<1>1. k \in Key /\ req[p].pc = "stored" /\ rows[k] = Absent
  BY RequestFields DEF Inv, InsertRow, At, OwnInv
<1>2. /\ \A j \in Key : j # k => rows'[j] = rows[j]
      /\ rows'[k].task = req[p].task
  BY <1>1 DEF InsertRow, Inv, TypeOK
<1>3. \A q \in Request : q # p => req'[q] = req[q]
  BY DEF Inv, TypeOK, Finish, Goto
<1>4. req'[p].pc \in {"idle", "compensating"}
  BY IdleValid, RequestFields DEF Inv, TypeOK, Finish, Goto, RequestState
<1> HIDE DEF k
<1>5. CASE req[p].task = t
  <2>1. RowsOf(t)' \subseteq RowsOf(t) \cup {k}
    BY <1>2 DEF RowsOf, Referenced
  <2>2. Pending(t)' \subseteq Pending(t) \ {p} /\ p \in Pending(t)
    BY <1>1, <1>3, <1>4, <1>5 DEF Pending
  <2>3. k \notin RowsOf(t)
    BY <1>1 DEF RowsOf, Referenced
  <2>4. /\ IsFiniteSet(RowsOf(t) \cup {k})
        /\ Cardinality(RowsOf(t) \cup {k}) = Cardinality(RowsOf(t)) + 1
    BY <2>3, CountedFinite, FS_AddElement
  <2>5. Cardinality(RowsOf(t)') <= Cardinality(RowsOf(t)) + 1
    BY <2>1, <2>4, FS_Subset
  <2>6. /\ IsFiniteSet(Pending(t) \ {p})
        /\ Cardinality(Pending(t) \ {p}) = Cardinality(Pending(t)) - 1
    BY <2>2, CountedFinite, FS_RemoveElement
  <2>7. Cardinality(Pending(t)') <= Cardinality(Pending(t)) - 1
    BY <2>2, <2>6, FS_Subset
  <2> QED BY <2>5, <2>7, CountedFinite, CountedFiniteNext, AttachmentsAssumption
          DEF CountInv, CountByTask
<1>6. CASE req[p].task # t
  <2>1. RowsOf(t)' \subseteq RowsOf(t)
    BY <1>2, <1>6 DEF RowsOf, Referenced
  <2>2. Pending(t)' \subseteq Pending(t)
    BY <1>3, <1>4 DEF Pending
  <2> QED BY <2>1, <2>2, CountShrinks
<1> QED BY <1>5, <1>6

\* A request that ends or stays outside the window between CountByTask and
\* Create.
LEMMA CountOther ==
  ASSUME TypeOK, CountInv, NEW p \in Request,
         \A k \in Key : rows'[k] = rows[k] \/ rows'[k] = Absent,
         \A q \in Request : q # p => req'[q] = req[q],
         \/ req'[p].pc \notin {"counted", "putting", "stored"}
         \/ /\ req[p].pc \in {"counted", "putting", "stored"}
            /\ req'[p].task = req[p].task
  PROVE  CountInv'
<1> SUFFICES ASSUME NEW t \in Task
             PROVE  CountByTask(t)' + Cardinality(Pending(t)')
                      <= MaxPerTask - 1 + Cardinality(Request)
  BY DEF CountInv
<1>1. RowsOf(t)' \subseteq RowsOf(t)
  BY DEF RowsOf, Referenced
<1>2. Pending(t)' \subseteq Pending(t)
  BY DEF Pending
<1> QED BY <1>1, <1>2, CountShrinks

\* Every step keeps the count of rows and uploads let through bounded.
LEMMA CountStep == Inv /\ CountInv /\ [Next]_vars => CountInv'
<1> SUFFICES ASSUME Inv, CountInv, [Next]_vars PROVE CountInv'
  OBVIOUS
<1>t. TypeOK
  BY DEF Inv
<1>1. ASSUME NEW p \in Request, Upload(p) PROVE CountInv'
  <2>1. ASSUME NEW t \in Task, CheckQuota(p, t) PROVE CountInv'
    BY <1>t, <2>1, CountOther DEF CheckQuota, TypeOK, Idle
  <2>2. CASE CheckCount(p)
    <3> SUFFICES ASSUME NEW t \in Task
                 PROVE  CountByTask(t)' + Cardinality(Pending(t)')
                          <= MaxPerTask - 1 + Cardinality(Request)
      BY DEF CountInv
    <3>1. RowsOf(t)' = RowsOf(t)
      BY <2>2 DEF CheckCount, RowsOf, Referenced
    <3>2. CASE req[p].task = t
      <4>1. Cardinality(RowsOf(t)) < MaxPerTask
        BY <2>2, <3>2 DEF CheckCount, UnderCount, CountByTask
      <4> QED BY <3>1, <4>1, CountedFinite, CountedFiniteNext, AttachmentsAssumption
              DEF CountByTask
    <3>3. CASE req[p].task # t
      <4>1. Pending(t)' \subseteq Pending(t)
        BY <1>t, <2>2, <3>3 DEF CheckCount, Goto, TypeOK, Pending, RequestState
      <4> QED BY <3>1, <4>1, CountShrinks
    <3> QED BY <3>2, <3>3
  <2>3. ASSUME NEW k \in Key, BeginPut(p, k) PROVE CountInv'
    BY <1>t, <2>3, CountOther, RequestFields DEF BeginPut, At, TypeOK, RequestState
  <2>4. ASSUME NEW n \in 0..(MaxBytes + 1), EndPut(p, n) PROVE CountInv'
    BY <1>t, <2>4, CountOther, RequestFields DEF EndPut, At, TypeOK, RequestState
  <2>5. CASE PutFails(p)
    BY <1>t, <2>5, CountOther DEF PutFails, Finish, TypeOK, Idle
  <2>6. CASE Create(p)
    BY <2>6, CountInsert DEF Create, CountInv
  <2>7. CASE CreateAnswerLost(p)
    BY <2>7, CountInsert DEF CreateAnswerLost, CountInv
  <2>8. CASE CreateFails(p)
    BY <1>t, <2>8, CountOther, RequestFields
    DEF CreateFails, At, Goto, TypeOK, RequestState
  <2>9. CASE Compensate(p)
    BY <1>t, <2>9, CountOther DEF Compensate, Finish, TypeOK, Idle
  <2> QED BY <1>1, <2>1, <2>2, <2>3, <2>4, <2>5, <2>6, <2>7, <2>8, <2>9 DEF Upload
<1>2. ASSUME NEW p \in Request, Delete(p) PROVE CountInv'
  <2>1. ASSUME NEW k \in Key, DeleteRow(p, k) PROVE CountInv'
    BY <1>t, <2>1, CountOther DEF DeleteRow, TypeOK, Idle
  <2>2. CASE DeleteBlob(p)
    BY <1>t, <2>2, CountOther DEF DeleteBlob, Finish, TypeOK, Idle
  <2> QED BY <1>2, <2>1, <2>2 DEF Delete
<1>3. ASSUME NEW p \in Request, Abort(p) PROVE CountInv'
  BY <1>t, <1>3, CountOther DEF Abort, Finish, TypeOK, Idle
<1>4. ASSUME \A k \in Key : rows'[k] = rows[k] \/ rows'[k] = Absent, req' = req
      PROVE  CountInv'
  <2> SUFFICES ASSUME NEW t \in Task
               PROVE  CountByTask(t)' + Cardinality(Pending(t)')
                        <= MaxPerTask - 1 + Cardinality(Request)
    BY DEF CountInv
  <2>1. RowsOf(t)' \subseteq RowsOf(t) /\ Pending(t)' \subseteq Pending(t)
    BY <1>4 DEF RowsOf, Referenced, Pending
  <2> QED BY <2>1, CountShrinks
<1>5. ASSUME NEW t \in Task, DeleteTask(t) PROVE CountInv'
  BY <1>4, <1>5 DEF DeleteTask
<1>6. ASSUME NEW c \in Collector, CollectOrphans(c) PROVE CountInv'
  BY <1>4, <1>6 DEF CollectOrphans, ListBlobs, SelectOrphans, DeleteOrphan, PassEnds
<1>7. ASSUME NEW k \in Key, Age(k) PROVE CountInv'
  BY <1>4, <1>7 DEF Age
<1>8. CASE UNCHANGED vars
  BY <1>4, <1>8 DEF vars
<1> QED BY <1>1, <1>2, <1>3, <1>5, <1>6, <1>7, <1>8 DEF Next

\* Uploads that race past the check of maxAttachmentsPerTask exceed it by less
\* than the number of concurrent requests, however they interleave with
\* deletions and failures.
THEOREM CountIsBounded == Spec => []CountOvershoot
<1>1. Init => Inv /\ CountInv
  <2>1. ASSUME Init PROVE Inv
    BY <2>1, IdleValid, AttachmentsAssumption
    DEF Init, Inv, TypeOK, FreshInv, OwnInv, StoredInv, RemovalInv, SweepInv,
        AckedDurable
  <2>2. ASSUME Init, NEW t \in Task
        PROVE  CountByTask(t) + Cardinality(Pending(t))
                 <= MaxPerTask - 1 + Cardinality(Request)
    <3>1. RowsOf(t) = {} /\ Pending(t) = {}
      BY <2>2, IdleValid DEF Init, RowsOf, Referenced, Pending
    <3> QED BY <3>1, FS_EmptySet, CountedFinite, AttachmentsAssumption DEF CountByTask
  <2> QED BY <2>1, <2>2 DEF CountInv
<1>2. CountInv => CountOvershoot
  BY CountedFinite, AttachmentsAssumption DEF CountInv, CountOvershoot, CountByTask
<1> QED BY <1>1, <1>2, InvStep, CountStep, PTL DEF Spec


-----------------------------------------------------------------------------
(* The quota of the user.  An upload that TotalBytesForUser let through may  *)
(* still add its bytes, so it counts with an attachment of maximal size.     *)

\* What TotalBytesForUser counts.
StoredBytes == UNION {{k} \X (1..SizeOf(k)) : k \in Referenced}

\* Uploads that TotalBytesForUser let through, with what they may yet add.
Admitted == {p \in Request : req[p].pc \in {"checked", "counted", "putting", "stored"}}
Reserved == Admitted \X (1..MaxBytes)

\* What all requests together may reserve.
Room == Request \X (1..MaxBytes)

QuotaInv ==
  Cardinality(StoredBytes) + Cardinality(Reserved)
    <= MaxBytesPerUser - 1 + Cardinality(Room)

\* Membership in the bytes stored.
LEMMA ByteStored ==
  ASSUME NEW b
  PROVE  b \in StoredBytes <=>
           \E k \in Referenced : \E n \in 1..SizeOf(k) : b = <<k, n>>
BY DEF StoredBytes

\* Membership in the bytes stored after a step.
LEMMA ByteStoredNext ==
  ASSUME NEW b
  PROVE  b \in StoredBytes' <=>
           \E k \in Key : /\ rows'[k] # Absent
                          /\ \E n \in 1..rows'[k].size : b = <<k, n>>
BY DEF StoredBytes, Referenced, SizeOf

\* The room of all requests is one attachment of maximal size for each.
LEMMA RoomSize ==
  /\ IsFiniteSet(Room) /\ Cardinality(Room) \in Nat
  /\ Cardinality(Room) = Cardinality(Request) * MaxBytes
  /\ IsFiniteSet(Key \X (1..MaxBytes))
<1>1. IsFiniteSet(1..MaxBytes) /\ Cardinality(1..MaxBytes) = MaxBytes
  BY FS_Interval, AttachmentsAssumption
<1> QED BY <1>1, FS_Product, FS_CardinalityType, AttachmentsAssumption DEF Room

\* The sets counted are finite.
LEMMA BytesFinite ==
  ASSUME TypeOK
  PROVE  /\ IsFiniteSet(StoredBytes) /\ Cardinality(StoredBytes) \in Nat
         /\ IsFiniteSet(Reserved) /\ Cardinality(Reserved) \in Nat
         /\ Cardinality(Reserved) <= Cardinality(Room)
<1>1. \A k \in Referenced : SizeOf(k) \in 0..MaxBytes /\ k \in Key
  BY DEF TypeOK, Referenced, SizeOf, Row, Size
<1>2. StoredBytes \subseteq Key \X (1..MaxBytes)
  BY <1>1, ByteStored, AttachmentsAssumption
<1>3. Reserved \subseteq Room
  BY DEF Reserved, Admitted, Room
<1> QED BY <1>2, <1>3, RoomSize, FS_Subset, FS_CardinalityType

\* The same in the next state.
LEMMA BytesFiniteNext ==
  ASSUME TypeOK'
  PROVE  /\ IsFiniteSet(StoredBytes') /\ Cardinality(StoredBytes') \in Nat
         /\ IsFiniteSet(Reserved') /\ Cardinality(Reserved') \in Nat
         /\ Cardinality(Reserved') <= Cardinality(Room)
<1>1. \A k \in Key : rows'[k] # Absent => rows'[k].size \in 0..MaxBytes
  BY DEF TypeOK, Row, Size
<1>2. StoredBytes' \subseteq Key \X (1..MaxBytes)
  BY <1>1, ByteStoredNext, AttachmentsAssumption
<1>3. Reserved' \subseteq Room
  BY DEF Reserved, Admitted, Room
<1> QED BY <1>2, <1>3, RoomSize, FS_Subset, FS_CardinalityType

\* A step that stores no byte and lets no upload through.
LEMMA QuotaShrinks ==
  ASSUME TypeOK, TypeOK', QuotaInv,
         \A k \in Key : rows'[k] = rows[k] \/ rows'[k] = Absent,
         Admitted' \subseteq Admitted
  PROVE  QuotaInv'
<1>1. StoredBytes' \subseteq StoredBytes
  BY ByteStored, ByteStoredNext DEF Referenced, SizeOf
<1>2. Reserved' \subseteq Reserved
  BY DEF Reserved
<1>3. /\ Cardinality(StoredBytes') <= Cardinality(StoredBytes)
      /\ Cardinality(Reserved') <= Cardinality(Reserved)
  BY <1>1, <1>2, BytesFinite, FS_Subset
<1>4. Room' = Room
  BY DEF Room
<1> QED BY <1>3, <1>4, BytesFinite, BytesFiniteNext, RoomSize, AttachmentsAssumption
        DEF QuotaInv

\* The bytes of an upload take the place of what the upload reserved.
LEMMA QuotaInsert ==
  ASSUME TypeOK, TypeOK', QuotaInv, NEW p \in Request, InsertRow(p),
         Finish(p) \/ Goto(p, "compensating")
  PROVE  QuotaInv'
<1> DEFINE k == req[p].key
           n == req[p].size
           added == {k} \X (1..n)
           share == {p} \X (1..MaxBytes)
<1>1. k \in Key /\ req[p].pc = "stored" /\ n \in 0..MaxBytes
  BY RequestFields DEF InsertRow, At, Size
<1>2. /\ \A j \in Key : j # k => rows'[j] = rows[j]
      /\ rows'[k].size = n
  BY <1>1 DEF InsertRow, TypeOK
<1>3. \A q \in Request : q # p => req'[q] = req[q]
  BY DEF TypeOK, Finish, Goto
<1>4. req'[p].pc \in {"idle", "compensating"}
  BY IdleValid, RequestFields DEF TypeOK, Finish, Goto, RequestState
<1> HIDE DEF k, n
<1>5. StoredBytes' \subseteq StoredBytes \cup added
  BY <1>2, ByteStored, ByteStoredNext DEF Referenced, SizeOf
<1>6. Reserved' \subseteq Reserved \ share /\ share \subseteq Reserved
  BY <1>1, <1>3, <1>4 DEF Reserved, Admitted
<1>7. IsFiniteSet(added) /\ Cardinality(added) = n
  <2>1. IsFiniteSet(1..n) /\ Cardinality(1..n) = n
    BY <1>1, FS_Interval, AttachmentsAssumption
  <2>2. IsFiniteSet({k}) /\ Cardinality({k}) = 1
    BY FS_Singleton
  <2> QED BY <1>1, <2>1, <2>2, FS_Product
<1>8. IsFiniteSet(share) /\ Cardinality(share) = MaxBytes
  <2>1. IsFiniteSet(1..MaxBytes) /\ Cardinality(1..MaxBytes) = MaxBytes
    BY FS_Interval, AttachmentsAssumption
  <2>2. IsFiniteSet({p}) /\ Cardinality({p}) = 1
    BY FS_Singleton
  <2>3. MaxBytes \in Nat
    BY AttachmentsAssumption
  <2> QED BY <2>1, <2>2, <2>3, FS_Product
<1> HIDE DEF added, share
<1>9. Cardinality(StoredBytes') <= Cardinality(StoredBytes) + n
  <2>1. /\ IsFiniteSet(StoredBytes \cup added)
        /\ Cardinality(StoredBytes \cup added) =
             Cardinality(StoredBytes) + n - Cardinality(StoredBytes \cap added)
    BY <1>7, BytesFinite, FS_Union
  <2>2. Cardinality(StoredBytes \cap added) \in Nat
    BY BytesFinite, FS_Intersection, FS_CardinalityType
  <2>3. Cardinality(StoredBytes') <= Cardinality(StoredBytes \cup added)
    BY <1>5, <2>1, FS_Subset
  <2> QED BY <1>1, <2>1, <2>2, <2>3, BytesFinite, BytesFiniteNext
<1>10. Cardinality(Reserved') <= Cardinality(Reserved) - MaxBytes
  <2>1. Reserved \cap share = share
    BY <1>6
  <2>2. /\ IsFiniteSet(Reserved \ share)
        /\ Cardinality(Reserved \ share) = Cardinality(Reserved) - MaxBytes
    BY <1>8, <2>1, BytesFinite, FS_Difference
  <2> QED BY <1>6, <2>2, FS_Subset
<1>11. Room' = Room
  BY DEF Room
<1> QED BY <1>1, <1>9, <1>10, <1>11, BytesFinite, BytesFiniteNext, RoomSize,
           AttachmentsAssumption DEF QuotaInv

\* Every step keeps the bytes stored and reserved bounded.
LEMMA QuotaStep == TypeOK /\ TypeOK' /\ QuotaInv /\ [Next]_vars => QuotaInv'
<1> SUFFICES ASSUME TypeOK, TypeOK', QuotaInv, [Next]_vars PROVE QuotaInv'
  OBVIOUS
<1>0. req \in [Request -> RequestState] /\ rows \in [Key -> Row \cup {Absent}]
  BY DEF TypeOK
<1>1. ASSUME NEW p \in Request, Upload(p) PROVE QuotaInv'
  <2>0. req[p] \in RequestState
    BY <1>0
  <2>1. ASSUME NEW t \in Task, CheckQuota(p, t) PROVE QuotaInv'
    <3>1. Cardinality(StoredBytes) < MaxBytesPerUser
      BY <2>1 DEF CheckQuota, UnderQuota, TotalBytesForUser, StoredBytes
    <3>2. StoredBytes' = StoredBytes /\ Room' = Room
      BY <2>1 DEF CheckQuota, StoredBytes, Referenced, SizeOf, Room
    <3> QED BY <3>1, <3>2, BytesFinite, BytesFiniteNext, RoomSize,
               AttachmentsAssumption DEF QuotaInv
  <2>2. CASE CheckCount(p) \/ CreateFails(p) \/ PutFails(p) \/ Compensate(p)
    <3>1. Admitted' \subseteq Admitted
      BY <1>0, <2>2 DEF CheckCount, CreateFails, PutFails, Compensate, At, Goto,
                        Finish, Idle, Admitted, RequestState
    <3> QED BY <2>2, <3>1, QuotaShrinks
            DEF CheckCount, CreateFails, PutFails, Compensate
  <2>3. ASSUME NEW k \in Key, BeginPut(p, k) PROVE QuotaInv'
    <3>1. Admitted' \subseteq Admitted
      BY <1>0, <2>3 DEF BeginPut, At, Admitted, RequestState
    <3> QED BY <2>3, <3>1, QuotaShrinks DEF BeginPut
  <2>4. ASSUME NEW n \in 0..(MaxBytes + 1), EndPut(p, n) PROVE QuotaInv'
    <3>1. Admitted' \subseteq Admitted
      BY <1>0, <2>4 DEF EndPut, At, Admitted, RequestState
    <3> QED BY <2>4, <3>1, QuotaShrinks DEF EndPut
  <2>5. CASE Create(p) \/ CreateAnswerLost(p)
    BY <2>5, QuotaInsert DEF Create, CreateAnswerLost
  <2> QED BY <1>1, <2>1, <2>2, <2>3, <2>4, <2>5 DEF Upload
<1>2. ASSUME NEW p \in Request, Delete(p) \/ Abort(p) PROVE QuotaInv'
  <2>1. CASE DeleteBlob(p) \/ Abort(p)
    <3>1. Admitted' \subseteq Admitted
      BY <1>0, <2>1 DEF DeleteBlob, Abort, Finish, Idle, Admitted
    <3> QED BY <2>1, <3>1, QuotaShrinks DEF DeleteBlob, Abort
  <2>2. ASSUME NEW k \in Key, DeleteRow(p, k) PROVE QuotaInv'
    <3>1. Admitted' \subseteq Admitted
      BY <1>0, <2>2 DEF DeleteRow, Idle, Admitted
    <3>2. \A j \in Key : rows'[j] = rows[j] \/ rows'[j] = Absent
      BY <1>0, <2>2 DEF DeleteRow
    <3> QED BY <3>1, <3>2, QuotaShrinks
  <2> QED BY <1>2, <2>1, <2>2 DEF Delete
<1>3. ASSUME \A k \in Key : rows'[k] = rows[k] \/ rows'[k] = Absent, req' = req
      PROVE  QuotaInv'
  BY <1>3, QuotaShrinks DEF Admitted
<1>4. ASSUME NEW t \in Task, DeleteTask(t) PROVE QuotaInv'
  BY <1>3, <1>4 DEF DeleteTask
<1>5. ASSUME NEW c \in Collector, CollectOrphans(c) PROVE QuotaInv'
  BY <1>3, <1>5 DEF CollectOrphans, ListBlobs, SelectOrphans, DeleteOrphan, PassEnds
<1>6. ASSUME NEW k \in Key, Age(k) PROVE QuotaInv'
  BY <1>3, <1>6 DEF Age
<1>7. CASE UNCHANGED vars
  BY <1>3, <1>7 DEF vars
<1> QED BY <1>1, <1>2, <1>4, <1>5, <1>6, <1>7 DEF Next

\* Uploads that race past the check of the quota exceed it by less than one
\* attachment of maximal size for each concurrent request, however they
\* interleave with deletions and failures.
THEOREM QuotaIsBounded == Spec => []QuotaOvershoot
<1>1. Init => QuotaInv
  <2> SUFFICES ASSUME Init PROVE QuotaInv
    OBVIOUS
  <2>1. Admitted = {} /\ Referenced = {}
    BY IdleValid DEF Init, Admitted, Referenced
  <2>2. Reserved = {} /\ StoredBytes = {}
    BY <2>1 DEF Reserved, StoredBytes
  <2> QED BY <2>2, FS_EmptySet, RoomSize, AttachmentsAssumption DEF QuotaInv
<1>2. TypeOK /\ QuotaInv => QuotaOvershoot
  <2> SUFFICES ASSUME TypeOK, QuotaInv PROVE QuotaOvershoot
    OBVIOUS
  <2>1. TotalBytesForUser = Cardinality(StoredBytes)
    BY DEF TotalBytesForUser, StoredBytes
  <2> QED BY <2>1, BytesFinite, RoomSize, AttachmentsAssumption
          DEF QuotaInv, QuotaOvershoot
<1> QED BY <1>1, <1>2, QuotaStep, TypeCorrect, PTL DEF Spec
=============================================================================
