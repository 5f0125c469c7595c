---------------------------- MODULE TasksProofs ----------------------------
(***************************************************************************)
(* Proofs about Tasks: the service with its optimistic concurrency control *)
(* implements TaskStore, and the version is a sound ETag, for any number   *)
(* of tasks, users and concurrent requests.                                *)
(***************************************************************************)
EXTENDS Tasks, FiniteSetTheorems, TLAPS

-----------------------------------------------------------------------------
(* Type correctness *)

\* The fields of a request.
LEMMA RequestFields ==
  ASSUME TypeOK, NEW p \in Request
  PROVE  /\ req[p].pc \in PC
         /\ req[p].task \in Task \cup {Absent}
         /\ req[p].read \in Row \cup {Absent}
         /\ req[p].write \in Row \cup {Absent}
         /\ req[p].user \in User \cup {Absent}
         /\ req[p].total \in Nat
BY DEF TypeOK, RequestState

\* An idle request.
LEMMA IdleValid ==
  Idle \in RequestState /\ Idle.pc = "idle"
BY DEF Idle, RequestState, PC

\* Changes of a row give rows.
LEMMA RowUpdates ==
  ASSUME NEW row \in Row
  PROVE  /\ \A x \in Text, y \in Priority :
               [row EXCEPT !.text = x, !.priority = y] \in Row
         /\ \A s \in Status : [row EXCEPT !.status = s] \in Row
         /\ \A n \in Nat \ {0} : [row EXCEPT !.version = n] \in Row
BY DEF Row

\* validatePriority answers with a priority.
LEMMA PriorityType ==
  ASSUME NEW fallback \in Priority, NEW y \in Priority \cup {Absent}
  PROVE  validatePriority(y, fallback) \in Priority
BY DEF validatePriority

\* A request that goes on to write a row.
LEMMA WriteBackType ==
  ASSUME TypeOK, NEW p \in Request, NEW t \in Task, NEW row \in Row,
         tasks[t] \in Row, WriteBack(p, t, row)
  PROVE  /\ req' \in [Request -> RequestState]
         /\ \A q \in Request : req'[q].pc \in {"write", "locked"} =>
              req'[q].task \in Task /\ req'[q].read \in Row
              /\ req'[q].write \in Row
<1> DEFINE new == [Idle EXCEPT !.pc = "write", !.task = t, !.read = tasks[t],
                               !.write = row]
<1>1. new \in RequestState /\ new.task = t /\ new.read = tasks[t]
      /\ new.write = row
  BY DEF Idle, RequestState, PC
<1>2. req' = [req EXCEPT ![p] = new]
  BY DEF WriteBack
<1> HIDE DEF new
<1> QED BY <1>1, <1>2 DEF TypeOK

\* A request that ends.
LEMMA FinishType ==
  ASSUME TypeOK, NEW p \in Request, Finish(p)
  PROVE  /\ req' \in [Request -> RequestState]
         /\ \A q \in Request : req'[q].pc \in {"write", "locked"} =>
              req'[q].task \in Task /\ req'[q].read \in Row
              /\ req'[q].write \in Row
BY IdleValid DEF TypeOK, Finish

\* Every step keeps every type.
LEMMA TypeStep == TypeOK /\ [Next]_vars => TypeOK'
<1> SUFFICES ASSUME TypeOK, [Next]_vars PROVE TypeOK'
  OBVIOUS
<1> USE TasksAssumption
<1>1. ASSUME NEW t \in Task, NEW u \in User, NEW x \in Text,
             NEW y \in Priority \cup {Absent}, CreateTask(t, u, x, y)
      PROVE  TypeOK'
  <2>1. validatePriority(y, "medium") \in Priority
    BY DEF validatePriority
  <2>2. [user |-> u, text |-> x, status |-> "pending",
         priority |-> validatePriority(y, "medium"), version |-> 1] \in Row
    BY <2>1 DEF Row, Status
  <2> QED BY <1>1, <2>2 DEF TypeOK, CreateTask
<1>2. ASSUME NEW p \in Request, NEW u \in User, NEW t \in Task, NEW x \in Text,
             NEW y \in Priority \cup {Absent}, UpdateTask(p, u, t, x, y)
      PROVE  TypeOK'
  <2>1. tasks[t] \in Row
    BY <1>2 DEF UpdateTask, Owned, Stored, TypeOK
  <2>2. validatePriority(y, tasks[t].priority) \in Priority
    BY <2>1, PriorityType DEF Row
  <2>3. [tasks[t] EXCEPT !.text = x,
           !.priority = validatePriority(y, tasks[t].priority)] \in Row
    BY <2>1, <2>2, RowUpdates
  <2> QED BY <1>2, <2>1, <2>3, WriteBackType DEF TypeOK, UpdateTask
<1>3. ASSUME NEW p \in Request, NEW u \in User, NEW t \in Task,
             NEW s \in Status, TransitionStatus(p, u, t, s)
      PROVE  TypeOK'
  <2>1. tasks[t] \in Row
    BY <1>3 DEF TransitionStatus, Owned, Stored, TypeOK
  <2>2. [tasks[t] EXCEPT !.status = s] \in Row
    BY <2>1, RowUpdates
  <2> QED BY <1>3, <2>1, <2>2, WriteBackType DEF TypeOK, TransitionStatus
<1>4. ASSUME NEW p \in Request, LockVersion(p) PROVE TypeOK'
  <2>1. /\ req' \in [Request -> RequestState]
        /\ \A q \in Request : req'[q].pc \in {"write", "locked"} =>
              req'[q].task \in Task /\ req'[q].read \in Row
              /\ req'[q].write \in Row
    BY <1>4 DEF LockVersion, At, TypeOK, RequestState, PC
  <2> QED BY <1>4, <2>1 DEF LockVersion, TypeOK
<1>5. ASSUME NEW p \in Request, RejectUpdate(p) \/ Abort(p) PROVE TypeOK'
  BY <1>5, FinishType DEF RejectUpdate, Abort, TypeOK
<1>6. ASSUME NEW p \in Request, CommitUpdate(p) PROVE TypeOK'
  <2> DEFINE t == req[p].task
  <2>1. t \in Task /\ req[p].write \in Row /\ tasks[t] \in Row
    BY <1>6 DEF CommitUpdate, At, Stored, TypeOK
  <2>2. NextVersion(tasks[t]) \in Nat \ {0}
    <3>1. tasks[t].version \in Nat
      BY <2>1 DEF Row
    <3> QED BY <3>1 DEF NextVersion
  <2>3. [req[p].write EXCEPT !.version = NextVersion(tasks[t])] \in Row
    BY <2>1, <2>2, RowUpdates
  <2>4. tasks' \in [Task -> Row \cup {Absent}]
    BY <1>6, <2>1, <2>3 DEF CommitUpdate, TypeOK
  <2> QED BY <1>6, <2>4, FinishType DEF CommitUpdate, TypeOK
<1>7. ASSUME NEW u \in User, NEW t \in Task, DeleteTask(u, t) PROVE TypeOK'
  BY <1>7 DEF DeleteTask, TypeOK
<1>8. ASSUME NEW u \in User, NEW t \in Task, GetTask(u, t) PROVE TypeOK'
  BY <1>8 DEF GetTask, TypeOK
<1>9. ASSUME NEW u PROVE Cardinality(RowsOf(u)) \in Nat
  BY FS_Subset, FS_CardinalityType DEF RowsOf
<1>10. ASSUME NEW p \in Request, NEW u \in User, CountByStatus(p, u)
       PROVE  TypeOK'
  <2> DEFINE new == [Idle EXCEPT !.pc = "counted", !.user = u,
                                 !.total = Cardinality(RowsOf(u))]
  <2>1. new \in RequestState /\ new.pc = "counted"
    BY <1>9 DEF Idle, RequestState, PC
  <2>2. req' = [req EXCEPT ![p] = new]
    BY <1>10 DEF CountByStatus
  <2> HIDE DEF new
  <2> QED BY <1>10, <2>1, <2>2 DEF CountByStatus, TypeOK
<1>11. ASSUME NEW p \in Request, CountByPriority(p) PROVE TypeOK'
  <2>1. stats' \in [byStatus : Nat, byPriority : Nat]
    BY <1>9, <1>11, RequestFields DEF CountByPriority
  <2> QED BY <1>11, <2>1, FinishType DEF CountByPriority, TypeOK
<1>12. CASE UNCHANGED vars
  BY <1>12 DEF vars, TypeOK
<1> QED BY <1>1, <1>2, <1>3, <1>4, <1>5, <1>6, <1>7, <1>8, <1>10, <1>11, <1>12
        DEF Next

\* Every variable keeps its type.
THEOREM TypeCorrect == Spec => []TypeOK
<1>1. Init => TypeOK
  BY IdleValid DEF Init, TypeOK
<1> QED BY <1>1, TypeStep, PTL DEF Spec

-----------------------------------------------------------------------------
(* Copies of rows *)

\* copy is a row of t read earlier: t has moved on to a higher version since,
\* or the copy is still the row.
CopyOf(copy, t) ==
  /\ t \in used
  /\ tasks[t] # Absent =>
       /\ copy.version <= tasks[t].version
       /\ copy.version = tasks[t].version => copy = tasks[t]

\* Ids are handed out once.
FreshInv == \A t \in Task : t \notin used => tasks[t] = Absent

\* What the clients hold.
HeldInv == \A t \in Task : held[t] # Absent => CopyOf(held[t], t)

\* What the writers read.
ReadInv ==
  \A p \in Request : req[p].pc \in {"write", "locked"} =>
    CopyOf(req[p].read, req[p].task)

\* What they are about to write: a legal change of what they read.
LegalWrite(read, write) ==
  \/ \E x \in Text, y \in Priority :
       write = [read EXCEPT !.text = x, !.priority = y]
  \/ \E s \in legalTransitions[read.status] :
       write = [read EXCEPT !.status = s]

WriteInv ==
  \A p \in Request : req[p].pc \in {"write", "locked"} =>
    LegalWrite(req[p].read, req[p].write)

\* A lock holder's row is still the one it read, and it is alone.
LockInv ==
  \A p \in Request : req[p].pc = "locked" =>
    /\ tasks[req[p].task] = req[p].read
    /\ \A q \in Request :
         req[q].pc = "locked" /\ req[q].task = req[p].task => q = p

Inv == FreshInv /\ HeldInv /\ ReadInv /\ WriteInv /\ LockInv

\* What a step does to the row of t: nothing, or it appears under a fresh id,
\* or goes, or its version grows; and the last two never under another's lock.
RowEffect(t) ==
  \/ tasks'[t] = tasks[t]
  \/ t \notin used /\ t \in used'
  \/ tasks'[t] = Absent /\ ~Locked(t)
  \/ \E p \in Request :
       /\ CommitUpdate(p)
       /\ req[p].task = t
       /\ tasks[t] \in Row
       /\ tasks'[t] \in Row
       /\ tasks'[t].version = tasks[t].version + 1

\* Every step has that effect on every row, and no id is given back.
LEMMA RowStep ==
  ASSUME TypeOK, [Next]_vars, NEW t \in Task
  PROVE  RowEffect(t) /\ used \subseteq used'
<1> USE DEF RowEffect
<1>1. ASSUME UNCHANGED <<tasks, used>> PROVE RowEffect(t) /\ used \subseteq used'
  BY <1>1
<1>2. ASSUME NEW o \in Task, NEW u \in User, NEW x \in Text,
             NEW y \in Priority \cup {Absent}, CreateTask(o, u, x, y)
      PROVE  RowEffect(t) /\ used \subseteq used'
  BY <1>2 DEF CreateTask, TypeOK
<1>3. ASSUME NEW p \in Request, CommitUpdate(p)
      PROVE  RowEffect(t) /\ used \subseteq used'
  <2>1. CASE req[p].task = t
    <3>1. req[p].write \in Row /\ tasks[t] \in Row
      BY <1>3, <2>1 DEF CommitUpdate, At, Stored, TypeOK
    <3>2. tasks[t].version \in Nat
      BY <3>1 DEF Row
    <3>3. tasks'[t] = [req[p].write EXCEPT !.version = tasks[t].version + 1]
      BY <1>3, <2>1 DEF CommitUpdate, NextVersion, TypeOK
    <3>4. tasks'[t] \in Row /\ tasks'[t].version = tasks[t].version + 1
      BY <3>1, <3>2, <3>3 DEF Row
    <3> QED BY <1>3, <2>1, <3>1, <3>4 DEF CommitUpdate
  <2> QED BY <1>3, <2>1 DEF CommitUpdate, TypeOK
<1>4. ASSUME NEW u \in User, NEW o \in Task, DeleteTask(u, o)
      PROVE  RowEffect(t) /\ used \subseteq used'
  BY <1>4 DEF DeleteTask, TypeOK
<1> QED BY <1>1, <1>2, <1>3, <1>4
        DEF Next, UpdateTask, TransitionStatus, GetTask, LockVersion,
            RejectUpdate, CountByStatus, CountByPriority, Abort, vars

\* What a step does to a request that writes afterwards: it has just read the
\* row, or carries what it did before, perhaps with the lock it just took.
WriterEffect(p) ==
  req'[p].pc \in {"write", "locked"} =>
    \/ req'[p] = req[p]
    \/ /\ req'[p].pc = "write"
       /\ req'[p].task \in Task
       /\ tasks[req'[p].task] \in Row
       /\ req'[p].read = tasks[req'[p].task]
       /\ LegalWrite(req'[p].read, req'[p].write)
       /\ UNCHANGED <<tasks, used>>
    \/ /\ LockVersion(p)
       /\ req'[p].pc = "locked"
       /\ req'[p].task = req[p].task
       /\ req'[p].read = req[p].read
       /\ req'[p].write = req[p].write
       /\ \A q \in Request \ {p} : req'[q] = req[q]

\* Every step has that effect on every writer.
LEMMA WriterStep ==
  ASSUME TypeOK, [Next]_vars, NEW p \in Request
  PROVE  WriterEffect(p)
<1> USE DEF At, TypeOK
<1>1. ASSUME req'[p] = req[p] PROVE WriterEffect(p)
  BY <1>1 DEF WriterEffect
<1>2. ASSUME req'[p].pc \notin {"write", "locked"} PROVE WriterEffect(p)
  BY <1>2 DEF WriterEffect
<1>3. ASSUME NEW t \in Task, NEW row, WriteBack(p, t, row)
      PROVE  /\ req'[p].pc = "write" /\ req'[p].task = t
             /\ req'[p].read = tasks[t] /\ req'[p].write = row
  BY <1>3 DEF WriteBack, Idle
<1>4. ASSUME NEW q \in Request, NEW u \in User, NEW t \in Task, NEW x \in Text,
             NEW y \in Priority \cup {Absent}, UpdateTask(q, u, t, x, y)
      PROVE  WriterEffect(p)
  <2>1. CASE q = p
    <3> DEFINE z == validatePriority(y, tasks[t].priority)
    <3>1. tasks[t] \in Row
      BY <1>4 DEF UpdateTask, Owned, Stored
    <3>2. z \in Priority
      BY <3>1, PriorityType DEF Row
    <3>3. WriteBack(p, t, [tasks[t] EXCEPT !.text = x, !.priority = z])
      BY <1>4, <2>1 DEF UpdateTask
    <3>4. UNCHANGED <<tasks, used>>
      BY <1>4 DEF UpdateTask
    <3> HIDE DEF z
    <3>5. LegalWrite(tasks[t], [tasks[t] EXCEPT !.text = x, !.priority = z])
      BY <3>2 DEF LegalWrite
    <3> QED BY <1>3, <3>1, <3>3, <3>4, <3>5 DEF WriterEffect
  <2> QED BY <1>1, <1>4, <2>1 DEF UpdateTask, WriteBack
<1>5. ASSUME NEW q \in Request, NEW u \in User, NEW t \in Task,
             NEW s \in Status, TransitionStatus(q, u, t, s)
      PROVE  WriterEffect(p)
  <2>1. CASE q = p
    <3>1. tasks[t] \in Row
      BY <1>5 DEF TransitionStatus, Owned, Stored
    <3>2. WriteBack(p, t, [tasks[t] EXCEPT !.status = s])
      BY <1>5, <2>1 DEF TransitionStatus
    <3>3. UNCHANGED <<tasks, used>>
      BY <1>5 DEF TransitionStatus
    <3>4. LegalWrite(tasks[t], [tasks[t] EXCEPT !.status = s])
      BY <1>5 DEF TransitionStatus, LegalWrite
    <3> QED BY <1>3, <3>1, <3>2, <3>3, <3>4 DEF WriterEffect
  <2> QED BY <1>1, <1>5, <2>1 DEF TransitionStatus, WriteBack
<1>6. ASSUME NEW q \in Request, LockVersion(q) PROVE WriterEffect(p)
  <2>1. CASE q = p
    BY <1>6, <2>1 DEF LockVersion, WriterEffect, RequestState
  <2> QED BY <1>1, <1>6, <2>1 DEF LockVersion
<1>7. ASSUME NEW q \in Request, Finish(q) PROVE WriterEffect(p)
  BY <1>1, <1>2, <1>7 DEF Finish, Idle
<1>8. ASSUME NEW q \in Request, NEW u \in User, CountByStatus(q, u)
      PROVE  WriterEffect(p)
  BY <1>1, <1>2, <1>8 DEF CountByStatus, Idle
<1> QED BY <1>1, <1>4, <1>5, <1>6, <1>7, <1>8
        DEF Next, CreateTask, DeleteTask, GetTask, RejectUpdate, CommitUpdate,
            CountByPriority, Abort, vars

\* A copy stays a copy, whatever happens to the row.
LEMMA CopyStep ==
  ASSUME TypeOK, FreshInv, [Next]_vars, NEW t \in Task, NEW copy \in Row,
         CopyOf(copy, t)
  PROVE  CopyOf(copy, t)'
<1>1. RowEffect(t) /\ used \subseteq used'
  BY RowStep
<1>2. CASE tasks'[t] = tasks[t] \/ tasks'[t] = Absent
  BY <1>1, <1>2 DEF CopyOf
<1>3. CASE /\ tasks[t] \in Row /\ tasks'[t] \in Row
           /\ tasks'[t].version = tasks[t].version + 1
  <2>1. CASE tasks[t] # Absent
    <3>1. copy.version \in Nat /\ tasks[t].version \in Nat
      BY <1>3 DEF Row
    <3>2. /\ copy.version <= tasks'[t].version
          /\ copy.version # tasks'[t].version
      BY <1>3, <2>1, <3>1 DEF CopyOf
    <3> QED BY <1>1, <3>2 DEF CopyOf
  <2>2. CASE tasks[t] = Absent
    BY <1>3, <2>2, AbsentNoRow
  <2> QED BY <2>1, <2>2
<1> QED BY <1>1, <1>2, <1>3 DEF RowEffect, CopyOf

\* What a step does to what a client holds.
LEMMA HeldStep ==
  ASSUME TypeOK, [Next]_vars, NEW t \in Task
  PROVE  \/ held'[t] = held[t]
         \/ held'[t] = tasks[t] /\ UNCHANGED <<tasks, used>>
BY DEF TypeOK, Next, CreateTask, UpdateTask, TransitionStatus, DeleteTask,
       GetTask, LockVersion, RejectUpdate, CommitUpdate, CountByStatus,
       CountByPriority, Abort, vars

\* A request that takes the lock with the version it read finds its row.
LEMMA LockFindsRow ==
  ASSUME TypeOK, Inv, NEW p \in Request, LockVersion(p)
  PROVE  tasks[req[p].task] = req[p].read
<1> DEFINE t == req[p].task
           read == req[p].read
           write == req[p].write
<1>1. t \in Task /\ read \in Row /\ write \in Row
  BY DEF LockVersion, At, TypeOK
<1>2. CopyOf(read, t) /\ LegalWrite(read, write)
  BY DEF LockVersion, At, Inv, ReadInv, WriteInv
<1>3. tasks[t] # Absent /\ tasks[t].version = write.version
  BY DEF LockVersion, SameVersion, Owned, Stored
<1>4. write.version = read.version
  BY <1>1, <1>2 DEF LegalWrite, Row
<1> QED BY <1>2, <1>3, <1>4 DEF CopyOf

\* The inductive step.
LEMMA InvStep ==
  ASSUME TypeOK, TypeOK', Inv, [Next]_vars
  PROVE  Inv'
<1>1. FreshInv'
  <2> SUFFICES ASSUME NEW t \in Task, t \notin used' PROVE tasks'[t] = Absent
    BY DEF FreshInv
  <2>1. RowEffect(t) /\ t \notin used /\ tasks[t] = Absent
    BY RowStep DEF Inv, FreshInv
  <2> QED BY <2>1, AbsentNoRow DEF RowEffect
<1>2. ASSUME NEW t \in Task, tasks[t] # Absent, UNCHANGED <<tasks, used>>
      PROVE  CopyOf(tasks[t], t)'
  <2>1. tasks[t] \in Row
    BY <1>2 DEF TypeOK
  <2>2. tasks[t].version \in Nat
    BY <2>1 DEF Row
  <2>3. t \in used
    BY <1>2 DEF Inv, FreshInv
  <2> QED BY <1>2, <2>2, <2>3 DEF CopyOf
<1>3. HeldInv'
  <2> SUFFICES ASSUME NEW t \in Task, held'[t] # Absent
               PROVE  CopyOf(held[t], t)'
    BY DEF HeldInv
  <2>1. CASE held'[t] = held[t]
    <3>1. held[t] \in Row /\ CopyOf(held[t], t)
      BY <2>1 DEF TypeOK, Inv, HeldInv
    <3>2. /\ t \in used'
          /\ tasks'[t] # Absent =>
               /\ held[t].version <= tasks'[t].version
               /\ held[t].version = tasks'[t].version => held[t] = tasks'[t]
      BY <3>1, CopyStep DEF CopyOf, Inv
    <3> QED BY <2>1, <3>2 DEF CopyOf
  <2>2. CASE held'[t] = tasks[t] /\ UNCHANGED <<tasks, used>>
    BY <1>2, <2>2 DEF CopyOf
  <2> QED BY <2>1, <2>2, HeldStep
<1>4. ReadInv'
  <2> SUFFICES ASSUME NEW p \in Request, req'[p].pc \in {"write", "locked"}
               PROVE  CopyOf(req[p].read, req[p].task)'
    BY DEF ReadInv
  <2>1. WriterEffect(p)
    BY WriterStep
  <2>2. CASE /\ req[p].pc \in {"write", "locked"}
             /\ req'[p].task = req[p].task /\ req'[p].read = req[p].read
    <3> DEFINE t == req[p].task
               read == req[p].read
    <3>1. t \in Task /\ read \in Row /\ CopyOf(read, t)
      BY <2>2 DEF TypeOK, Inv, ReadInv
    <3>2. /\ t \in used'
          /\ tasks'[t] # Absent =>
               /\ read.version <= tasks'[t].version
               /\ read.version = tasks'[t].version => read = tasks'[t]
      BY <3>1, CopyStep DEF CopyOf, Inv
    <3> QED BY <2>2, <3>2 DEF CopyOf
  <2>3. CASE /\ req'[p].task \in Task
             /\ tasks[req'[p].task] \in Row
             /\ req'[p].read = tasks[req'[p].task]
             /\ UNCHANGED <<tasks, used>>
    BY <1>2, <2>3, AbsentNoRow DEF CopyOf
  <2> QED BY <2>1, <2>2, <2>3 DEF WriterEffect, LockVersion, At
<1>5. WriteInv'
  <2> SUFFICES ASSUME NEW p \in Request, req'[p].pc \in {"write", "locked"}
               PROVE  LegalWrite(req'[p].read, req'[p].write)
    BY DEF WriteInv
  <2> QED BY WriterStep DEF WriterEffect, LockVersion, At, Inv, WriteInv
<1>6. LockInv'
  <2> SUFFICES ASSUME NEW p \in Request, req'[p].pc = "locked"
               PROVE  /\ tasks'[req'[p].task] = req'[p].read
                      /\ \A q \in Request :
                           req'[q].pc = "locked" /\ req'[q].task = req'[p].task
                             => q = p
    BY DEF LockInv
  <2>1. CASE req'[p] = req[p]
    <3> DEFINE t == req[p].task
    <3>1. t \in Task /\ t \in used /\ Locked(t) /\ tasks[t] = req[p].read
      BY <2>1 DEF TypeOK, Inv, ReadInv, LockInv, CopyOf, Locked, At
    <3>2. ASSUME NEW q \in Request, CommitUpdate(q), req[q].task = t
          PROVE  FALSE
      <4>1. q = p
        BY <2>1, <3>2 DEF CommitUpdate, At, Inv, LockInv
      <4> QED BY <2>1, <3>2, <4>1 DEF CommitUpdate, Finish, Idle, TypeOK
    <3>3. tasks'[t] = tasks[t]
      BY <3>1, <3>2, RowStep DEF RowEffect
    <3>4. ASSUME NEW q \in Request, req'[q].pc = "locked", req'[q].task = t
          PROVE  q = p
      BY <2>1, <3>1, <3>4, WriterStep
         DEF WriterEffect, LockVersion, Inv, LockInv
    <3> QED BY <2>1, <3>1, <3>3, <3>4
  <2>2. CASE /\ LockVersion(p)
             /\ req'[p].task = req[p].task
             /\ req'[p].read = req[p].read
             /\ \A q \in Request \ {p} : req'[q] = req[q]
    <3>1. tasks[req[p].task] = req[p].read /\ tasks' = tasks
      BY <2>2, LockFindsRow DEF LockVersion
    <3>2. ASSUME NEW q \in Request, q # p, req'[q].pc = "locked",
                 req'[q].task = req[p].task
          PROVE  FALSE
      BY <2>2, <3>2 DEF LockVersion, Locked, At
    <3> QED BY <2>2, <3>1, <3>2
  <2> QED BY <2>1, <2>2, WriterStep DEF WriterEffect
<1> QED BY <1>1, <1>3, <1>4, <1>5, <1>6 DEF Inv

\* The invariant holds at the start.
LEMMA InvInit == Init => Inv
BY DEF Init, Inv, FreshInv, HeldInv, ReadInv, WriteInv, LockInv, Idle

\* The invariant holds throughout.
LEMMA InvHolds == Spec => [](TypeOK /\ Inv)
<1>1. TypeOK /\ Inv /\ [Next]_vars => Inv'
  BY TypeStep, InvStep
<1> QED BY <1>1, InvInit, TypeCorrect, PTL DEF Spec

\* A 304 is sound: an unchanged version means an unchanged task.
THEOREM ETagsAreSound == Spec => []ETagSound
<1>1. TypeOK /\ Inv => ETagSound
  BY DEF ETagSound, NotModified, taskETag, Stored, Inv, HeldInv, CopyOf
<1> QED BY <1>1, InvHolds, PTL

-----------------------------------------------------------------------------
(* Refinement *)

\* A commit is an indivisible change of the row as it was.
LEMMA CommitRefines ==
  ASSUME TypeOK, Inv, NEW p \in Request, CommitUpdate(p)
  PROVE  \E t \in Task :
           \/ \E x \in Text, y \in Priority : Store!Update(t, x, y)
           \/ \E s \in Status : Store!Transition(t, s)
<1> DEFINE t == req[p].task
           row == tasks[t]
<1>1. t \in Task /\ row \in Row /\ row # Absent /\ row = req[p].read
  BY DEF CommitUpdate, At, Stored, TypeOK, Inv, LockInv
<1>2. LegalWrite(row, req[p].write)
  BY <1>1 DEF CommitUpdate, At, Inv, WriteInv
<1>3. tasks' = [tasks EXCEPT ![t] =
                  [req[p].write EXCEPT !.version = row.version + 1]]
      /\ used' = used
  BY DEF CommitUpdate, NextVersion
<1>4. ASSUME NEW x \in Text, NEW y \in Priority,
             req[p].write = [row EXCEPT !.text = x, !.priority = y]
      PROVE  Store!Update(t, x, y)
  <2>1. [req[p].write EXCEPT !.version = row.version + 1]
          = [row EXCEPT !.text = x, !.priority = y, !.version = row.version + 1]
    BY <1>1, <1>4 DEF Row
  <2> QED BY <1>1, <1>3, <2>1 DEF Store!Update
<1>5. ASSUME NEW s \in legalTransitions[row.status],
             req[p].write = [row EXCEPT !.status = s]
      PROVE  s \in Status /\ Store!Transition(t, s)
  <2>1. [req[p].write EXCEPT !.version = row.version + 1]
          = [row EXCEPT !.status = s, !.version = row.version + 1]
    BY <1>1, <1>5 DEF Row
  <2>2. row.status \in Status
    BY <1>1 DEF Row
  <2>3. s \in Status /\ s \in Store!legalTransitions[row.status]
    BY <1>5, <2>2
       DEF legalTransitions, Store!legalTransitions, Status, Store!Status
  <2> QED BY <1>1, <1>3, <2>1, <2>3 DEF Store!Transition
<1> QED BY <1>1, <1>2, <1>4, <1>5 DEF LegalWrite

\* Every step of the service is a step of the store, or none.
LEMMA StepRefines ==
  ASSUME TypeOK, Inv, [Next]_vars
  PROVE  [Store!Next]_<<tasks, used>>
<1>1. ASSUME NEW t \in Task, NEW u \in User, NEW x \in Text,
             NEW y \in Priority \cup {Absent}, CreateTask(t, u, x, y)
      PROVE  Store!Next
  <2>1. validatePriority(y, "medium") \in Priority
    BY TasksAssumption DEF validatePriority
  <2>2. Store!Create(t, u, x, validatePriority(y, "medium"))
    BY <1>1 DEF CreateTask, Store!Create
  <2> QED BY <2>1, <2>2 DEF Store!Next
<1>2. ASSUME NEW p \in Request, CommitUpdate(p) PROVE Store!Next
  BY <1>2, CommitRefines DEF Store!Next, Status, Store!Status
<1>3. ASSUME NEW u \in User, NEW t \in Task, DeleteTask(u, t) PROVE Store!Next
  <2>1. Store!Delete(t)
    BY <1>3 DEF DeleteTask, Owned, Stored, Store!Delete
  <2> QED BY <2>1 DEF Store!Next
<1> QED BY <1>1, <1>2, <1>3
        DEF Next, UpdateTask, TransitionStatus, GetTask, LockVersion,
            RejectUpdate, CountByStatus, CountByPriority, Abort, vars

\* The service implements the store: every accepted write is an indivisible
\* read-modify-write, and no update is ever lost.
THEOREM WritesAreAtomic == Spec => AtomicWrites
<1>1. Init => Store!Init
  BY DEF Init, Store!Init
<1>2. TypeOK /\ Inv /\ [Next]_vars => [Store!Next]_<<tasks, used>>
  BY StepRefines
<1> QED BY <1>1, <1>2, InvHolds, PTL DEF Spec, AtomicWrites, Store!Spec
=============================================================================
