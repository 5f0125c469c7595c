----------------------- MODULE AccountDeletionProofs -----------------------
(***************************************************************************)
(* Proofs about AccountDeletion and the TaskCache it extends, for any       *)
(* number of processes, requests, tasks and failures: an account goes last, *)
(* a cascade leaves nothing it was given, and every stale list is           *)
(* accounted for.                                                           *)
(***************************************************************************)
EXTENDS AccountDeletion, FiniteSetTheorems, WellFoundedInduction, TLAPS

\* A finite set of numbers that is not empty has its minimum as a member: of
\* the sets of numbers below a member, one has no other strictly within it.
LEMMA MinIsMember ==
  ASSUME NEW S \in SUBSET Nat, IsFiniteSet(S), S # {}
  PROVE  Min(S) \in S
<1> DEFINE Below(x) == {y \in S : y < x}
           T == {Below(x) : x \in S}
<1>1. T \subseteq FiniteSubsetsOf(S) /\ T # {}
  <2>1. ASSUME NEW x \in S PROVE Below(x) \in FiniteSubsetsOf(S)
    <3>1. Below(x) \in SUBSET S
      OBVIOUS
    <3> HIDE DEF Below
    <3> QED BY <3>1, FS_Subset DEF FiniteSubsetsOf
  <2> HIDE DEF Below
  <2> QED BY <2>1
<1>2. PICK B \in T : \A C \in T : <<C, B>> \notin StrictSubsetOrdering(S)
  <2> HIDE DEF T
  <2> QED BY <1>1, FS_StrictSubsetOrderingWellFounded, WFMin
<1>3. PICK x \in S : B = Below(x)
  OBVIOUS
<1>4. ASSUME NEW y \in S, y < x PROVE FALSE
  <2>1. x \in Nat /\ y \in Nat /\ \A z \in S : z \in Nat
    OBVIOUS
  <2>2. Below(y) \subseteq Below(x)
    <3>1. \A z \in Nat : z < y => z < x
      BY <1>4, <2>1
    <3> QED BY <2>1, <3>1
  <2>3. y \in Below(x) /\ y \notin Below(y)
    BY <1>4, <2>1
  <2>4. Below(y) \in SUBSET S /\ Below(x) \in SUBSET S
    OBVIOUS
  <2>5. <<Below(y), B>> \in StrictSubsetOrdering(S) /\ Below(y) \in T
    <3> HIDE DEF Below
    <3> QED BY <1>3, <2>2, <2>3, <2>4 DEF StrictSubsetOrdering
  <2> QED BY <1>2, <2>5
<1>5. \A y \in S : x =< y
  BY <1>4
<1> DEFINE P(z) == \A y \in S : z =< y
<1>6. Min(S) = CHOOSE z \in S : P(z)
  BY DEF Min
<1>7. P(x)
  BY <1>5
<1> HIDE DEF P
<1> QED BY <1>6, <1>7

-----------------------------------------------------------------------------
(* Type correctness *)

FillState ==
  [pc : {"fill"}, proc : Process, then : {"answer", "cascade"},
   from : {"l2", "repository"}, page : Page, missed : BOOLEAN]
InvalidateState == [pc : {"invalidate"}, proc : Process, next : {Idle} \cup Cascade]
UserState == [pc : {"user"}, listed : SUBSET Task]

\* What a request carries, by where it is.
LEMMA Kinds ==
  ASSUME NEW s \in RequestState
  PROVE  /\ s.pc \in {"idle", "counted", "fill", "invalidate", "cascade", "user"}
         /\ s.pc = "counted" => s.proc \in Process
         /\ s.pc = "fill" => s \in FillState
         /\ s.pc = "invalidate" => s \in InvalidateState
         /\ s.pc = "cascade" => s \in Cascade
         /\ s.pc = "user" => s \in UserState
BY DEF RequestState, FillState, InvalidateState, UserState, Cascade

\* Where a request may be put.
LEMMA States ==
  /\ Idle \in RequestState /\ Idle.pc = "idle"
  /\ \A p \in Process : [pc |-> "counted", proc |-> p] \in RequestState
  /\ FillState \subseteq RequestState
  /\ InvalidateState \subseteq RequestState
  /\ Cascade \subseteq RequestState
  /\ UserState \subseteq RequestState
BY DEF RequestState, FillState, InvalidateState, UserState, Idle

\* A page that an invalidation came too early for is still a page.
LEMMA OvertakenType ==
  ASSUME TypeOK, NEW q \in Request
  PROVE  /\ Overtaken(q) \in RequestState
         /\ Overtaken(q).pc = req[q].pc
         /\ ~Holding(q) => Overtaken(q) = req[q]
         /\ Holding(q) => /\ Overtaken(q).page = req[q].page
                          /\ Overtaken(q).page # tasks => Overtaken(q).missed
                          /\ req[q].missed => Overtaken(q).missed
<1>1. req[q] \in RequestState
  BY DEF TypeOK
<1>2. CASE Holding(q) /\ req[q].page # tasks
  <2>1. req[q] \in FillState
    BY <1>1, <1>2, Kinds DEF Holding
  <2>2. Overtaken(q) = [req[q] EXCEPT !.missed = TRUE]
    BY <1>2 DEF Overtaken
  <2>3. [req[q] EXCEPT !.missed = TRUE] \in FillState
    BY <2>1 DEF FillState
  <2>4. Overtaken(q).pc = req[q].pc /\ Overtaken(q).page = req[q].page
        /\ Overtaken(q).missed
    BY <2>1, <2>2 DEF FillState
  <2> QED BY <1>2, <2>2, <2>3, <2>4, States
<1>3. CASE ~(Holding(q) /\ req[q].page # tasks)
  BY <1>1, <1>3 DEF Overtaken
<1> QED BY <1>2, <1>3

\* What becomes of an entry: it may be marked, or age, and keeps its page.
LEMMA EntryMoves ==
  ASSUME NEW e \in Entry \cup {None}
  PROVE  /\ Missed(e) \in Entry \cup {None}
         /\ Later(e) \in Entry \cup {None}
         /\ Missed(e) # None => /\ e # None /\ Missed(e).page = e.page
                                /\ Missed(e).page # tasks => Missed(e).missed
         /\ Later(e) # None => /\ e # None /\ Later(e).page = e.page
                               /\ Later(e).missed = e.missed
<1>1. CASE e = None
  BY <1>1 DEF Missed, Later
<1>2. CASE e # None
  <2>1. e \in Entry
    BY <1>2
  <2>2. [e EXCEPT !.missed = TRUE] \in Entry
        /\ [e EXCEPT !.missed = TRUE].page = e.page
        /\ [e EXCEPT !.missed = TRUE].missed = TRUE
    BY <2>1 DEF Entry
  <2>3. e.life # 1 => /\ [e EXCEPT !.life = @ - 1] \in Entry
                      /\ [e EXCEPT !.life = @ - 1].page = e.page
                      /\ [e EXCEPT !.life = @ - 1].missed = e.missed
    BY <2>1, TaskCacheAssumption DEF Entry
  <2>4. Missed(e) = IF e.page # tasks THEN [e EXCEPT !.missed = TRUE] ELSE e
    BY <1>2 DEF Missed
  <2>5. Later(e) = IF e.life = 1 THEN None ELSE [e EXCEPT !.life = @ - 1]
    BY <1>2 DEF Later
  <2> QED BY <1>2, <2>1, <2>2, <2>3, <2>4, <2>5
<1> QED BY <1>1, <1>2

\* The page a request brings to a cache.
LEMMA KeptType ==
  ASSUME TypeOK, NEW r \in Request, At(r, "fill"), NEW life \in 1..TTL
  PROVE  /\ req[r] \in FillState
         /\ Kept(r, life) \in Entry
         /\ Kept(r, life).page = req[r].page
         /\ Kept(r, life).missed = req[r].missed
<1>1. req[r] \in FillState
  BY Kinds DEF TypeOK, At
<1> QED BY <1>1 DEF FillState, Kept, Entry

\* A request that is answered or goes on to its cascade.
LEMMA ReturnType ==
  ASSUME TypeOK, NEW r \in Request, NEW p \in Process,
         NEW then \in {"answer", "cascade"}, NEW page \in Page, Return(r, p, then, page)
  PROVE  /\ req' \in [Request -> RequestState]
         /\ \A q \in Request \ {r} : req'[q] = req[q]
         /\ req'[r] = Idle \/ req'[r] = [pc |-> "cascade", proc |-> p,
                                         todo |-> page, listed |-> page]
<1> DEFINE s == [pc |-> "cascade", proc |-> p, todo |-> page, listed |-> page]
<1>1. s \in RequestState /\ Idle \in RequestState
  BY States DEF Cascade, Page
<1>2. req' = [req EXCEPT ![r] = IF then = "answer" THEN Idle ELSE s]
  BY DEF Return
<1> HIDE DEF s
<1>3. PICK next \in {Idle, s} : req' = [req EXCEPT ![r] = next]
  BY <1>2
<1>4. next \in RequestState
  BY <1>1, <1>3
<1>5. req' \in [Request -> RequestState] /\ req'[r] = next
      /\ \A q \in Request \ {r} : req'[q] = req[q]
  BY <1>3, <1>4 DEF TypeOK
<1>6. req'[r] = Idle \/ req'[r] = s
  BY <1>3, <1>5
<1> QED BY <1>5, <1>6 DEF s

\* A request that holds a page.
LEMMA HoldType ==
  ASSUME TypeOK, NEW r \in Request, NEW p \in Process,
         NEW then \in {"answer", "cascade"}, NEW from \in {"l2", "repository"},
         NEW page \in Page, NEW missed \in BOOLEAN, Hold(r, p, then, from, page, missed)
  PROVE  /\ req' \in [Request -> RequestState]
         /\ \A q \in Request \ {r} : req'[q] = req[q]
         /\ req'[r].pc = "fill" /\ req'[r].page = page /\ req'[r].missed = missed
<1> DEFINE s == [pc |-> "fill", proc |-> p, then |-> then, from |-> from,
                 page |-> page, missed |-> missed]
<1>1. s \in RequestState
  BY States DEF FillState
<1>2. req' = [req EXCEPT ![r] = s]
  BY DEF Hold
<1>3. s.pc = "fill" /\ s.page = page /\ s.missed = missed
  OBVIOUS
<1> HIDE DEF s
<1> QED BY <1>1, <1>2, <1>3 DEF TypeOK

\* A request that has written.
LEMMA WrittenType ==
  ASSUME TypeOK, NEW r \in Request, NEW p \in Process,
         NEW next \in {Idle} \cup Cascade,
         req' = [req EXCEPT ![r] = [pc |-> "invalidate", proc |-> p, next |-> next]]
  PROVE  /\ req' \in [Request -> RequestState]
         /\ \A q \in Request \ {r} : req'[q] = req[q]
         /\ req'[r].pc = "invalidate" /\ req'[r].next = next
<1> DEFINE s == [pc |-> "invalidate", proc |-> p, next |-> next]
<1>1. s \in RequestState
  BY States DEF InvalidateState
<1>2. s.pc = "invalidate" /\ s.next = next
  OBVIOUS
<1> HIDE DEF s
<1>3. req' = [req EXCEPT ![r] = s]
  BY DEF s
<1> QED BY <1>1, <1>2, <1>3 DEF TypeOK

\* A request that ends.
LEMMA FinishType ==
  ASSUME TypeOK, NEW r \in Request, Finish(r)
  PROVE  /\ req' \in [Request -> RequestState]
         /\ \A q \in Request \ {r} : req'[q] = req[q]
         /\ req'[r] = Idle
BY States DEF TypeOK, Finish

\* FindAll answers from L1 or holds the page of L2 or of the table.
LEMMA FindAllCases ==
  ASSUME TypeOK, NEW r \in Request, NEW p \in Process,
         NEW then \in {"answer", "cascade"}, FindAll(r, p, then)
  PROVE  /\ req' \in [Request -> RequestState]
         /\ \A q \in Request \ {r} : req'[q] = req[q]
         /\ UNCHANGED <<tasks, used, account, l1, l2, events>>
         /\ faults' \in 0..MaxFaults
         /\ \/ req'[r] = Idle
            \/ l1[p] # None /\ req'[r] = [pc |-> "cascade", proc |-> p,
                                          todo |-> l1[p].page, listed |-> l1[p].page]
            \/ /\ l2 # None /\ req'[r].pc = "fill"
               /\ req'[r].page = l2.page /\ req'[r].missed = l2.missed
            \/ req'[r].pc = "fill" /\ req'[r].page = tasks
<1>0. UNCHANGED <<tasks, used, account, l1, l2, events>>
  BY DEF FindAll, store, levels
<1>a. faults' = faults \/ (faults < MaxFaults /\ faults' = faults + 1)
  <2>1. faults' = faults \/ LoadPastL2(r, p, then)
    BY DEF FindAll
  <2>2. LoadPastL2(r, p, then) => Fail
    BY DEF LoadPastL2
  <2> QED BY <2>1, <2>2 DEF Fail
<1>b. faults \in 0..MaxFaults /\ MaxFaults \in Nat
  BY TaskCacheAssumption DEF TypeOK
<1>1. UNCHANGED <<tasks, used, account, l1, l2, events>> /\ faults' \in 0..MaxFaults
  BY <1>0, <1>a, <1>b
<1>2. CASE HitL1(r, p, then)
  <2>1. l1[p].page \in Page
    BY <1>2 DEF TypeOK, Entry, HitL1
  <2> QED BY <1>1, <1>2, <2>1, ReturnType DEF HitL1
<1>3. CASE HitL2(r, p, then)
  <2>1. l2.page \in Page /\ l2.missed \in BOOLEAN
    BY <1>3 DEF TypeOK, Entry, HitL2
  <2>2. Hold(r, p, then, "l2", l2.page, l2.missed) /\ l2 # None
    BY <1>3 DEF HitL2
  <2>3. /\ req' \in [Request -> RequestState]
        /\ \A q \in Request \ {r} : req'[q] = req[q]
        /\ req'[r].pc = "fill" /\ req'[r].page = l2.page /\ req'[r].missed = l2.missed
    BY <2>1, <2>2, HoldType
  <2> QED BY <1>1, <2>2, <2>3
<1>4. CASE Load(r, p, then) \/ LoadPastL2(r, p, then)
  <2>1. tasks \in Page
    BY DEF TypeOK, Page
  <2>2. PICK m \in BOOLEAN : Hold(r, p, then, "repository", tasks, m)
    BY <1>4, Zenon DEF Load, LoadPastL2
  <2>3. /\ req' \in [Request -> RequestState]
        /\ \A q \in Request \ {r} : req'[q] = req[q]
        /\ req'[r].pc = "fill" /\ req'[r].page = tasks
    BY <2>1, <2>2, HoldType
  <2> QED BY <1>1, <2>3
<1> QED BY <1>2, <1>3, <1>4 DEF FindAll

-----------------------------------------------------------------------------
(* The invariant *)

\* A cascade has deleted what it was given and no longer has to do, and no id
\* it was given is ever given to a new task.
SoundCascade(c, T, U) == c.listed \subseteq U /\ (c.listed \ c.todo) \cap T = {}

SoundReq(s, T, U) ==
  /\ s.pc = "fill" => s.page \subseteq U
  /\ s.pc = "cascade" => SoundCascade(s, T, U)
  /\ s.pc = "invalidate" /\ s.next.pc = "cascade" => SoundCascade(s.next, T, U)
  /\ s.pc = "user" => s.listed \subseteq U /\ s.listed \cap T = {}

SoundEntry(e, U) == e # None => e.page \subseteq U

CascadeInv ==
  /\ tasks \subseteq used
  /\ \A q \in Request : SoundReq(req[q], tasks, used)
  /\ \A p \in Process : SoundEntry(l1[p], used)
  /\ SoundEntry(l2, used)

\* A page that differs from the table, in a request or in a cache, is
\* accounted for.
FreshReq(s, T, retiring) == s.pc = "fill" /\ s.page # T => s.missed \/ retiring
FreshEntry(e, T, retiring) == e # None /\ e.page # T => e.missed \/ retiring

FreshInv ==
  /\ \A q \in Request : FreshReq(req[q], tasks, Invalidating)
  /\ \A p \in Process : FreshEntry(l1[p], tasks, Invalidating \/ p \in events)
  /\ FreshEntry(l2, tasks, Invalidating)

ListInv == CascadeInv /\ FreshInv

\* Requests and entries that were sound stay sound: ids are not reused.
LEMMA SoundKept ==
  ASSUME NEW T, NEW U, NEW T1, NEW U1, T1 \cap U \subseteq T, U \subseteq U1
  PROVE  /\ \A s : SoundReq(s, T, U) => SoundReq(s, T1, U1)
         /\ \A e : SoundEntry(e, U) => SoundEntry(e, U1)
BY DEF SoundReq, SoundCascade, SoundEntry

\* An idle request says nothing.
LEMMA IdleSound ==
  SoundReq(Idle, tasks, used) /\ FreshReq(Idle, tasks, Invalidating)
BY DEF Idle, SoundReq, FreshReq

\* A step of one request that writes nothing and has no invalidation to make.
LEMMA OneRequest ==
  ASSUME TypeOK, ListInv, NEW r \in Request, ~At(r, "invalidate"),
         UNCHANGED <<tasks, used, l1, l2, events>>,
         \A q \in Request \ {r} : req'[q] = req[q],
         SoundReq(req'[r], tasks, used), FreshReq(req'[r], tasks, Invalidating)
  PROVE  ListInv'
<1>1. CascadeInv'
  <2>1. \A q \in Request : SoundReq(req'[q], tasks, used)
    BY DEF ListInv, CascadeInv
  <2> QED BY <2>1 DEF ListInv, CascadeInv
<1>2. Invalidating => Invalidating'
  BY DEF Invalidating, At
<1>3. FreshInv'
  <2>1. \A q \in Request : FreshReq(req'[q], tasks, Invalidating)
    BY DEF ListInv, FreshInv
  <2>2. \A q \in Request : FreshReq(req'[q], tasks', Invalidating')
    BY <1>2, <2>1 DEF FreshReq
  <2>3. \A p \in Process : FreshEntry(l1'[p], tasks', Invalidating' \/ p \in events')
    BY <1>2 DEF FreshEntry, ListInv, FreshInv
  <2>4. FreshEntry(l2', tasks', Invalidating')
    BY <1>2 DEF FreshEntry, ListInv, FreshInv
  <2> QED BY <2>2, <2>3, <2>4 DEF FreshInv
<1> QED BY <1>1, <1>3 DEF ListInv

\* A step that leaves the requests where they are.
LEMMA CacheOnly ==
  ASSUME TypeOK, ListInv, UNCHANGED <<tasks, used>>,
         \A q \in Request : req'[q] = req[q] \/ req'[q] = Overtaken(q),
         \A p \in Process : l1'[p] # None =>
           /\ l1[p] # None /\ l1'[p].page = l1[p].page
           /\ \/ l1'[p].page # tasks => l1'[p].missed
              \/ /\ l1'[p].missed = l1[p].missed
                 /\ p \in events => p \in events',
         l2' # None => l2 # None /\ l2'.page = l2.page /\ l2'.missed = l2.missed
  PROVE  ListInv'
<1>0. \A q \in Request : req'[q].pc = req[q].pc
  BY OvertakenType
<1>1. Invalidating' = Invalidating
  BY <1>0 DEF Invalidating, At
<1>2. CascadeInv'
  <2>1. ASSUME NEW q \in Request PROVE SoundReq(req'[q], tasks, used)
    <3>1. CASE req'[q] = req[q]
      BY <3>1 DEF ListInv, CascadeInv
    <3>2. CASE req'[q] = Overtaken(q) /\ Holding(q)
      BY <1>0, <3>2, OvertakenType DEF ListInv, CascadeInv, SoundReq, Holding
    <3> QED BY <3>1, <3>2, OvertakenType
  <2>2. \A p \in Process : SoundEntry(l1'[p], used)
    BY DEF ListInv, CascadeInv, SoundEntry
  <2>3. SoundEntry(l2', used)
    BY DEF ListInv, CascadeInv, SoundEntry
  <2> QED BY <2>1, <2>2, <2>3 DEF ListInv, CascadeInv
<1>3. FreshInv'
  <2>1. ASSUME NEW q \in Request PROVE FreshReq(req'[q], tasks, Invalidating)
    <3>1. CASE req'[q] = req[q]
      BY <3>1 DEF ListInv, FreshInv
    <3>2. CASE req'[q] = Overtaken(q) /\ Holding(q)
      BY <1>0, <3>2, OvertakenType DEF FreshReq, Holding
    <3> QED BY <3>1, <3>2, OvertakenType
  <2>2. \A p \in Process : FreshEntry(l1'[p], tasks, Invalidating \/ p \in events')
    BY DEF ListInv, FreshInv, FreshEntry
  <2>3. FreshEntry(l2', tasks, Invalidating)
    BY DEF ListInv, FreshInv, FreshEntry
  <2> QED BY <1>1, <2>1, <2>2, <2>3 DEF FreshInv
<1> QED BY <1>2, <1>3 DEF ListInv

-----------------------------------------------------------------------------
(* Every action keeps types and lists *)

GoodLists == TypeOK /\ ListInv

\* FindAll, from wherever it is called.
LEMMA FindAllKeeps ==
  ASSUME GoodLists, NEW r \in Request, NEW p \in Process,
         NEW then \in {"answer", "cascade"}, ~At(r, "invalidate"),
         FindAll(r, p, then), UNCHANGED sessions
  PROVE  GoodLists'
<1> DEFINE given(page) == [pc |-> "cascade", proc |-> p, todo |-> page, listed |-> page]
<1>0. TypeOK /\ ListInv
  BY DEF GoodLists
<1>1. /\ req' \in [Request -> RequestState]
      /\ \A q \in Request \ {r} : req'[q] = req[q]
      /\ UNCHANGED <<tasks, used, account, l1, l2, events>>
      /\ faults' \in 0..MaxFaults
      /\ \/ req'[r] = Idle
         \/ l1[p] # None /\ req'[r] = given(l1[p].page)
         \/ /\ l2 # None /\ req'[r].pc = "fill"
            /\ req'[r].page = l2.page /\ req'[r].missed = l2.missed
         \/ req'[r].pc = "fill" /\ req'[r].page = tasks
  BY <1>0, FindAllCases
<1>2. TypeOK'
  BY <1>0, <1>1 DEF TypeOK
<1>3. SoundReq(req'[r], tasks, used) /\ FreshReq(req'[r], tasks, Invalidating)
  <2>1. CASE req'[r] = Idle
    BY <2>1, IdleSound
  <2>2. CASE l1[p] # None /\ req'[r] = given(l1[p].page)
    <3>1. req'[r].pc = "cascade" /\ req'[r].listed = l1[p].page
          /\ req'[r].todo = l1[p].page
      BY <2>2
    <3>2. l1[p].page \subseteq used
      BY <1>0, <2>2 DEF ListInv, CascadeInv, SoundEntry
    <3> QED BY <3>1, <3>2 DEF SoundReq, SoundCascade, FreshReq
  <2>3. CASE /\ l2 # None /\ req'[r].pc = "fill"
             /\ req'[r].page = l2.page /\ req'[r].missed = l2.missed
    BY <1>0, <2>3 DEF ListInv, CascadeInv, SoundEntry, SoundReq,
                      FreshInv, FreshEntry, FreshReq
  <2>4. CASE req'[r].pc = "fill" /\ req'[r].page = tasks
    BY <1>0, <2>4 DEF ListInv, CascadeInv, SoundReq, FreshReq
  <2> QED BY <1>1, <2>1, <2>2, <2>3, <2>4
<1>4. ListInv'
  BY <1>0, <1>1, <1>3, OneRequest
<1> QED BY <1>2, <1>4 DEF GoodLists

\* A request that ends without writing, from anywhere but an invalidation.
LEMMA FinishKeeps ==
  ASSUME GoodLists, NEW r \in Request, ~At(r, "invalidate"), Finish(r),
         UNCHANGED <<tasks, used, l1, l2, events>>,
         account' \in BOOLEAN, sessions' \in BOOLEAN, faults' \in 0..MaxFaults
  PROVE  GoodLists'
<1>1. TypeOK /\ ListInv
  BY DEF GoodLists
<1>2. /\ req' \in [Request -> RequestState]
      /\ \A q \in Request \ {r} : req'[q] = req[q]
      /\ req'[r] = Idle
  BY <1>1, FinishType
<1>3. TypeOK'
  BY <1>1, <1>2 DEF TypeOK
<1>4. ListInv'
  BY <1>1, <1>2, IdleSound, OneRequest
<1> QED BY <1>3, <1>4 DEF GoodLists

\* Reads of the count, and the sessions at the end of a cascade.
LEMMA CountAndCloseKeep ==
  ASSUME GoodLists, NEW r \in Request,
         \/ \E p \in Process : ExportTasks(r, p) /\ UNCHANGED sessions
         \/ CloseSessions(r)
  PROVE  GoodLists'
<1>0. TypeOK /\ ListInv
  BY DEF GoodLists
<1>1. ASSUME NEW p \in Process, ExportTasks(r, p), UNCHANGED sessions PROVE GoodLists'
  <2> DEFINE s == [pc |-> "counted", proc |-> p]
  <2>1. s \in RequestState /\ s.pc = "counted"
    BY States
  <2>2. SoundReq(s, tasks, used) /\ FreshReq(s, tasks, Invalidating)
    BY DEF SoundReq, FreshReq
  <2>3. req' = [req EXCEPT ![r] = s] /\ ~At(r, "invalidate")
        /\ UNCHANGED <<tasks, used, account, l1, l2, events, faults>>
    BY <1>1 DEF ExportTasks, At, store, levels
  <2> HIDE DEF s
  <2>4. req' \in [Request -> RequestState] /\ req'[r] = s
        /\ \A q \in Request \ {r} : req'[q] = req[q]
    BY <1>0, <2>1, <2>3 DEF TypeOK
  <2>5. TypeOK'
    BY <1>0, <1>1, <2>3, <2>4 DEF TypeOK
  <2>6. ListInv'
    BY <1>0, <2>2, <2>3, <2>4, OneRequest
  <2> QED BY <2>5, <2>6 DEF GoodLists
<1>2. CASE CloseSessions(r)
  <2> DEFINE s == [pc |-> "user", listed |-> req[r].listed]
  <2>1. req[r] \in Cascade /\ req[r].pc = "cascade" /\ req[r].todo = {}
    BY <1>0, <1>2, Kinds DEF TypeOK, CloseSessions, At
  <2>2. s \in RequestState /\ s.pc = "user" /\ s.listed = req[r].listed
    BY <2>1, States DEF Cascade, UserState
  <2>3. SoundCascade(req[r], tasks, used)
    BY <1>0, <2>1 DEF ListInv, CascadeInv, SoundReq
  <2>4. SoundReq(s, tasks, used) /\ FreshReq(s, tasks, Invalidating)
    BY <2>1, <2>2, <2>3 DEF SoundReq, SoundCascade, FreshReq
  <2>5. req' = [req EXCEPT ![r] = s] /\ ~At(r, "invalidate") /\ sessions' = FALSE
        /\ UNCHANGED <<tasks, used, account, l1, l2, events, faults>>
    BY <1>2 DEF CloseSessions, At, store, levels
  <2> HIDE DEF s
  <2>6. req' \in [Request -> RequestState] /\ req'[r] = s
        /\ \A q \in Request \ {r} : req'[q] = req[q]
    BY <1>0, <2>2, <2>5 DEF TypeOK
  <2>7. TypeOK'
    BY <1>0, <2>5, <2>6 DEF TypeOK
  <2>8. ListInv'
    BY <1>0, <2>4, <2>5, <2>6, OneRequest
  <2> QED BY <2>7, <2>8 DEF GoodLists
<1> QED BY <1>1, <1>2

\* A held page is stored, and answered or worked through.
LEMMA FillKeeps ==
  ASSUME GoodLists, NEW r \in Request, Fill(r) \/ FillL1Only(r), UNCHANGED sessions
  PROVE  GoodLists'
<1> DEFINE p == req[r].proc
           given == [pc |-> "cascade", proc |-> p, todo |-> req[r].page,
                     listed |-> req[r].page]
<1>0. TypeOK /\ ListInv
  BY DEF GoodLists
<1>1. At(r, "fill") /\ Return(r, p, req[r].then, req[r].page)
      /\ UNCHANGED <<tasks, used, account, events>> /\ faults' \in 0..MaxFaults
  BY <1>0, TaskCacheAssumption DEF Fill, FillL1Only, store, Fail, TypeOK
<1>2. L1TTL \in 1..TTL /\ TTL \in 1..TTL
  BY TaskCacheAssumption
<1>3. req[r] \in FillState /\ p \in Process /\ req[r].page \in Page
      /\ req[r].then \in {"answer", "cascade"}
  BY <1>0, <1>1, <1>2, KeptType DEF FillState
<1>4. \A life \in 1..TTL : /\ Kept(r, life) \in Entry
                           /\ Kept(r, life).page = req[r].page
                           /\ Kept(r, life).missed = req[r].missed
  BY <1>0, <1>1, KeptType
<1>5. /\ req' \in [Request -> RequestState]
      /\ \A q \in Request \ {r} : req'[q] = req[q]
      /\ req'[r] = Idle \/ req'[r] = given
  BY <1>0, <1>1, <1>3, ReturnType
<1>6. l1' = [l1 EXCEPT ![p] = Kept(r, L1TTL)] /\ l2' \in {l2, Kept(r, TTL)}
  BY DEF Fill, FillL1Only
<1>7. TypeOK'
  BY <1>0, <1>1, <1>2, <1>4, <1>5, <1>6 DEF TypeOK
<1>8. req[r].page \subseteq used /\ FreshReq(req[r], tasks, Invalidating)
      /\ req[r].pc = "fill"
  BY <1>0, <1>1 DEF ListInv, CascadeInv, SoundReq, FreshInv, At
<1>9. SoundReq(req'[r], tasks, used) /\ FreshReq(req'[r], tasks, Invalidating)
  <2>1. given.pc = "cascade" /\ given.listed = req[r].page /\ given.todo = req[r].page
    OBVIOUS
  <2> HIDE DEF given
  <2>2. SoundReq(given, tasks, used) /\ FreshReq(given, tasks, Invalidating)
    BY <1>8, <2>1 DEF SoundReq, SoundCascade, FreshReq
  <2> QED BY <1>5, <2>2, IdleSound
<1>10. l1'[p] = Kept(r, L1TTL) /\ \A q \in Process \ {p} : l1'[q] = l1[q]
  BY <1>0, <1>3, <1>6 DEF TypeOK
<1> HIDE DEF p, given
<1>11. Invalidating => Invalidating'
  BY <1>1, <1>5 DEF Invalidating, At
<1>12. CascadeInv'
  <2>1. \A q \in Request : SoundReq(req'[q], tasks, used)
    BY <1>0, <1>5, <1>9 DEF ListInv, CascadeInv
  <2>2. \A q \in Process : SoundEntry(l1'[q], used)
    BY <1>0, <1>2, <1>4, <1>8, <1>10 DEF ListInv, CascadeInv, SoundEntry
  <2>3. SoundEntry(l2', used)
    BY <1>0, <1>2, <1>4, <1>6, <1>8 DEF ListInv, CascadeInv, SoundEntry
  <2> QED BY <1>0, <1>1, <2>1, <2>2, <2>3 DEF ListInv, CascadeInv
<1>13. FreshInv'
  <2>1. \A q \in Request : FreshReq(req'[q], tasks', Invalidating')
    <3>1. \A q \in Request : FreshReq(req'[q], tasks, Invalidating)
      BY <1>0, <1>5, <1>9 DEF ListInv, FreshInv
    <3> QED BY <1>1, <1>11, <3>1 DEF FreshReq
  <2>2. \A e : FreshEntry(e, tasks, Invalidating) => FreshEntry(e, tasks', Invalidating')
    BY <1>1, <1>11 DEF FreshEntry
  <2>3. \A life \in 1..TTL : FreshEntry(Kept(r, life), tasks, Invalidating)
    BY <1>4, <1>8 DEF FreshReq, FreshEntry
  <2>4. FreshEntry(l2', tasks', Invalidating')
    BY <1>0, <1>2, <1>6, <2>2, <2>3 DEF ListInv, FreshInv
  <2>5. \A q \in Process : FreshEntry(l1'[q], tasks', Invalidating' \/ q \in events')
    <3>1. ASSUME NEW q \in Process, q # p
          PROVE  FreshEntry(l1'[q], tasks', Invalidating' \/ q \in events')
      BY <1>0, <1>1, <1>10, <1>11, <3>1 DEF ListInv, FreshInv, FreshEntry
    <3>2. FreshEntry(l1'[p], tasks', Invalidating')
      BY <1>2, <1>10, <2>2, <2>3
    <3>3. FreshEntry(l1'[p], tasks', Invalidating' \/ p \in events')
      BY <3>2 DEF FreshEntry
    <3> QED BY <3>1, <3>3
  <2> QED BY <2>1, <2>4, <2>5 DEF FreshInv
<1> QED BY <1>7, <1>12, <1>13 DEF GoodLists, ListInv

\* A step that writes the table and has its invalidation still to make.
LEMMA WriteKeeps ==
  ASSUME GoodLists, NEW r \in Request, NEW p \in Process,
         NEW next \in {Idle} \cup Cascade,
         req' = [req EXCEPT ![r] = [pc |-> "invalidate", proc |-> p, next |-> next]],
         tasks' \in SUBSET Task, used' \in SUBSET Task,
         tasks' \cap used \subseteq tasks, used \subseteq used', tasks' \subseteq used',
         next.pc = "cascade" => SoundCascade(next, tasks', used'),
         UNCHANGED <<account, l1, l2, events, faults, sessions>>
  PROVE  GoodLists'
<1>0. TypeOK /\ ListInv
  BY DEF GoodLists
<1>1. /\ req' \in [Request -> RequestState]
      /\ \A q \in Request \ {r} : req'[q] = req[q]
      /\ req'[r].pc = "invalidate" /\ req'[r].next = next
  BY <1>0, WrittenType
<1>2. TypeOK'
  BY <1>0, <1>1 DEF TypeOK
<1>3. Invalidating'
  BY <1>1 DEF Invalidating, At
<1>4. FreshInv'
  BY <1>3 DEF FreshInv, FreshReq, FreshEntry
<1>5. CascadeInv'
  <2>1. \A s : SoundReq(s, tasks, used) => SoundReq(s, tasks', used')
    BY SoundKept
  <2>2. \A e : SoundEntry(e, used) => SoundEntry(e, used')
    BY SoundKept
  <2>3. SoundReq(req'[r], tasks', used')
    BY <1>1 DEF SoundReq
  <2>4. \A q \in Request : SoundReq(req'[q], tasks', used')
    BY <1>0, <1>1, <2>1, <2>3 DEF ListInv, CascadeInv
  <2> QED BY <1>0, <2>2, <2>4 DEF ListInv, CascadeInv
<1> QED BY <1>2, <1>4, <1>5 DEF GoodLists, ListInv

\* The writes of clients and of the cascade.
LEMMA WritesKeep ==
  ASSUME GoodLists, NEW r \in Request,
         \/ \E p \in Process : Write(r, p) /\ UNCHANGED sessions
         \/ CascadeDelete(r)
  PROVE  GoodLists'
<1>0. TypeOK /\ ListInv /\ tasks \subseteq used /\ Idle.pc # "cascade"
  BY DEF GoodLists, ListInv, CascadeInv, Idle
<1>1. ASSUME NEW p \in Process, Create(r, p), UNCHANGED sessions PROVE GoodLists'
  <2> DEFINE t == Min(Task \ used)
  <2>1. t \in Task \ used
    <3>1. IsFiniteSet(Task \ used) /\ Task \ used \in SUBSET Nat
      BY TaskCacheAssumption, FS_Subset
    <3> QED BY <1>1, <3>1, MinIsMember DEF Create
  <2>2. tasks' = tasks \cup {t} /\ used' = used \cup {t} /\ Written(r, p)
        /\ UNCHANGED <<account, l1, l2, events, faults>>
    BY <1>1 DEF Create, levels
  <2> HIDE DEF t
  <2>3. tasks' \in SUBSET Task /\ used' \in SUBSET Task /\ tasks' \cap used \subseteq tasks
        /\ used \subseteq used' /\ tasks' \subseteq used'
    BY <1>0, <2>1, <2>2 DEF TypeOK
  <2> QED BY <1>0, <1>1, <2>2, <2>3, WriteKeeps DEF Written
<1>2. ASSUME NEW p \in Process, Update(r, p), UNCHANGED sessions PROVE GoodLists'
  <2>1. UNCHANGED <<tasks, used, account, l1, l2, events, faults>> /\ Written(r, p)
    BY <1>2 DEF Update, store, levels
  <2> QED BY <1>0, <1>2, <2>1, WriteKeeps DEF Written, TypeOK
<1>3. ASSUME NEW p \in Process, NEW t \in Task, Delete(r, p, t), UNCHANGED sessions
      PROVE  GoodLists'
  <2>1. tasks' = tasks \ {t} /\ Written(r, p)
        /\ UNCHANGED <<used, account, l1, l2, events, faults>>
    BY <1>3 DEF Delete, levels
  <2> QED BY <1>0, <1>3, <2>1, WriteKeeps DEF Written, TypeOK
<1>4. CASE CascadeDelete(r)
  <2> DEFINE next == [req[r] EXCEPT !.todo = @ \ {Oldest(r)}]
  <2>1. req[r] \in Cascade /\ req[r].pc = "cascade"
    BY <1>0, <1>4, Kinds DEF TypeOK, CascadeDelete, At
  <2>2. next \in Cascade /\ next.listed = req[r].listed
        /\ next.todo = req[r].todo \ {Oldest(r)} /\ req[r].proc \in Process
    BY <2>1 DEF Cascade
  <2>3. SoundCascade(req[r], tasks, used)
    BY <1>0, <2>1 DEF ListInv, CascadeInv, SoundReq
  <2>4. tasks' = tasks \ {Oldest(r)}
        /\ UNCHANGED <<used, account, l1, l2, events, faults, sessions>>
        /\ req' = [req EXCEPT ![r] = [pc |-> "invalidate", proc |-> req[r].proc,
                                      next |-> next]]
    BY <1>4 DEF CascadeDelete, levels
  <2> HIDE DEF next
  <2>5. SoundCascade(next, tasks', used')
    BY <2>2, <2>3, <2>4 DEF SoundCascade
  <2> QED BY <1>0, <2>2, <2>4, <2>5, WriteKeeps DEF TypeOK
<1> QED BY <1>1, <1>2, <1>3, <1>4 DEF Write

\* An invalidation, made, failed or never made: what it does not reach is
\* marked or will hear of it.
LEMMA InvalidationKeeps ==
  ASSUME GoodLists, NEW r \in Request, At(r, "invalidate"),
         NEW next \in {req[r].next, Idle},
         req' = [q \in Request |-> IF q = r THEN next ELSE Overtaken(q)],
         UNCHANGED <<tasks, used, account, sessions>>, faults' \in 0..MaxFaults,
         events' \in SUBSET Process, events \subseteq events',
         l1' \in [Process -> Entry \cup {None}],
         \A p \in Process :
           l1'[p] # None => /\ l1[p] # None /\ l1'[p].page = l1[p].page
                            /\ (l1'[p].page # tasks => l1'[p].missed) \/ p \in events',
         l2' = None \/ l2' = Missed(l2)
  PROVE  GoodLists'
<1>0. TypeOK /\ ListInv
  BY DEF GoodLists
<1>1. req[r] \in InvalidateState
  BY <1>0, Kinds DEF TypeOK, At
<1>2. next \in {Idle} \cup Cascade
  BY <1>1 DEF InvalidateState
<1>3. next \in RequestState
  BY <1>2, States
<1>4. \A q \in Request : Overtaken(q) \in RequestState
  BY <1>0, OvertakenType
<1>5. req' \in [Request -> RequestState]
  BY <1>3, <1>4
<1>6. l2' \in Entry \cup {None}
      /\ (l2' # None => /\ l2 # None /\ l2'.page = l2.page
                        /\ l2'.page # tasks => l2'.missed)
  BY <1>0, EntryMoves DEF TypeOK
<1>7. TypeOK'
  BY <1>0, <1>5, <1>6 DEF TypeOK
<1>8. ASSUME NEW q \in Request
      PROVE  SoundReq(req'[q], tasks, used) /\ FreshReq(req'[q], tasks, FALSE)
  <2>1. CASE q = r /\ next = Idle
    BY <2>1, IdleSound DEF FreshReq, Idle
  <2>2. CASE q = r /\ next # Idle
    <3>1. next \in Cascade /\ next = req[r].next
      BY <1>2, <2>2
    <3>2. next.pc = "cascade"
      BY <3>1 DEF Cascade
    <3>3. SoundCascade(next, tasks, used)
      BY <1>0, <3>1, <3>2 DEF ListInv, CascadeInv, SoundReq, At
    <3>4. req'[q] = next
      BY <2>2
    <3> QED BY <3>2, <3>3, <3>4 DEF SoundReq, FreshReq
  <2>3. CASE q # r /\ Holding(q)
    <3>1. req'[q] = Overtaken(q) /\ req[q].pc = "fill"
      BY <2>3 DEF Holding
    <3>2. req'[q].pc = "fill" /\ req'[q].page = req[q].page
          /\ (req'[q].page # tasks => req'[q].missed)
      BY <1>0, <2>3, <3>1, OvertakenType
    <3>3. req[q].page \subseteq used
      BY <1>0, <3>1 DEF ListInv, CascadeInv, SoundReq
    <3> QED BY <3>2, <3>3 DEF SoundReq, FreshReq
  <2>4. CASE q # r /\ ~Holding(q)
    <3>1. req'[q] = req[q]
      BY <1>0, <2>4, OvertakenType
    <3> QED BY <1>0, <2>4, <3>1 DEF ListInv, CascadeInv, FreshReq, Holding
  <2> QED BY <2>1, <2>2, <2>3, <2>4
<1>9. CascadeInv'
  <2>1. \A p \in Process : SoundEntry(l1'[p], used)
    BY <1>0 DEF ListInv, CascadeInv, SoundEntry
  <2>2. SoundEntry(l2', used)
    BY <1>0, <1>6 DEF ListInv, CascadeInv, SoundEntry
  <2> QED BY <1>0, <1>8, <2>1, <2>2 DEF ListInv, CascadeInv
<1>10. FreshInv'
  <2>1. \A q \in Request : FreshReq(req'[q], tasks', Invalidating')
    BY <1>8 DEF FreshReq
  <2>2. \A p \in Process : FreshEntry(l1'[p], tasks', Invalidating' \/ p \in events')
    BY DEF FreshEntry
  <2>3. FreshEntry(l2', tasks', Invalidating')
    BY <1>6 DEF FreshEntry
  <2> QED BY <2>1, <2>2, <2>3 DEF FreshInv
<1> QED BY <1>7, <1>9, <1>10 DEF GoodLists, ListInv

\* Invalidate, InvalidationFails, and Abort at that point.
LEMMA InvalidationsKeep ==
  ASSUME GoodLists, NEW r \in Request, At(r, "invalidate"),
         \/ (Invalidate(r) \/ InvalidationFails(r)) /\ UNCHANGED sessions
         \/ Abort(r)
  PROVE  GoodLists'
<1>0. TypeOK /\ req[r] \in InvalidateState
  BY Kinds DEF GoodLists, TypeOK, At
<1>1. req[r].proc \in Process
  BY <1>0 DEF InvalidateState
<1>2. \A p \in Process :
        /\ Missed(l1[p]) \in Entry \cup {None}
        /\ Missed(l1[p]) # None => /\ l1[p] # None /\ Missed(l1[p]).page = l1[p].page
                                   /\ Missed(l1[p]).page # tasks => Missed(l1[p]).missed
  BY <1>0, EntryMoves DEF TypeOK
<1>3. Fail => faults' \in 0..MaxFaults
  BY <1>0, TaskCacheAssumption DEF Fail, TypeOK
<1>4. CASE Invalidate(r) /\ UNCHANGED sessions
  <2>1. /\ l1' = [l1 EXCEPT ![req[r].proc] = None] /\ l2' = None
        /\ events' = events \cup (Process \ {req[r].proc})
        /\ req' = [q \in Request |-> IF q = r THEN req[r].next ELSE Overtaken(q)]
        /\ UNCHANGED <<tasks, used, account, faults, sessions>>
    BY <1>4 DEF Invalidate, store
  <2>2. events' \in SUBSET Process /\ l1' \in [Process -> Entry \cup {None}]
        /\ faults' \in 0..MaxFaults
    BY <1>0, <2>1 DEF TypeOK
  <2>3. \A p \in Process : l1'[p] # None => p # req[r].proc /\ l1'[p] = l1[p] /\ p \in events'
    BY <1>0, <1>1, <2>1 DEF TypeOK
  <2> QED BY <2>1, <2>2, <2>3, InvalidationKeeps
<1>5. CASE InvalidationFails(r) /\ UNCHANGED sessions
  <2>1. /\ l1' = [p \in Process |-> IF p = req[r].proc THEN None ELSE Missed(l1[p])]
        /\ l2' = Missed(l2) /\ events' = events
        /\ req' = [q \in Request |-> IF q = r THEN req[r].next ELSE Overtaken(q)]
        /\ UNCHANGED <<tasks, used, account, sessions>> /\ faults' \in 0..MaxFaults
    BY <1>3, <1>5 DEF InvalidationFails, store
  <2>2. events' \in SUBSET Process /\ l1' \in [Process -> Entry \cup {None}]
    BY <1>0, <1>2, <2>1 DEF TypeOK
  <2>3. \A p \in Process : l1'[p] # None => l1'[p] = Missed(l1[p])
    BY <2>1
  <2>4. \A p \in Process :
          l1'[p] # None => /\ l1[p] # None /\ l1'[p].page = l1[p].page
                           /\ l1'[p].page # tasks => l1'[p].missed
    BY <1>2, <2>3
  <2> QED BY <2>1, <2>2, <2>4, InvalidationKeeps
<1>6. CASE Abort(r)
  <2>1. /\ l1' = [p \in Process |-> Missed(l1[p])]
        /\ l2' = Missed(l2) /\ events' = events
        /\ req' = [q \in Request |-> IF q = r THEN Idle ELSE Overtaken(q)]
        /\ UNCHANGED <<tasks, used, account, sessions>> /\ faults' \in 0..MaxFaults
    BY <1>3, <1>6 DEF Abort, store
  <2>2. events' \in SUBSET Process /\ l1' \in [Process -> Entry \cup {None}]
    BY <1>0, <1>2, <2>1 DEF TypeOK
  <2>3. \A p \in Process : l1'[p] = Missed(l1[p])
    BY <2>1
  <2>4. \A p \in Process :
          l1'[p] # None => /\ l1[p] # None /\ l1'[p].page = l1[p].page
                           /\ l1'[p].page # tasks => l1'[p].missed
    BY <1>2, <2>3
  <2> QED BY <2>1, <2>2, <2>4, InvalidationKeeps
<1> QED BY <1>4, <1>5, <1>6

\* Events, evictions and time.
LEMMA EnvironmentKeeps == GoodLists /\ Environment => GoodLists'
<1> SUFFICES ASSUME GoodLists, Environment PROVE GoodLists'
  OBVIOUS
<1>0. TypeOK /\ ListInv /\ UNCHANGED sessions
  BY DEF GoodLists, Environment
<1>1. ASSUME NEW p \in Process, Receive(p) PROVE GoodLists'
  <2>1. /\ l1' = [l1 EXCEPT ![p] = None] /\ events' = events \ {p}
        /\ UNCHANGED <<tasks, used, account, l2, req, faults>>
    BY <1>1 DEF Receive, store
  <2>3. TypeOK'
    BY <1>0, <2>1 DEF TypeOK
  <2>4. \A q \in Process : l1'[q] # None => q # p /\ l1'[q] = l1[q]
    BY <1>0, <2>1 DEF TypeOK
  <2>5. ListInv'
    BY <1>0, <2>1, <2>4, CacheOnly
  <2> QED BY <2>3, <2>5 DEF GoodLists
<1>2. ASSUME NEW p \in Process, LoseEvent(p) PROVE GoodLists'
  <2>1. /\ l1' = [l1 EXCEPT ![p] = Missed(l1[p])] /\ events' = events \ {p}
        /\ UNCHANGED <<tasks, used, account, l2, req>>
    BY <1>2 DEF LoseEvent, store
  <2>2. /\ Missed(l1[p]) \in Entry \cup {None}
        /\ Missed(l1[p]) # None => /\ l1[p] # None /\ Missed(l1[p]).page = l1[p].page
                                   /\ Missed(l1[p]).page # tasks => Missed(l1[p]).missed
    BY <1>0, EntryMoves DEF TypeOK
  <2>3. faults' \in 0..MaxFaults
    BY <1>0, <1>2, TaskCacheAssumption DEF LoseEvent, Fail, TypeOK
  <2>4. TypeOK'
    BY <1>0, <2>1, <2>2, <2>3 DEF TypeOK
  <2>5. l1'[p] = Missed(l1[p]) /\ \A q \in Process \ {p} : l1'[q] = l1[q]
    BY <1>0, <2>1 DEF TypeOK
  <2>6. ListInv'
    BY <1>0, <2>1, <2>2, <2>5, CacheOnly
  <2> QED BY <2>4, <2>6 DEF GoodLists
<1>3. CASE Evict
  <2>1. l2' = None /\ UNCHANGED <<tasks, used, account, l1, events, req, faults>>
    BY <1>3 DEF Evict, store
  <2>2. TypeOK'
    BY <1>0, <2>1 DEF TypeOK
  <2>3. ListInv'
    BY <1>0, <2>1, CacheOnly
  <2> QED BY <2>2, <2>3 DEF GoodLists
<1>4. CASE Tick
  <2>1. /\ l1' = [p \in Process |-> Later(l1[p])] /\ l2' = Later(l2)
        /\ UNCHANGED <<tasks, used, account, events, req, faults>>
    BY <1>4 DEF Tick, store
  <2>2. \A p \in Process :
          /\ l1'[p] \in Entry \cup {None}
          /\ l1'[p] # None => /\ l1[p] # None /\ l1'[p].page = l1[p].page
                              /\ l1'[p].missed = l1[p].missed
    BY <1>0, <2>1, EntryMoves DEF TypeOK
  <2>3. l2' \in Entry \cup {None}
        /\ (l2' # None => l2 # None /\ l2'.page = l2.page /\ l2'.missed = l2.missed)
    BY <1>0, <2>1, EntryMoves DEF TypeOK
  <2>4. TypeOK'
    BY <1>0, <2>1, <2>2, <2>3 DEF TypeOK
  <2>5. ListInv'
    BY <1>0, <2>1, <2>2, <2>3, CacheOnly
  <2> QED BY <2>4, <2>5 DEF GoodLists
<1> QED BY <1>1, <1>2, <1>3, <1>4 DEF Environment

\* Every step keeps types and lists.
LEMMA ListStep == GoodLists /\ [Next]_vars => GoodLists'
<1> SUFFICES ASSUME GoodLists, [Next]_vars PROVE GoodLists'
  OBVIOUS
<1>0. TypeOK /\ Client \subseteq Request /\ Deleter \subseteq Request
  BY DEF GoodLists, Request
<1>1. ASSUME NEW r \in Client, ClientStep(r) PROVE GoodLists'
  <2>1. ASSUME NEW p \in Process, ListTasks(r, p) PROVE GoodLists'
    <3>1. FindAll(r, p, "answer") /\ ~At(r, "invalidate") /\ UNCHANGED sessions
      BY <1>1, <2>1 DEF ListTasks, At, ClientStep
    <3> QED BY <1>0, <3>1, FindAllKeeps
  <2> QED BY <1>0, <1>1, <2>1, CountAndCloseKeep, WritesKeep DEF ClientStep
<1>2. ASSUME NEW r \in Deleter, Deletion(r) PROVE GoodLists'
  <2>1. ASSUME NEW p \in Process, BeginDelete(r, p) PROVE GoodLists'
    <3>1. FindAll(r, p, "cascade") /\ ~At(r, "invalidate") /\ UNCHANGED sessions
      BY <2>1 DEF BeginDelete, At
    <3> QED BY <1>0, <3>1, FindAllKeeps
  <2>2. CASE CascadeStops(r) \/ DeleteFails(r) \/ DeleteUser(r) \/ DeleteUserRefused(r)
    <3>1. ~At(r, "invalidate") /\ Finish(r) /\ UNCHANGED <<tasks, used, l1, l2, events>>
      BY <2>2 DEF CascadeStops, DeleteFails, DeleteUser, DeleteUserRefused, At, store, levels
    <3>2. account' \in BOOLEAN /\ sessions' \in BOOLEAN
      BY <1>0, <2>2 DEF CascadeStops, DeleteFails, DeleteUser, DeleteUserRefused, store, TypeOK
    <3>3. faults' \in 0..MaxFaults
      BY <1>0, <2>2, TaskCacheAssumption
         DEF CascadeStops, DeleteFails, DeleteUser, DeleteUserRefused, Fail, TypeOK
    <3> QED BY <1>0, <3>1, <3>2, <3>3, FinishKeeps
  <2> QED BY <1>0, <1>2, <2>1, <2>2, WritesKeep, CountAndCloseKeep DEF Deletion
<1>3. ASSUME NEW r \in Request, CacheStep(r) PROVE GoodLists'
  <2>1. CASE ExportCounted(r)
    <3>1. req[r].proc \in Process
      BY <1>0, <2>1, Kinds DEF TypeOK, ExportCounted, At
    <3>2. FindAll(r, req[r].proc, "answer") /\ ~At(r, "invalidate") /\ UNCHANGED sessions
      BY <1>3, <2>1 DEF ExportCounted, At, CacheStep
    <3> QED BY <3>1, <3>2, FindAllKeeps
  <2>2. CASE Invalidate(r) \/ InvalidationFails(r)
    BY <1>3, <2>2, InvalidationsKeep DEF CacheStep, Invalidate, InvalidationFails
  <2> QED BY <1>3, <2>1, <2>2, FillKeeps DEF CacheStep
<1>4. ASSUME NEW r \in Request, Abort(r) PROVE GoodLists'
  <2>1. CASE At(r, "invalidate")
    BY <1>4, <2>1, InvalidationsKeep
  <2>2. CASE ~At(r, "invalidate")
    <3>1. Finish(r) /\ UNCHANGED <<tasks, used, account, l1, l2, events, sessions>>
      BY <1>4, <2>2 DEF Abort, store
    <3>2. faults' \in 0..MaxFaults
      BY <1>0, <1>4, TaskCacheAssumption DEF Abort, Fail, TypeOK
    <3> QED BY <1>0, <2>2, <3>1, <3>2, FinishKeeps DEF TypeOK
  <2> QED BY <2>1, <2>2
<1>5. CASE Login \/ UNCHANGED vars
  <2>1. UNCHANGED <<tasks, used, account, l1, l2, events, req, faults>>
        /\ sessions' \in BOOLEAN
    BY <1>0, <1>5 DEF Login, vars, store, levels, TypeOK
  <2>2. TypeOK'
    BY <1>0, <2>1 DEF TypeOK
  <2>3. ListInv'
    BY <2>1 DEF GoodLists, ListInv, CascadeInv, FreshInv, Invalidating, At
  <2> QED BY <2>2, <2>3 DEF GoodLists
<1> QED BY <1>1, <1>2, <1>3, <1>4, <1>5, EnvironmentKeeps DEF Next

\* Types and lists are good from the start.
LEMMA ListInit == Init => GoodLists
<1> SUFFICES ASSUME Init PROVE GoodLists
  OBVIOUS
<1>1. TypeOK
  BY States, TaskCacheAssumption DEF Init, TypeOK
<1>2. \A q \in Request : req[q] = Idle
  BY DEF Init
<1>3. CascadeInv
  BY <1>2 DEF Init, CascadeInv, SoundReq, SoundEntry, Idle
<1>4. FreshInv
  BY <1>2 DEF Init, FreshInv, FreshReq, FreshEntry, Idle
<1> QED BY <1>1, <1>3, <1>4 DEF GoodLists, ListInv

\* Types and lists are always good.
LEMMA ListInvariant == Spec => []GoodLists
BY ListInit, ListStep, PTL DEF Spec

-----------------------------------------------------------------------------
(* The theorems *)

\* Every variable keeps its type.
THEOREM TypeCorrect == Spec => []TypeOK
<1>1. GoodLists => TypeOK
  BY DEF GoodLists
<1> QED BY <1>1, ListInvariant, PTL

\* deleteAccountCascade reaches DeleteAccount, which removes the sessions, only
\* when none of the tasks it listed is left, however stale the list and
\* whatever other requests do meanwhile.
THEOREM CascadeFinishesFirst == Spec => []StoppedCascade
<1>1. GoodLists => StoppedCascade
  BY DEF GoodLists, ListInv, CascadeInv, SoundReq, StoppedCascade, At
<1> QED BY <1>1, ListInvariant, PTL

\* Every cached list that differs from the table is about to be retired or was
\* missed by an invalidation that failed, was lost or came too early: nothing
\* else makes CachedRepository stale.
THEOREM StaleListsExplained == Spec => []StaleExplained
<1>1. GoodLists => StaleExplained
  BY DEF GoodLists, ListInv, FreshInv, FreshEntry, StaleExplained, Explained
<1> QED BY <1>1, ListInvariant, PTL

\* An account that is gone has no task and no session, whatever the cascade
\* overlooked: the foreign key of tasks makes DeleteUser notice.
THEOREM NothingIsLeft == Spec => []NothingLeft
<1>1. Init => NothingLeft
  BY DEF Init, NothingLeft
<1>2. NothingLeft /\ [Next]_vars => NothingLeft'
  <2> SUFFICES ASSUME NothingLeft, [Next]_vars PROVE NothingLeft'
    OBVIOUS
  <2>1. ASSUME NEW r \in Client, ClientStep(r) PROVE NothingLeft'
    BY <2>1 DEF NothingLeft, ClientStep, ListTasks, ExportTasks, FindAll, Write, Create,
                Update, Delete, store
  <2>2. ASSUME NEW r \in Deleter, Deletion(r) PROVE NothingLeft'
    BY <2>2 DEF NothingLeft, Deletion, BeginDelete, FindAll, CascadeDelete, CascadeStops,
                DeleteFails, CloseSessions, DeleteUser, DeleteUserRefused, NoTasksLeft, store
  <2>3. ASSUME NEW r \in Request, CacheStep(r) \/ Abort(r) PROVE NothingLeft'
    BY <2>3 DEF NothingLeft, CacheStep, Abort, ExportCounted, FindAll, Fill, FillL1Only,
                Invalidate, InvalidationFails, store
  <2>4. CASE Environment
    BY <2>4 DEF NothingLeft, Environment, Receive, LoseEvent, Evict, Tick, store
  <2>5. CASE Login \/ UNCHANGED vars
    BY <2>5 DEF NothingLeft, Login, vars, store
  <2> QED BY <2>1, <2>2, <2>3, <2>4, <2>5 DEF Next
<1> QED BY <1>1, <1>2, PTL DEF Spec
=============================================================================
