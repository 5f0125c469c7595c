--------------------------- MODULE SessionsProofs ---------------------------
(***************************************************************************)
(* Proofs about Sessions, for every number of users, tokens, replicas and  *)
(* requests and every value of the limits.                                 *)
(***************************************************************************)
EXTENDS Sessions, FiniteSetTheorems, TLAPS

-----------------------------------------------------------------------------
(* Type correctness *)

\* Deleting rows leaves a table of sessions and a time for every token.
LEMMA DeleteRowsType ==
  ASSUME NEW rows, TypeOK, DeleteRows(rows)
  PROVE  sessions' \subseteq Session /\ goneAt' \in [Token -> Nat]
BY DEF TypeOK, DeleteRows

\* The fields of a request.
LEMMA RequestFields ==
  ASSUME TypeOK, NEW p \in Request
  PROVE  /\ req[p] \in ValidRequest
         /\ req[p].pc \in PC
         /\ req[p].replica \in Replica \cup {None}
         /\ req[p].session \in Carried
         /\ req[p].auth \in Nat
         /\ req[p].readAt \in Nat
         /\ req[p].victims \subseteq Session
BY DEF TypeOK, ValidRequest, RequestState

\* An idle request is a valid one.
LEMMA IdleValid == Idle \in ValidRequest
BY DEF Idle, NoSession, ValidRequest, RequestState, Carried, PC

\* A request past RequireAuth is a valid one.
LEMMA AuthorisedValid ==
  ASSUME NEW r \in Replica, NEW t \in Token, NEW u \in User
  PROVE  Authorised(r, t, u) \in ValidRequest
BY DEF Authorised, Identity, Idle, NoSession, ValidRequest, RequestState,
       Carried, PC

\* Replacing one request by a valid one keeps the requests valid.
LEMMA UpdateValid ==
  ASSUME TypeOK, NEW p \in Request, NEW q \in ValidRequest,
         req' = [req EXCEPT ![p] = q]
  PROVE  req' \in [Request -> ValidRequest]
BY DEF TypeOK

\* A request that only moves on to another call stays valid.
LEMMA GotoValid ==
  ASSUME TypeOK, NEW p \in Request, NEW label \in PC, Goto(p, label),
         req[p].pc \notin {"idle", "authenticated"}
  PROVE  req' \in [Request -> ValidRequest]
<1> DEFINE q == [req[p] EXCEPT !.pc = label]
<1>1. q \in ValidRequest
  BY RequestFields DEF ValidRequest, RequestState
<1>2. req' = [req EXCEPT ![p] = q]
  BY DEF Goto
<1> QED BY <1>1, <1>2, UpdateValid

\* A finished revocation recorded keeps the record's type.
LEMMA RevokedType ==
  ASSUME TypeOK, NEW r \in Replica, NEW tokens \in SUBSET Token,
         Revoked(r, tokens)
  PROVE  revocations' \in [Replica -> SUBSET Revocation]
<1>1. ASSUME NEW t \in tokens
      PROVE  [hash |-> t, overlapped |-> Validating(r, t)] \in Revocation
  BY DEF Revocation, Validating
<1> QED BY <1>1 DEF TypeOK, Revoked

\* A step of a login keeps every type.
LEMMA LoginType ==
  ASSUME TypeOK, NEW p \in Request, Login(p)
  PROVE  TypeOK'
<1> USE ConstantsAssumption, RequestFields DEF At
<1>1. ASSUME NEW r \in Replica, NEW u \in User, Authenticate(p, r, u)
      PROVE  TypeOK'
  <2> DEFINE q == [Idle EXCEPT !.pc = "authenticated", !.replica = r,
                               !.session = [NoSession EXCEPT !.user = u],
                               !.auth = password[u]]
  <2>1. q \in ValidRequest
    BY DEF TypeOK, Idle, NoSession, ValidRequest, RequestState, Carried, PC
  <2>2. req' \in [Request -> ValidRequest]
    BY <1>1, <2>1, UpdateValid DEF Authenticate
  <2> QED BY <1>1, <2>2 DEF TypeOK, Authenticate, table, history
<1>2. ASSUME NEW t \in Token, MintToken(p, t) PROVE TypeOK'
  <2> DEFINE s == [hash |-> t, user |-> req[p].session.user,
                   createdAt |-> now, expiresAt |-> now + SessionTTL]
             q == [req[p] EXCEPT !.pc = "minted", !.auth = 0, !.session = s]
  <2>1. req[p].session.user \in User
    BY <1>2 DEF MintToken, ValidRequest
  <2>2. s \in Carried
    BY <2>1 DEF TypeOK, Carried
  <2>3. q \in ValidRequest /\ req' = [req EXCEPT ![p] = q]
    <3>1. req[p] \in RequestState
      BY DEF ValidRequest
    <3>2. req' = [req EXCEPT ![p] = q]
      BY <1>2 DEF MintToken
    <3>3. q \in RequestState
      <4> HIDE DEF s
      <4> QED BY <2>2, <3>1 DEF RequestState, PC
    <3>4. q.session = s /\ q.pc = "minted" /\ q.replica = req[p].replica
      BY <3>1 DEF RequestState
    <3>5. req[p].replica \in Replica
      BY <1>2 DEF MintToken, ValidRequest
    <3>6. s.user \in User /\ s.hash \in Token
      BY <2>1
    <3> HIDE DEF q, s
    <3> QED BY <3>2, <3>3, <3>4, <3>5, <3>6 DEF ValidRequest
  <2>4. req' \in [Request -> ValidRequest]
    BY <2>3, UpdateValid
  <2> QED BY <1>2, <2>4 DEF TypeOK, MintToken, table
<1>3. CASE InsertSession(p)
  BY <1>3, GotoValid DEF TypeOK, InsertSession, PC, table, history
<1>4. CASE EvictOldest(p)
  <2> DEFINE mine == RowsOfUser(req[p].session.user) \cup {req[p].session}
  <2>1. PICK keep \in KeepNewest(mine) :
           req' = [req EXCEPT ![p].pc = "evicted", ![p].victims = mine \ keep]
    BY <1>4 DEF EvictOldest
  <2>2. req[p].session \in Session
    BY <1>4 DEF EvictOldest, ValidRequest, Carried, Session
  <2>3. mine \ keep \subseteq Session
    BY <2>2 DEF TypeOK, RowsOfUser, SessionsOf
  <2> DEFINE q == [req[p] EXCEPT !.pc = "evicted", !.victims = mine \ keep]
  <2>4. q \in ValidRequest
    BY <1>4, <2>3 DEF EvictOldest, ValidRequest, RequestState, PC
  <2>5. req' \in [Request -> ValidRequest]
    <3> HIDE DEF mine
    <3>1. req' = [req EXCEPT ![p] = q]
      BY <2>1
    <3> QED BY <3>1, <2>4, UpdateValid
  <2> QED BY <1>4, <2>5 DEF TypeOK, EvictOldest, table, history
<1>5. CASE CommitSession(p)
  <2>1. req[p].session \in Session
    BY <1>5 DEF CommitSession, ValidRequest, Carried, Session
  <2>2. req' \in [Request -> ValidRequest]
    BY <1>5, IdleValid, UpdateValid DEF CommitSession, Finish
  <2> QED BY <1>5, <2>1, <2>2 DEF TypeOK, CommitSession
<1> QED BY <1>1, <1>2, <1>3, <1>4, <1>5 DEF Login

\* A step of ValidateToken keeps every type.
LEMMA ValidateTokenType ==
  ASSUME TypeOK, NEW p \in Request, ValidateToken(p)
  PROVE  TypeOK'
<1> USE ConstantsAssumption, RequestFields DEF At
<1>1. ASSUME NEW r \in Replica, NEW t \in Token, ValidateHit(p, r, t)
      PROVE  TypeOK'
  <2>1. PICK e \in Hits(r, t) :
           req' = [req EXCEPT ![p] = Authorised(r, t, e.user)]
    BY <1>1 DEF ValidateHit
  <2>2. e.user \in User
    BY DEF TypeOK, Hits, CacheEntry
  <2>3. req' \in [Request -> ValidRequest]
    BY <2>1, <2>2, AuthorisedValid, UpdateValid
  <2> QED BY <1>1, <2>3 DEF TypeOK, ValidateHit, table, history
<1>2. ASSUME NEW r \in Replica, NEW t \in Token, ValidateMiss(p, r, t)
      PROVE  TypeOK'
  <2> DEFINE q(s) == [Idle EXCEPT !.pc = "found", !.replica = r,
                                  !.session = s, !.readAt = now]
  <2>1. PICK s \in RowsWithHash(t) : req' = [req EXCEPT ![p] = q(s)]
    BY <1>2 DEF ValidateMiss
  <2>2. s \in Session
    BY DEF TypeOK, RowsWithHash
  <2>3. q(s) \in ValidRequest
    BY <2>2 DEF TypeOK, Session, Idle, ValidRequest, RequestState, Carried, PC
  <2>4. req' \in [Request -> ValidRequest]
    BY <2>1, <2>3, UpdateValid
  <2> QED BY <1>2, <2>4 DEF TypeOK, ValidateMiss, table, history
<1>3. CASE ValidateExpired(p)
  <2>1. req' \in [Request -> ValidRequest]
    BY <1>3, IdleValid, UpdateValid DEF ValidateExpired, Finish
  <2> QED BY <1>3, <2>1, DeleteRowsType DEF TypeOK, ValidateExpired
<1>4. CASE ValidateFresh(p)
  BY <1>4, GotoValid DEF TypeOK, ValidateFresh, PC, table, history
<1>5. CASE ValidateStore(p)
  <2> DEFINE s == req[p].session
             r == req[p].replica
             e == [hash |-> s.hash, user |-> s.user,
                   expiresAt |-> now + TokenCacheTTL, until |-> s.expiresAt]
  <2>1. s \in Session /\ r \in Replica
    BY <1>5 DEF ValidateStore, ValidRequest, Carried, Session
  <2>2. e \in CacheEntry
    BY <2>1 DEF TypeOK, Session, CacheEntry
  <2>3. tokenCache' \in [Replica -> SUBSET CacheEntry]
    BY <1>5, <2>1, <2>2 DEF TypeOK, ValidateStore, Cached
  <2>4. req' \in [Request -> ValidRequest]
    <3>1. Authorised(r, s.hash, s.user) \in ValidRequest
      BY <2>1, AuthorisedValid DEF Session
    <3> QED BY <1>5, <3>1, UpdateValid DEF ValidateStore
  <2> QED BY <1>5, <2>3, <2>4 DEF TypeOK, ValidateStore, table, history
<1> QED BY <1>1, <1>2, <1>3, <1>4, <1>5 DEF ValidateToken

\* A step that also records which rows it selected keeps the requests valid.
LEMMA SelectValid ==
  ASSUME TypeOK, NEW p \in Request, NEW label \in PC,
         NEW rows \in SUBSET Session, NEW n \in Nat,
         req[p].pc \notin {"idle", "authenticated"}
  PROVE  [req[p] EXCEPT !.pc = label, !.victims = rows, !.auth = n]
            \in ValidRequest
BY RequestFields DEF ValidRequest, RequestState

\* A step of an authenticated handler keeps every type.
LEMMA HandlerType ==
  ASSUME TypeOK, NEW p \in Request, Handler(p)
  PROVE  TypeOK'
<1> USE RequestFields DEF At
<1> DEFINE s == req[p].session
           r == req[p].replica
<1>0. Hashes(req[p].victims) \subseteq Token
  BY DEF Hashes, Session
<1>1. CASE OtherRoute(p)
  BY <1>1, IdleValid, UpdateValid DEF TypeOK, OtherRoute, Finish, table, history
<1>2. CASE Logout(p)
  BY <1>2, DeleteRowsType, GotoValid DEF TypeOK, Logout, Goto, PC
<1>3. CASE ForgetToken(p)
  <2>1. r \in Replica /\ s.hash \in Token
    BY <1>3 DEF ForgetToken, ValidRequest
  <2>2. revocations' \in [Replica -> SUBSET Revocation]
    BY <1>3, <2>1, RevokedType DEF ForgetToken
  <2>3. req' \in [Request -> ValidRequest]
    BY <1>3, IdleValid, UpdateValid DEF ForgetToken, Finish
  <2> QED BY <1>3, <2>1, <2>2, <2>3 DEF TypeOK, ForgetToken, Without, table
<1>4. ASSUME NEW row \in sessions, RevokeSession(p, row) PROVE TypeOK'
  <2> DEFINE q == [req[p] EXCEPT !.pc = "revoking", !.session = row]
  <2>1. row \in Session
    BY DEF TypeOK
  <2>2. q \in ValidRequest
    BY <1>4, <2>1 DEF RevokeSession, Session, ValidRequest, RequestState,
                      Carried, PC
  <2>3. req' \in [Request -> ValidRequest]
    <3>1. req' = [req EXCEPT ![p] = q]
      BY <1>4 DEF RevokeSession
    <3> HIDE DEF q
    <3> QED BY <2>2, <3>1, UpdateValid
  <2> QED BY <1>4, <2>3 DEF TypeOK, RevokeSession, table, history
<1>5. CASE DeleteRevoked(p)
  BY <1>5, DeleteRowsType, GotoValid DEF TypeOK, DeleteRevoked, Goto, PC
<1>6. CASE LogoutAll(p)
  <2> DEFINE q == [req[p] EXCEPT !.pc = "revokedAll",
                                 !.victims = RowsOfUser(s.user)]
  <2>1. q \in ValidRequest
    BY <1>6 DEF TypeOK, LogoutAll, RowsOfUser, SessionsOf, ValidRequest,
                RequestState, PC
  <2>2. req' \in [Request -> ValidRequest]
    <3>1. req' = [req EXCEPT ![p] = q]
      BY <1>6 DEF LogoutAll
    <3> HIDE DEF q
    <3> QED BY <2>1, <3>1, UpdateValid
  <2> QED BY <1>6, <2>2, DeleteRowsType DEF TypeOK, LogoutAll
<1>7. CASE ForgetUser(p)
  <2>1. r \in Replica
    BY <1>7 DEF ForgetUser, ValidRequest
  <2>2. revocations' \in [Replica -> SUBSET Revocation]
    BY <1>0, <1>7, <2>1, RevokedType DEF ForgetUser
  <2>3. req' \in [Request -> ValidRequest]
    BY <1>7, IdleValid, UpdateValid DEF ForgetUser, Finish
  <2> QED BY <1>7, <2>1, <2>2, <2>3 DEF TypeOK, ForgetUser, WithoutUser, table
<1>8. CASE VerifyForChange(p)
  BY <1>8, GotoValid DEF TypeOK, VerifyForChange, PC, table, history
<1>9. CASE UpdateUserPassword(p)
  <2> DEFINE q == [req[p] EXCEPT !.pc = "rotatedPassword",
                                 !.auth = password[s.user] + 1]
  <2>1. s.user \in User
    BY <1>9 DEF UpdateUserPassword, ValidRequest
  <2>2. q \in ValidRequest
    <3>1. password[s.user] + 1 \in Nat
      BY <2>1 DEF TypeOK
    <3> QED BY <1>9, <3>1 DEF UpdateUserPassword, ValidRequest, RequestState, PC
  <2>3. req' \in [Request -> ValidRequest]
    <3>1. req' = [req EXCEPT ![p] = q]
      BY <1>9 DEF UpdateUserPassword
    <3> HIDE DEF q
    <3> QED BY <2>2, <3>1, UpdateValid
  <2> QED BY <1>9, <2>1, <2>3 DEF TypeOK, UpdateUserPassword, history
<1>10. CASE RevokeOthers(p)
  <2> DEFINE others == RowsOfUserExcept(s.user, s.hash)
             q == [req[p] EXCEPT !.pc = "keptOne", !.victims = others,
                                 !.auth = 0]
  <2>1. s.user \in User /\ s.hash \in Token
    BY <1>10 DEF RevokeOthers, ValidRequest
  <2>2. others \in SUBSET Session
    BY DEF TypeOK, RowsOfUserExcept, SessionsOf
  <2>3. q \in ValidRequest
    BY <1>10, <2>2, SelectValid DEF RevokeOthers, PC
  <2>4. req' \in [Request -> ValidRequest]
    <3>1. req' = [req EXCEPT ![p] = q]
      BY <1>10 DEF RevokeOthers
    <3> HIDE DEF q
    <3> QED BY <2>3, <3>1, UpdateValid
  <2> QED BY <1>10, <2>1, <2>4, DeleteRowsType DEF TypeOK, RevokeOthers
<1>11. CASE ForgetOthers(p)
  <2>1. r \in Replica
    BY <1>11 DEF ForgetOthers, ValidRequest
  <2>2. revocations' \in [Replica -> SUBSET Revocation]
    BY <1>0, <1>11, <2>1, RevokedType DEF ForgetOthers
  <2>3. req' \in [Request -> ValidRequest]
    BY <1>11, IdleValid, UpdateValid DEF ForgetOthers, Finish
  <2> QED BY <1>11, <2>1, <2>2, <2>3
          DEF TypeOK, ForgetOthers, WithoutUserExcept, table
<1>12. CASE VerifyForDelete(p)
  BY <1>12, GotoValid DEF TypeOK, VerifyForDelete, PC, table, history
<1>13. CASE CloseSessions(p)
  <2> DEFINE q == [req[p] EXCEPT !.pc = "closingRevoked",
                                 !.victims = RowsOfUser(s.user)]
  <2>1. q \in ValidRequest
    BY <1>13 DEF TypeOK, CloseSessions, RowsOfUser, SessionsOf, ValidRequest,
                 RequestState, PC
  <2>2. req' \in [Request -> ValidRequest]
    <3>1. req' = [req EXCEPT ![p] = q]
      BY <1>13 DEF CloseSessions
    <3> HIDE DEF q
    <3> QED BY <2>1, <3>1, UpdateValid
  <2> QED BY <1>13, <2>2, DeleteRowsType DEF TypeOK, CloseSessions
<1>14. CASE CloseForget(p)
  <2> DEFINE q == [req[p] EXCEPT !.pc = "closingForgotten", !.victims = {}]
  <2>1. r \in Replica
    BY <1>14 DEF CloseForget, ValidRequest
  <2>2. revocations' \in [Replica -> SUBSET Revocation]
    BY <1>0, <1>14, <2>1, RevokedType DEF CloseForget
  <2>3. q \in ValidRequest
    BY <1>14 DEF CloseForget, ValidRequest, RequestState, PC
  <2>4. req' \in [Request -> ValidRequest]
    <3>1. req' = [req EXCEPT ![p] = q]
      BY <1>14 DEF CloseForget
    <3> HIDE DEF q
    <3> QED BY <2>3, <3>1, UpdateValid
  <2> QED BY <1>14, <2>1, <2>2, <2>4 DEF TypeOK, CloseForget, WithoutUser, table
<1>15. CASE DeleteUser(p)
  <2>1. req' \in [Request -> ValidRequest]
    BY <1>15, IdleValid, UpdateValid DEF DeleteUser, Finish
  <2> QED BY <1>15, <2>1, DeleteRowsType DEF TypeOK, DeleteUser
<1> QED BY <1>1, <1>2, <1>3, <1>4, <1>5, <1>6, <1>7, <1>8, <1>9, <1>10, <1>11,
           <1>12, <1>13, <1>14, <1>15 DEF Handler

\* Every step keeps every type.
LEMMA TypeStep == TypeOK /\ [Next]_vars => TypeOK'
<1> SUFFICES ASSUME TypeOK, [Next]_vars PROVE TypeOK'
  OBVIOUS
<1>1. ASSUME NEW u \in User, Register(u) PROVE TypeOK'
  BY <1>1 DEF TypeOK, Register, history
<1>2. ASSUME NEW p \in Request, Abort(p) PROVE TypeOK'
  BY <1>2, IdleValid, UpdateValid DEF TypeOK, Abort, Finish, table, history
<1>3. ASSUME NEW r \in Replica, Prune(r) PROVE TypeOK'
  BY <1>3, DeleteRowsType DEF TypeOK, Prune, Swept
<1>4. ASSUME NEW r \in Replica, Restart(r) PROVE TypeOK'
  BY <1>4, IdleValid DEF TypeOK, Restart, table, history
<1>5. CASE Tick
  BY <1>5 DEF TypeOK, Tick, table, history
<1>6. CASE UNCHANGED vars
  BY <1>6 DEF TypeOK, vars
<1> QED BY <1>1, <1>2, <1>3, <1>4, <1>5, <1>6, LoginType, ValidateTokenType,
           HandlerType DEF Next

\* Every variable keeps its type: in particular a request past RequireAuth
\* always acts for a user and a token, never for nobody.
THEOREM TypeCorrect == Spec => []TypeOK
<1>1. Init => TypeOK
  BY IdleValid DEF Init, TypeOK
<1> QED BY <1>1, TypeStep, PTL DEF Spec

-----------------------------------------------------------------------------
(* How long a token outlives its session *)

\* A request between reading a row and caching it: it has not been there for
\* longer than MaxLatency, and if the row is gone it went after the read.
InFlightInv ==
  \A p \in Request : req[p].pc \in {"found", "fresh"} =>
    /\ req[p].readAt <= now
    /\ now <= req[p].readAt + MaxLatency
    /\ \/ req[p].session.hash \in Hashes(sessions)
       \/ req[p].readAt <= goneAt[req[p].session.hash]
    /\ req[p].pc = "fresh" => req[p].readAt <= req[p].session.expiresAt

\* An entry's window ends at most TokenCacheTTL from now and, measured from
\* the end of its session, at most MaxLatency + TokenCacheTTL later.
EntryInv ==
  \A r \in Replica : \A e \in tokenCache[r] :
    /\ e.expiresAt <= now + TokenCacheTTL
    /\ e.expiresAt <= e.until + MaxLatency + TokenCacheTTL
    /\ \/ e.hash \in Hashes(sessions)
       \/ e.expiresAt <= goneAt[e.hash] + MaxLatency + TokenCacheTTL

StaleInv == InFlightInv /\ EntryInv

\* What a step does to the table, as far as one token can tell: the token is
\* in it afterwards, or went at this moment, or had gone before.
TableEffect(t) ==
  \/ t \in Hashes(sessions')
  \/ goneAt'[t] = now
  \/ t \notin Hashes(sessions) /\ goneAt'[t] = goneAt[t]

\* What a step does to a request that carries a row afterwards: it has just
\* read it, or carried it already.
RequestEffect(p) ==
  req'[p].pc \in {"found", "fresh"} =>
    \/ /\ req'[p].pc = "found"
       /\ req'[p].readAt = now
       /\ req'[p].session.hash \in Hashes(sessions)
       /\ UNCHANGED <<sessions, goneAt>>
    \/ /\ req[p].pc \in {"found", "fresh"}
       /\ req'[p].readAt = req[p].readAt
       /\ req'[p].session = req[p].session
       /\ \/ req'[p].pc = req[p].pc
          \/ now <= req[p].session.expiresAt

\* What a step does to a cache: each entry was there, or is the one a request
\* that just validated its row stores.
CacheEffect(r) ==
  \A e \in tokenCache'[r] :
    \/ e \in tokenCache[r]
    \/ /\ UNCHANGED <<sessions, goneAt>>
       /\ \E p \in Request : /\ req[p].pc = "fresh"
                              /\ e.hash = req[p].session.hash
                              /\ e.until = req[p].session.expiresAt
                              /\ e.expiresAt = now + TokenCacheTTL

\* Deleting rows has the effect above on every token.
LEMMA DeleteRowsEffect ==
  ASSUME NEW rows, DeleteRows(rows), NEW t \in Token
  PROVE  TableEffect(t)
BY DEF DeleteRows, TableEffect, Hashes

\* Every step has that effect on every token.
LEMMA TableStep ==
  ASSUME TypeOK, [Next]_vars, NEW t \in Token
  PROVE  TableEffect(t)
<1>1. ASSUME UNCHANGED <<sessions, goneAt>> PROVE TableEffect(t)
  BY <1>1 DEF TableEffect
<1>2. ASSUME NEW p \in Request, Login(p) PROVE TableEffect(t)
  <2>1. CASE CommitSession(p)
    BY <2>1 DEF CommitSession, TableEffect, Hashes
  <2> QED BY <1>1, <1>2, <2>1
          DEF Login, Authenticate, MintToken, InsertSession, EvictOldest,
              table, history
<1>3. ASSUME NEW p \in Request, ValidateToken(p) PROVE TableEffect(t)
  <2>1. CASE ValidateExpired(p)
    BY <2>1, DeleteRowsEffect DEF ValidateExpired
  <2> QED BY <1>1, <1>3, <2>1
          DEF ValidateToken, ValidateHit, ValidateMiss, ValidateFresh,
              ValidateStore, table, history
<1>4. ASSUME NEW p \in Request, Handler(p) PROVE TableEffect(t)
  <2>1. CASE Logout(p) \/ DeleteRevoked(p) \/ LogoutAll(p) \/ CloseSessions(p)
    BY <2>1, DeleteRowsEffect
       DEF Logout, DeleteRevoked, LogoutAll, CloseSessions
  <2>2. CASE RevokeOthers(p) \/ DeleteUser(p)
    BY <2>2, DeleteRowsEffect DEF RevokeOthers, DeleteUser
  <2>3. CASE OtherRoute(p) \/ ForgetToken(p) \/ ForgetUser(p)
             \/ (\E s \in sessions : RevokeSession(p, s))
    BY <1>1, <2>3
       DEF OtherRoute, ForgetToken, ForgetUser, RevokeSession, table, history
  <2>4. CASE VerifyForChange(p) \/ UpdateUserPassword(p) \/ ForgetOthers(p)
             \/ VerifyForDelete(p) \/ CloseForget(p)
    BY <1>1, <2>4
       DEF VerifyForChange, UpdateUserPassword, ForgetOthers, VerifyForDelete,
           CloseForget, table, history
  <2> QED BY <1>4, <2>1, <2>2, <2>3, <2>4 DEF Handler
<1>5. ASSUME NEW r \in Replica, Prune(r) PROVE TableEffect(t)
  <2>1. UNCHANGED <<sessions, goneAt>> \/ \E rows : DeleteRows(rows)
    BY <1>5 DEF Prune
  <2> QED BY <1>1, <2>1, DeleteRowsEffect
<1> QED BY <1>1, <1>2, <1>3, <1>4, <1>5
        DEF Next, Register, Abort, Restart, Tick, table, history, vars

\* Every step has that effect on every request.
LEMMA RequestStep ==
  ASSUME TypeOK, [Next]_vars, NEW p \in Request
  PROVE  RequestEffect(p)
<1> USE DEF At, TypeOK
<1>1. ASSUME req'[p] = req[p] PROVE RequestEffect(p)
  BY <1>1 DEF RequestEffect
<1>2. ASSUME req'[p].pc \notin {"found", "fresh"} PROVE RequestEffect(p)
  BY <1>2 DEF RequestEffect
<1>3. ASSUME NEW q \in Request, Login(q) PROVE RequestEffect(p)
  <2>1. ASSUME NEW r \in Replica, NEW u \in User, Authenticate(q, r, u)
        PROVE  RequestEffect(p)
    BY <1>1, <1>2, <2>1 DEF Authenticate, Idle
  <2>2. ASSUME NEW t \in Token, MintToken(q, t) PROVE RequestEffect(p)
    BY <1>1, <1>2, <2>2 DEF MintToken, ValidRequest, RequestState
  <2>3. CASE InsertSession(q)
    BY <1>1, <1>2, <2>3 DEF InsertSession, Goto, ValidRequest, RequestState
  <2>4. CASE EvictOldest(q)
    BY <1>1, <1>2, <2>4 DEF EvictOldest, ValidRequest, RequestState
  <2>5. CASE CommitSession(q)
    BY <1>1, <1>2, <2>5 DEF CommitSession, Finish, Idle
  <2> QED BY <1>3, <2>1, <2>2, <2>3, <2>4, <2>5 DEF Login
<1>4. ASSUME NEW q \in Request, ValidateToken(q) PROVE RequestEffect(p)
  <2>1. CASE q # p
    BY <1>1, <1>4, <2>1
       DEF ValidateToken, ValidateHit, ValidateMiss, ValidateExpired,
           ValidateFresh, ValidateStore, Goto, Finish
  <2>2. ASSUME NEW r \in Replica, NEW t \in Token, ValidateMiss(p, r, t)
        PROVE  RequestEffect(p)
    BY <2>2 DEF ValidateMiss, RequestEffect, RowsWithHash, Hashes, Idle, table,
                history
  <2>3. CASE ValidateFresh(p)
    BY <2>3 DEF ValidateFresh, Unexpired, Goto, RequestEffect, ValidRequest,
                RequestState
  <2>4. ASSUME NEW r \in Replica, NEW t \in Token, ValidateHit(p, r, t)
        PROVE  RequestEffect(p)
    BY <1>2, <2>4 DEF ValidateHit, Authorised, Idle
  <2>5. CASE ValidateExpired(p)
    BY <1>2, <2>5 DEF ValidateExpired, Finish, Idle
  <2>6. CASE ValidateStore(p)
    <3>1. req'[p] = Authorised(req[p].replica, req[p].session.hash,
                               req[p].session.user)
      BY <2>6 DEF ValidateStore
    <3>2. req'[p].pc = "authorised"
      BY <3>1 DEF Authorised, Idle
    <3> QED BY <1>2, <3>2
  <2> QED BY <1>4, <2>1, <2>2, <2>3, <2>4, <2>5, <2>6 DEF ValidateToken
<1>5. ASSUME NEW q \in Request, Handler(q) PROVE RequestEffect(p)
  <2>1. CASE OtherRoute(q) \/ Logout(q) \/ ForgetToken(q) \/ DeleteRevoked(q)
             \/ LogoutAll(q) \/ ForgetUser(q)
    BY <1>1, <1>2, <2>1
       DEF OtherRoute, Logout, ForgetToken, DeleteRevoked, LogoutAll,
           ForgetUser, Goto, Finish, Idle, ValidRequest, RequestState
  <2>2. ASSUME NEW s \in sessions, RevokeSession(q, s) PROVE RequestEffect(p)
    BY <1>1, <1>2, <2>2 DEF RevokeSession, ValidRequest, RequestState
  <2>3. CASE VerifyForChange(q) \/ UpdateUserPassword(q) \/ RevokeOthers(q)
             \/ ForgetOthers(q)
    BY <1>1, <1>2, <2>3
       DEF VerifyForChange, UpdateUserPassword, RevokeOthers, ForgetOthers,
           Goto, Finish, Idle, ValidRequest, RequestState
  <2>4. CASE VerifyForDelete(q) \/ CloseSessions(q) \/ CloseForget(q)
             \/ DeleteUser(q)
    BY <1>1, <1>2, <2>4
       DEF VerifyForDelete, CloseSessions, CloseForget, DeleteUser, Goto,
           Finish, Idle, ValidRequest, RequestState
  <2> QED BY <1>5, <2>1, <2>2, <2>3, <2>4 DEF Handler
<1>6. ASSUME NEW q \in Request, Abort(q) PROVE RequestEffect(p)
  BY <1>1, <1>2, <1>6 DEF Abort, Finish, Idle
<1>7. ASSUME NEW r \in Replica, Restart(r) PROVE RequestEffect(p)
  BY <1>1, <1>2, <1>7 DEF Restart, Idle
<1> QED BY <1>1, <1>3, <1>4, <1>5, <1>6, <1>7
        DEF Next, Register, Prune, Tick, vars

\* Every step has that effect on every cache.
LEMMA CacheStep ==
  ASSUME TypeOK, [Next]_vars, NEW r \in Replica
  PROVE  CacheEffect(r)
<1> USE DEF TypeOK, At
<1>1. ASSUME tokenCache'[r] \subseteq tokenCache[r] PROVE CacheEffect(r)
  BY <1>1 DEF CacheEffect
<1>2. ASSUME NEW p \in Request, Login(p) PROVE CacheEffect(r)
  BY <1>1, <1>2 DEF Login, Authenticate, MintToken, InsertSession, EvictOldest,
                    CommitSession
<1>3. ASSUME NEW p \in Request, ValidateToken(p) PROVE CacheEffect(r)
  <2>1. CASE ValidateStore(p)
    <3>1. tokenCache'[r] \subseteq
             tokenCache[r] \cup {[hash |-> req[p].session.hash,
                                  user |-> req[p].session.user,
                                  expiresAt |-> now + TokenCacheTTL,
                                  until |-> req[p].session.expiresAt]}
      BY <2>1 DEF ValidateStore, Cached
    <3> QED BY <2>1, <3>1 DEF ValidateStore, CacheEffect, table, history
  <2> QED BY <1>1, <1>3, <2>1
          DEF ValidateToken, ValidateHit, ValidateMiss, ValidateExpired,
              ValidateFresh
<1>4. ASSUME NEW p \in Request, Handler(p) PROVE CacheEffect(r)
  <2>1. CASE ForgetToken(p) \/ ForgetUser(p) \/ ForgetOthers(p)
             \/ CloseForget(p)
    BY <1>1, <2>1 DEF ForgetToken, ForgetUser, ForgetOthers, CloseForget,
                      Without, WithoutUser, WithoutUserExcept
  <2>2. CASE OtherRoute(p) \/ Logout(p) \/ DeleteRevoked(p) \/ LogoutAll(p)
             \/ (\E s \in sessions : RevokeSession(p, s))
    BY <1>1, <2>2
       DEF OtherRoute, Logout, DeleteRevoked, LogoutAll, RevokeSession
  <2>3. CASE VerifyForChange(p) \/ UpdateUserPassword(p) \/ RevokeOthers(p)
             \/ VerifyForDelete(p) \/ CloseSessions(p) \/ DeleteUser(p)
    BY <1>1, <2>3 DEF VerifyForChange, UpdateUserPassword, RevokeOthers,
                      VerifyForDelete, CloseSessions, DeleteUser
  <2> QED BY <1>4, <2>1, <2>2, <2>3 DEF Handler
<1>5. ASSUME NEW q \in Replica, Prune(q) \/ Restart(q) PROVE CacheEffect(r)
  BY <1>1, <1>5 DEF Prune, Restart, Swept
<1> QED BY <1>1, <1>2, <1>3, <1>4, <1>5 DEF Next, Register, Abort, Tick, vars

\* The clock moves only by Tick, which spares requests in flight.
LEMMA ClockStep ==
  ASSUME TypeOK, [Next]_vars
  PROVE  \/ now' = now
         \/ now' = now + 1 /\ UNCHANGED <<sessions, goneAt, tokenCache, req>>
            /\ \A p \in Request : req[p].pc \in {"found", "fresh"} =>
                                     now < req[p].readAt + MaxLatency
<1>1. ASSUME NEW p \in Request, Login(p) \/ ValidateToken(p) PROVE now' = now
  BY <1>1 DEF Login, Authenticate, MintToken, InsertSession, EvictOldest,
              CommitSession, ValidateToken, ValidateHit, ValidateMiss,
              ValidateExpired, ValidateFresh, ValidateStore
<1>2. ASSUME NEW p \in Request, Handler(p) PROVE now' = now
  BY <1>2 DEF Handler, OtherRoute, Logout, ForgetToken, RevokeSession,
              DeleteRevoked, LogoutAll, ForgetUser, VerifyForChange,
              UpdateUserPassword, RevokeOthers, ForgetOthers, VerifyForDelete,
              CloseSessions, CloseForget, DeleteUser
<1>3. CASE Tick
  BY <1>3 DEF Tick, table, history
<1> QED BY <1>1, <1>2, <1>3 DEF Next, Register, Abort, Prune, Restart, vars

\* The inductive step: what requests in flight carry and what caches hold
\* stays within its bounds.
LEMMA StaleStep ==
  ASSUME TypeOK, TypeOK', StaleInv, [Next]_vars
  PROVE  StaleInv'
<1> USE ConstantsAssumption
<1>1. InFlightInv'
  <2> SUFFICES ASSUME NEW p \in Request, req'[p].pc \in {"found", "fresh"}
               PROVE  /\ req'[p].readAt <= now'
                      /\ now' <= req'[p].readAt + MaxLatency
                      /\ \/ req'[p].session.hash \in Hashes(sessions')
                         \/ req'[p].readAt <= goneAt'[req'[p].session.hash]
                      /\ req'[p].pc = "fresh" =>
                            req'[p].readAt <= req'[p].session.expiresAt
    BY DEF InFlightInv, Hashes
  <2>1. /\ now \in Nat /\ req[p].readAt \in Nat /\ req'[p].readAt \in Nat
        /\ req[p].session.expiresAt \in Nat
        /\ req'[p].session.hash \in Token
        /\ \A t \in Token : goneAt[t] \in Nat /\ goneAt'[t] \in Nat
    BY DEF TypeOK, ValidRequest, RequestState, Carried
  <2>2. RequestEffect(p) /\ TableEffect(req'[p].session.hash)
    BY <2>1, RequestStep, TableStep
  <2>3. CASE now' = now
    BY <2>1, <2>2, <2>3 DEF RequestEffect, TableEffect, StaleInv, InFlightInv
  <2>4. CASE now' = now + 1 /\ UNCHANGED <<sessions, goneAt, tokenCache, req>>
             /\ \A q \in Request : req[q].pc \in {"found", "fresh"} =>
                                      now < req[q].readAt + MaxLatency
    BY <2>1, <2>4 DEF StaleInv, InFlightInv
  <2> QED BY <2>3, <2>4, ClockStep
<1>2. EntryInv'
  <2> SUFFICES ASSUME NEW r \in Replica, NEW e \in tokenCache'[r]
               PROVE  /\ e.expiresAt <= now' + TokenCacheTTL
                      /\ e.expiresAt <= e.until + MaxLatency + TokenCacheTTL
                      /\ \/ e.hash \in Hashes(sessions')
                         \/ e.expiresAt <=
                              goneAt'[e.hash] + MaxLatency + TokenCacheTTL
    BY DEF EntryInv, Hashes
  <2>1. /\ now \in Nat /\ e.expiresAt \in Nat /\ e.until \in Nat
        /\ e.hash \in Token /\ now' \in Nat
        /\ \A t \in Token : goneAt[t] \in Nat /\ goneAt'[t] \in Nat
    BY DEF TypeOK, CacheEntry
  <2>2. CacheEffect(r) /\ TableEffect(e.hash)
    BY <2>1, CacheStep, TableStep
  <2>3. now <= now'
    BY <2>1, ClockStep
  <2>4. CASE e \in tokenCache[r]
    BY <2>1, <2>2, <2>3, <2>4 DEF TableEffect, StaleInv, EntryInv
  <2>5. CASE e \notin tokenCache[r]
    <3>1. /\ UNCHANGED <<sessions, goneAt>>
          /\ \E p \in Request : /\ req[p].pc = "fresh"
                                 /\ e.hash = req[p].session.hash
                                 /\ e.until = req[p].session.expiresAt
                                 /\ e.expiresAt = now + TokenCacheTTL
      BY <2>2, <2>5 DEF CacheEffect
    <3>2. PICK p \in Request : /\ req[p].pc = "fresh"
                               /\ e.hash = req[p].session.hash
                               /\ e.until = req[p].session.expiresAt
                               /\ e.expiresAt = now + TokenCacheTTL
      BY <3>1
    <3>3. req[p].readAt \in Nat
      BY DEF TypeOK, ValidRequest, RequestState
    <3> QED BY <2>1, <2>3, <3>1, <3>2, <3>3 DEF StaleInv, InFlightInv
  <2> QED BY <2>4, <2>5
<1> QED BY <1>1, <1>2 DEF StaleInv

\* The age of what is in flight and in the caches stays bounded.
LEMMA StaleAlways == Spec => [](TypeOK /\ StaleInv)
<1>1. Init => StaleInv
  BY DEF Init, StaleInv, InFlightInv, EntryInv, Idle
<1>2. TypeOK /\ StaleInv /\ [Next]_vars => StaleInv'
  BY TypeStep, StaleStep
<1> QED BY <1>1, <1>2, TypeCorrect, TypeStep, PTL DEF Spec

\* A revoked token is refused by every replica MaxLatency + TokenCacheTTL
\* after its row went.
THEOREM StaleTokensDie == Spec => []RevocationBound
<1>1. TypeOK /\ StaleInv => RevocationBound
  <2> SUFFICES ASSUME TypeOK, StaleInv PROVE RevocationBound
    OBVIOUS
  <2>1. ASSUME NEW r \in Replica, NEW e \in tokenCache[r]
        PROVE  e.expiresAt \in Nat /\ goneAt[e.hash] \in Nat
    BY DEF TypeOK, CacheEntry
  <2> QED BY <2>1, ConstantsAssumption
          DEF TypeOK, StaleInv, EntryInv, RevocationBound, Hits, Valid
<1> QED BY <1>1, StaleAlways, PTL

\* An expired token is refused by every replica MaxLatency + TokenCacheTTL
\* after its expiry, although a cache hit never looks at ExpiresAt.
THEOREM ExpiredTokensDie == Spec => []ExpiryBound
<1>1. TypeOK /\ StaleInv => ExpiryBound
  <2> SUFFICES ASSUME TypeOK, StaleInv PROVE ExpiryBound
    OBVIOUS
  <2>1. ASSUME NEW r \in Replica, NEW e \in tokenCache[r]
        PROVE  e.expiresAt \in Nat /\ e.until \in Nat
    BY DEF TypeOK, CacheEntry
  <2> QED BY <2>1, ConstantsAssumption
          DEF TypeOK, StaleInv, EntryInv, ExpiryBound, Valid
<1> QED BY <1>1, StaleAlways, PTL

-----------------------------------------------------------------------------
(* The session cap and the owner of a session *)

InsideTransaction(p) == req[p].pc \in {"inserted", "evicted"}

\* The advisory lock: at most one CreateSession transaction per user.
LockInv ==
  \A p, q \in Request :
    /\ InsideTransaction(p)
    /\ InsideTransaction(q)
    /\ req[p].session.user = req[q].session.user
    => p = q

\* What a user would own if p committed now.
AfterCommit(p) ==
  (SessionsOf(sessions, req[p].session.user) \cup {req[p].session})
    \ req[p].victims

\* A transaction past its eviction may commit: others only delete rows.
RoomInv ==
  \A p \in Request :
    req[p].pc = "evicted" => Cardinality(AfterCommit(p)) <= MaxSessions

CapInv == IsFiniteSet(sessions) /\ SessionCap /\ LockInv /\ RoomInv

\* A row being inserted keeps its user's row from being deleted.
OwnerInv ==
  /\ SessionsHaveUsers
  /\ \A p \in Request : InsideTransaction(p) => req[p].session.user \in users

\* What a step does to the transactions: each one open afterwards was open
\* before, or has just begun, or has just evicted.
TransactionEffect(p) ==
  req'[p].pc \in {"inserted", "evicted"} =>
    \/ req'[p] = req[p]
    \/ InsertSession(p) /\ req'[p].pc = "inserted"
       /\ req'[p].session = req[p].session
       /\ \A q \in Request \ {p} : req'[q] = req[q]
    \/ EvictOldest(p) /\ req'[p].session = req[p].session
       /\ \A q \in Request \ {p} : req'[q] = req[q]

\* Every step has that effect on every transaction.
LEMMA TransactionStep ==
  ASSUME TypeOK, [Next]_vars, NEW p \in Request
  PROVE  TransactionEffect(p)
<1> USE DEF At, TypeOK
<1>1. ASSUME req'[p] = req[p] PROVE TransactionEffect(p)
  BY <1>1 DEF TransactionEffect
<1>2. ASSUME req'[p].pc \notin {"inserted", "evicted"}
      PROVE  TransactionEffect(p)
  BY <1>2 DEF TransactionEffect
<1>3. ASSUME NEW q \in Request, Login(q) PROVE TransactionEffect(p)
  <2>1. ASSUME NEW r \in Replica, NEW u \in User, Authenticate(q, r, u)
        PROVE  TransactionEffect(p)
    BY <1>1, <1>2, <2>1 DEF Authenticate, Idle
  <2>2. ASSUME NEW t \in Token, MintToken(q, t) PROVE TransactionEffect(p)
    BY <1>1, <1>2, <2>2 DEF MintToken, ValidRequest, RequestState
  <2>3. CASE InsertSession(q)
    <3>1. CASE q = p
      <4>1. /\ req'[p].pc = "inserted" /\ req'[p].session = req[p].session
            /\ \A o \in Request \ {p} : req'[o] = req[o]
        BY <2>3, <3>1 DEF InsertSession, Goto, ValidRequest, RequestState
      <4> QED BY <2>3, <3>1, <4>1 DEF TransactionEffect
    <3> QED BY <1>1, <2>3, <3>1 DEF InsertSession, Goto
  <2>4. CASE EvictOldest(q)
    <3>1. CASE q = p
      <4>1. /\ req'[p].session = req[p].session
            /\ \A o \in Request \ {p} : req'[o] = req[o]
        BY <2>4, <3>1 DEF EvictOldest, ValidRequest, RequestState
      <4> QED BY <2>4, <3>1, <4>1 DEF TransactionEffect
    <3> QED BY <1>1, <2>4, <3>1 DEF EvictOldest
  <2>5. CASE CommitSession(q)
    BY <1>1, <1>2, <2>5 DEF CommitSession, Finish, Idle
  <2> QED BY <1>3, <2>1, <2>2, <2>3, <2>4, <2>5 DEF Login
<1>4. ASSUME NEW q \in Request, ValidateToken(q) PROVE TransactionEffect(p)
  <2>1. ASSUME NEW r \in Replica, NEW t \in Token,
               ValidateHit(q, r, t) \/ ValidateMiss(q, r, t)
        PROVE  TransactionEffect(p)
    BY <1>1, <1>2, <2>1 DEF ValidateHit, ValidateMiss, Authorised, Idle
  <2>2. CASE ValidateExpired(q) \/ ValidateFresh(q)
    BY <1>1, <1>2, <2>2 DEF ValidateExpired, ValidateFresh, Goto, Finish, Idle,
                            ValidRequest, RequestState
  <2>3. CASE ValidateStore(q)
    <3>1. req' = [req EXCEPT ![q] = Authorised(req[q].replica,
                       req[q].session.hash, req[q].session.user)]
      BY <2>3 DEF ValidateStore
    <3> QED BY <1>1, <1>2, <3>1 DEF Authorised, Idle
  <2> QED BY <1>4, <2>1, <2>2, <2>3 DEF ValidateToken
<1>5. ASSUME NEW q \in Request, Handler(q) PROVE TransactionEffect(p)
  <2>1. CASE OtherRoute(q) \/ Logout(q) \/ ForgetToken(q) \/ DeleteRevoked(q)
             \/ LogoutAll(q) \/ ForgetUser(q)
    BY <1>1, <1>2, <2>1
       DEF OtherRoute, Logout, ForgetToken, DeleteRevoked, LogoutAll,
           ForgetUser, Goto, Finish, Idle, ValidRequest, RequestState
  <2>2. ASSUME NEW s \in sessions, RevokeSession(q, s)
        PROVE  TransactionEffect(p)
    BY <1>1, <1>2, <2>2 DEF RevokeSession, ValidRequest, RequestState
  <2>3. CASE VerifyForChange(q) \/ UpdateUserPassword(q) \/ RevokeOthers(q)
             \/ ForgetOthers(q)
    BY <1>1, <1>2, <2>3
       DEF VerifyForChange, UpdateUserPassword, RevokeOthers, ForgetOthers,
           Goto, Finish, Idle, ValidRequest, RequestState
  <2>4. CASE VerifyForDelete(q) \/ CloseSessions(q) \/ CloseForget(q)
             \/ DeleteUser(q)
    BY <1>1, <1>2, <2>4
       DEF VerifyForDelete, CloseSessions, CloseForget, DeleteUser, Goto,
           Finish, Idle, ValidRequest, RequestState
  <2> QED BY <1>5, <2>1, <2>2, <2>3, <2>4 DEF Handler
<1>6. ASSUME NEW q \in Request, Abort(q) PROVE TransactionEffect(p)
  BY <1>1, <1>2, <1>6 DEF Abort, Finish, Idle
<1>7. ASSUME NEW r \in Replica, Restart(r) PROVE TransactionEffect(p)
  BY <1>1, <1>2, <1>7 DEF Restart, Idle
<1> QED BY <1>1, <1>3, <1>4, <1>5, <1>6, <1>7
        DEF Next, Register, Prune, Tick, vars

\* Only a commit adds a row.
LEMMA GrowStep ==
  ASSUME [Next]_vars
  PROVE  sessions' \subseteq sessions \/ \E p \in Request : CommitSession(p)
<1>1. ASSUME NEW p \in Request, Login(p), ~CommitSession(p)
      PROVE  sessions' \subseteq sessions
  BY <1>1 DEF Login, Authenticate, MintToken, InsertSession, EvictOldest, table
<1>2. ASSUME NEW p \in Request, ValidateToken(p)
      PROVE  sessions' \subseteq sessions
  BY <1>2 DEF ValidateToken, ValidateHit, ValidateMiss, ValidateExpired,
              ValidateFresh, ValidateStore, DeleteRows, table
<1>3. ASSUME NEW p \in Request, Handler(p) PROVE sessions' \subseteq sessions
  BY <1>3 DEF Handler, OtherRoute, Logout, ForgetToken, RevokeSession,
              DeleteRevoked, LogoutAll, ForgetUser, VerifyForChange,
              UpdateUserPassword, RevokeOthers, ForgetOthers, VerifyForDelete,
              CloseSessions, CloseForget, DeleteUser, DeleteRows, table
<1> QED BY <1>1, <1>2, <1>3
        DEF Next, Register, Abort, Prune, Restart, Tick, DeleteRows, table, vars

\* Only DeleteUser removes an account.
LEMMA AccountStep ==
  ASSUME [Next]_vars
  PROVE  users \subseteq users' \/ \E p \in Request : DeleteUser(p)
<1>1. ASSUME NEW p \in Request, Login(p) \/ ValidateToken(p)
      PROVE  users \subseteq users'
  BY <1>1 DEF Login, Authenticate, MintToken, InsertSession, EvictOldest,
              CommitSession, ValidateToken, ValidateHit, ValidateMiss,
              ValidateExpired, ValidateFresh, ValidateStore, table
<1>2. ASSUME NEW p \in Request, Handler(p), ~DeleteUser(p)
      PROVE  users \subseteq users'
  BY <1>2 DEF Handler, OtherRoute, Logout, ForgetToken, RevokeSession,
              DeleteRevoked, LogoutAll, ForgetUser, VerifyForChange,
              UpdateUserPassword, RevokeOthers, ForgetOthers, VerifyForDelete,
              CloseSessions, CloseForget, table
<1> QED BY <1>1, <1>2
        DEF Next, Register, Abort, Prune, Restart, Tick, table, vars

\* The advisory lock keeps one transaction per user.
LEMMA LockStep ==
  ASSUME TypeOK, LockInv, [Next]_vars
  PROVE  LockInv'
<1> SUFFICES ASSUME NEW p \in Request, NEW q \in Request,
                    req'[p].pc \in {"inserted", "evicted"},
                    req'[q].pc \in {"inserted", "evicted"},
                    req'[p].session.user = req'[q].session.user,
                    p # q
             PROVE  FALSE
  BY DEF LockInv, InsideTransaction
<1>1. TransactionEffect(p) /\ TransactionEffect(q)
  BY TransactionStep
<1>2. CASE InsertSession(p) /\ req'[p].session = req[p].session
           /\ req'[q] = req[q]
  BY <1>2 DEF InsertSession, AdvisoryLockFree, InTransaction
<1>3. CASE InsertSession(q) /\ req'[q].session = req[q].session
           /\ req'[p] = req[p]
  BY <1>3 DEF InsertSession, AdvisoryLockFree, InTransaction
<1>4. CASE /\ req[p].pc \in {"inserted", "evicted"}
           /\ req[q].pc \in {"inserted", "evicted"}
           /\ req'[p].session = req[p].session
           /\ req'[q].session = req[q].session
  BY <1>4 DEF LockInv, InsideTransaction
<1> QED BY <1>1, <1>2, <1>3, <1>4 DEF TransactionEffect, EvictOldest, At

\* What a user owns after a step: a part of what they owned, or, after a
\* commit of their own, what that transaction was to leave.
LEMMA OwnStep ==
  ASSUME TypeOK, [Next]_vars, NEW u \in User
  PROVE  \/ SessionsOf(sessions', u) \subseteq SessionsOf(sessions, u)
         \/ \E p \in Request :
              /\ CommitSession(p)
              /\ req[p].session.user = u
              /\ SessionsOf(sessions', u) = AfterCommit(p)
<1>1. CASE sessions' \subseteq sessions
  BY <1>1 DEF SessionsOf
<1>2. ASSUME NEW p \in Request, CommitSession(p)
      PROVE  \/ SessionsOf(sessions', u) \subseteq SessionsOf(sessions, u)
             \/ /\ req[p].session.user = u
                /\ SessionsOf(sessions', u) = AfterCommit(p)
  BY <1>2 DEF CommitSession, SessionsOf, AfterCommit
<1> QED BY <1>1, <1>2, GrowStep

\* The inductive step of the cap.
LEMMA CapStep ==
  ASSUME TypeOK, CapInv, [Next]_vars
  PROVE  CapInv'
<1> USE ConstantsAssumption
<1>1. IsFiniteSet(sessions')
  <2>1. CASE sessions' \subseteq sessions
    BY <2>1, FS_Subset DEF CapInv
  <2>2. ASSUME NEW p \in Request, CommitSession(p) PROVE IsFiniteSet(sessions')
    <3>1. IsFiniteSet(sessions \cup {req[p].session})
      BY FS_AddElement DEF CapInv
    <3>2. sessions' \subseteq sessions \cup {req[p].session}
      BY <2>2 DEF CommitSession
    <3> QED BY <3>1, <3>2, FS_Subset
  <2> QED BY <2>1, <2>2, GrowStep
<1>2. LockInv'
  BY LockStep DEF CapInv
<1>3. ASSUME NEW u \in User
      PROVE  /\ IsFiniteSet(SessionsOf(sessions, u))
             /\ Cardinality(SessionsOf(sessions, u)) \in Nat
  BY FS_Subset, FS_CardinalityType DEF CapInv, SessionsOf
<1>4. SessionCap'
  <2> SUFFICES ASSUME NEW u \in User
               PROVE  Cardinality(SessionsOf(sessions', u)) <= MaxSessions
    BY DEF SessionCap
  <2>1. CASE SessionsOf(sessions', u) \subseteq SessionsOf(sessions, u)
    <3>1. /\ Cardinality(SessionsOf(sessions', u)) \in Nat
          /\ Cardinality(SessionsOf(sessions', u))
               <= Cardinality(SessionsOf(sessions, u))
      BY <1>3, <2>1, FS_Subset, FS_CardinalityType
    <3> QED BY <1>3, <3>1 DEF CapInv, SessionCap
  <2>2. ASSUME NEW p \in Request, CommitSession(p),
               SessionsOf(sessions', u) = AfterCommit(p)
        PROVE  Cardinality(SessionsOf(sessions', u)) <= MaxSessions
    BY <2>2 DEF CapInv, RoomInv, CommitSession, At
  <2> QED BY <2>1, <2>2, OwnStep
<1>5. RoomInv'
  <2> SUFFICES ASSUME NEW p \in Request, req'[p].pc = "evicted"
               PROVE  Cardinality(AfterCommit(p)') <= MaxSessions
    BY DEF RoomInv
  <2> DEFINE u == req[p].session.user
  <2>1. CASE req'[p] = req[p]
    <3>1. u \in User
      BY <2>1 DEF TypeOK, ValidRequest
    <3>2. SessionsOf(sessions', u) \subseteq SessionsOf(sessions, u)
      <4>1. ASSUME NEW q \in Request, CommitSession(q), req[q].session.user = u
            PROVE  FALSE
        <5>1. q # p
          BY <2>1, <4>1 DEF CommitSession, Finish, Idle, TypeOK
        <5> QED BY <2>1, <4>1, <5>1
                DEF CapInv, LockInv, InsideTransaction, CommitSession, At
      <4> QED BY <3>1, <4>1, OwnStep
    <3>3. AfterCommit(p)' \subseteq AfterCommit(p)
      BY <2>1, <3>2 DEF AfterCommit
    <3>4. IsFiniteSet(AfterCommit(p))
      <4>1. IsFiniteSet(SessionsOf(sessions, u) \cup {req[p].session})
        BY <1>3, <3>1, FS_AddElement
      <4> QED BY <4>1, FS_Subset DEF AfterCommit
    <3>5. /\ Cardinality(AfterCommit(p)) <= MaxSessions
          /\ Cardinality(AfterCommit(p)) \in Nat
          /\ Cardinality(AfterCommit(p)') \in Nat
          /\ Cardinality(AfterCommit(p)') <= Cardinality(AfterCommit(p))
      BY <2>1, <3>3, <3>4, FS_Subset, FS_CardinalityType DEF CapInv, RoomInv
    <3> QED BY <3>5
  <2>2. CASE EvictOldest(p)
    <3> DEFINE mine == RowsOfUser(u) \cup {req[p].session}
    <3>1. PICK keep \in KeepNewest(mine) :
             req' = [req EXCEPT ![p].pc = "evicted", ![p].victims = mine \ keep]
      BY <2>2 DEF EvictOldest
    <3>2. /\ req'[p].victims = mine \ keep
          /\ req'[p].session = req[p].session
      <4> HIDE DEF mine
      <4> QED BY <3>1 DEF TypeOK, ValidRequest, RequestState
    <3>3. sessions' = sessions
      BY <2>2 DEF EvictOldest, table
    <3>4. AfterCommit(p)' = mine \ (mine \ keep)
      BY <3>2, <3>3 DEF AfterCommit, RowsOfUser, SessionsOf
    <3>5. keep \subseteq mine
      BY DEF KeepNewest
    <3>6. AfterCommit(p)' = keep
      BY <3>4, <3>5
    <3>7. Cardinality(keep) <= MaxSessions
      <4> HIDE DEF mine
      <4> QED BY DEF KeepNewest
    <3> QED BY <3>6, <3>7
  <2> QED BY <2>1, <2>2, TransactionStep DEF TransactionEffect
<1> QED BY <1>1, <1>2, <1>4, <1>5 DEF CapInv

\* However many logins run at once, no user ever owns more than
\* AUTH_MAX_SESSIONS_PER_USER sessions.
THEOREM CapHolds == Spec => []SessionCap
<1>1. Init => CapInv
  <2> SUFFICES ASSUME Init PROVE CapInv
    OBVIOUS
  <2>1. IsFiniteSet(sessions) /\ Cardinality({}) = 0
    BY FS_EmptySet DEF Init
  <2>2. \A u \in User : SessionsOf(sessions, u) = {}
    BY DEF Init, SessionsOf
  <2>3. SessionCap
    BY <2>1, <2>2, ConstantsAssumption DEF SessionCap
  <2>4. \A p \in Request : req[p].pc = "idle"
    BY DEF Init, Idle
  <2> QED BY <2>1, <2>3, <2>4 DEF CapInv, LockInv, RoomInv, InsideTransaction
<1>2. TypeOK /\ CapInv /\ [Next]_vars => CapInv'
  BY CapStep
<1>3. CapInv => SessionCap
  BY DEF CapInv
<1> QED BY <1>1, <1>2, <1>3, TypeCorrect, PTL DEF Spec

\* The inductive step of the owner of a session.
LEMMA OwnerStep ==
  ASSUME TypeOK, OwnerInv, [Next]_vars
  PROVE  OwnerInv'
<1>1. ASSUME NEW q \in Request, DeleteUser(q) PROVE OwnerInv'
  <2> DEFINE u == req[q].session.user
  <2>1. /\ users' = users \ {u}
        /\ sessions' = {s \in sessions : s.user # u}
        /\ InTransaction(u) = {}
    BY <1>1 DEF DeleteUser, DeleteRows, CascadedSessions, RowsOfUser, SessionsOf
  <2>2. ASSUME NEW p \in Request, req'[p].pc \in {"inserted", "evicted"}
        PROVE  req'[p] = req[p]
    BY <1>1, <2>2 DEF DeleteUser, Finish, Idle, TypeOK
  <2> QED BY <2>1, <2>2
          DEF OwnerInv, SessionsHaveUsers, InsideTransaction, InTransaction
<1>2. ASSUME users \subseteq users' PROVE OwnerInv'
  <2>1. SessionsHaveUsers'
    <3>1. CASE sessions' \subseteq sessions
      BY <1>2, <3>1 DEF OwnerInv, SessionsHaveUsers
    <3>2. ASSUME NEW p \in Request, CommitSession(p) PROVE SessionsHaveUsers'
      BY <1>2, <3>2
         DEF OwnerInv, SessionsHaveUsers, InsideTransaction, CommitSession, At
    <3> QED BY <3>1, <3>2, GrowStep
  <2>2. ASSUME NEW p \in Request, req'[p].pc \in {"inserted", "evicted"}
        PROVE  req'[p].session.user \in users'
    BY <1>2, <2>2, TransactionStep
       DEF TransactionEffect, OwnerInv, InsideTransaction, InsertSession,
           EvictOldest, At
  <2> QED BY <2>1, <2>2 DEF OwnerInv, InsideTransaction
<1> QED BY <1>1, <1>2, AccountStep

\* A session's account exists, through every interleaving of logins with the
\* deletion of the account.
THEOREM SessionsAreOwned == Spec => []SessionsHaveUsers
<1>1. Init => OwnerInv
  BY DEF Init, OwnerInv, SessionsHaveUsers, InsideTransaction, Idle
<1>2. TypeOK /\ OwnerInv /\ [Next]_vars => OwnerInv'
  BY OwnerStep
<1>3. OwnerInv => SessionsHaveUsers
  BY DEF OwnerInv
<1> QED BY <1>1, <1>2, <1>3, TypeCorrect, PTL DEF Spec
=============================================================================
