-------------------------- MODULE RevocationProofs --------------------------
(***************************************************************************)
(* Proof that a revocation which no ValidateToken of its process overlapped *)
(* takes effect at once and for good (SettledRevocation), for every number  *)
(* of users, tokens, replicas and requests.                                 *)
(*                                                                          *)
(* The argument: a token is known to nobody but the login that minted it    *)
(* until the commit of CreateSession; every copy of a token that is known,  *)
(* in the table, in a cache, in a request, names the same user; so a token  *)
(* whose rows are gone never comes back, and forgetting a user forgets all  *)
(* of the user's tokens.                                                    *)
(***************************************************************************)
EXTENDS SessionsProofs

-----------------------------------------------------------------------------
(* Who knows a token *)

InLogin(p) == req[p].pc \in {"minted", "inserted", "evicted"}
Past(p) == req[p].pc \notin {"idle", "authenticated", "minted", "inserted", "evicted"}
Looking(p) == req[p].pc \in {"found", "fresh"}
Dropping(p) == req[p].pc \in {"revokedAll", "closingRevoked", "keptOne"}

RowKnows(t, u) == \E s \in sessions : s.hash = t /\ s.user = u
CacheKnows(t, u) == \E r \in Replica : \E e \in tokenCache[r] : e.hash = t /\ e.user = u
RequestKnows(t, u) ==
  \E p \in Request : Past(p) /\ req[p].session.hash = t /\ req[p].session.user = u
VictimKnows(t, u) ==
  \E p \in Request : Dropping(p) /\ \E s \in req[p].victims : s.hash = t /\ s.user = u

Knows(t, u) ==
  RowKnows(t, u) \/ CacheKnows(t, u) \/ RequestKnows(t, u) \/ VictimKnows(t, u)

\* A token that is known was issued, belongs to no login in progress, and has
\* one owner; logins in progress have tokens of their own.
KnowInv ==
  /\ \A t \in Token, u \in User : Knows(t, u) =>
       t \in issued /\ \A p \in Request : InLogin(p) => req[p].session.hash # t
  /\ \A t \in Token, u, w \in User : Knows(t, u) /\ Knows(t, w) => u = w
  /\ \A p \in Request : InLogin(p) => req[p].session.hash \in issued
  /\ \A p, q \in Request :
       InLogin(p) /\ InLogin(q) /\ req[p].session.hash = req[q].session.hash => p = q

-----------------------------------------------------------------------------
(* What a step does *)

\* Requests of a login keep their session or have just got a new token.
LoginEffect(p) ==
  InLogin(p)' =>
    \/ InLogin(p) /\ req'[p].session = req[p].session
    \/ /\ req'[p].session.hash \notin issued /\ req'[p].session.hash \in issued'
       /\ \A q \in Request \ {p} : req'[q] = req[q]

\* Requests past RequireAuth, or on their way, speak of tokens that were known.
PastEffect(p) ==
  Past(p)' => Knows(req'[p].session.hash, req'[p].session.user)

\* A request reads a row that is there, or holds one read before.
LookEffect(p) ==
  Looking(p)' =>
    \/ req'[p].session.hash \in Hashes(sessions)
    \/ Looking(p) /\ req'[p].session = req[p].session /\ req'[p].replica = req[p].replica

\* A request that has deleted rows has just done so, or had before.
DropEffect(p) ==
  /\ req'[p].pc = "revoked" =>
       \/ req'[p] = req[p]
       \/ /\ Past(p) /\ req'[p].session = req[p].session
          /\ req'[p].session.hash \notin Hashes(sessions')
  /\ Dropping(p)' =>
       \/ req'[p] = req[p]
       \/ /\ req'[p].victims = {s \in sessions : /\ s.user = req'[p].session.user
                                                 /\ req'[p].pc = "keptOne"
                                                      => s.hash # req'[p].session.hash}
          /\ sessions' = sessions \ req'[p].victims

RequestMoves(p) == LoginEffect(p) /\ PastEffect(p) /\ LookEffect(p) /\ DropEffect(p)

\* A row was there, or is committed by a login, which thereby ends.
RowEffect ==
  \A s \in sessions' :
    \/ s \in sessions
    \/ \E p \in Request : InLogin(p) /\ ~InLogin(p)' /\ s = req[p].session

\* An entry was there, or a request stores the row it holds.
EntryEffect ==
  \A r \in Replica : \A e \in tokenCache'[r] :
    \/ e \in tokenCache[r]
    \/ \E p \in Request : /\ Looking(p) /\ req[p].replica = r
                          /\ e.hash = req[p].session.hash /\ e.user = req[p].session.user

\* A finished revocation was there, or its request forgets the token now.
RevocationEffect ==
  \A r \in Replica : \A v \in revocations'[r] :
    \/ v \in revocations[r]
    \/ \E p \in Request :
         /\ req[p].replica = r /\ v.overlapped = Validating(r, v.hash)
         /\ UNCHANGED <<sessions, issued>>
         /\ \/ /\ req[p].pc = "revoked" /\ v.hash = req[p].session.hash
               /\ \A e \in tokenCache'[r] : e \in tokenCache[r] /\ e.hash # v.hash
            \/ /\ Dropping(p) /\ v.hash \in Hashes(req[p].victims)
               /\ \A e \in tokenCache'[r] :
                    /\ e \in tokenCache[r]
                    /\ \/ e.user # req[p].session.user
                       \/ req[p].pc = "keptOne" /\ e.hash = req[p].session.hash

\* A request that does not change has these effects.
LEMMA SameRequest ==
  ASSUME NEW p \in Request, req'[p] = req[p]
  PROVE  RequestMoves(p)
BY DEF RequestMoves, LoginEffect, PastEffect, LookEffect, DropEffect, InLogin, Past,
       Looking, Dropping, Knows, RequestKnows

\* A request that ends has these effects.
LEMMA EndedRequest ==
  ASSUME NEW p \in Request, req'[p].pc \in {"idle", "authenticated"}
  PROVE  RequestMoves(p)
BY DEF RequestMoves, LoginEffect, PastEffect, LookEffect, DropEffect, InLogin, Past,
       Looking, Dropping

\* A request past RequireAuth that goes on with the session it has, and neither
\* reads nor deletes.
LEMMA GoesOn ==
  ASSUME NEW p \in Request, Past(p), req'[p].session = req[p].session,
         req'[p].pc \in {"authorised", "verified", "rotatedPassword", "closing",
                         "closingForgotten"}
  PROVE  RequestMoves(p)
BY DEF RequestMoves, LoginEffect, PastEffect, LookEffect, DropEffect, InLogin, Past,
       Looking, Dropping, Knows, RequestKnows

\* Steps of a login.
LEMMA LoginMoves ==
  ASSUME TypeOK, NEW p \in Request, Login(p), NEW q \in Request
  PROVE  RequestMoves(q)
<1>0. req \in [Request -> ValidRequest] /\ req[p] \in ValidRequest
  BY DEF TypeOK
<1>1. CASE q # p
  <2>1. req'[q] = req[q]
    BY <1>0, <1>1 DEF Login, Authenticate, MintToken, InsertSession, EvictOldest,
                      CommitSession, Goto, Finish
  <2> QED BY <2>1, SameRequest
<1>2. CASE q = p
  <2>1. ASSUME NEW r \in Replica, NEW u \in User, Authenticate(p, r, u)
        PROVE  RequestMoves(p)
    <3>1. req'[p].pc = "authenticated"
      BY <1>0, <2>1 DEF Authenticate, Idle
    <3> QED BY <3>1, EndedRequest
  <2>2. ASSUME NEW t \in Token, MintToken(p, t) PROVE RequestMoves(p)
    <3>1. req'[p].pc = "minted" /\ req'[p].session.hash = t
          /\ \A x \in Request \ {p} : req'[x] = req[x]
      BY <1>0, <2>2 DEF MintToken, ValidRequest, RequestState
    <3>2. t \notin issued /\ t \in issued'
      BY <2>2 DEF MintToken
    <3> QED BY <3>1, <3>2 DEF RequestMoves, LoginEffect, PastEffect, LookEffect,
              DropEffect, Past, Looking, Dropping
  <2>3. CASE InsertSession(p) \/ EvictOldest(p)
    <3>1. req'[p].pc \in {"inserted", "evicted"} /\ req'[p].session = req[p].session
          /\ InLogin(p)
      BY <1>0, <2>3 DEF InsertSession, EvictOldest, Goto, At, InLogin, ValidRequest,
                        RequestState
    <3> QED BY <1>2, <3>1 DEF RequestMoves, LoginEffect, PastEffect, LookEffect,
              DropEffect, Past, Looking, Dropping
  <2>4. CASE CommitSession(p)
    <3>1. req'[p].pc = "idle"
      BY <1>0, <2>4 DEF CommitSession, Finish, Idle
    <3> QED BY <1>2, <3>1, EndedRequest
  <2> QED BY <1>2, <2>1, <2>2, <2>3, <2>4 DEF Login
<1> QED BY <1>1, <1>2

\* Steps of ValidateToken.
LEMMA ValidateMoves ==
  ASSUME TypeOK, NEW p \in Request, ValidateToken(p), NEW q \in Request
  PROVE  RequestMoves(q)
<1>0. req \in [Request -> ValidRequest] /\ req[p] \in ValidRequest
  BY DEF TypeOK
<1>1. CASE q # p
  <2>1. req'[q] = req[q]
    BY <1>0, <1>1 DEF ValidateToken, ValidateHit, ValidateMiss, ValidateExpired,
                      ValidateFresh, ValidateStore, Goto, Finish
  <2> QED BY <2>1, SameRequest
<1>2. CASE q = p
  <2>0. \A r, t, u : /\ Authorised(r, t, u).pc = "authorised"
                     /\ Authorised(r, t, u).session.hash = t
                     /\ Authorised(r, t, u).session.user = u
    BY DEF Authorised, Identity, Idle, NoSession
  <2>1. ASSUME NEW r \in Replica, NEW t \in Token, ValidateHit(p, r, t)
        PROVE  RequestMoves(p)
    <3>1. PICK e \in Hits(r, t) : req' = [req EXCEPT ![p] = Authorised(r, t, e.user)]
      BY <2>1 DEF ValidateHit
    <3>2. req'[p].pc = "authorised" /\ req'[p].session.hash = t
          /\ req'[p].session.user = e.user
      BY <1>0, <2>0, <3>1
    <3>3. Knows(t, e.user)
      BY <3>1 DEF Hits, Knows, CacheKnows
    <3> QED BY <3>2, <3>3 DEF RequestMoves, LoginEffect, PastEffect, LookEffect,
              DropEffect, InLogin, Looking, Dropping
  <2>2. ASSUME NEW r \in Replica, NEW t \in Token, ValidateMiss(p, r, t)
        PROVE  RequestMoves(p)
    <3>1. PICK s \in RowsWithHash(t) :
            req' = [req EXCEPT ![p] = [Idle EXCEPT !.pc = "found", !.replica = r,
                                                   !.session = s, !.readAt = now]]
      BY <2>2 DEF ValidateMiss
    <3>2. req'[p].pc = "found" /\ req'[p].session = s
      BY <1>0, <3>1 DEF Idle
    <3>3. s \in sessions /\ Knows(s.hash, s.user) /\ s.hash \in Hashes(sessions)
      BY <3>1 DEF RowsWithHash, Knows, RowKnows, Hashes
    <3> QED BY <3>2, <3>3 DEF RequestMoves, LoginEffect, PastEffect, LookEffect,
              DropEffect, InLogin, Dropping
  <2>3. CASE ValidateExpired(p)
    <3>1. req'[p].pc = "idle"
      BY <1>0, <2>3 DEF ValidateExpired, Finish, Idle
    <3> QED BY <1>2, <3>1, EndedRequest
  <2>4. CASE ValidateFresh(p)
    <3>1. req'[p].pc = "fresh" /\ req'[p].session = req[p].session
          /\ req'[p].replica = req[p].replica /\ Looking(p) /\ Past(p)
      BY <1>0, <2>4 DEF ValidateFresh, Goto, At, Looking, Past, ValidRequest, RequestState
    <3> QED BY <1>2, <3>1 DEF RequestMoves, LoginEffect, PastEffect, LookEffect,
              DropEffect, InLogin, Dropping, Knows, RequestKnows
  <2>5. CASE ValidateStore(p)
    <3>1. req'[p] = Authorised(req[p].replica, req[p].session.hash, req[p].session.user)
          /\ Past(p)
      BY <1>0, <2>5 DEF ValidateStore, At, Past
    <3>2. req'[p].pc = "authorised" /\ req'[p].session.hash = req[p].session.hash
          /\ req'[p].session.user = req[p].session.user
      BY <2>0, <3>1
    <3> QED BY <1>2, <3>1, <3>2 DEF RequestMoves, LoginEffect, PastEffect, LookEffect,
              DropEffect, InLogin, Looking, Dropping, Knows, RequestKnows
  <2> QED BY <1>2, <2>1, <2>2, <2>3, <2>4, <2>5 DEF ValidateToken
<1> QED BY <1>1, <1>2

\* Steps of the handlers.
LEMMA HandlerMoves ==
  ASSUME TypeOK, NEW p \in Request, Handler(p), NEW q \in Request
  PROVE  RequestMoves(q)
<1>0. req \in [Request -> ValidRequest] /\ req[p] \in ValidRequest
  BY DEF TypeOK
<1>1. CASE q # p
  <2>1. CASE OtherRoute(p) \/ Logout(p) \/ ForgetToken(p) \/ DeleteRevoked(p)
             \/ (\E s \in sessions : RevokeSession(p, s)) \/ LogoutAll(p) \/ ForgetUser(p)
    BY <1>0, <1>1, <2>1, SameRequest
       DEF OtherRoute, Logout, ForgetToken, DeleteRevoked, RevokeSession, LogoutAll,
           ForgetUser, Goto, Finish
  <2>2. CASE VerifyForChange(p) \/ UpdateUserPassword(p) \/ RevokeOthers(p)
             \/ ForgetOthers(p) \/ VerifyForDelete(p) \/ CloseSessions(p)
             \/ CloseForget(p) \/ DeleteUser(p)
    BY <1>0, <1>1, <2>2, SameRequest
       DEF VerifyForChange, UpdateUserPassword, RevokeOthers, ForgetOthers,
           VerifyForDelete, CloseSessions, CloseForget, DeleteUser, Goto, Finish
  <2> QED BY <2>1, <2>2 DEF Handler
<1>2. CASE q = p
  <2>1. CASE OtherRoute(p) \/ ForgetToken(p) \/ ForgetUser(p) \/ ForgetOthers(p)
             \/ DeleteUser(p)
    <3>1. req'[p].pc = "idle"
      BY <1>0, <2>1 DEF OtherRoute, ForgetToken, ForgetUser, ForgetOthers, DeleteUser,
                        Finish, Idle
    <3> QED BY <1>2, <3>1, EndedRequest
  <2>2. CASE VerifyForChange(p) \/ UpdateUserPassword(p) \/ VerifyForDelete(p)
             \/ CloseForget(p)
    <3>1. /\ Past(p) /\ req'[p].session = req[p].session
          /\ req'[p].pc \in {"verified", "rotatedPassword", "closing", "closingForgotten"}
      BY <1>0, <2>2 DEF VerifyForChange, UpdateUserPassword, VerifyForDelete,
           CloseForget, Goto, At, Past, ValidRequest, RequestState
    <3> QED BY <1>2, <3>1, GoesOn
  <2>3. ASSUME NEW s \in sessions, RevokeSession(p, s) PROVE RequestMoves(p)
    <3>1. req'[p].pc = "revoking" /\ req'[p].session = s
      BY <1>0, <2>3 DEF RevokeSession, ValidRequest, RequestState
    <3>2. Knows(s.hash, s.user)
      BY DEF Knows, RowKnows
    <3> QED BY <3>1, <3>2 DEF RequestMoves, LoginEffect, PastEffect, LookEffect,
              DropEffect, InLogin, Looking, Dropping
  <2>4. CASE Logout(p) \/ DeleteRevoked(p)
    <3>1. req'[p].pc = "revoked" /\ req'[p].session = req[p].session /\ Past(p)
      BY <1>0, <2>4 DEF Logout, DeleteRevoked, At, Past, ValidRequest, RequestState
    <3>2. req[p].session.hash \notin Hashes(sessions')
      BY <2>4 DEF Logout, DeleteRevoked, DeleteRows, RowsWithHash, Hashes
    <3> QED BY <1>2, <3>1, <3>2 DEF RequestMoves, LoginEffect, PastEffect, LookEffect,
              DropEffect, InLogin, Looking, Dropping, Knows, RequestKnows
  <2>5. ASSUME NEW rows \in SUBSET Session, Past(p), DeleteRows(rows),
               req'[p].pc \in {"revokedAll", "closingRevoked", "keptOne"},
               req'[p].session = req[p].session, req'[p].victims = rows,
               rows = {s \in sessions : /\ s.user = req[p].session.user
                                        /\ req'[p].pc = "keptOne"
                                             => s.hash # req[p].session.hash}
        PROVE  RequestMoves(p)
    BY <2>5 DEF DeleteRows, RequestMoves, LoginEffect, PastEffect, LookEffect,
              DropEffect, InLogin, Looking, Dropping, Knows, RequestKnows
  <2>6. CASE LogoutAll(p) \/ CloseSessions(p)
    <3> DEFINE rows == RowsOfUser(req[p].session.user)
    <3>1. rows = {s \in sessions : s.user = req[p].session.user} /\ rows \in SUBSET Session
      BY DEF RowsOfUser, SessionsOf, TypeOK
    <3>2. Past(p) /\ DeleteRows(rows)
      BY <2>6 DEF LogoutAll, CloseSessions, At, Past
    <3> HIDE DEF rows
    <3>3. req'[p].pc \in {"revokedAll", "closingRevoked"}
          /\ req'[p].session = req[p].session /\ req'[p].victims = rows
      BY <1>0, <2>6 DEF LogoutAll, CloseSessions, ValidRequest, RequestState, rows
    <3>4. rows = {s \in sessions : /\ s.user = req[p].session.user
                                   /\ req'[p].pc = "keptOne"
                                        => s.hash # req[p].session.hash}
      BY <3>1, <3>3
    <3> QED BY <1>2, <2>5, <3>1, <3>2, <3>3, <3>4
  <2>7. CASE RevokeOthers(p)
    <3> DEFINE rows == RowsOfUserExcept(req[p].session.user, req[p].session.hash)
    <3>1. rows = {s \in sessions : s.user = req[p].session.user
                                   /\ s.hash # req[p].session.hash}
          /\ rows \in SUBSET Session
      BY DEF RowsOfUserExcept, SessionsOf, TypeOK
    <3>2. Past(p) /\ DeleteRows(rows)
      BY <2>7 DEF RevokeOthers, At, Past
    <3> HIDE DEF rows
    <3>3. req'[p].pc = "keptOne"
          /\ req'[p].session = req[p].session /\ req'[p].victims = rows
      BY <1>0, <2>7 DEF RevokeOthers, ValidRequest, RequestState, rows
    <3>4. rows = {s \in sessions : /\ s.user = req[p].session.user
                                   /\ req'[p].pc = "keptOne"
                                        => s.hash # req[p].session.hash}
      BY <3>1, <3>3
    <3> QED BY <1>2, <2>5, <3>1, <3>2, <3>3, <3>4
  <2> QED BY <1>2, <2>1, <2>2, <2>3, <2>4, <2>6, <2>7 DEF Handler
<1> QED BY <1>1, <1>2

\* Every step has these effects on every request.
LEMMA EveryMove ==
  ASSUME TypeOK, [Next]_vars, NEW q \in Request
  PROVE  RequestMoves(q)
<1>0. req \in [Request -> ValidRequest]
  BY DEF TypeOK
<1>1. ASSUME NEW p \in Request, Abort(p) PROVE RequestMoves(q)
  <2>1. req'[q] = req[q] \/ req'[q].pc = "idle"
    BY <1>0, <1>1 DEF Abort, Finish, Idle
  <2> QED BY <2>1, SameRequest, EndedRequest
<1>2. ASSUME NEW r \in Replica, Restart(r) PROVE RequestMoves(q)
  <2>1. req'[q] = req[q] \/ req'[q].pc = "idle"
    BY <1>0, <1>2 DEF Restart, Idle
  <2> QED BY <2>1, SameRequest, EndedRequest
<1>3. CASE (\E u \in User : Register(u)) \/ (\E r \in Replica : Prune(r)) \/ Tick
           \/ UNCHANGED vars
  BY <1>3, SameRequest DEF Register, Prune, Tick, vars
<1> QED BY <1>1, <1>2, <1>3, LoginMoves, ValidateMoves, HandlerMoves DEF Next

\* No token is ever taken back.
LEMMA IssuedGrows ==
  ASSUME [Next]_vars
  PROVE  issued \subseteq issued'
<1>1. ASSUME NEW p \in Request, Login(p) PROVE issued \subseteq issued'
  BY <1>1 DEF Login, Authenticate, MintToken, InsertSession, EvictOldest,
              CommitSession, history
<1>2. ASSUME NEW p \in Request, ValidateToken(p) PROVE issued' = issued
  BY <1>2 DEF ValidateToken, ValidateHit, ValidateMiss, ValidateExpired,
              ValidateFresh, ValidateStore, history
<1>3. ASSUME NEW p \in Request, Handler(p) PROVE issued' = issued
  BY <1>3 DEF Handler, OtherRoute, Logout, ForgetToken, RevokeSession,
              DeleteRevoked, LogoutAll, ForgetUser, VerifyForChange,
              UpdateUserPassword, RevokeOthers, ForgetOthers, VerifyForDelete,
              CloseSessions, CloseForget, DeleteUser, history
<1> QED BY <1>1, <1>2, <1>3
        DEF Next, Register, Abort, Prune, Restart, Tick, history, vars

\* Every step has this effect on the rows.
LEMMA EveryRow ==
  ASSUME TypeOK, [Next]_vars
  PROVE  RowEffect
<1>1. ASSUME NEW p \in Request, CommitSession(p)
      PROVE  RowEffect
  <2>1. InLogin(p) /\ ~InLogin(p)'
    BY <1>1 DEF CommitSession, Finish, Idle, At, InLogin, TypeOK
  <2> QED BY <1>1, <2>1 DEF CommitSession, RowEffect
<1> QED BY <1>1, GrowStep DEF RowEffect

\* Every step has this effect on the caches.
LEMMA EveryEntry ==
  ASSUME TypeOK, [Next]_vars
  PROVE  EntryEffect
<1>0. tokenCache \in [Replica -> SUBSET CacheEntry]
  BY DEF TypeOK
<1>1. ASSUME \A r \in Replica : tokenCache'[r] \subseteq tokenCache[r]
      PROVE  EntryEffect
  BY <1>1 DEF EntryEffect
<1>2. ASSUME NEW p \in Request, Login(p) PROVE EntryEffect
  BY <1>1, <1>2 DEF Login, Authenticate, MintToken, InsertSession, EvictOldest,
                    CommitSession
<1>3. ASSUME NEW p \in Request, ValidateToken(p) PROVE EntryEffect
  <2>1. CASE ValidateStore(p)
    <3>1. \A r \in Replica : \A e \in tokenCache'[r] :
            e \in tokenCache[r] \/ (/\ r = req[p].replica
                                    /\ e.hash = req[p].session.hash
                                    /\ e.user = req[p].session.user)
      BY <1>0, <2>1 DEF ValidateStore, Cached
    <3> QED BY <2>1, <3>1 DEF ValidateStore, At, Looking, EntryEffect
  <2>2. CASE ~ValidateStore(p)
    BY <1>1, <1>3, <2>2 DEF ValidateToken, ValidateHit, ValidateMiss,
                            ValidateExpired, ValidateFresh
  <2> QED BY <2>1, <2>2
<1>4. ASSUME NEW p \in Request, Handler(p) PROVE EntryEffect
  BY <1>0, <1>1, <1>4
     DEF Handler, OtherRoute, Logout, ForgetToken, RevokeSession,
         DeleteRevoked, LogoutAll, ForgetUser, VerifyForChange,
         UpdateUserPassword, RevokeOthers, ForgetOthers, VerifyForDelete,
         CloseSessions, CloseForget, DeleteUser, Without, WithoutUser,
         WithoutUserExcept
<1>5. ASSUME NEW r \in Replica, Prune(r) \/ Restart(r) PROVE EntryEffect
  BY <1>0, <1>1, <1>5 DEF Prune, Restart, Swept
<1> QED BY <1>1, <1>2, <1>3, <1>4, <1>5 DEF Next, Register, Abort, Tick, vars

\* A step that forgets a token has this effect on the revocations.
LEMMA ForgetTokenEffect ==
  ASSUME TypeOK, NEW p \in Request, ForgetToken(p)
  PROVE  RevocationEffect
<1> SUFFICES ASSUME NEW r \in Replica, NEW v \in revocations'[r],
                    v \notin revocations[r]
             PROVE  /\ req[p].replica = r /\ v.overlapped = Validating(r, v.hash)
                    /\ UNCHANGED <<sessions, issued>>
                    /\ req[p].pc = "revoked" /\ v.hash = req[p].session.hash
                    /\ \A e \in tokenCache'[r] : e \in tokenCache[r] /\ e.hash # v.hash
  BY DEF RevocationEffect
<1>1. r = req[p].replica
      /\ v = [hash |-> req[p].session.hash,
              overlapped |-> Validating(r, req[p].session.hash)]
  BY DEF TypeOK, ForgetToken, Revoked
<1>2. v.hash = req[p].session.hash /\ v.overlapped = Validating(r, v.hash)
  BY <1>1
<1>3. tokenCache'[r] = {e \in tokenCache[r] : e.hash # req[p].session.hash}
  BY <1>1 DEF TypeOK, ForgetToken, Without
<1> QED BY <1>1, <1>2, <1>3 DEF ForgetToken, At, table

\* A step that forgets a user has this effect on the revocations.
LEMMA ForgetUserEffect ==
  ASSUME TypeOK, NEW p \in Request, Dropping(p),
         Revoked(req[p].replica, Hashes(req[p].victims)),
         UNCHANGED <<sessions, issued>>,
         req[p].replica \in Replica =>
           \A e \in tokenCache'[req[p].replica] :
             /\ e \in tokenCache[req[p].replica]
             /\ \/ e.user # req[p].session.user
                \/ req[p].pc = "keptOne" /\ e.hash = req[p].session.hash
  PROVE  RevocationEffect
<1> SUFFICES ASSUME NEW r \in Replica, NEW v \in revocations'[r],
                    v \notin revocations[r]
             PROVE  /\ req[p].replica = r /\ v.overlapped = Validating(r, v.hash)
                    /\ v.hash \in Hashes(req[p].victims)
  BY DEF RevocationEffect
<1>1. r = req[p].replica
  BY DEF TypeOK, Revoked
<1>2. PICK t \in Hashes(req[p].victims) :
        v = [hash |-> t, overlapped |-> Validating(r, t)]
  BY <1>1 DEF TypeOK, Revoked
<1> QED BY <1>1, <1>2

\* Every step has this effect on the revocations.
LEMMA EveryRevocation ==
  ASSUME TypeOK, [Next]_vars
  PROVE  RevocationEffect
<1>0. tokenCache \in [Replica -> SUBSET CacheEntry]
  BY DEF TypeOK
<1>1. ASSUME revocations' = revocations PROVE RevocationEffect
  BY <1>1 DEF RevocationEffect
<1>2. ASSUME NEW p \in Request, Login(p) PROVE RevocationEffect
  BY <1>1, <1>2 DEF Login, Authenticate, MintToken, InsertSession, EvictOldest,
                    CommitSession, history
<1>3. ASSUME NEW p \in Request, ValidateToken(p) PROVE RevocationEffect
  BY <1>1, <1>3 DEF ValidateToken, ValidateHit, ValidateMiss, ValidateExpired,
                    ValidateFresh, ValidateStore, history
<1>4. ASSUME NEW p \in Request, Handler(p) PROVE RevocationEffect
  <2>1. CASE ForgetToken(p)
    BY <2>1, ForgetTokenEffect
  <2>2. CASE ForgetUser(p) \/ CloseForget(p)
    <3>1. Dropping(p) /\ Revoked(req[p].replica, Hashes(req[p].victims))
          /\ UNCHANGED <<sessions, issued>>
      BY <2>2 DEF ForgetUser, CloseForget, At, Dropping, table
    <3>2. tokenCache' = [tokenCache EXCEPT ![req[p].replica] =
                           WithoutUser(@, req[p].session.user)]
      BY <2>2 DEF ForgetUser, CloseForget
    <3>3. req[p].replica \in Replica =>
            \A e \in tokenCache'[req[p].replica] :
              e \in tokenCache[req[p].replica] /\ e.user # req[p].session.user
      BY <1>0, <3>2 DEF WithoutUser
    <3> QED BY <3>1, <3>3, ForgetUserEffect
  <2>3. CASE ForgetOthers(p)
    <3>1. Dropping(p) /\ Revoked(req[p].replica, Hashes(req[p].victims))
          /\ UNCHANGED <<sessions, issued>> /\ req[p].pc = "keptOne"
      BY <2>3 DEF ForgetOthers, At, Dropping, table
    <3>2. req[p].replica \in Replica =>
            \A e \in tokenCache'[req[p].replica] :
              /\ e \in tokenCache[req[p].replica]
              /\ e.user # req[p].session.user \/ e.hash = req[p].session.hash
      BY <1>0, <2>3 DEF ForgetOthers, WithoutUserExcept
    <3> QED BY <3>1, <3>2, ForgetUserEffect
  <2>4. CASE ~(ForgetToken(p) \/ ForgetUser(p) \/ CloseForget(p) \/ ForgetOthers(p))
    BY <1>1, <1>4, <2>4
       DEF Handler, OtherRoute, Logout, RevokeSession, DeleteRevoked, LogoutAll,
           VerifyForChange, UpdateUserPassword, RevokeOthers, VerifyForDelete,
           CloseSessions, DeleteUser, history
  <2> QED BY <2>1, <2>2, <2>3, <2>4
<1> QED BY <1>1, <1>2, <1>3, <1>4
        DEF Next, Register, Abort, Prune, Restart, Tick, history, vars

-----------------------------------------------------------------------------
(* The invariant *)

\* A token that is out of the table for good.
Dead(t) ==
  /\ t \in issued /\ t \notin Hashes(sessions)
  /\ \A p \in Request : InLogin(p) => req[p].session.hash # t

\* What a request has deleted stays deleted.
DroppedInv ==
  \A p \in Request :
    /\ req[p].pc = "revoked" => Dead(req[p].session.hash)
    /\ Dropping(p) =>
         \A s \in req[p].victims :
           /\ Dead(s.hash) /\ s.user = req[p].session.user
           /\ req[p].pc = "keptOne" => s.hash # req[p].session.hash

\* A replica has nothing left of a token, and nobody in it holds its row.
Forgotten(r, t) == ~Validating(r, t) /\ \A e \in tokenCache[r] : e.hash # t

SettledInv ==
  \A r \in Replica : \A v \in revocations[r] :
    ~v.overlapped => Dead(v.hash) /\ Forgotten(r, v.hash)

RevocationInv == KnowInv /\ DroppedInv /\ SettledInv

\* A token known after a step was known before, or its login has just
\* committed and ended.
Committed(t, u) ==
  \E p \in Request : /\ InLogin(p) /\ ~InLogin(p)'
                     /\ req[p].session.hash = t /\ req[p].session.user = u

\* Knowledge of a token comes from knowledge or from the commit of its login.
LEMMA KnowledgeStep ==
  ASSUME TypeOK, [Next]_vars, NEW t, NEW u, Knows(t, u)'
  PROVE  Knows(t, u) \/ Committed(t, u)
<1>1. CASE RowKnows(t, u)'
  BY <1>1, EveryRow DEF RowEffect, RowKnows, Knows, Committed
<1>2. CASE CacheKnows(t, u)'
  <2>1. PICK r \in Replica : \E e \in tokenCache'[r] : e.hash = t /\ e.user = u
    BY <1>2 DEF CacheKnows
  <2>2. PICK e \in tokenCache'[r] : e.hash = t /\ e.user = u
    BY <2>1
  <2>3. CASE e \in tokenCache[r]
    BY <2>2, <2>3 DEF Knows, CacheKnows
  <2>4. ASSUME NEW p \in Request, Looking(p),
               e.hash = req[p].session.hash, e.user = req[p].session.user
        PROVE  Knows(t, u)
    BY <2>2, <2>4 DEF Looking, Past, Knows, RequestKnows
  <2> QED BY <2>3, <2>4, EveryEntry DEF EntryEffect
<1>3. CASE RequestKnows(t, u)'
  BY <1>3, EveryMove DEF RequestKnows, RequestMoves, PastEffect
<1>4. CASE VictimKnows(t, u)'
  <2>1. PICK p \in Request : /\ Dropping(p)'
                             /\ \E s \in req'[p].victims : s.hash = t /\ s.user = u
    BY <1>4 DEF VictimKnows
  <2>2. PICK s \in req'[p].victims : s.hash = t /\ s.user = u
    BY <2>1
  <2>3. CASE req'[p] = req[p]
    BY <2>1, <2>2, <2>3 DEF Dropping, Knows, VictimKnows
  <2>4. CASE s \in sessions
    BY <2>2, <2>4 DEF Knows, RowKnows
  <2> QED BY <2>1, <2>2, <2>3, <2>4, EveryMove DEF RequestMoves, DropEffect
<1> QED BY <1>1, <1>2, <1>3, <1>4 DEF Knows

\* The inductive step of who knows a token.
LEMMA KnowStep ==
  ASSUME TypeOK, KnowInv, [Next]_vars
  PROVE  KnowInv'
<1>0. issued \subseteq issued'
  BY IssuedGrows
<1>1. \A p \in Request : LoginEffect(p)
  BY EveryMove DEF RequestMoves
<1>2. ASSUME NEW t \in Token, NEW u \in User, Knows(t, u)'
      PROVE  t \in issued
    <2>1. CASE Knows(t, u)
      BY <2>1 DEF KnowInv
    <2>2. CASE Committed(t, u)
      BY <2>2 DEF Committed, KnowInv
    <2> QED BY <1>2, <2>1, <2>2, KnowledgeStep
<1>3. ASSUME NEW t \in Token, NEW u \in User, Knows(t, u)',
             NEW p \in Request, InLogin(p)', req'[p].session.hash = t
      PROVE  FALSE
  <2>1. InLogin(p) /\ req[p].session.hash = t
    BY <1>1, <1>2, <1>3 DEF LoginEffect
  <2>2. CASE Knows(t, u)
    BY <1>3, <2>1, <2>2 DEF KnowInv
  <2>3. ASSUME NEW q \in Request, InLogin(q), ~InLogin(q)', req[q].session.hash = t
        PROVE  FALSE
    BY <1>3, <2>1, <2>3 DEF KnowInv
  <2> QED BY <1>3, <2>2, <2>3, KnowledgeStep DEF Committed
<1>4. ASSUME NEW t \in Token, NEW u \in User, NEW w \in User,
             Knows(t, u)', Knows(t, w)'
      PROVE  u = w
  <2>1. CASE Knows(t, u) /\ Knows(t, w)
    BY <2>1 DEF KnowInv
  <2>2. CASE (Knows(t, u) /\ Committed(t, w)) \/ (Knows(t, w) /\ Committed(t, u))
    BY <2>2 DEF Committed, KnowInv
  <2>3. CASE Committed(t, u) /\ Committed(t, w)
    BY <2>3 DEF Committed, KnowInv
  <2> QED BY <1>4, <2>1, <2>2, <2>3, KnowledgeStep
<1>5. ASSUME NEW p \in Request, InLogin(p)'
      PROVE  req'[p].session.hash \in issued'
  BY <1>0, <1>1, <1>5 DEF LoginEffect, KnowInv
<1>6. ASSUME NEW p \in Request, NEW q \in Request, InLogin(p)', InLogin(q)',
             req'[p].session.hash = req'[q].session.hash
      PROVE  p = q
  <2>1. CASE InLogin(p) /\ req'[p].session = req[p].session
             /\ InLogin(q) /\ req'[q].session = req[q].session
    BY <1>6, <2>1 DEF KnowInv
  <2>2. CASE req'[p].session.hash \notin issued
             /\ \A x \in Request \ {p} : req'[x] = req[x]
    BY <1>6, <2>2 DEF KnowInv, InLogin
  <2>3. CASE req'[q].session.hash \notin issued
             /\ \A x \in Request \ {q} : req'[x] = req[x]
    BY <1>6, <2>3 DEF KnowInv, InLogin
  <2> QED BY <1>1, <1>6, <2>1, <2>2, <2>3 DEF LoginEffect
<1>7. (\A t \in Token, u \in User : Knows(t, u) =>
        t \in issued /\ \A p \in Request : InLogin(p) => req[p].session.hash # t)'
  BY <1>0, <1>2, <1>3
<1> QED BY <1>4, <1>5, <1>6, <1>7 DEF KnowInv

\* A dead token stays dead.
LEMMA DeadStep ==
  ASSUME TypeOK, [Next]_vars, NEW t, Dead(t)
  PROVE  Dead(t)'
<1>1. t \in issued'
  BY IssuedGrows DEF Dead
<1>2. t \notin Hashes(sessions')
  BY EveryRow DEF RowEffect, Dead, Hashes
<1>3. ASSUME NEW p \in Request, InLogin(p)' PROVE req'[p].session.hash # t
  BY <1>3, EveryMove DEF RequestMoves, LoginEffect, Dead
<1> QED BY <1>1, <1>2, <1>3 DEF Dead

\* The inductive step of what requests have deleted.
LEMMA DroppedStep ==
  ASSUME TypeOK, TypeOK', KnowInv, KnowInv', DroppedInv, [Next]_vars
  PROVE  DroppedInv'
<1> SUFFICES ASSUME NEW p \in Request
             PROVE  /\ \A t : req'[p].pc = "revoked" /\ t = req'[p].session.hash
                                => Dead(t)'
                    /\ Dropping(p)' =>
                         \A s \in req'[p].victims :
                           /\ Dead(s.hash)' /\ s.user = req'[p].session.user
                           /\ req'[p].pc = "keptOne" => s.hash # req'[p].session.hash
  BY DEF DroppedInv, Dead, InLogin
<1>0. DropEffect(p)
  BY EveryMove DEF RequestMoves
<1>1. ASSUME NEW t \in Token, NEW u \in User, Knows(t, u)', t \notin Hashes(sessions')
      PROVE  Dead(t)'
  BY <1>1 DEF KnowInv, Dead
<1>2. CASE req'[p] = req[p]
  BY <1>2, DeadStep DEF DroppedInv, Dropping
<1>3. ASSUME NEW t, req'[p].pc = "revoked", req'[p] # req[p], t = req'[p].session.hash
      PROVE  Dead(t)'
  <2>1. PICK u : u = req'[p].session.user
    OBVIOUS
  <2>2. t \in Token /\ u \in User
    BY <1>3, <2>1 DEF TypeOK, ValidRequest
  <2>3. Knows(t, u)'
    BY <1>3, <2>1 DEF Knows, RequestKnows, Past
  <2> QED BY <1>0, <1>1, <1>3, <2>2, <2>3 DEF DropEffect
<1>4. ASSUME Dropping(p)', req'[p] # req[p], NEW s \in req'[p].victims
      PROVE  /\ Dead(s.hash)' /\ s.user = req'[p].session.user
             /\ req'[p].pc = "keptOne" => s.hash # req'[p].session.hash
  <2>1. /\ req'[p].victims = {x \in sessions : /\ x.user = req'[p].session.user
                                               /\ req'[p].pc = "keptOne"
                                                    => x.hash # req'[p].session.hash}
        /\ sessions' = sessions \ req'[p].victims
    BY <1>0, <1>4 DEF DropEffect
  <2>2. /\ s \in sessions /\ s.user = req'[p].session.user
        /\ req'[p].pc = "keptOne" => s.hash # req'[p].session.hash
    BY <1>4, <2>1
  <2>3. s.hash \in Token /\ s.user \in User
    BY <2>2 DEF TypeOK, Session
  <2>4. ASSUME NEW x \in sessions', x.hash = s.hash PROVE FALSE
    <3>1. x \in sessions /\ x \notin req'[p].victims
      BY <2>1
    <3>2. x.user \in User
      BY <3>1 DEF TypeOK, Session
    <3>3. Knows(s.hash, s.user) /\ Knows(s.hash, x.user)
      BY <2>2, <2>4, <3>1 DEF Knows, RowKnows
    <3>4. x.user = s.user
      BY <2>3, <3>2, <3>3 DEF KnowInv
    <3> QED BY <2>1, <2>2, <2>4, <3>1, <3>4
  <2>5. s.hash \notin Hashes(sessions')
    BY <2>4 DEF Hashes
  <2>6. Knows(s.hash, s.user)'
    BY <1>4 DEF Knows, VictimKnows
  <2> QED BY <1>1, <2>2, <2>3, <2>5, <2>6
<1> QED BY <1>2, <1>3, <1>4

\* A token out of the table that no ValidateToken of a process carries is
\* carried by none after a step either, and gets no new entry.
LEMMA ForgottenStep ==
  ASSUME TypeOK, [Next]_vars, NEW r \in Replica, NEW t, Dead(t), ~Validating(r, t)
  PROVE  /\ ~Validating(r, t)'
         /\ \A e \in tokenCache'[r] : e.hash = t => e \in tokenCache[r]
<1>1. ASSUME NEW p \in Request, Looking(p)', req'[p].replica = r,
             req'[p].session.hash = t
      PROVE  FALSE
  BY <1>1, EveryMove DEF RequestMoves, LookEffect, Dead, Looking, Validating
<1>2. ~Validating(r, t)'
  BY <1>1 DEF Validating, Looking
<1>3. ASSUME NEW e \in tokenCache'[r], e.hash = t PROVE e \in tokenCache[r]
  BY <1>3, EveryEntry DEF EntryEffect, Looking, Validating
<1> QED BY <1>2, <1>3

\* The inductive step of the finished revocations.
LEMMA SettledStep ==
  ASSUME TypeOK, RevocationInv, [Next]_vars
  PROVE  SettledInv'
<1> SUFFICES ASSUME NEW r \in Replica, NEW v \in revocations'[r], ~v.overlapped
             PROVE  Dead(v.hash)' /\ Forgotten(r, v.hash)'
  BY DEF SettledInv
<1>1. CASE v \in revocations[r]
  <2>1. Dead(v.hash) /\ Forgotten(r, v.hash)
    BY <1>1 DEF RevocationInv, SettledInv
  <2> QED BY <2>1, DeadStep, ForgottenStep DEF Forgotten
<1>2. ASSUME NEW p \in Request, req[p].replica = r,
             v.overlapped = Validating(r, v.hash),
             req[p].pc = "revoked", v.hash = req[p].session.hash,
             \A e \in tokenCache'[r] : e \in tokenCache[r] /\ e.hash # v.hash
      PROVE  Dead(v.hash)' /\ Forgotten(r, v.hash)'
  <2>1. Dead(v.hash)
    BY <1>2 DEF RevocationInv, DroppedInv
  <2> QED BY <1>2, <2>1, DeadStep, ForgottenStep DEF Forgotten
<1>3. ASSUME NEW p \in Request, req[p].replica = r,
             v.overlapped = Validating(r, v.hash),
             Dropping(p), v.hash \in Hashes(req[p].victims),
             \A e \in tokenCache'[r] :
               /\ e \in tokenCache[r]
               /\ \/ e.user # req[p].session.user
                  \/ req[p].pc = "keptOne" /\ e.hash = req[p].session.hash
      PROVE  Dead(v.hash)' /\ Forgotten(r, v.hash)'
  <2>1. PICK s \in req[p].victims : v.hash = s.hash
    BY <1>3 DEF Hashes
  <2>2. /\ Dead(v.hash) /\ s.user = req[p].session.user
        /\ req[p].pc = "keptOne" => v.hash # req[p].session.hash
    BY <1>3, <2>1 DEF RevocationInv, DroppedInv
  <2>3. s.hash \in Token /\ s.user \in User
    BY <2>1, RequestFields DEF Session
  <2>4. ASSUME NEW e \in tokenCache'[r], e.hash = v.hash PROVE FALSE
    <3>1. e \in tokenCache[r] /\ e.user \in User
      BY <1>3, <2>4 DEF TypeOK, CacheEntry
    <3>2. Knows(v.hash, e.user)
      BY <2>4, <3>1 DEF Knows, CacheKnows
    <3>3. Knows(v.hash, s.user)
      BY <1>3, <2>1 DEF Knows, VictimKnows
    <3>4. e.user = s.user
      BY <2>1, <2>3, <3>1, <3>2, <3>3 DEF RevocationInv, KnowInv
    <3> QED BY <1>3, <2>2, <2>4, <3>4
  <2> QED BY <1>3, <2>2, <2>4, DeadStep, ForgottenStep DEF Forgotten
<1> QED BY <1>1, <1>2, <1>3, EveryRevocation DEF RevocationEffect

\* A revocation that no ValidateToken of its process overlapped takes effect at
\* once in that process and for good: the token has no row and no cache entry
\* there, whatever the other requests and replicas do.
THEOREM RevocationsSettle == Spec => []SettledRevocation
<1>1. Init => RevocationInv
  BY DEF Init, RevocationInv, KnowInv, Knows, RowKnows, CacheKnows, RequestKnows,
         VictimKnows, DroppedInv, SettledInv, InLogin, Past, Dropping, Idle
<1>2. TypeOK /\ TypeOK' /\ RevocationInv /\ [Next]_vars => RevocationInv'
  BY KnowStep, DroppedStep, SettledStep DEF RevocationInv
<1>3. RevocationInv => SettledRevocation
  BY DEF RevocationInv, SettledInv, Dead, Forgotten, SettledRevocation, Hits
<1> QED BY <1>1, <1>2, <1>3, TypeCorrect, PTL DEF Spec
=============================================================================
