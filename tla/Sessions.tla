------------------------------ MODULE Sessions ------------------------------
(***************************************************************************)
(* Sessions of the task API: the sessions table, the per-process           *)
(* tokenCache in front of it, and the requests that create, validate and   *)
(* revoke sessions (internal/user/service.go, token_cache.go and the two   *)
(* repositories).                                                          *)
(*                                                                         *)
(* Every repository call and every tokenCache call of a Service method is  *)
(* a step of its own, because other requests run between them: `pc' names  *)
(* the call a request makes next.  A request may fail at every such point  *)
(* (Abort), which is a repository error, an expired deadline or a panic;   *)
(* an Abort after a call took effect is the error whose effect was         *)
(* applied all the same.                                                   *)
(*                                                                         *)
(* The tables are those of postgresRepository: CreateSession is a          *)
(* transaction of several statements, every other call is one statement.   *)
(***************************************************************************)
EXTENDS Integers, FiniteSets

CONSTANTS User,          \* user ids; an id is registered at most once
          Token,         \* session tokens, identified with their hashes
          Replica,       \* API processes, each with its own tokenCache
          Request,       \* concurrent HTTP requests, over all the replicas
          None,          \* "no value"
          MaxSessions,   \* AUTH_MAX_SESSIONS_PER_USER
          TokenCacheTTL, \* tokenCacheTTL
          SessionTTL,    \* AUTH_SESSION_TTL
          MaxLatency,    \* longest time between the database reading a
                         \* session row and the process caching it
          MaxTime,       \* bound on the clock
          MaxPasswords   \* bound on the passwords one account goes through

ASSUME ConstantsAssumption ==
  /\ None \notin User \cup Token \cup Replica
  /\ MaxSessions \in Nat \ {0}
  /\ TokenCacheTTL \in Nat
  /\ SessionTTL \in Nat
  /\ MaxLatency \in Nat
  /\ MaxTime \in Nat
  /\ MaxPasswords \in Nat

VARIABLES now,        \* the wall clock
          users,      \* the users table
          password,   \* password[u]: number of u's current password, 0 before
                      \* u registers
          sessions,   \* the sessions table: a set of rows
          tokenCache, \* tokenCache[r]: the entries of replica r's cache
          req,        \* req[p]: the request p
          issued,     \* history: tokens handed out so far
          goneAt,     \* history: goneAt[t] is when t's row was last removed
          opened,     \* history: opened[t] is the number of the password that
                      \* t's login, or a later change through t, presented
          revocations,\* history: revocations[r] are the revocations replica r
                      \* has finished
          rotated     \* history: rotated[u] is the newest password of u whose
                      \* change has revoked the other sessions

vars == <<now, users, password, sessions, tokenCache, req,
          issued, goneAt, opened, revocations, rotated>>

table == <<users, password, sessions>>
history == <<issued, goneAt, opened, revocations, rotated>>

-----------------------------------------------------------------------------
(* Types *)

\* A row of the sessions table.
Session == [hash : Token, user : User, createdAt : Nat, expiresAt : Nat]

\* The session a request carries: none of it, the part it knows, or all of it.
Carried == [hash : Token \cup {None}, user : User \cup {None},
            createdAt : Nat, expiresAt : Nat]

\* A finished revocation; overlapped tells whether a ValidateToken of the same
\* process held the token's row, read earlier, when it finished.
Revocation == [hash : Token, overlapped : BOOLEAN]

\* An entry of a tokenCache.  until is history: the session's own ExpiresAt.
CacheEntry == [hash : Token, user : User, expiresAt : Nat, until : Nat]

PC == {"idle",
       "authenticated", "minted", "inserted", "evicted",      \* login
       "found", "fresh",                                      \* ValidateToken
       "authorised",                                          \* past RequireAuth
       "revoking", "revoked",                                 \* one session
       "revokedAll",                                          \* LogoutAll
       "verified", "rotatedPassword", "keptOne",              \* ChangePassword
       "closing", "closingRevoked", "closingForgotten"}       \* DeleteAccount

NoSession == [hash |-> None, user |-> None, createdAt |-> 0, expiresAt |-> 0]

Idle == [pc |-> "idle", replica |-> None, session |-> NoSession, auth |-> 0,
         readAt |-> 0, victims |-> {}]

\* A request: the call it makes next, where it runs, the session it carries,
\* the password it proved (history), when the database read that session, and
\* the rows its last repository call selected for deletion.
RequestState == [pc : PC, replica : Replica \cup {None}, session : Carried,
                 auth : Nat, readAt : Nat, victims : SUBSET Session]

\* A request that runs knows its replica and its user, and past the first
\* call of a login also its token.
ValidRequest ==
  {q \in RequestState :
     /\ q.pc # "idle" => q.replica \in Replica /\ q.session.user \in User
     /\ q.pc \notin {"idle", "authenticated"} => q.session.hash \in Token}

TypeOK ==
  /\ now \in Nat
  /\ users \subseteq User
  /\ password \in [User -> Nat]
  /\ sessions \subseteq Session
  /\ tokenCache \in [Replica -> SUBSET CacheEntry]
  /\ req \in [Request -> ValidRequest]
  /\ issued \subseteq Token
  /\ goneAt \in [Token -> Nat]
  /\ opened \in [Token -> Nat]
  /\ revocations \in [Replica -> SUBSET Revocation]
  /\ rotated \in [User -> Nat]

Init ==
  /\ now = 0
  /\ users = {}
  /\ password = [u \in User |-> 0]
  /\ sessions = {}
  /\ tokenCache = [r \in Replica |-> {}]
  /\ req = [p \in Request |-> Idle]
  /\ issued = {}
  /\ goneAt = [t \in Token |-> 0]
  /\ opened = [t \in Token |-> 0]
  /\ revocations = [r \in Replica |-> {}]
  /\ rotated = [u \in User |-> 0]

-----------------------------------------------------------------------------
(* The sessions table *)

Hashes(rows) == {s.hash : s \in rows}

SessionsOf(rows, u) == {s \in rows : s.user = u}

\* Deletes rows from the table and records when their tokens went.
DeleteRows(rows) ==
  /\ sessions' = sessions \ rows
  /\ goneAt' = [t \in Token |-> IF t \in Hashes(sessions \cap rows) THEN now
                                                                  ELSE goneAt[t]]

\* What DeleteSession, DeleteSessionsForUser and DeleteSessionsForUserExcept
\* select.
RowsWithHash(t) == {s \in sessions : s.hash = t}
RowsOfUser(u) == SessionsOf(sessions, u)
RowsOfUserExcept(u, t) == {s \in SessionsOf(sessions, u) : s.hash # t}

\* DELETE ... NOT IN (SELECT ... ORDER BY created_at DESC LIMIT maxSessions):
\* the possible sets of rows a user keeps, ties broken arbitrarily.
KeepNewest(rows) ==
  {keep \in SUBSET rows :
     /\ Cardinality(keep) = IF Cardinality(rows) <= MaxSessions
                              THEN Cardinality(rows) ELSE MaxSessions
     /\ \A k \in keep, d \in rows \ keep : k.createdAt >= d.createdAt}

-----------------------------------------------------------------------------
(* tokenCache *)

\* get: an entry is a hit while the clock has not passed its expiry.
Valid(e) == now <= e.expiresAt

Hits(r, t) == {e \in tokenCache[r] : e.hash = t /\ Valid(e)}

\* set: a fresh window, counted from the moment of the call.
Cached(entries, s) ==
  {e \in entries : e.hash # s.hash}
    \cup {[hash |-> s.hash, user |-> s.user,
           expiresAt |-> now + TokenCacheTTL, until |-> s.expiresAt]}

\* delete, deleteAllForUser and deleteAllForUserExcept.
Without_Nothing(entries, t) == entries

Without(entries, t) == {e \in entries : e.hash # t}
WithoutUser(entries, u) == {e \in entries : e.user # u}
WithoutUserExcept(entries, u, t) ==
  {e \in entries : e.user # u \/ e.hash = t}

\* sweep.
Swept(entries) == {e \in entries : Valid(e)}

-----------------------------------------------------------------------------
(* Requests *)

At(p, label) == req[p].pc = label

Goto(p, label) == req' = [req EXCEPT ![p].pc = label]

Finish(p) == req' = [req EXCEPT ![p] = Idle]

\* Does a ValidateToken of replica r still carry t's row, read before?
Validating(r, t) ==
  \E q \in Request : /\ req[q].pc \in {"found", "fresh"}
                     /\ req[q].replica = r
                     /\ req[q].session.hash = t

\* Records that replica r has finished revoking these tokens.
Revoked(r, tokens) ==
  revocations' = [revocations EXCEPT ![r] = @ \cup
    {[hash |-> t, overlapped |-> Validating(r, t)] : t \in tokens}]

-----------------------------------------------------------------------------
(* Registration and login *)

\* Register: bcrypt, then CreateUser; ids are fresh UUIDs.
Register(u) ==
  /\ password[u] = 0
  /\ MaxPasswords > 0
  /\ users' = users \cup {u}
  /\ password' = [password EXCEPT ![u] = 1]
  /\ UNCHANGED <<now, sessions, tokenCache, req, history>>

\* Authenticate with the right password.  (A wrong one changes no session.)
Authenticate(p, r, u) ==
  /\ At(p, "idle")
  /\ u \in users
  /\ req' = [req EXCEPT ![p] =
       [Idle EXCEPT !.pc = "authenticated", !.replica = r,
                    !.session = [NoSession EXCEPT !.user = u],
                    !.auth = password[u]]]
  /\ UNCHANGED <<now, table, tokenCache, history>>

\* CreateSession up to the repository call: a random token, stamped with the
\* current time.
MintToken(p, t) ==
  /\ At(p, "authenticated")
  /\ t \notin issued
  /\ issued' = issued \cup {t}
  /\ opened' = [opened EXCEPT ![t] = req[p].auth]
  /\ LET s == [hash |-> t, user |-> req[p].session.user, createdAt |-> now,
                expiresAt |-> now + SessionTTL]
     IN  req' = [req EXCEPT ![p].pc = "minted", ![p].auth = 0,
                            ![p].session = s]
  /\ UNCHANGED <<now, table, tokenCache, goneAt, revocations, rotated>>

\* The requests inside the transaction of CreateSession for user u.
InTransaction(u) ==
  {q \in Request : req[q].pc \in {"inserted", "evicted"}
                   /\ req[q].session.user = u}

\* pg_advisory_xact_lock(hashtext(user_id)).
AdvisoryLockFree_Dropped(u) == TRUE

AdvisoryLockFree(u) == InTransaction(u) = {}

\* postgresRepository.CreateSession, first statements: the lock and the
\* INSERT, refused by the foreign key when the user is gone.  The row is
\* invisible to others until the commit.
InsertSession(p) ==
  /\ At(p, "minted")
  /\ AdvisoryLockFree(req[p].session.user)
  /\ req[p].session.user \in users
  /\ Goto(p, "inserted")
  /\ UNCHANGED <<now, table, tokenCache, history>>

\* The evicting DELETE under READ COMMITTED: it sees what is committed when
\* it runs, and the transaction's own row.
EvictOldest(p) ==
  /\ At(p, "inserted")
  /\ LET mine == RowsOfUser(req[p].session.user) \cup {req[p].session}
     IN  \E keep \in KeepNewest(mine) :
           req' = [req EXCEPT ![p].pc = "evicted", ![p].victims = mine \ keep]
  /\ UNCHANGED <<now, table, tokenCache, history>>

\* What the commit makes visible: the row inserted, the victims deleted.
\* Evicted tokens stay in every tokenCache.
CommitSession(p) ==
  /\ At(p, "evicted")
  /\ sessions' = (sessions \cup {req[p].session}) \ req[p].victims
  /\ goneAt' = [t \in Token |-> IF t \in Hashes(req[p].victims) THEN now
                                                               ELSE goneAt[t]]
  /\ Finish(p)
  /\ UNCHANGED <<now, users, password, tokenCache, issued, opened, revocations, rotated>>

-----------------------------------------------------------------------------
(* ValidateToken, called by RequireAuth for every authenticated route *)

\* What the rest of a request knows of its caller.
Identity_NoUser(t, u) == [NoSession EXCEPT !.hash = t]

Identity(t, u) == [NoSession EXCEPT !.hash = t, !.user = u]

\* A request of replica r past RequireAuth, as the owner of token t.
Authorised(r, t, u) ==
  [Idle EXCEPT !.pc = "authorised", !.replica = r, !.session = Identity(t, u)]

\* A cache hit that would renew the entry's window.
ValidateHit_Sliding(p, r, t) ==
  /\ At(p, "idle")
  /\ \E e \in Hits(r, t) :
       /\ req' = [req EXCEPT ![p] = Authorised(r, t, e.user)]
       /\ tokenCache' = [tokenCache EXCEPT ![r] = (@ \ {e}) \cup
                            {[e EXCEPT !.expiresAt = now + TokenCacheTTL]}]
  /\ UNCHANGED <<now, table, history>>

\* A cache hit: the request goes on as the cached user.
ValidateHit(p, r, t) ==
  /\ At(p, "idle")
  /\ \E e \in Hits(r, t) :
       req' = [req EXCEPT ![p] = Authorised(r, t, e.user)]
  /\ UNCHANGED <<now, table, tokenCache, history>>

\* A miss: FindSessionByTokenHash.  (No row is a 401 and changes nothing.)
ValidateMiss(p, r, t) ==
  /\ At(p, "idle")
  /\ Hits(r, t) = {}
  /\ \E s \in RowsWithHash(t) :
       req' = [req EXCEPT ![p] =
         [Idle EXCEPT !.pc = "found", !.replica = r, !.session = s,
                      !.readAt = now]]
  /\ UNCHANGED <<now, table, tokenCache, history>>

Unexpired_Unchecked(s) == TRUE

Unexpired(s) == now <= s.expiresAt

\* The expiry check: an expired session is deleted and refused ...
ValidateExpired(p) ==
  /\ At(p, "found")
  /\ ~Unexpired(req[p].session)
  /\ DeleteRows(RowsWithHash(req[p].session.hash))
  /\ Finish(p)
  /\ UNCHANGED <<now, users, password, tokenCache, issued, opened, revocations, rotated>>

\* ... and a live one passes.
ValidateFresh(p) ==
  /\ At(p, "found")
  /\ Unexpired(req[p].session)
  /\ Goto(p, "fresh")
  /\ UNCHANGED <<now, table, tokenCache, history>>

\* tokenCache.set, then the handler runs as the session's user.
ValidateStore(p) ==
  /\ At(p, "fresh")
  /\ LET s == req[p].session
         r == req[p].replica
     IN  /\ tokenCache' = [tokenCache EXCEPT ![r] = Cached(@, s)]
         /\ req' = [req EXCEPT ![p] = Authorised(r, s.hash, s.user)]
  /\ UNCHANGED <<now, table, history>>

-----------------------------------------------------------------------------
(* The authenticated handlers that touch sessions *)

\* Any other route: nothing here changes.
OtherRoute(p) ==
  /\ At(p, "authorised")
  /\ Finish(p)
  /\ UNCHANGED <<now, table, tokenCache, history>>

\* Logout: DeleteSession of the caller's own token.
Logout(p) ==
  /\ At(p, "authorised")
  /\ DeleteRows(RowsWithHash(req[p].session.hash))
  /\ req' = [req EXCEPT ![p].pc = "revoked"]
  /\ UNCHANGED <<now, users, password, tokenCache, issued, opened, revocations, rotated>>

\* RevokeSession: FindSessionsForUser and the match on the derived id ...
RevokeSession(p, s) ==
  /\ At(p, "authorised")
  /\ s \in RowsOfUser(req[p].session.user)
  /\ req' = [req EXCEPT ![p].pc = "revoking", ![p].session = s]
  /\ UNCHANGED <<now, table, tokenCache, history>>

\* ... then DeleteSession.
DeleteRevoked(p) ==
  /\ At(p, "revoking")
  /\ DeleteRows(RowsWithHash(req[p].session.hash))
  /\ req' = [req EXCEPT ![p].pc = "revoked"]
  /\ UNCHANGED <<now, users, password, tokenCache, issued, opened, revocations, rotated>>

\* The last step of Logout and RevokeSession: tokenCache.delete.
ForgetToken(p) ==
  /\ At(p, "revoked")
  /\ tokenCache' = [tokenCache EXCEPT
                      ![req[p].replica] = Without(@, req[p].session.hash)]
  /\ Revoked(req[p].replica, {req[p].session.hash})
  /\ Finish(p)
  /\ UNCHANGED <<now, table, issued, goneAt, opened, rotated>>

\* LogoutAll: DeleteSessionsForUser, then tokenCache.deleteAllForUser.
LogoutAll(p) ==
  /\ At(p, "authorised")
  /\ DeleteRows(RowsOfUser(req[p].session.user))
  /\ req' = [req EXCEPT ![p].pc = "revokedAll",
                        ![p].victims = RowsOfUser(req[p].session.user)]
  /\ UNCHANGED <<now, users, password, tokenCache, issued, opened, revocations, rotated>>

ForgetUser(p) ==
  /\ At(p, "revokedAll")
  /\ tokenCache' = [tokenCache EXCEPT
                      ![req[p].replica] = WithoutUser(@, req[p].session.user)]
  /\ Revoked(req[p].replica, Hashes(req[p].victims))
  /\ Finish(p)
  /\ UNCHANGED <<now, table, issued, goneAt, opened, rotated>>

\* ChangePassword: verifyPassword with the right current password ...
VerifyForChange(p) ==
  /\ At(p, "authorised")
  /\ req[p].session.user \in users
  /\ Goto(p, "verified")
  /\ UNCHANGED <<now, table, tokenCache, history>>

\* ... UpdateUserPassword, ErrNotFound when the user is gone ...
UpdateUserPassword(p) ==
  /\ At(p, "verified")
  /\ LET u == req[p].session.user
     IN  /\ u \in users
         /\ password[u] < MaxPasswords
         /\ password' = [password EXCEPT ![u] = @ + 1]
         /\ req' = [req EXCEPT ![p].pc = "rotatedPassword",
                               ![p].auth = password[u] + 1]
  /\ UNCHANGED <<now, users, sessions, tokenCache, history>>

\* ... DeleteSessionsForUserExcept ...
RevokeOthers(p) ==
  /\ At(p, "rotatedPassword")
  /\ LET s == req[p].session
         new == req[p].auth
         others == RowsOfUserExcept(s.user, s.hash)
     IN  /\ DeleteRows(others)
         /\ opened' = [opened EXCEPT ![s.hash] = new]
         /\ rotated' = [rotated EXCEPT ![s.user] = IF @ < new THEN new ELSE @]
         /\ req' = [req EXCEPT ![p].pc = "keptOne", ![p].victims = others,
                               ![p].auth = 0]
  /\ UNCHANGED <<now, users, password, tokenCache, issued, revocations>>

\* ... and tokenCache.deleteAllForUserExcept.
ForgetOthers(p) ==
  /\ At(p, "keptOne")
  /\ tokenCache' = [tokenCache EXCEPT
       ![req[p].replica] =
          WithoutUserExcept(@, req[p].session.user, req[p].session.hash)]
  /\ Revoked(req[p].replica, Hashes(req[p].victims))
  /\ Finish(p)
  /\ UNCHANGED <<now, table, issued, goneAt, opened, rotated>>

\* deleteAccount: VerifyPassword (the cascade over tasks is another module) ...
VerifyForDelete(p) ==
  /\ At(p, "authorised")
  /\ req[p].session.user \in users
  /\ Goto(p, "closing")
  /\ UNCHANGED <<now, table, tokenCache, history>>

\* ... Service.DeleteAccount: DeleteSessionsForUser ...
CloseSessions(p) ==
  /\ At(p, "closing")
  /\ DeleteRows(RowsOfUser(req[p].session.user))
  /\ req' = [req EXCEPT ![p].pc = "closingRevoked",
                        ![p].victims = RowsOfUser(req[p].session.user)]
  /\ UNCHANGED <<now, users, password, tokenCache, issued, opened, revocations, rotated>>

\* ... tokenCache.deleteAllForUser ...
CloseForget(p) ==
  /\ At(p, "closingRevoked")
  /\ tokenCache' = [tokenCache EXCEPT
                      ![req[p].replica] = WithoutUser(@, req[p].session.user)]
  /\ Revoked(req[p].replica, Hashes(req[p].victims))
  /\ req' = [req EXCEPT ![p].pc = "closingForgotten", ![p].victims = {}]
  /\ UNCHANGED <<now, table, issued, goneAt, opened, rotated>>

\* ... and DeleteUser.  It waits for transactions that inserted a row
\* referencing the user (they hold a key-share lock on it) and then cascades
\* to the sessions table (sessions.user_id is ON DELETE CASCADE).
CascadedSessions_Dropped(u) == {}

CascadedSessions(u) == RowsOfUser(u)

DeleteUser(p) ==
  /\ At(p, "closingForgotten")
  /\ LET u == req[p].session.user
     IN  /\ u \in users
         /\ InTransaction(u) = {}
         /\ users' = users \ {u}
         /\ DeleteRows(CascadedSessions(u))
  /\ Finish(p)
  /\ UNCHANGED <<now, password, tokenCache, issued, opened, revocations, rotated>>

-----------------------------------------------------------------------------
(* Failures, housekeeping and time *)

\* A call fails, or its answer is lost: the request ends here.  Inside the
\* CreateSession transaction this is the rollback.
Abort(p) ==
  /\ ~At(p, "idle")
  /\ Finish(p)
  /\ UNCHANGED <<now, table, tokenCache, history>>

\* PruneExpiredSessions, run periodically by every replica: the sweep, and
\* DeleteExpiredSessions, which comes later or fails.
Prune(r) ==
  /\ \/ /\ tokenCache' = [tokenCache EXCEPT ![r] = Swept(@)]
        /\ UNCHANGED <<sessions, goneAt>>
     \/ /\ DeleteRows({s \in sessions : s.expiresAt < now})
        /\ UNCHANGED tokenCache
  /\ UNCHANGED <<now, users, password, req, issued, opened, revocations, rotated>>

\* The process stops and another takes its place: its cache and its requests
\* are gone, its open transactions roll back.
Restart(r) ==
  /\ tokenCache' = [tokenCache EXCEPT ![r] = {}]
  /\ req' = [p \in Request |-> IF req[p].replica = r THEN Idle ELSE req[p]]
  /\ UNCHANGED <<now, table, history>>

\* Time passes, but not past MaxLatency for a request between its read of a
\* row and its tokenCache.set: DB_CALL_TIMEOUT bounds the call.
Tick ==
  /\ now < MaxTime
  /\ \A p \in Request : req[p].pc \in {"found", "fresh"} =>
                           now < req[p].readAt + MaxLatency
  /\ now' = now + 1
  /\ UNCHANGED <<table, tokenCache, req, history>>

-----------------------------------------------------------------------------
Login(p) ==
  \/ \E r \in Replica, u \in User : Authenticate(p, r, u)
  \/ \E t \in Token : MintToken(p, t)
  \/ InsertSession(p) \/ EvictOldest(p) \/ CommitSession(p)

ValidateToken(p) ==
  \/ \E r \in Replica, t \in Token : ValidateHit(p, r, t) \/ ValidateMiss(p, r, t)
  \/ ValidateExpired(p) \/ ValidateFresh(p) \/ ValidateStore(p)

Handler(p) ==
  \/ OtherRoute(p)
  \/ Logout(p) \/ ForgetToken(p)
  \/ (\E s \in sessions : RevokeSession(p, s)) \/ DeleteRevoked(p)
  \/ LogoutAll(p) \/ ForgetUser(p)
  \/ VerifyForChange(p) \/ UpdateUserPassword(p) \/ RevokeOthers(p)
  \/ ForgetOthers(p)
  \/ VerifyForDelete(p) \/ CloseSessions(p) \/ CloseForget(p) \/ DeleteUser(p)

Next ==
  \/ \E u \in User : Register(u)
  \/ \E p \in Request : Login(p) \/ ValidateToken(p) \/ Handler(p) \/ Abort(p)
  \/ \E r \in Replica : Prune(r) \/ Restart(r)
  \/ Tick

Spec == Init /\ [][Next]_vars

-----------------------------------------------------------------------------
(* Properties *)

\* At no time does a user own more than AUTH_MAX_SESSIONS_PER_USER sessions,
\* however many logins run at once (CreateSession).
SessionCap ==
  \A u \in User : Cardinality(SessionsOf(sessions, u)) <= MaxSessions

\* Once a token's row is gone, no replica accepts the token from its cache
\* for longer than TokenCacheTTL plus the time a request may sit between
\* reading the row and caching it.
RevocationBound ==
  \A r \in Replica, t \in Token :
    Hits(r, t) # {} /\ t \notin Hashes(sessions) =>
      now <= goneAt[t] + MaxLatency + TokenCacheTTL

\* An expired session is accepted from a cache at most that long after its
\* own ExpiresAt, although a cache hit never looks at ExpiresAt.
ExpiryBound ==
  \A r \in Replica : \A e \in tokenCache[r] :
    Valid(e) => now <= e.until + MaxLatency + TokenCacheTTL

\* A revocation that no ValidateToken of the same process overlapped (Logout,
\* RevokeSession, LogoutAll, ChangePassword, DeleteAccount) takes effect at
\* once in that process, and for good.
SettledRevocation ==
  \A r \in Replica : \A v \in revocations[r] :
    ~v.overlapped => v.hash \notin Hashes(sessions) /\ Hits(r, v.hash) = {}

\* Every session belongs to an account that exists, through any interleaving
\* of logins and account deletions.
SessionsHaveUsers == \A s \in sessions : s.user \in users

\* What token_cache.go says of delete: the process that revoked a token does
\* not accept it afterwards, overlapped or not.
SameProcessRevocation ==
  \A r \in Replica : \A v \in revocations[r] : Hits(r, v.hash) = {}

\* What ChangePassword says: once it has revoked every other session, every
\* session left was opened, or kept, with the new password or a later one.
OldPasswordSessionsGone ==
  \A s \in sessions : opened[s.hash] >= rotated[s.user]
=============================================================================
