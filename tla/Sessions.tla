------------------------------ MODULE Sessions ------------------------------
(***************************************************************************)
(* Refresh tokens, active sessions and password resets of the MeetMind     *)
(* backend: AuthService.login, create_refresh_token, refresh_access_token, *)
(* logout, create_password_reset_token and reset_password.                 *)
(*                                                                         *)
(* Every request runs in its own database session and suspends at every    *)
(* "await db...".  An action below is what runs between two suspensions    *)
(* that other requests can tell apart: a SELECT, a flush, a bulk           *)
(* statement, a commit.  The database is PostgreSQL at READ COMMITTED, the *)
(* default of create_async_engine: a statement sees what was committed     *)
(* when it started, and an UPDATE waits for the open transaction that      *)
(* wrote the row and then works on the row that transaction left.          *)
(* Uncommitted writes live in the request's local variables.               *)
(***************************************************************************)
EXTENDS Naturals, FiniteSets

CONSTANTS
  User,          \* rows of users
  Token,         \* refresh-token values; a row is identified by its token
  ResetToken,    \* password-reset token values
  Request,       \* slots for requests in flight; a slot is reused
  NoToken,       \* "no row", "no token presented"
  NoUser,
  MaxExpired     \* bound: how many tokens pass their expires_at

ASSUME NoValueAssumption == NoToken \notin Token /\ NoUser \notin User
ASSUME MaxExpiredAssumption == MaxExpired \in Nat

VARIABLES
  \* The committed tables.
  password,      \* users.password_hash, numbered by the resets that wrote it
  tokenState,    \* refresh_tokens: no row, revoked = false, revoked = true
  owner,         \* refresh_tokens.user_id
  session,       \* active_sessions.refresh_token_hash; a row is identified
                 \* by the token it was inserted with
  resetState,    \* password_reset_tokens: no row, used_at null, used_at set
  resetOwner,    \* password_reset_tokens.user_id
  expired,       \* tokens whose expires_at has passed
  \* The request in each slot.
  pc,            \* the statement it runs next
  user,          \* the user it acts for
  tok,           \* the token it presented
  seen,          \* login: the password it verified
  scan,          \* the rows its last SELECT or bulk statement found
  held,          \* refresh_tokens rows its open transaction has updated
  \* History, read by no guard.
  gen,           \* the password the token's chain of refreshes started from
  raced,         \* tokens issued while a reset of their user was running
  overlapped     \* requests beside which another one of their user committed:
                 \* a reset (login, refresh) or a forgot-password (the same)

tokens  == <<tokenState, owner, session>>
resets  == <<resetState, resetOwner>>
history == <<gen, raced>>
locals  == <<pc, user, tok, seen, scan, held, overlapped>>
vars    == <<password, tokens, resets, expired, locals, history>>

TokenState == {"absent", "live", "revoked"}
ResetState == {"absent", "unused", "used"}
Issuing  == {"login_issue", "refresh_flush", "refresh_select", "refresh_commit"}
\* After its scan of refresh_tokens a reset no longer sees new tokens.
Scanned  == {"reset_revoke", "reset_commit"}
\* From its first flush to its commit a reset owns the user's row.
Writing  == {"reset_scan"} \cup Scanned
PC == {"idle", "logout_flush", "logout_select", "logout_commit",
       "forgot_commit", "reset_flush"} \cup Issuing \cup Writing

Live(t) == tokenState[t] = "live"
Tracked(t) == \E s \in Token : session[s] = t

Init ==
  /\ password = [u \in User |-> 0]
  /\ tokenState = [t \in Token |-> "absent"]
  /\ owner = [t \in Token |-> NoUser]
  /\ session = [t \in Token |-> NoToken]
  /\ resetState = [t \in ResetToken |-> "absent"]
  /\ resetOwner = [t \in ResetToken |-> NoUser]
  /\ expired = {}
  /\ pc = [r \in Request |-> "idle"]
  /\ user = [r \in Request |-> NoUser]
  /\ tok = [r \in Request |-> NoToken]
  /\ seen = [r \in Request |-> 0]
  /\ scan = [r \in Request |-> {}]
  /\ held = [r \in Request |-> {}]
  /\ gen = [t \in Token |-> 0]
  /\ raced = {}
  /\ overlapped = {}

-----------------------------------------------------------------------------
(* Requests, locks and bounds.                                              *)

\* Mutant of Begin: the user and the token change places.
BeginSwapped(r, u, t, g, next) ==
  /\ pc[r] = "idle"
  /\ pc' = [pc EXCEPT ![r] = next]
  /\ user' = [user EXCEPT ![r] = t]
  /\ tok' = [tok EXCEPT ![r] = u]
  /\ seen' = [seen EXCEPT ![r] = g]
  /\ UNCHANGED <<password, tokens, resets, expired, history, held, overlapped>>

\* A handler's first SELECT: the slot is taken, nothing is written.
Begin(r, u, t, g, next) ==
  /\ pc[r] = "idle"
  /\ pc' = [pc EXCEPT ![r] = next]
  /\ user' = [user EXCEPT ![r] = u]
  /\ tok' = [tok EXCEPT ![r] = t]
  /\ seen' = [seen EXCEPT ![r] = g]
  /\ UNCHANGED <<password, tokens, resets, expired, history, held, overlapped>>

Goto(r, from, to) ==
  /\ pc[r] = from
  /\ pc' = [pc EXCEPT ![r] = to]
  /\ UNCHANGED <<user, tok, seen, overlapped>>

\* Mutant of Close: a closed session keeps its row locks.
CloseKeepingLocks(r) ==
  /\ pc' = [pc EXCEPT ![r] = "idle"]
  /\ user' = [user EXCEPT ![r] = NoUser]
  /\ tok' = [tok EXCEPT ![r] = NoToken]
  /\ seen' = [seen EXCEPT ![r] = 0]
  /\ scan' = [scan EXCEPT ![r] = {}]
  /\ UNCHANGED held

\* The session is closed: its transaction ends and its locks are released.
Close(r) ==
  /\ pc' = [pc EXCEPT ![r] = "idle"]
  /\ user' = [user EXCEPT ![r] = NoUser]
  /\ tok' = [tok EXCEPT ![r] = NoToken]
  /\ seen' = [seen EXCEPT ![r] = 0]
  /\ scan' = [scan EXCEPT ![r] = {}]
  /\ held' = [held EXCEPT ![r] = {}]

Finish(r) == Close(r) /\ overlapped' = overlapped \ {r}

\* Mutant of TokenFree: the revocation waits for the commit, nothing is flushed
\* and no row is locked before it.
NoRowLock(r, t) == TRUE

\* The refresh_tokens row of t can be updated by r without waiting.
TokenFree(r, t) == \A q \in Request \ {r} : t \notin held[q]

\* No reset other than r has uncommitted writes for user u.
UserFree(r, u) ==
  \A q \in Request \ {r} : ~(pc[q] \in Writing /\ user[q] = u)

\* Session row s is not deleted by a reset that has yet to commit.
SessionFree(s) == \A q \in Request : ~(pc[q] = "reset_commit" /\ s \in scan[q])

\* Bounds: a request that will insert a token starts while one is left for it.
TokensLeft ==
  Cardinality({t \in Token : tokenState[t] = "absent"})
    > Cardinality({q \in Request : pc[q] \in Issuing})
ResetTokensLeft ==
  Cardinality({t \in ResetToken : resetState[t] = "absent"})
    > Cardinality({q \in Request : pc[q] = "forgot_commit"})

\* History of the refresh token n, committed by r for its user.
Minted(r, n, g, again) ==
  /\ owner' = [owner EXCEPT ![n] = user[r]]
  /\ gen' = [gen EXCEPT ![n] = g]
  /\ raced' = IF \/ again
                 \/ r \in overlapped
                 \/ \E q \in Request : pc[q] \in Scanned /\ user[q] = user[r]
              THEN raced \cup {n} ELSE raced

\* expires_at of t passes.  Expiry is looked at by the SELECTs only.
Expire(t) ==
  /\ t \notin expired
  /\ Cardinality(expired) < MaxExpired
  /\ \/ t \in Token /\ Live(t)
     \/ t \in ResetToken /\ resetState[t] = "unused"
  /\ expired' = expired \cup {t}
  /\ UNCHANGED <<password, tokens, resets, locals, history>>

\* A request stops before its commit: a statement fails, the client goes
\* away, the worker is killed.  Closing the session rolls back.
Abort(r) ==
  /\ pc[r] # "idle"
  /\ Finish(r)
  /\ UNCHANGED <<password, tokens, resets, expired, history>>

-----------------------------------------------------------------------------
(* login, then create_refresh_token.                                        *)

\* SELECT the user and run bcrypt on what it returned.  A wrong password is
\* a 401 that changes nothing.
LoginRead(r, u) ==
  /\ TokensLeft
  /\ Begin(r, u, NoToken, password[u], "login_issue")
  /\ UNCHANGED scan

\* One commit inserts the token and its session.
CreateRefreshToken(r) ==
  /\ pc[r] = "login_issue"
  /\ \E n \in Token :
       /\ tokenState[n] = "absent"
       /\ tokenState' = [tokenState EXCEPT ![n] = "live"]
       /\ session' = [session EXCEPT ![n] = n]
       /\ Minted(r, n, seen[r], FALSE)
  /\ Finish(r)
  /\ UNCHANGED <<password, resets, expired>>

-----------------------------------------------------------------------------
(* refresh_access_token.                                                    *)

\* SELECT the token: unknown, revoked and expired ones are a 401.
RefreshRead(r, t) ==
  /\ TokensLeft
  /\ Live(t)
  /\ t \notin expired
  /\ Begin(r, owner[t], t, 0, "refresh_flush")
  /\ UNCHANGED scan

\* The SELECT of the session autoflushes: "revoked = true" takes the row.
RefreshFlush(r) ==
  /\ Goto(r, "refresh_flush", "refresh_select")
  /\ TokenFree(r, tok[r])
  /\ held' = [held EXCEPT ![r] = {tok[r]}]
  /\ UNCHANGED <<password, tokens, resets, expired, scan, history>>

\* Mutant of RefreshSelect: the session is looked up by its user.
RefreshSelectByUser(r) ==
  /\ Goto(r, "refresh_select", "refresh_commit")
  /\ scan' = [scan EXCEPT ![r] = {s \in Token : session[s] # NoToken
                                              /\ owner[s] = user[r]}]
  /\ UNCHANGED <<password, tokens, resets, expired, held, history>>

\* SELECT the session by the hash of the presented token.
RefreshSelect(r) ==
  /\ Goto(r, "refresh_select", "refresh_commit")
  /\ scan' = [scan EXCEPT ![r] = {s \in Token : session[s] = tok[r]}]
  /\ UNCHANGED <<password, tokens, resets, expired, held, history>>

\* Commit: the old token is revoked, the new one inserted, and the session
\* found is moved to it, or a new session inserted if none was found.
RefreshCommit(r) ==
  /\ pc[r] = "refresh_commit"
  /\ \A s \in scan[r] : SessionFree(s) /\ session[s] # NoToken
  /\ \E n \in Token :
       /\ tokenState[n] = "absent"
       /\ tokenState' = [tokenState EXCEPT ![n] = "live", ![tok[r]] = "revoked"]
       /\ session' = [s \in Token |->
                        IF s \in scan[r] \/ (scan[r] = {} /\ s = n)
                        THEN n ELSE session[s]]
       /\ Minted(r, n, gen[tok[r]], tok[r] \in raced)
  /\ Finish(r)
  /\ UNCHANGED <<password, resets, expired>>

\* The session found was deleted meanwhile: the UPDATE by primary key matches
\* no row, SQLAlchemy raises StaleDataError and the request ends in a 500.
RefreshStale(r) ==
  /\ pc[r] = "refresh_commit"
  /\ \E s \in scan[r] : SessionFree(s) /\ session[s] = NoToken
  /\ Finish(r)
  /\ UNCHANGED <<password, tokens, resets, expired, history>>

-----------------------------------------------------------------------------
(* logout.                                                                  *)

\* SELECT the token; unknown is a 401, revoked and expired ones go on.  Only
\* a change of the loaded value is flushed: a token already revoked is not
\* written, so its row is not waited for.
LogoutRead(r, t) ==
  /\ tokenState[t] # "absent"
  /\ Begin(r, owner[t], t, 0, IF Live(t) THEN "logout_flush" ELSE "logout_select")
  /\ UNCHANGED scan

LogoutFlush(r) ==
  /\ Goto(r, "logout_flush", "logout_select")
  /\ TokenFree(r, tok[r])
  /\ held' = [held EXCEPT ![r] = {tok[r]}]
  /\ UNCHANGED <<password, tokens, resets, expired, scan, history>>

\* Mutant of LogoutSelect: finds the session by the token it began with.
LogoutSelectFirstToken(r) ==
  /\ Goto(r, "logout_select", "logout_commit")
  /\ scan' = [scan EXCEPT ![r] = {s \in {tok[r]} : session[s] # NoToken}]
  /\ UNCHANGED <<password, tokens, resets, expired, held, history>>

LogoutSelect(r) ==
  /\ Goto(r, "logout_select", "logout_commit")
  /\ scan' = [scan EXCEPT ![r] = {s \in Token : session[s] = tok[r]}]
  /\ UNCHANGED <<password, tokens, resets, expired, held, history>>

\* Commit; deleting a session that is gone already is only a warning.
LogoutCommit(r) ==
  /\ pc[r] = "logout_commit"
  /\ \A s \in scan[r] : SessionFree(s)
  /\ tokenState' = [tokenState EXCEPT ![tok[r]] = "revoked"]
  /\ session' = [s \in Token |-> IF s \in scan[r] THEN NoToken ELSE session[s]]
  /\ Finish(r)
  /\ UNCHANGED <<password, owner, resets, expired, history>>

-----------------------------------------------------------------------------
(* _process_password_reset and create_password_reset_token.                 *)

\* The reset token n is issued to the user of r, those in ended become used.
Linked(r, n, ended) ==
  /\ resetState[n] = "absent"
  /\ resetState' = [t \in ResetToken |->
                      CASE t = n -> "unused"
                        [] t \in ended -> "used"
                        [] OTHER -> resetState[t]]
  /\ resetOwner' = [resetOwner EXCEPT ![n] = user[r]]
  /\ overlapped' = (overlapped \ {r}) \cup
       {q \in Request \ {r} : pc[q] = "forgot_commit" /\ user[q] = user[r]}

\* SELECT the user, then the user's unused reset tokens.
ForgotRead(r, u) ==
  /\ ResetTokensLeft
  /\ Begin(r, u, NoToken, 0, "forgot_commit")
  /\ scan' = [scan EXCEPT ![r] = {t \in ResetToken : resetState[t] = "unused"
                                                    /\ resetOwner[t] = u}]

\* Mutant of ForgotCommit: the tokens found are not invalidated.
ForgotCommitKeepingOld(r) ==
  /\ pc[r] = "forgot_commit"
  /\ \A q \in Request : pc[q] \in Writing => tok[q] \notin scan[r]
  /\ \E n \in ResetToken : Linked(r, n, {})
  /\ Close(r)
  /\ UNCHANGED <<password, tokens, expired, history>>

\* Commit: the tokens found become used, a fresh one is inserted.  The UPDATE
\* waits for a reset that has written one of those rows.
ForgotCommit(r) ==
  /\ pc[r] = "forgot_commit"
  /\ \A q \in Request : pc[q] \in Writing => tok[q] \notin scan[r]
  /\ \E n \in ResetToken : Linked(r, n, scan[r])
  /\ Close(r)
  /\ UNCHANGED <<password, tokens, expired, history>>

-----------------------------------------------------------------------------
(* reset_password.                                                          *)

\* SELECT the reset token: unknown, used and expired ones are a 400.
ResetRead(r, t) ==
  /\ resetState[t] = "unused"
  /\ t \notin expired
  /\ Begin(r, resetOwner[t], t, 0, "reset_flush")
  /\ UNCHANGED scan

\* The bulk UPDATE autoflushes the new password and used_at first.
ResetFlush(r) ==
  /\ Goto(r, "reset_flush", "reset_scan")
  /\ UserFree(r, user[r])
  /\ UNCHANGED <<password, tokens, resets, expired, scan, held, history>>

\* UPDATE refresh_tokens SET revoked WHERE user_id = .. AND NOT revoked: the
\* rows it will visit are those committed when it starts.
ResetScan(r) ==
  /\ Goto(r, "reset_scan", "reset_revoke")
  /\ scan' = [scan EXCEPT ![r] = {t \in Token : Live(t) /\ owner[t] = user[r]}]
  /\ UNCHANGED <<password, tokens, resets, expired, held, history>>

\* Mutant of ResetRevoke: rows locked by others are skipped.
ResetRevokeSkipLocked(r, t) ==
  /\ Goto(r, "reset_revoke", "reset_revoke")
  /\ t \in scan[r]
  /\ held' = [held EXCEPT ![r] = IF TokenFree(r, t) THEN @ \cup {t} ELSE @]
  /\ scan' = [scan EXCEPT ![r] = @ \ {t}]
  /\ UNCHANGED <<password, tokens, resets, expired, history>>

\* The same UPDATE takes its rows one by one, waiting for each.
ResetRevoke(r, t) ==
  /\ Goto(r, "reset_revoke", "reset_revoke")
  /\ t \in scan[r]
  /\ TokenFree(r, t)
  /\ held' = [held EXCEPT ![r] = @ \cup {t}]
  /\ scan' = [scan EXCEPT ![r] = @ \ {t}]
  /\ UNCHANGED <<password, tokens, resets, expired, history>>

\* Mutant of ResetDelete: the sessions go before the tokens are revoked.
ResetDeleteEarly(r) ==
  /\ Goto(r, "reset_revoke", "reset_commit")
  /\ scan' = [scan EXCEPT ![r] = {s \in Token : session[s] # NoToken
                                              /\ owner[s] = user[r]}]
  /\ UNCHANGED <<password, tokens, resets, expired, held, history>>

\* Mutant of ResetDelete: the WHERE clause is missing.
ResetDeleteAll(r) ==
  /\ Goto(r, "reset_revoke", "reset_commit")
  /\ scan[r] = {}
  /\ scan' = [scan EXCEPT ![r] = {s \in Token : session[s] # NoToken}]
  /\ UNCHANGED <<password, tokens, resets, expired, held, history>>

\* DELETE FROM active_sessions WHERE user_id = ..
ResetDelete(r) ==
  /\ Goto(r, "reset_revoke", "reset_commit")
  /\ scan[r] = {}
  /\ scan' = [scan EXCEPT ![r] = {s \in Token : session[s] # NoToken
                                              /\ owner[s] = user[r]}]
  /\ UNCHANGED <<password, tokens, resets, expired, held, history>>

\* Commit: password, used_at, revocations and deletions in one step.
ResetCommit(r) ==
  /\ pc[r] = "reset_commit"
  /\ password' = [password EXCEPT ![user[r]] = @ + 1]
  /\ resetState' = [resetState EXCEPT ![tok[r]] = "used"]
  /\ tokenState' = [t \in Token |->
                      IF t \in held[r] THEN "revoked" ELSE tokenState[t]]
  /\ session' = [s \in Token |-> IF s \in scan[r] THEN NoToken ELSE session[s]]
  /\ Close(r)
  /\ overlapped' = overlapped \cup {q \in Request : pc[q] \in Issuing
                                                   /\ user[q] = user[r]}
  /\ UNCHANGED <<owner, resetOwner, expired, history>>

-----------------------------------------------------------------------------
\* What r does on its own once its handler has started.
Advance(r) ==
  \/ CreateRefreshToken(r)
  \/ RefreshFlush(r) \/ RefreshSelect(r) \/ RefreshCommit(r) \/ RefreshStale(r)
  \/ LogoutFlush(r) \/ LogoutSelect(r) \/ LogoutCommit(r)
  \/ ForgotCommit(r)
  \/ ResetFlush(r) \/ ResetScan(r) \/ ResetDelete(r) \/ ResetCommit(r)
  \/ \E t \in Token : ResetRevoke(r, t)

\* A client sends a request.
Receive(r) ==
  \/ \E u \in User : LoginRead(r, u) \/ ForgotRead(r, u)
  \/ \E t \in Token : RefreshRead(r, t) \/ LogoutRead(r, t)
  \/ \E t \in ResetToken : ResetRead(r, t)

Next ==
  \/ \E r \in Request : Receive(r) \/ Advance(r) \/ Abort(r)
  \/ \E t \in Token \cup ResetToken : Expire(t)

Spec == Init /\ [][Next]_vars

\* A request that can go on again and again does go on: the event loop runs
\* every ready task, and PostgreSQL queues the waiters of a row lock.
LiveSpec == Spec /\ \A r \in Request : SF_vars(Advance(r))

-----------------------------------------------------------------------------
(* Properties.                                                              *)

\* The tables and the requests hold what their columns and locals can hold.
TypeOK ==
  /\ password \in [User -> Nat]
  /\ tokenState \in [Token -> TokenState]
  /\ owner \in [Token -> User \cup {NoUser}]
  /\ session \in [Token -> Token \cup {NoToken}]
  /\ resetState \in [ResetToken -> ResetState]
  /\ resetOwner \in [ResetToken -> User \cup {NoUser}]
  /\ expired \subseteq Token \cup ResetToken
  /\ pc \in [Request -> PC]
  /\ user \in [Request -> User \cup {NoUser}]
  /\ tok \in [Request -> Token \cup ResetToken \cup {NoToken}]
  /\ seen \in [Request -> Nat]
  /\ scan \in [Request -> SUBSET (Token \cup ResetToken)]
  /\ held \in [Request -> SUBSET Token]
  /\ gen \in [Token -> Nat]
  /\ raced \subseteq Token
  /\ overlapped \subseteq Request

\* A row of active_sessions always carries the hash of a refresh token that is
\* live and belongs to the same user: no interleaving of refreshes, logouts
\* and resets leaves a session behind whose token is revoked.
SessionsTrackLiveTokens ==
  \A s \in Token :
    session[s] # NoToken => Live(session[s]) /\ owner[session[s]] = owner[s]

\* No two sessions carry the same hash, so the lookups by hash in refresh and
\* logout (scalar_one_or_none) never meet two rows.
SessionHashesUnique ==
  \A s1, s2 \in Token :
    session[s1] = session[s2] /\ session[s1] # NoToken => s1 = s2

\* After a reset every live token of the user stems from a login with the new
\* password, but for those issued by a request that ran beside the reset.
ResetCutsOff ==
  \A t \in Token : Live(t) => gen[t] = password[owner[t]] \/ t \in raced

\* Every live token has its session, where logout and the session list find
\* it, but for those issued by a request that ran beside a reset.
UntrackedOnlyIfRaced ==
  \A t \in Token : Live(t) => Tracked(t) \/ t \in raced

\* The step that changes a user's password touches no token and no session of
\* anybody else.
ResetScope ==
  [][\A u \in User : password'[u] # password[u] =>
       \A t \in Token : owner[t] # u =>
         tokenState'[t] = tokenState[t] /\ session'[t] = session[t]]_vars

\* A link that is issued is the only one of its user that works, unless the
\* request that issues it ran beside another forgot-password of the user.
OneResetLink ==
  [][\A n, t \in ResetToken :
       /\ resetState[n] = "absent" /\ resetState'[n] = "unused"
       /\ resetState'[t] = "unused" /\ resetOwner'[t] = resetOwner'[n]
       => t = n \/ \E r \in overlapped : pc[r] = "forgot_commit" /\ pc'[r] = "idle"]_vars

\* No row lock that r asks for next is held by another request.
Unblocked(r) ==
  /\ pc[r] \in {"refresh_flush", "logout_flush"} => TokenFree(r, tok[r])
  /\ pc[r] \in {"refresh_commit", "logout_commit"} =>
       \A s \in scan[r] : SessionFree(s)
  /\ pc[r] = "forgot_commit" =>
       \A q \in Request : pc[q] \in Writing => tok[q] \notin scan[r]
  /\ pc[r] = "reset_flush" => UserFree(r, user[r])
  /\ pc[r] = "reset_revoke" =>
       scan[r] = {} \/ \E t \in scan[r] : TokenFree(r, t)

\* While requests are in flight one of them can go on: requests never all wait
\* for each other's row locks, whatever the order they take them in.
NoWaitCycle ==
  (\E r \in Request : pc[r] # "idle")
    => \E r \in Request : pc[r] # "idle" /\ Unblocked(r)

\* Row locks are all that a request in flight ever waits for: nothing else
\* another request does can leave its next statement without an outcome.
OnlyLocksBlock ==
  \A r \in Request : pc[r] # "idle" => (Unblocked(r) <=> ENABLED Advance(r))

\* Every request comes to an end: it waits for no lock forever.
EveryRequestCompletes ==
  \A r \in Request : pc[r] # "idle" ~> pc[r] = "idle"

-----------------------------------------------------------------------------
(* The abstract specification these requests implement.                     *)

Registry == INSTANCE SessionRegistry WITH
  holder <- owner,
  live   <- {t \in Token : Live(t)},
  listed <- {session[s] : s \in Token} \ {NoToken},
  spare  <- raced

\* Whatever the interleaving, a user sees devices sign in, move on to a new
\* token and sign out, and a reset sign out all of them; the steps in between
\* and the requests that fail or are rolled back change nothing they can see.
ImplementsRegistry == Registry!Spec

-----------------------------------------------------------------------------
(* What the comments and docstrings claim and concurrent requests refute.   *)

\* A reset leaves no live token of the old password.
NoTokenOfOldPassword ==
  \A t \in Token : Live(t) => gen[t] = password[owner[t]]

\* Each change of the password uses up an unused reset token of the user.
ResetTokenSingleUse ==
  [][\A u \in User : password'[u] # password[u] =>
       \E t \in ResetToken : /\ resetOwner[t] = u
                             /\ resetState[t] = "unused"
                             /\ resetState'[t] = "used"]_vars

-----------------------------------------------------------------------------
(* The inductive invariant behind the safety properties.                    *)

Refreshing == {"refresh_flush", "refresh_select", "refresh_commit"}
LoggingOut == {"logout_flush", "logout_select", "logout_commit"}
Resetting  == {"reset_flush"} \cup Writing

\* From its flush to its commit a request holds the rows it has updated.
Holding == {"refresh_select", "refresh_commit", "logout_select", "logout_commit"}
             \cup Scanned

\* A row is updated by one open transaction at a time, and only committed
\* rows are.
LocksExclusive ==
  /\ \A r \in Request : pc[r] \notin Holding => held[r] = {}
  /\ \A r, q \in Request : r # q => held[r] \cap held[q] = {}
  /\ \A r \in Request : \A t \in held[r] : tokenState[t] # "absent"

\* Sessions and requests refer to committed rows only.
RowsCommitted ==
  /\ \A s \in Token : session[s] # NoToken => tokenState[s] # "absent"
  /\ \A t \in Token : tokenState[t] # "absent" => owner[t] \in User
  /\ \A t \in ResetToken : resetState[t] # "absent" => resetOwner[t] \in User
  /\ \A r \in Request : pc[r] # "idle" => user[r] \in User
  /\ \A r \in Request : pc[r] \in Refreshing \cup LoggingOut =>
       tok[r] \in Token /\ tokenState[tok[r]] # "absent" /\ owner[tok[r]] = user[r]
  /\ \A r \in Request : pc[r] \in Resetting =>
       tok[r] \in ResetToken /\ resetState[tok[r]] # "absent"
  /\ \A r \in Request : pc[r] = "forgot_commit" =>
       scan[r] \subseteq {t \in ResetToken : resetState[t] # "absent"}
  /\ \A r \in Request :
       pc[r] \in {"refresh_commit", "logout_commit"} \cup Scanned =>
         scan[r] \subseteq {s \in Token : tokenState[s] # "absent"}

\* From flush to commit a refresh owns the row it rotates, and the session it
\* found is the only one with that hash: nobody else moves it.
RefreshOwnsToken ==
  \A r \in Request :
    /\ pc[r] \in {"refresh_select", "refresh_commit"} => held[r] = {tok[r]}
    /\ pc[r] = "refresh_commit" =>
         /\ \A s \in scan[r] : session[s] \in {tok[r], NoToken}
         /\ \A s \in Token : session[s] = tok[r] => s \in scan[r]
         /\ \A s1, s2 \in scan[r] : s1 = s2

\* A logout owns the row, or found it revoked and so without a session.
LogoutOwnsToken ==
  \A r \in Request :
    /\ pc[r] \in {"logout_select", "logout_commit"} =>
         tok[r] \in held[r] \/ tokenState[tok[r]] = "revoked"
    /\ pc[r] = "logout_commit" =>
         /\ \A s \in scan[r] : session[s] \in {tok[r], NoToken}
         /\ \A s \in Token : session[s] = tok[r] => s \in scan[r]

\* A reset works on rows of its user.  From its scan on, every live token of
\* the user is still to be revoked, is revoked by it, or was issued since.
ResetOwnsTokens ==
  \A r \in Request :
    /\ pc[r] \in Scanned =>
         /\ \A t \in held[r] : owner[t] = user[r]
         /\ \A t \in scan[r] : owner[t] = user[r]
         /\ \A t \in Token : Live(t) /\ owner[t] = user[r] =>
              \/ t \in held[r] \cup raced
              \/ pc[r] = "reset_revoke" /\ t \in scan[r]
    /\ pc[r] = "reset_commit" =>
         \A s \in Token : session[s] \in held[r] => s \in scan[r]

\* What a request in flight will issue stems from the current password,
\* unless a reset has committed beside it.
IssuesCurrent ==
  \A r \in Request \ overlapped :
    /\ pc[r] = "login_issue" => seen[r] = password[user[r]]
    /\ pc[r] \in Refreshing =>
         gen[tok[r]] = password[user[r]] \/ tok[r] \in raced

\* One reset at a time has written the row of a user.
ResetsExclusive ==
  \A r, q \in Request :
    pc[r] \in Writing /\ pc[q] \in Writing /\ user[r] = user[q] => r = q

\* A forgot-password in flight has found every link of its user, unless
\* another one has committed beside it.
LinksFound ==
  \A r \in Request \ overlapped : pc[r] = "forgot_commit" =>
    \A t \in ResetToken :
      resetState[t] = "unused" /\ resetOwner[t] = user[r] => t \in scan[r]

IInv ==
  /\ TypeOK
  /\ SessionsTrackLiveTokens /\ SessionHashesUnique
  /\ ResetCutsOff /\ UntrackedOnlyIfRaced
  /\ LocksExclusive /\ RowsCommitted
  /\ RefreshOwnsToken /\ LogoutOwnsToken /\ ResetOwnsTokens /\ IssuesCurrent
  /\ ResetsExclusive /\ LinksFound

=============================================================================
