# MeetMind backend: TLA+ models and proofs

This directory models the server side of MeetMind (`app/`, a FastAPI service on
PostgreSQL and Redis) in TLA+. TLC checks the models on small instances; TLAPS
proves their main invariants, and that the code for sessions, accounts and interviews
implements an abstract specification of each, for any number of users, tokens and requests.
Paths below are relative to the root of the repository.

## 1. The system

One asyncio process (or several) serves HTTP. A request runs in a coroutine of
its own with a database session of its own (`app/db/session.py`) and gives way to
others at every `await`. Shared state is in PostgreSQL and in Redis; the process
itself keeps none. So every behaviour that is hard to test here comes from two
requests, or a request and a failure, meeting between two statements.

| Component | State | Operations | Talks to |
|---|---|---|---|
| Sessions (`app/services/auth.py`) | `refresh_tokens`, `active_sessions`, `password_reset_tokens`, `users.password_hash` | login, create_refresh_token, refresh_access_token, logout, create_password_reset_token, reset_password | database; access tokens on logout |
| Access tokens (`app/services/auth.py`, `app/core/redis.py`, `app/core/middleware.py`, `app/api/deps.py`) | JWTs held by clients, Redis keys `jwt:blacklist:jti:*` | create_access_token, blacklist_access_token_raw, middleware check, get_current_user | Redis, the clock |
| Accounts: signup and email verification (`app/services/verification_service.py`, `app/api/v1/routes/auth.py`) | `users`, `email_verification_tokens` | signup, create_verification_token, verify_email, resend_verification | database, mail, sessions |
| Email delivery (`app/services/email_service.py`) | background tasks of a response | send_* | mail provider |
| Google login (`app/services/google_oauth.py`) | `users`, `sso_providers`, cookie `oauth_state` | google_login, google_callback, find_or_create_user | Google, database, sessions |
| Interviews (`app/services/interview.py`) | `workspaces`, `workspace_members`, `candidates`, `interviews`, `interview_summaries` | create_interview, get_interview | database |
| Migrations (`alembic/`) | schema, `alembic_version` | upgrade and downgrade, twelve scripts | deploy, the models of `app/models` |
| Pure parts | none | password rules (`app/schemas/auth.py`), pagination (`app/core/responses.py`), UUIDv7 (`app/models/base.py`) | |
| Wiring | none | exception handlers, rate limiter, settings, logging, health | |
| Stubs | tables without code | meetings, workspaces, integrations, ask-mind routers | |

What makes each of them correct:

- Sessions: a session row always carries a live token of its user; logout and
  reset leave nothing behind that they should have ended; a reset reaches every
  token of its user and of nobody else; no request waits forever.
- Access tokens: a logged-out token is refused until it expires, whatever the
  order of the write, the clock and the check, unless Redis fails.
- Verification: an account that is not verified can be verified; only the owner
  of the mailbox verifies it; a mail never carries a token that was rolled back.
- Google login: a Google account gets a user of its own and never one that was
  signed up for; one Google account is one user.
- Interviews: one default workspace per user; an interview with candidate and summary,
  or nothing; no workspace left behind by an attempt that failed.
- Migrations: the schema depends on the revision and not on how it was reached; at the
  head it is the schema of the models; no date changes its meaning on the way; every
  documented command runs.

The hard behaviours are listed one by one, with their lines, under `hazards` in
`PROJECT.json`; the properties below were chosen from that list.

## 2. The database as the models see it

`create_async_engine` sets no isolation level, so PostgreSQL runs READ COMMITTED:

- A statement sees what was committed when it started. What a request has read
  may be stale when it is used, and nothing in the code locks on reading.
- An UPDATE or DELETE by primary key waits for the open transaction that wrote
  the row, then works on what that transaction left. `TokenFree`, `UserFree`,
  `SessionFree` (and `EmailFree`, `TokenFree` in `Accounts`) are these waits.
- A bulk UPDATE or DELETE visits the rows its snapshot found, one by one, waits
  for each and tests its WHERE clause again. It keeps the row lock even of a row
  that the second test drops.
- An INSERT with a taken unique value waits for the transaction that holds it and
  fails if that one commits.

SQLAlchemy decides when statements run. The session autoflushes: a SELECT or a
bulk statement first writes what is pending, which is why `revoked = true` takes
its lock at the SELECT of the session (`RefreshFlush`, `LogoutFlush`) and the new
password is written at the bulk UPDATE (`ResetFlush`). Only changed attributes are
written: a logout of a revoked token writes no token row. An UPDATE by primary key
that matches no row raises `StaleDataError` (`RefreshStale`); a DELETE of a
missing row is a warning. `expire_on_commit=False` means nothing is read again.

Each action is what a request does from one such statement to the next. A flush
at commit time and the commit are one action: the locks it takes are held only in
between, and no other statement's outcome depends on the point in between.
Uncommitted inserts are invisible, so new rows appear at the commit. Requests that
are refused (400, 401, 404) change nothing and are left out; a request that stops
before its commit, for whatever reason, is `Abort`.

## 3. Modules

### Sessions

Committed tables are functions (`tokenState`, `owner`, `session`, `resetState`,
`resetOwner`, `password`); rows of `refresh_tokens` and `password_reset_tokens` are
identified by their token, rows of `active_sessions` by the token they were inserted
with, so `session[s]` is the hash that row `s` now carries. Each slot of `Request`
has the statement it runs next (`pc`), its arguments, what its last SELECT found
(`scan`) and the token rows it has updated and not committed (`held`).

| Code | Actions |
|---|---|
| `login`, `create_refresh_token` | `LoginRead`, `CreateRefreshToken` |
| `refresh_access_token` | `RefreshRead`, `RefreshFlush`, `RefreshSelect`, `RefreshCommit` or `RefreshStale` |
| `logout` | `LogoutRead`, `LogoutFlush`, `LogoutSelect`, `LogoutCommit` |
| `_process_password_reset`, `create_password_reset_token` | `ForgotRead`, `ForgotCommit` |
| `reset_password` | `ResetRead`, `ResetFlush`, `ResetScan`, `ResetRevoke`, `ResetDelete`, `ResetCommit` |
| passing of `expires_at`; rollback | `Expire`, `Abort` |

A password is the number of the reset that wrote it. Three history variables, read
by no guard, make the properties statable: `gen` (the password a token's chain of
refreshes began with), `raced` and `overlapped` (tokens and requests that ran beside
a reset of their user). Signup and the Google callback call
`create_refresh_token` as well; their calls add no interleaving that
`LoginRead` and `CreateRefreshToken` do not have. Of forgot-password tasks `overlapped` has
those beside which another task of the user committed (`Linked`, a part of `ForgotCommit`).

### SessionRegistry and SessionsRefinement

`SessionRegistry` is what a user may rely on, without statements, locks or requests:
tokens have a holder, are live or not, and are listed or not; devices sign in, rotate
their token and sign out, and a reset signs out all of them. It states the two exceptions
the code makes: a refresh whose token ended in flight issues one all the same
(`Reissue`), and a reset may leave alive what was issued beside it (`spare`).

`Sessions` implements it under the mapping

| `SessionRegistry` | `Sessions` |
|---|---|
| `holder` | `owner` |
| `live` | the tokens whose row is live |
| `listed` | the hashes that rows of `active_sessions` carry |
| `spare` | `raced` |

`CreateRefreshToken` is `SignIn`; `RefreshCommit` is `Rotate` or `Reissue`;
`LogoutCommit` is `SignOut` or, of a token that had ended, a stutter; `ResetCommit` is
`SignOutEverywhere`; all other actions are stutters. TLC checks this as
`ImplementsRegistry`, and `SessionsRefinement` proves it.

### AccessTokens

Time is a pair of a second and a fraction of it, because the JWT holds whole
seconds and Redis keeps milliseconds. `key[t]` is the instant at which the Redis key
of `t` expires. A logout is `LogoutBegin` (which stands for the part Sessions
models), `LogoutRevoke` (computes the TTL) or `LogoutExpired`, and `SetEx` or
`SetExFails`; a request is `Check` (the middleware) and `Accept` or `Refuse`
(`get_current_user`). A request carries a cookie, a bearer token or both. The middleware
picks a token with `Extract`, `get_current_user` with `Resolve`; `tok` and `cred` are
what each of them found. Both prefer the cookie, but they read the header differently:
`_extract_token` takes it only if splitting it at all its blanks gives two parts
(`twoParts`), while `HTTPBearer` splits it at the first space and jose skips blanks in
the signature. `Check` therefore lets a request through unchecked when the middleware
finds nothing and `get_current_user` something; the reverse, and a token that cannot be
decoded, end in a 401 that changes nothing. The clock may tick and Redis may fail
between any two steps.

### Accounts

Accounts are named by their unique address: `account[e]` is absent, unverified or
verified, `link` the rows of `sso_providers`, `tokenState` and `owner` those of
`email_verification_tokens`. A mail is sent by the background task that runs after
the answer, and only a token that was mailed can be presented.

| Code | Actions |
|---|---|
| signup handler, `create_user` | `SignupRead`, `SignupInsert` or `SignupConflict`, `SignupCommit`, `SignupSession` |
| `resend_verification` | `ResendRead`, `ResendSelect`, `ResendCommit` |
| `create_verification_token` | `InsertToken`, in both of the above |
| `verify_email` | `VerifyRead`, `VerifyFlush`, `VerifyCommit` |
| `find_or_create_user` | `GoogleRead`, `GoogleLookup` or `GoogleRefused`, `GoogleInsert` or `GoogleFails`, `GoogleCommit` |
| background mail; passing of `expires_at`; rollback | `SendMail`, `Expire`, `Abort` |

Three histories, read by no guard, make the properties statable: `redeemed` counts how
often a token was accepted, `overlapped` are requests beside which another request for the
same account committed, and `contended` are accounts about whose tokens two requests
overlapped and for which no resend has run alone since (`Overlap`, `Working`).

The two ways to make an account meet at the unique index of `users.email`
(`EmailFree`, `Inserting`). A Google login enters with an identity and the address
Google vouched for; one whose identity has a link changes nothing here.

A callback that found no link is `Linking` until it ends; `overlapped` has the ones beside
which another callback of the same identity committed, whatever its address.

### AccountLifecycle and AccountsRefinement

`AccountLifecycle` is the life of an account without statements, requests or transactions:
a signup makes it with its first token (`SignUp`), or a Google identity verified from the
start (`SignInWithGoogle`); a resend replaces all its unused tokens (`Resend`), mails arrive
(`Deliver`), and whoever has one verifies the account and spends the token (`Verify`).
What overlapping requests can do is part of it: a resend beside another request replaces
some tokens only, or comes after the verification (`ResendBeside`), a token may be accepted
twice, and either makes the account `untidy` until a resend has it to itself.
`OnlyForward` says what an owner may rely on all the same.

| `AccountLifecycle` | `Accounts` |
|---|---|
| `account`, `link`, `owner` | the same |
| `unused` | the tokens of `TokenState` "unused" |
| `mailed` | `mailed` |
| `untidy` | `contended` |

`SignupCommit`, `ResendCommit`, `SendMail`, `VerifyCommit` and `GoogleCommit` are its steps,
all other actions stutters.

### Interviews

Workspaces, memberships, interviews, candidates and summaries are committed tables;
`written[r]` are the rows request `r` has flushed and not committed, `space[r]` the
workspace it works in. A flush sends one INSERT that nobody else sees; the commit
publishes all of them (`Published`).

| Code | Actions |
|---|---|
| `create_interview` handler and `get_current_user` | `Arrive` (with `RoleTitle`: `role_title`, or for want of one the title) |
| `_get_or_create_workspace` | `LookupFinds`, `LookupNone` and `FlushMember`, or `LookupFails` (two rows) |
| `create_interview` | `FlushCandidate`, `FlushInterview` or `FlushInterviewFails`, `Commit` |
| `get_interview` | the operator `GetInterview`, which `InterviewsWhole` evaluates |
| rollback | `Abort` |

A label is reduced to whether it fits the column: a title may have 200 characters, the
column `role_title` takes 120. `raced`, a history, has the users of whom two requests were
making the first workspace at the same time.

### InterviewBook and InterviewsRefinement

`InterviewBook` has neither flushes nor requests: an interview is entered whole, in the
workspace of its interviewer (`Create`) or in the one it makes (`CreateFirst`); users without
a workspace may race (`Race`), and a user who raced may get further workspaces. `Kept` is
what a user may rely on: nothing entered changes, and who has a workspace before any race
never gets another.

| `InterviewBook` | `Interviews` |
|---|---|
| `creator`, `team` | the committed workspaces and their members |
| `entry[i]` | interview, candidate and summary of `i` as one record |
| `raced` | `raced` |

`Commit` is `Create` or `CreateFirst`; a lookup that finds no workspace while another request
of the user makes one is `Race`; the other flushes, failures and rollbacks are stutters.

### Migrations

The state is the schema (`db`), the applied revisions, the server's time zone, whether
`active_sessions` holds rows, and the last command. Each of the twelve scripts is a pair of
sequences of statements, `Up_...` and `Down_...`, named by the beginning of its revision.
`Possible` and `Effect` say when PostgreSQL runs a statement and what it does, `Run` what a
script does statement by statement, `RunAll` what the scripts of a command do, and `Command`
takes the result or nothing, since `env.py` runs all the scripts of a command in one
transaction. `Closed` are the sets of revisions that hold all that their members revise, and
`Ancestors` what a target needs. `Upgrade` and `Downgrade` take every revision as
target, so the three branches below the merge are upgraded and rolled back in any order.

Statements that do not depend on each other's order are one statement over a set, so the
eighty-seven conversions of `8ba95b973a4a` are a handful. Of a table the model keeps its
foreign keys, its date columns (naive or aware), the columns a later script adds, and the
indexes and constraints with a statement of their own: this is all that a script after the
first one changes, and nullability apart, all that its statements can fail on.
`Models` is the schema the ORM classes map to, translated from `app/models` and not from the
scripts. `RefsAt`, `TypeAt` and `IndexAt` give the schema of a closed set of revisions in
closed form, as a union over its members: what each of them creates, converts and replaces.
`drift` follows what happens to a value: by how much the instant it stands for has
moved, a naive value being read as UTC, as the USING clauses of `8ba95b973a4a` read it.

The MC modules add symmetry sets and the time zones. `SessionsProofs`,
`SessionsRefinement`, `AccessTokensProofs`, `AccountsProofs`, `AccountsRefinement`,
`InterviewsProofs`, `InterviewsRefinement` and `MigrationsProofs` hold the proofs. The operators called "Mutant of ..." are wrong versions of the definition they
stand before; each property of a passing run is violated when its mutant is put in
place.

## 4. Runs

| Run | Instance | Shows |
|---|---|---|
| `sessions_safety` | 2 users, 3 tokens, 2 links, 2 requests | sessions track live tokens, hashes are unique, a reset cuts off all but racing tokens and stays within its user, live tokens are tracked, a fresh reset link ends the earlier ones (`OneResetLink`); Sessions implements SessionRegistry |
| `sessions_three` | 1 user, 3 tokens, 1 link, 3 requests | the inductive invariant; no cycle of waits (`NoWaitCycle`), and only the waits it speaks of (`OnlyLocksBlock`) |
| `sessions_live` | 1 user, 2 tokens, 1 link, 2 requests, expiry | every request ends; the type invariant, with expiry |
| `tokens_blacklist` | 2 tokens, 2 requests, 1 outage, half seconds | a logged-out token is on the blacklist until its last second, and a request the middleware finds a token in is refused with it until then, in cookie or header |
| `accounts_safety` | 2 addresses, 3 tokens, 2 Google identities, 3 requests, expiry | accounts are never stranded, mails refer to existing tokens, only owners verify, Google never takes over a signup; tokens are single and accepted once, and an identity has one account, unless requests overlapped; Accounts implements AccountLifecycle |
| `interviews_safety` | 2 users, 3 requests, 3 interviews, 3 workspaces | interviews are whole, workspaces are in use, one per user unless raced; Interviews implements InterviewBook |
| `migrations_safety` | 12 revisions, time zones -1, 0, 1 | the schema depends on the revisions alone, serves the models at the head, failures are explained, dates keep their instants, two revisions are never undone (`NoWayBack`); the inductive invariant, with the closed form of the schema |

Bounds. Two requests are every pairwise race; three let a refresh, a logout and a
reset overlap, which is the longest chain of waits (both lock owners a reset can
wait for are single-row). Three tokens are a login and two refreshes of its token,
or a chain of two refreshes beside a racing logout; a token is never re-used, so the
number of tokens bounds the logins and refreshes of a behaviour. Two links let a
second forgot-password task invalidate the first link while a reset is using it.
`MaxExpired` bounds how many tokens expire; expiry only keeps a request from
starting, so the Sessions safety runs leave it out and `sessions_live` has it.
`MaxSecond`, `Lifetime` and `Fractions` let a token be issued, logged out and expire
with one instant inside a second. Requests that would insert a token start only while
one is left (`TokensLeft`, `ResetTokensLeft`), so that no request is stuck for want
of a value. The proofs need none of these bounds.

In `Interviews` two requests race for the first workspace while a third comes before,
beside or after them, and an interview is left for each; a second workspace of one user
needs two. `Migrations` has all revisions there are; `MaxDrift` stops
the values of `interview_summaries`, which each way down moves by another offset, after two.
A row count of `active_sessions` is "some" or "none", since a statement fails on any row.

`MCInterviews_*.cfg` turn deadlock checking off because the rows run out, and
`MCMigrations_*.cfg` for the sake of `MaxDrift`. `MCAccounts_*.cfg` turn it off
because, when all tokens are used, all accounts verified and all identities linked, no
request changes anything any more.

Fairness. `LiveSpec` assumes strong fairness of each request's own steps
(`Advance`): the event loop resumes every coroutine whose statement is answered, and
PostgreSQL serves the waiters of a row lock in order, so a request whose lock is free
again and again gets it. Clients, expiry and aborts are under no fairness.

### Where the code and its documentation disagree

Each of these runs checks one sentence of the repository, and TLC finds the
interleaving that refutes it (`findings` in `PROJECT.json` quotes the sentences).

| Run | What happens |
|---|---|
| `sessions_old_password` | a login or refresh beside a reset leaves a live token of the old password |
| `sessions_single_use` | two resets with one link both change the password |
| `accounts_refused` | of two first callbacks of one Google identity, the second is refused the account of the first as if it had a password |
| `interviews_first_workspace` | two first interviews of a user make two workspaces, and every later one is a 500 |
| `migrations_wipe` | `alembic downgrade base` fails and leaves everything in place |

The last one fails at the first `op.drop_constraint(None, ...)` on the way (`864df66fbeb7`);
from the head it does not come that far, because `7ba4c8acd02e` first re-creates an index
that exists. `FailuresExplained` says that these two scripts, and adding a NOT NULL
column to sessions that exist (`a8cbb47717b3`), are the only ones that can fail.

Seven more are stated as the exception in a property that holds:

- A refresh whose token was rotated or logged out since it was read issues a new one
  (`Reissue` in `SessionRegistry`); `app/services/auth.py:408` promises a rotation.
- A logged-out access token is accepted in the second of its `exp`
  (`AcceptedOnlyInLastSecond`); `app/api/v1/routes/auth.py:425` says it is refused for
  the rest of its lifetime.
- A request whose bearer header has blanks inside the token is not looked up, and a
  logged-out token in it is accepted (`Checked` in `AcceptedOnlyInLastSecond`);
  `app/core/middleware.py:17` says that every request is intercepted.
- Two resends leave two active tokens (`contended` in `OneActiveToken`);
  `app/services/verification_service.py:68` says one.
- One token is accepted twice by two verifications at the same time (`overlapped` in
  `AcceptedOnce`); `app/api/v1/routes/auth.py:147` calls it single-use.
- Two forgot-password tasks leave two links that work (`overlapped` in `OneResetLink`);
  `app/services/auth.py:266` says earlier ones are invalidated.
- Two first callbacks of one Google identity with different addresses make two accounts
  (`overlapped` in `OneAccountPerIdentity`); `scalar_one_or_none` at
  `app/services/google_oauth.py:153` counts on one link.

Seen while modelling, and without a property: the loser of two signups ends in `SignupConflict`, a 500, where
`app/api/v1/routes/auth.py:67` promises `user_already_exists`; `README.md:267` ends the
chain of migrations at `2cdac93874a4`, three before the head; `get_interview` answers with
`role_title` as the title where `create_interview` answers with the title
(`app/services/interview.py:120` and `:190`); the handlers set their cookies on the
injected response but return the `JSONResponse` of `success()`, to which FastAPI does not
copy them, while `README.md:181` says the tokens are set as cookies; the deploy has the
migrations commented out (`.github/workflows/cd.yml:77`), which `README.md:381` asks for.

The passing properties state what is true instead: `ResetCutsOff` and
`UntrackedOnlyIfRaced` name exactly the tokens that escape, `UnverifiedHasUnusedToken`
what concurrent resends cannot break, `SignupsNotLinked` what is left of the 409 when
callbacks and signups race, `OneWorkspaceUnlessRaced` how a user comes by two workspaces,
`InstantsKept` which dates move: those of the two token tables by the server's offset
while they are aware, and those of `interview_summaries` with each way down.

## 5. Proofs

`SessionsProofs`, `AccessTokensProofs`, `AccountsProofs`, `InterviewsProofs` and
`MigrationsProofs` prove safety properties of the passing runs for every value of the
constants; `SessionsRefinement`, `AccountsRefinement` and `InterviewsRefinement` that a module
implements its abstract specification. They assume what the modules assume of their
constants: the "no value" constants are not values (`NoValueAssumption`), bounds are natural
numbers, in `AccessTokens` a token lives at least a second and a second has at least one
fraction (`ClockAssumption`), and in `Migrations` time zones are offsets (`ZonesAssumption`).
Nothing is assumed to be finite.

Each module follows one argument: `Initiation` (`Init => IInv`), a lemma per action or
per kind of action that the action preserves `IInv`, `Consecution` from those lemmas,
`InductiveInvariant` by temporal logic, and the properties from the conjuncts of
`IInv`. Steps that write no table share a frame lemma (`TablesFrame`, `StoreFrame`).

### Invariants

None of the properties is inductive by itself, because each depends on what the
requests in flight believe. `IInv` of `Sessions` adds:

- `LocksExclusive`: rows in `held` are locked by one request, exist, and are held only
  between flush and commit. Without it two refreshes could commit on one row.
- `RowsCommitted`: what a request refers to is committed and belongs to its user, so a
  token that is about to be inserted is in nobody's `scan`.
- `RefreshOwnsToken`: between its SELECT of the session and its commit a refresh
  holds the token's row, so the session it found is still the only one with that hash
  (or was deleted by a reset). This is why a second refresh of one token cannot
  take the session over, although nothing in the code tests for it.
- `LogoutOwnsToken`: a logout holds the row, or found it revoked; in the second case
  `SessionsTrackLiveTokens` tells that it has no session.
- `ResetOwnsTokens`: from its scan on, every live token of the user is held by the
  reset, still to be visited, or `raced`. This gives `ResetCutsOff` at the commit.
- `IssuesCurrent`: what a login or refresh is about to issue stems from the current
  password unless a reset committed meanwhile (`overlapped`).
- `LinksFound`: a forgot-password task beside which no other one committed has found every
  link of its user that works. This gives `OneResetLink`.
- `ResetsExclusive`: one reset of a user writes at a time.

`NoWaitCycle` follows from `IInv` along the waits. A request that holds nothing waits for
one that holds token rows or for a reset that has written. A reset that revokes waits for
refreshes and logouts that hold their row: another reset would be one of the same user, which
`ResetsExclusive` excludes. Those wait for sessions only, which only a reset about to commit has
deleted, and that one waits for nobody. `NeverAllWait` needs no bound on the number of requests.

`IInv` of `AccessTokens` carries the TTL from its computation to the write
(`SlotsCurrent`: counted from now, it reaches the second of `exp`, and the clock
only helps), to the key (`KeysLast`), to the logout's answer (`LogoutsStored`) and to
requests checked after that (`LateAtTheEnd`), which hold the token they were checked
for (`SlotsCurrent` again; of a request the middleware found no token in it only says
that its token was issued). `IInv` of `Accounts` says that
a request acts on tokens of its own account, and a resend for an account that was
signed up for (`RequestsOwn`), that the unique index lets in one insert of an address
at a time, and only while the address is free (`InsertsExclusive`), and that tokens
and links have accounts (`TokensOwned`, `LinksOwned`). `SignupsNotLinked` needs
`InsertsExclusive`: nothing in either handler tests for the other at its commit.

`OneActiveToken` and `VerifiedHasNoToken` rest on `ResendsCurrent`: a resend that had its
account to itself knows all its unused tokens when it commits, so it leaves only its own.
`OneAccountPerIdentity` rests on `LinksCurrent`: the identity of a callback that is about to
make an account has no link yet, unless a callback of the same identity committed meanwhile.

`IInv` of `Interviews` follows a request through its flushes (`FlushedInOrder`: what is in
`written` at each step, so that the commit publishes whole interviews), ties its workspace to
its user (`SpaceIsTheUsers`: a committed membership, or a workspace nobody else is making),
and says that unless raced a user whose first workspace is being made has none yet and one
request makes it (`FirstOfTheUser`).

### Refinements

Each maps the commits to steps of the abstract specification, a lemma for each, and
everything else to a stutter (`QuietStep`), and needs `IInv` at every step.

- `SessionsRefinement`: `RefreshOwnsToken` for the token a refresh replaces to be the one its
  session carried, `ResetOwnsTokens` for what a reset leaves alive to be `raced`, and
  `Unissued`, that only a committed row has an owner, for new tokens to be new.
  `ListIsUsable` carries over what the registry promises.
- `AccountsRefinement`: `ResendsCurrent` for a resend that ran alone to be `Resend`,
  `InsertsExclusive` for an account to be made once, and an `Unissued` of its own. `NeverBack`
  carries over `OnlyForward`: an `Accounts` step takes back no verification and no link, and
  makes no spent token usable.
- `InterviewsRefinement`: `FlushedInOrder` for a commit to enter a whole interview,
  `FirstOfTheUser` for `CreateFirst`, and `NothingLeft`, that an interview without a row has
  nothing else either. `KeptForGood` carries over `OnlyKept`.

### Migrations

`MigrationsProofs` proves every property of `migrations_safety` whatever the time zones are and
however far values drift, along the structure of the program. For `TypeOK` and `InstantsKept`, a
schema is `WellFormed` if what it has on a column or index fits its
tables, and `Steady` if the dates have moved as `InstantsKept` says. `ExecuteKeeps`: a
statement that is `Harmless` keeps both. `ScriptsHarmless`: each statement of the twelve
scripts is harmless, both ways; the conversions without USING are so because they stay within the
token tables and `interview_summaries`. `RunKeeps` and `RunAllKeeps` carry this over a
script and over a command by induction on the number of statements and scripts
(`RunSteps`, `RunAllSteps`). The induction is derived from the well-foundedness of the
natural numbers (`LeastNumber`, `SetInduction`) on sets of numbers that are written out,
since the library's induction theorems take an operator. `OrderIsSound` and
`NoCycle` show that the graph of revisions has no cycle, so that a command leaves a closed
set of revisions.

For `SchemaDependsOnRevisions`, `ModelsServed`, `FailuresExplained` and `NoWayBack` the proof
follows the schema itself. `IInv` says that the schema is the closed form of the applied
revisions (`SchemaIs`); none of the four is inductive without it, since what a statement
does, and whether it can run, depends on the whole schema it meets. The steps are:

- A schema is five sets (`Schema`): tables, dates, aware dates, other columns, indexes. The
  lemmas `CreateSchema`, `DropSchema`, `AddSchema`, `AlterSchema` and so on say when a statement
  runs and which of the sets it changes.
- `FoundedIs`, `RefsFound`, `FoundedLacks`, `ColumnsPlaced` and `NewTablesApart` are the facts
  about the tables of `cacd5554ba5a` and the columns of later scripts on which it depends that a
  statement runs: what a table refers to exists before it, a column added later is not there yet.
- One lemma per script and way (`Up_cacd_Does`, `Down_cacd_Does`, ...): on the schema of any
  closed set of revisions without (with) its own, it leads to the schema of that set with
  (without) it. `Up_a8cb_Does` has the failure on rows; `Down_864d_Fails` and
  `Down_7ba4_Fails` show that these two never run.
- `UpDoes` and `DownDoes` put them together. `UpAllDoes` and `DownAllDoes` carry them over a
  command by induction: in the order of the scripts, what has been applied at any
  point is a closed set. The theorems follow with the schema of a fresh database
  (`FreshIs`), and with `HeadServesModels`, which shows table by table that the closed form of
  all revisions is `Models`.

The theorem `OneWayStays` makes the finding about `alembic downgrade base` general: from no
schema does a command undo `864df66fbeb7` or `7ba4c8acd02e`.

Writing these proofs changed the model once: the CASE that gave the effect of a conversion had
overlapping guards, which TLC resolves by their order and TLA+ does not.

### Only model-checked

- `EveryRequestCompletes`: liveness under fairness.
- `OnlyLocksBlock`: it speaks of `ENABLED`. It ties `Unblocked`, which `NoWaitCycle` and its
  proof use, to the guards of the actions.
- The counterexamples of the table above.

`sessions_three` checks `IInv` of `Sessions` with TLC as well, and `migrations_safety` that of
`Migrations`.

## 6. Not modelled

- The state cookie and the exchange of the code of the Google callback: they decide
  whether a callback goes on, and `Accounts` lets one go on at any time.
- Cookie attributes, the device list of `active_sessions` and login by an account without
  a password: data that no property here tells apart.
- Of migrations: columns, nullability and constraints that no later script touches; values
  that `now()` wrote as local time; a schema of one revision under code of another; the
  autogeneration of scripts.
- Password rules, pagination and UUIDv7: pure functions that unit tests reach.
- Clients and lost answers: a client may send any token at any time, which includes
  retries, but what a client holds after a lost answer is not a variable yet.
- Rate limits only thin out the requests clients may send. Text, templates, logging,
  settings, the health and user endpoints have no state that changes.
- Routers without endpoints; their tables are in `Migrations`.
- Connection-pool exhaustion and PostgreSQL's deadlock detector; the latter has nothing
  to detect as long as `NoWaitCycle` holds.

## 7. Plan

Done: `Sessions`, `AccessTokens`, `Accounts`, `Interviews` and `Migrations` with their proofs;
`SessionRegistry`, `AccountLifecycle` and `InterviewBook` with their refinements. Left, in
this order:

1. `Logout`: the composition of `Sessions` and `AccessTokens` around the logout
   handler, with crashes between its two halves.
2. The state cookie in front of `find_or_create_user`.
3. A client actor for `Sessions` that holds tokens and loses answers.
