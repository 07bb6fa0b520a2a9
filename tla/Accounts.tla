------------------------------ MODULE Accounts ------------------------------
(***************************************************************************)
(* Accounts, their verification e-mails and their Google links: the signup *)
(* handler with AuthService.create_user, VerificationService with its      *)
(* operations create_verification_token, verify_email and                  *)
(* resend_verification, and google_oauth.find_or_create_user.              *)
(*                                                                         *)
(* As in module Sessions an action is what a request does between two      *)
(* suspensions, the database is PostgreSQL at READ COMMITTED, and the      *)
(* variables hold what is committed.  A mail is queued while the request   *)
(* runs and sent after its answer, as a background task.  A Google login   *)
(* enters with the identity and the address that Google has vouched for.   *)
(***************************************************************************)
EXTENDS Naturals, FiniteSets

CONSTANTS
  Email,        \* addresses; users.email is unique, so they name accounts
  Token,        \* verification token values
  Request,      \* slots for requests in flight; a slot is reused
  Identity,     \* Google account ids
  NoEmail, NoToken,
  MaxExpired    \* bound: how many tokens pass their expires_at

ASSUME NoValueAssumption == NoEmail \notin Email /\ NoToken \notin Token
ASSUME MaxExpiredAssumption == MaxExpired \in Nat

VARIABLES
  \* The committed tables.
  account,      \* users: no row, is_verified = false, is_verified = true
  link,         \* sso_providers: pairs of an identity and an account
  tokenState,   \* email_verification_tokens: no row, used_at null or set
  owner,        \* email_verification_tokens.user_id
  expired,      \* tokens whose expires_at has passed
  mailed,       \* tokens that reached the mailbox of their owner
  \* The request in each slot.
  pc,           \* the statement it runs next
  email,        \* the account it acts for
  tok,          \* the token or identity it came with, or queued a mail for
  scan,         \* the unused tokens its SELECT found
  \* History, read by no guard.
  redeemed,     \* how often verify_email accepted each token
  overlapped,   \* resends and verifications in flight when another one of
                \* their account committed, and callbacks in flight when
                \* another one of their identity did
  contended     \* accounts an overlapped one committed to, and no resend
                \* that had the account to itself since

tables == <<account, link, tokenState, owner, expired>>
slots  == <<pc, email, tok, scan>>
history == <<redeemed, overlapped, contended>>
vars   == <<tables, mailed, slots, history>>

Account == {"absent", "unverified", "verified"}
PC == {"idle", "signup_insert", "signup_commit", "signup_session", "mail",
       "resend_select", "resend_commit", "verify_flush", "verify_commit",
       "google_lookup", "google_insert", "google_commit"}

\* From its flush to its commit a request has inserted a user.
Inserting == {"signup_commit", "google_commit"}

\* A callback that found no link of its identity.
Linking == {"google_lookup", "google_insert", "google_commit"}

Unused(t) == tokenState[t] = "unused"

Init ==
  /\ account = [e \in Email |-> "absent"]
  /\ link = {}
  /\ tokenState = [t \in Token |-> "absent"]
  /\ owner = [t \in Token |-> NoEmail]
  /\ expired = {}
  /\ mailed = {}
  /\ pc = [r \in Request |-> "idle"]
  /\ email = [r \in Request |-> NoEmail]
  /\ tok = [r \in Request |-> NoToken]
  /\ scan = [r \in Request |-> {}]
  /\ redeemed = [t \in Token |-> 0]
  /\ overlapped = {}
  /\ contended = {}

-----------------------------------------------------------------------------
(* Requests, locks and bounds.                                              *)

\* Mutant of Begin: the account and the token change places.
BeginSwapped(r, e, t, next) ==
  /\ pc[r] = "idle"
  /\ pc' = [pc EXCEPT ![r] = next]
  /\ email' = [email EXCEPT ![r] = t]
  /\ tok' = [tok EXCEPT ![r] = e]
  /\ UNCHANGED <<tables, mailed, scan, history>>

\* A handler's first SELECT: the slot is taken, nothing is written.
Begin(r, e, t, next) ==
  /\ pc[r] = "idle"
  /\ pc' = [pc EXCEPT ![r] = next]
  /\ email' = [email EXCEPT ![r] = e]
  /\ tok' = [tok EXCEPT ![r] = t]
  /\ UNCHANGED <<tables, mailed, scan, history>>

Goto(r, from, to) ==
  /\ pc[r] = from
  /\ pc' = [pc EXCEPT ![r] = to]
  /\ UNCHANGED email

\* The session is closed.
Close(r) ==
  /\ pc' = [pc EXCEPT ![r] = "idle"]
  /\ email' = [email EXCEPT ![r] = NoEmail]
  /\ tok' = [tok EXCEPT ![r] = NoToken]
  /\ scan' = [scan EXCEPT ![r] = {}]

Finish(r) == Close(r) /\ overlapped' = overlapped \ {r}

\* Resends and verifications of account e in flight.
Working(e) ==
  {q \in Request : /\ email[q] = e
                   /\ pc[q] \in {"resend_select", "resend_commit",
                                 "verify_flush", "verify_commit"}}

\* History of a commit to the tokens of its account: r is done, the others
\* have read what is no longer so.
Overlap(r) == overlapped' = (overlapped \cup Working(email[r])) \ {r}

\* The unique index of users.email makes an INSERT wait for the open
\* transaction that has inserted the same address.
EmailFree(r, e) ==
  \A q \in Request \ {r} :
    ~(pc[q] \in Inserting /\ email[q] = e)

\* No open verification has written the row of t.
TokenFree(r, t) ==
  \A q \in Request \ {r} : ~(pc[q] = "verify_commit" /\ tok[q] = t)

\* Bound: a request that inserts a token starts while one is left for it.
TokensLeft ==
  Cardinality({t \in Token : tokenState[t] = "absent"})
    > Cardinality({q \in Request : pc[q] \in {"signup_insert", "signup_commit",
                                              "resend_select", "resend_commit"}})

Expire(t) ==
  /\ Unused(t)
  /\ t \notin expired
  /\ Cardinality(expired) < MaxExpired
  /\ expired' = expired \cup {t}
  /\ UNCHANGED <<account, link, tokenState, owner, mailed, slots, history>>

\* A request stops: a statement fails, the client goes away, the worker is
\* killed.  What is not committed is rolled back, a queued mail is dropped.
Abort(r) ==
  /\ pc[r] # "idle"
  /\ Finish(r)
  /\ UNCHANGED <<tables, mailed, redeemed, contended>>

-----------------------------------------------------------------------------
(* create_verification_token, for signup and for resend.                    *)

\* One commit: the tokens found are used, n is inserted and its mail queued.
InsertToken(r, n) ==
  /\ tokenState[n] = "absent"
  /\ tokenState' = [t \in Token |-> CASE t = n -> "unused"
                                      [] t \in scan[r] -> "used"
                                      [] OTHER -> tokenState[t]]
  /\ owner' = [owner EXCEPT ![n] = email[r]]
  /\ tok' = [tok EXCEPT ![r] = n]
  /\ scan' = [scan EXCEPT ![r] = {}]

\* After the answer the background task runs; a failure is only logged.
SendMail(r) ==
  /\ pc[r] = "mail"
  /\ mailed' = mailed \cup {tok[r]}
  /\ Finish(r)
  /\ UNCHANGED <<tables, redeemed, contended>>

-----------------------------------------------------------------------------
(* signup.                                                                  *)

\* check_email_exists: a registered address is a 400.
SignupRead(r, e) ==
  /\ TokensLeft
  /\ account[e] = "absent"
  /\ Begin(r, e, NoToken, "signup_insert")

\* Mutant of SignupInsert: the mail is sent at once, before the commit.
SignupInsertMailing(r) ==
  /\ Goto(r, "signup_insert", "signup_commit")
  /\ EmailFree(r, email[r])
  /\ account[email[r]] = "absent"
  /\ \E n \in Token : tokenState[n] = "absent" /\ mailed' = mailed \cup {n}
  /\ UNCHANGED <<tables, tok, scan, history>>

\* The flush of create_user.
SignupInsert(r) ==
  /\ Goto(r, "signup_insert", "signup_commit")
  /\ EmailFree(r, email[r])
  /\ account[email[r]] = "absent"
  /\ UNCHANGED <<tables, mailed, tok, scan, history>>

\* IntegrityError: another signup was faster.  The handler answers 500.
SignupConflict(r) ==
  /\ pc[r] = "signup_insert"
  /\ EmailFree(r, email[r])
  /\ account[email[r]] # "absent"
  /\ Finish(r)
  /\ UNCHANGED <<tables, mailed, redeemed, contended>>

\* Mutant of SignupCommit: accounts start as verified.
SignupCommitVerified(r) ==
  /\ Goto(r, "signup_commit", "signup_session")
  /\ account' = [account EXCEPT ![email[r]] = "verified"]
  /\ \E n \in Token : InsertToken(r, n)
  /\ UNCHANGED <<link, expired, mailed, history>>

\* The commit of create_verification_token takes the account with it.
SignupCommit(r) ==
  /\ Goto(r, "signup_commit", "signup_session")
  /\ account' = [account EXCEPT ![email[r]] = "unverified"]
  /\ \E n \in Token : InsertToken(r, n)
  /\ UNCHANGED <<link, expired, mailed, history>>

\* create_refresh_token commits on its own, then the answer goes out.
SignupSession(r) ==
  /\ Goto(r, "signup_session", "mail")
  /\ UNCHANGED <<tables, mailed, tok, scan, history>>

-----------------------------------------------------------------------------
(* resend_verification.                                                     *)

\* Mutant of ResendRead: whether the account is verified is not looked at.
ResendReadAnyone(r, e) ==
  /\ TokensLeft
  /\ account[e] # "absent"
  /\ Begin(r, e, NoToken, "resend_select")

\* An unknown address is a 404, a verified one a 400.
ResendRead(r, e) ==
  /\ TokensLeft
  /\ account[e] = "unverified"
  /\ Begin(r, e, NoToken, "resend_select")

\* Mutant of ResendSelect: expired tokens are left as they are.
ResendSelectValid(r) ==
  /\ Goto(r, "resend_select", "resend_commit")
  /\ scan' = [scan EXCEPT ![r] = {t \in Token \ expired :
                                    Unused(t) /\ owner[t] = email[r]}]
  /\ UNCHANGED <<tables, mailed, tok, history>>

\* SELECT the account's tokens with used_at null, expired or not.
ResendSelect(r) ==
  /\ Goto(r, "resend_select", "resend_commit")
  /\ scan' = [scan EXCEPT ![r] = {t \in Token : Unused(t) /\ owner[t] = email[r]}]
  /\ UNCHANGED <<tables, mailed, tok, history>>

\* The UPDATE of the tokens found waits for a verification that holds one.
ResendCommit(r) ==
  /\ Goto(r, "resend_commit", "mail")
  /\ \A t \in scan[r] : TokenFree(r, t)
  /\ \E n \in Token : InsertToken(r, n)
  /\ Overlap(r)
  /\ contended' = IF r \in overlapped THEN contended \cup {email[r]}
                                     ELSE contended \ {email[r]}
  /\ UNCHANGED <<account, link, expired, mailed, redeemed>>

-----------------------------------------------------------------------------
(* verify_email, by whoever got the mail.                                   *)

\* Mutant of VerifyRead: used_at is not looked at.
VerifyReadUsed(r, t) ==
  /\ t \in mailed
  /\ t \notin expired
  /\ Begin(r, owner[t], t, "verify_flush")

\* Unknown, used and expired tokens are a 400.
VerifyRead(r, t) ==
  /\ t \in mailed
  /\ Unused(t)
  /\ t \notin expired
  /\ Begin(r, owner[t], t, "verify_flush")

\* Mutant of VerifyFlush: used_at is committed before the user is read.
VerifyFlushCommitted(r) ==
  /\ Goto(r, "verify_flush", "verify_commit")
  /\ TokenFree(r, tok[r])
  /\ tokenState' = [tokenState EXCEPT ![tok[r]] = "used"]
  /\ UNCHANGED <<account, link, owner, expired, mailed, tok, scan, history>>

\* The SELECT of the user flushes used_at first.
VerifyFlush(r) ==
  /\ Goto(r, "verify_flush", "verify_commit")
  /\ TokenFree(r, tok[r])
  /\ UNCHANGED <<tables, mailed, tok, scan, history>>

VerifyCommit(r) ==
  /\ pc[r] = "verify_commit"
  /\ tokenState' = [tokenState EXCEPT ![tok[r]] = "used"]
  /\ account' = [account EXCEPT ![email[r]] = "verified"]
  /\ redeemed' = [redeemed EXCEPT ![tok[r]] = @ + 1]
  /\ contended' = IF r \in overlapped THEN contended \cup {email[r]} ELSE contended
  /\ Overlap(r)
  /\ Close(r)
  /\ UNCHANGED <<link, owner, expired, mailed>>

-----------------------------------------------------------------------------
(* find_or_create_user, for a Google identity and its address.              *)

\* Mutant of GoogleRead: the link is looked up with the address of today.
GoogleReadByAddress(r, g, e) ==
  /\ <<g, e>> \notin link
  /\ Begin(r, e, g, "google_lookup")

\* SELECT the link: an identity that has one logs in to its account, which
\* changes nothing here.  Google may report another address than last time.
GoogleRead(r, g, e) ==
  /\ \A a \in Email : <<g, a>> \notin link
  /\ Begin(r, e, g, "google_lookup")

\* SELECT the account by its address ..
GoogleLookup(r) ==
  /\ Goto(r, "google_lookup", "google_insert")
  /\ account[email[r]] = "absent"
  /\ UNCHANGED <<tables, mailed, tok, scan, history>>

\* .. one that exists is not linked: 409.
GoogleRefused(r) ==
  /\ pc[r] = "google_lookup"
  /\ account[email[r]] # "absent"
  /\ Finish(r)
  /\ UNCHANGED <<tables, mailed, redeemed, contended>>

\* Mutant of GoogleInsert: an upsert, which takes over the row it finds.
GoogleUpsert(r) ==
  /\ Goto(r, "google_insert", "google_commit")
  /\ EmailFree(r, email[r])
  /\ UNCHANGED <<tables, mailed, tok, scan, history>>

\* The flush of the new user.
GoogleInsert(r) ==
  /\ Goto(r, "google_insert", "google_commit")
  /\ EmailFree(r, email[r])
  /\ account[email[r]] = "absent"
  /\ UNCHANGED <<tables, mailed, tok, scan, history>>

\* IntegrityError, which nothing catches but the handler of last resort: 500.
GoogleFails(r) ==
  /\ pc[r] = "google_insert"
  /\ EmailFree(r, email[r])
  /\ account[email[r]] # "absent"
  /\ Finish(r)
  /\ UNCHANGED <<tables, mailed, redeemed, contended>>

\* One commit: the account, verified from the start, and its link.
GoogleCommit(r) ==
  /\ pc[r] = "google_commit"
  /\ account' = [account EXCEPT ![email[r]] = "verified"]
  /\ link' = link \cup {<<tok[r], email[r]>>}
  /\ overlapped' = (overlapped \cup {q \in Request : pc[q] \in Linking
                                                   /\ tok[q] = tok[r]}) \ {r}
  /\ Close(r)
  /\ UNCHANGED <<tokenState, owner, expired, mailed, redeemed, contended>>

-----------------------------------------------------------------------------
Next ==
  \/ \E r \in Request, e \in Email : SignupRead(r, e) \/ ResendRead(r, e)
  \/ \E r \in Request, t \in Token : VerifyRead(r, t)
  \/ \E r \in Request, g \in Identity, e \in Email : GoogleRead(r, g, e)
  \/ \E r \in Request :
       \/ SignupInsert(r) \/ SignupConflict(r) \/ SignupCommit(r)
       \/ SignupSession(r) \/ SendMail(r)
       \/ ResendSelect(r) \/ ResendCommit(r)
       \/ VerifyFlush(r) \/ VerifyCommit(r)
       \/ GoogleLookup(r) \/ GoogleRefused(r)
       \/ GoogleInsert(r) \/ GoogleFails(r) \/ GoogleCommit(r)
       \/ Abort(r)
  \/ \E t \in Token : Expire(t)

Spec == Init /\ [][Next]_vars

-----------------------------------------------------------------------------
(* Properties.                                                              *)

TypeOK ==
  /\ account \in [Email -> Account]
  /\ link \subseteq Identity \X Email
  /\ tokenState \in [Token -> {"absent", "unused", "used"}]
  /\ owner \in [Token -> Email \cup {NoEmail}]
  /\ expired \subseteq Token
  /\ mailed \subseteq Token
  /\ pc \in [Request -> PC]
  /\ email \in [Request -> Email \cup {NoEmail}]
  /\ tok \in [Request -> Token \cup Identity \cup {NoToken}]
  /\ scan \in [Request -> SUBSET Token]
  /\ redeemed \in [Token -> Nat]
  /\ overlapped \subseteq Request
  /\ contended \subseteq Email

\* Whatever commits, aborts or overlaps, an account that is not verified has
\* a token that is not used: resend invalidates and replaces in one commit,
\* verify_email uses one up only with the verification.
UnverifiedHasUnusedToken ==
  \A e \in Email : account[e] = "unverified" =>
    \E t \in Token : Unused(t) /\ owner[t] = e

\* The link of every mail that arrives is known to the database and belongs
\* to an account: mails queued by a request that rolls back are not sent.
MailedTokensExist ==
  \A t \in mailed :
    /\ tokenState[t] # "absent"
    /\ owner[t] \in Email /\ account[owner[t]] # "absent"

\* An account is verified only by its owner: with a token that was mailed to
\* its address, or by the Google identity it was made for.
VerifiedByOwner ==
  \A e \in Email : account[e] = "verified" =>
    \/ \E t \in mailed : owner[t] = e /\ redeemed[t] > 0
    \/ \E g \in Identity : <<g, e>> \in link

\* A Google identity never gets hold of an account that was signed up for,
\* and every signup owns a token: whoever is first at the unique index, the
\* two ways to make an account do not mix.
SignupsNotLinked ==
  \A g \in Identity, e \in Email : <<g, e>> \in link =>
    \A t \in Token : tokenState[t] # "absent" => owner[t] # e

\* An account has one active token at most, unless two requests about its
\* tokens overlapped and no resend has run alone since: resend invalidates
\* whatever it does not replace, expired tokens too.
OneActiveToken ==
  \A t1, t2 \in Token :
    Unused(t1) /\ Unused(t2) /\ owner[t1] = owner[t2] =>
      t1 = t2 \/ owner[t1] \in contended

\* No token is left to a verified account, with the same exception.
VerifiedHasNoToken ==
  \A e \in Email : account[e] = "verified" =>
    e \in contended \/ \A t \in Token : Unused(t) => owner[t] # e

\* A verification that goes through uses up a token that was unused and was
\* never accepted, unless another request of the account committed beside it.
AcceptedOnce ==
  \A r \in Request \ overlapped : pc[r] \in {"verify_flush", "verify_commit"} =>
    Unused(tok[r]) /\ redeemed[tok[r]] = 0

\* An identity gets a second account, which would make every later lookup of
\* its link fail, only from a callback beside which another one of the same
\* identity committed.
OneAccountPerIdentity ==
  [][\A g \in Identity, a, e \in Email :
       <<g, a>> \in link /\ <<g, e>> \in link' \ link =>
         \E r \in overlapped : pc[r] = "google_commit" /\ pc'[r] = "idle"]_vars

-----------------------------------------------------------------------------
(* The abstract specification these requests implement.                     *)

Lifecycle == INSTANCE AccountLifecycle WITH
  unused <- {t \in Token : Unused(t)},
  untidy <- contended

\* Whatever overlaps, fails or is rolled back, what is committed moves as the
\* life of an account allows: made once, verified once, its tokens replaced.
ImplementsLifecycle == Lifecycle!Spec

-----------------------------------------------------------------------------
(* What a docstring claims and concurrent requests refute.                  *)

\* Only an account with a password makes a Google login a 409: an identity is
\* never refused the account it has made itself.
RefusedOnlyForSignups ==
  [][\A r \in Request :
       GoogleRefused(r) => <<tok[r], email[r]>> \notin link]_vars

-----------------------------------------------------------------------------
(* The inductive invariant behind the safety properties.                    *)

\* Every token row has its account.
TokensOwned ==
  \A t \in Token : tokenState[t] # "absent" =>
    owner[t] \in Email /\ account[owner[t]] # "absent"

\* Every link has its account.
LinksOwned == \A g \in Identity, e \in Email : <<g, e>> \in link => account[e] # "absent"

\* An address is inserted by one open transaction at a time, and only while
\* no row has it.
InsertsExclusive ==
  \A r \in Request : pc[r] \in Inserting =>
    /\ account[email[r]] = "absent"
    /\ \A q \in Request \ {r} : pc[q] \in Inserting => email[q] # email[r]

\* A request acts for one account, on tokens of that account; a resend acts
\* for an account that was signed up for.
RequestsOwn ==
  \A r \in Request :
    /\ pc[r] # "idle" => email[r] \in Email
    /\ pc[r] # "resend_commit" => scan[r] = {}
    /\ \A t \in scan[r] : owner[t] = email[r] /\ tokenState[t] # "absent"
    /\ pc[r] \in {"resend_select", "resend_commit"} =>
         /\ account[email[r]] # "absent"
         /\ \A g \in Identity : <<g, email[r]>> \notin link
    /\ pc[r] \in {"signup_session", "mail", "verify_flush", "verify_commit"} =>
         tok[r] \in Token /\ tokenState[tok[r]] # "absent" /\ owner[tok[r]] = email[r]
    /\ pc[r] \in {"verify_flush", "verify_commit"} => tok[r] \in mailed
    /\ pc[r] \in Linking => tok[r] \in Identity

\* A resend that had the account to itself knows it as it is: not verified,
\* and with no unused token but those it found.
ResendsCurrent ==
  \A r \in Request \ overlapped :
    /\ pc[r] \in {"resend_select", "resend_commit"} => account[email[r]] = "unverified"
    /\ pc[r] = "resend_commit" =>
         \A t \in Token : Unused(t) /\ owner[t] = email[r] => t \in scan[r]

\* A callback beside which no other one of its identity has committed knows
\* that the identity has no account.
LinksCurrent ==
  \A r \in Request \ overlapped : pc[r] \in Linking =>
    \A a \in Email : <<tok[r], a>> \notin link

\* What was accepted is used for good.
AcceptedIsUsed == \A t \in Token : redeemed[t] > 0 => tokenState[t] = "used"

IInv ==
  /\ TypeOK
  /\ UnverifiedHasUnusedToken /\ MailedTokensExist /\ VerifiedByOwner
  /\ SignupsNotLinked
  /\ OneActiveToken /\ VerifiedHasNoToken /\ AcceptedOnce
  /\ TokensOwned /\ LinksOwned /\ InsertsExclusive /\ RequestsOwn
  /\ ResendsCurrent /\ LinksCurrent /\ AcceptedIsUsed

=============================================================================
