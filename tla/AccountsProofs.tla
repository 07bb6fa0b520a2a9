---------------------------- MODULE AccountsProofs ----------------------------
(***************************************************************************)
(* IInv is an inductive invariant of Accounts, for any number of           *)
(* addresses, tokens, Google identities and requests: whatever overlaps or *)
(* rolls back, an account can be verified, only by its owner, and signups  *)
(* and Google logins do not share accounts.                                *)
(***************************************************************************)
EXTENDS Accounts, TLAPS

\* The conjuncts of IInv that speak of committed rows and mails only.
TablesInv ==
  /\ UnverifiedHasUnusedToken /\ MailedTokensExist /\ VerifiedByOwner
  /\ SignupsNotLinked /\ TokensOwned /\ LinksOwned
  /\ OneActiveToken /\ VerifiedHasNoToken /\ AcceptedIsUsed

\* What the requests in flight may rely on.
RequestsInv ==
  /\ InsertsExclusive /\ RequestsOwn /\ AcceptedOnce /\ ResendsCurrent
  /\ LinksCurrent

\* A step that commits nothing and sends nothing keeps what is said of them.
LEMMA TablesFrame ==
  ASSUME IInv, UNCHANGED <<tables, mailed, redeemed, contended>>
  PROVE  TablesInv'
BY DEF IInv, TablesInv, UnverifiedHasUnusedToken, MailedTokensExist,
   VerifiedByOwner, SignupsNotLinked, TokensOwned, LinksOwned, OneActiveToken,
   VerifiedHasNoToken, AcceptedIsUsed, Unused, tables

\* The tables start empty and no request is in flight.
LEMMA Initiation == Init => IInv
<1> SUFFICES ASSUME Init PROVE IInv
  OBVIOUS
<1>1. TypeOK
  BY DEF Init, TypeOK, Account, PC
<1>2. TablesInv
  BY DEF Init, TablesInv, UnverifiedHasUnusedToken, MailedTokensExist,
     VerifiedByOwner, SignupsNotLinked, TokensOwned, LinksOwned,
     OneActiveToken, VerifiedHasNoToken, AcceptedIsUsed, Unused
<1>3. RequestsInv
  BY DEF Init, RequestsInv, InsertsExclusive, RequestsOwn, AcceptedOnce,
     ResendsCurrent, LinksCurrent, Inserting, Linking
<1> QED BY <1>1, <1>2, <1>3 DEF IInv, TablesInv, RequestsInv

-----------------------------------------------------------------------------
(* Steps that commit nothing.                                               *)

\* A first SELECT: the account is there for a resend, the token was mailed
\* for a verification.
LEMMA ReadPreserves ==
  ASSUME IInv, NEW r \in Request,
         \/ \E e \in Email : SignupRead(r, e) \/ ResendRead(r, e)
         \/ \E t \in Token : VerifyRead(r, t)
         \/ \E g \in Identity, e \in Email : GoogleRead(r, g, e)
  PROVE  IInv'
<1>1. CASE \E e \in Email : SignupRead(r, e)
  <2>1. PICK e \in Email : SignupRead(r, e)
    BY <1>1
  <2>2. TypeOK'
    BY <2>1 DEF IInv, SignupRead, Begin, TypeOK, PC, tables, history
  <2>3. TablesInv'
    BY <2>1, TablesFrame DEF SignupRead, Begin, history
  <2>4. InsertsExclusive' /\ RequestsOwn'
    BY <2>1 DEF IInv, SignupRead, Begin, InsertsExclusive, RequestsOwn,
       Inserting, TypeOK, tables, Linking
  <2>5. AcceptedOnce' /\ ResendsCurrent' /\ LinksCurrent'
    BY <2>1 DEF IInv, SignupRead, Begin, AcceptedOnce, ResendsCurrent,
       TypeOK, Unused, tables, history,
       LinksCurrent, Linking
  <2> QED BY <2>2, <2>3, <2>4, <2>5
         DEF IInv, TablesInv, RequestsInv
<1>2. CASE \E e \in Email : ResendRead(r, e)
  <2>1. PICK e \in Email : ResendRead(r, e)
    BY <1>2
  <2>2. TypeOK'
    BY <2>1 DEF IInv, ResendRead, Begin, TypeOK, PC, tables, history
  <2>3. TablesInv'
    BY <2>1, TablesFrame DEF ResendRead, Begin, history
  <2>4. InsertsExclusive'
    BY <2>1 DEF IInv, ResendRead, Begin, InsertsExclusive, Inserting, TypeOK,
       tables
  <2>5. \A g \in Identity : <<g, e>> \notin link
    BY <2>1 DEF IInv, ResendRead, UnverifiedHasUnusedToken, SignupsNotLinked,
       Unused
  <2>6. RequestsOwn'
    BY <2>1, <2>5 DEF IInv, ResendRead, Begin, RequestsOwn, TypeOK, tables, Linking
  <2>7. AcceptedOnce' /\ ResendsCurrent' /\ LinksCurrent'
    BY <2>1 DEF IInv, ResendRead, Begin, AcceptedOnce, ResendsCurrent,
       TypeOK, Unused, tables, history,
       LinksCurrent, Linking
  <2> QED BY <2>2, <2>3, <2>4, <2>6, <2>7
         DEF IInv, TablesInv, RequestsInv
<1>3. CASE \E t \in Token : VerifyRead(r, t)
  <2>1. PICK t \in Token : VerifyRead(r, t)
    BY <1>3
  <2>2. TypeOK'
    BY <2>1 DEF IInv, VerifyRead, Begin, TypeOK, PC, tables, history
  <2>3. TablesInv'
    BY <2>1, TablesFrame DEF VerifyRead, Begin, history
  <2>4. InsertsExclusive'
    BY <2>1 DEF IInv, VerifyRead, Begin, InsertsExclusive, Inserting, TypeOK,
       tables
  <2>5. RequestsOwn'
    BY <2>1 DEF IInv, VerifyRead, Begin, RequestsOwn, MailedTokensExist, TypeOK,
       tables, Linking
  <2>6. AcceptedOnce' /\ ResendsCurrent' /\ LinksCurrent'
    BY <2>1 DEF IInv, VerifyRead, Begin, AcceptedIsUsed, AcceptedOnce,
       ResendsCurrent, TypeOK, Unused, tables, history,
       LinksCurrent, Linking
  <2> QED BY <2>2, <2>3, <2>4, <2>5, <2>6
         DEF IInv, TablesInv, RequestsInv
<1>4. CASE \E g \in Identity, e \in Email : GoogleRead(r, g, e)
  <2>1. PICK g \in Identity, e \in Email : GoogleRead(r, g, e)
    BY <1>4
  <2>2. TypeOK'
    BY <2>1 DEF IInv, GoogleRead, Begin, TypeOK, PC, tables, history
  <2>3. TablesInv'
    BY <2>1, TablesFrame DEF GoogleRead, Begin, history
  <2>4. InsertsExclusive' /\ RequestsOwn'
    BY <2>1 DEF IInv, GoogleRead, Begin, InsertsExclusive, RequestsOwn,
       Inserting, TypeOK, tables, Linking
  <2>5. AcceptedOnce' /\ ResendsCurrent' /\ LinksCurrent'
    BY <2>1 DEF IInv, GoogleRead, Begin, AcceptedOnce, ResendsCurrent,
       TypeOK, Unused, tables, history,
       LinksCurrent, Linking
  <2> QED BY <2>2, <2>3, <2>4, <2>5
         DEF IInv, TablesInv, RequestsInv
<1> QED BY <1>1, <1>2, <1>3, <1>4

\* The flush of a new user: the unique index lets in one at a time.
LEMMA InsertPreserves ==
  ASSUME IInv, NEW r \in Request, SignupInsert(r) \/ GoogleInsert(r)
  PROVE  IInv'
<1>1. TypeOK'
  BY DEF IInv, SignupInsert, GoogleInsert, Goto, TypeOK, PC, tables, history
<1>2. TablesInv'
  BY TablesFrame DEF SignupInsert, GoogleInsert, history
<1>3. InsertsExclusive'
  BY DEF IInv, SignupInsert, GoogleInsert, Goto, EmailFree, InsertsExclusive,
     Inserting, TypeOK, tables
<1>4. RequestsOwn'
  BY DEF IInv, SignupInsert, GoogleInsert, Goto, RequestsOwn, TypeOK, tables, Linking
<1>5. AcceptedOnce' /\ ResendsCurrent' /\ LinksCurrent'
  BY DEF IInv, SignupInsert, GoogleInsert, Goto, AcceptedOnce,
     ResendsCurrent, TypeOK, Unused, tables, history,
       LinksCurrent, Linking
<1> QED BY <1>1, <1>2, <1>3, <1>4, <1>5
       DEF IInv, TablesInv, RequestsInv

\* A resend finds unused tokens of its account.
LEMMA ResendSelectPreserves ==
  ASSUME IInv, NEW r \in Request, ResendSelect(r)
  PROVE  IInv'
<1>1. TypeOK'
  BY DEF IInv, ResendSelect, Goto, TypeOK, PC, tables, history
<1>2. TablesInv'
  BY TablesFrame DEF ResendSelect, history
<1>3. InsertsExclusive' /\ RequestsOwn'
  BY DEF IInv, ResendSelect, Goto, InsertsExclusive, RequestsOwn, Inserting,
     TypeOK, Unused, tables, Linking
<1>4. AcceptedOnce' /\ ResendsCurrent' /\ LinksCurrent'
  BY DEF IInv, ResendSelect, Goto, AcceptedOnce, ResendsCurrent, TypeOK,
     Unused, tables, history,
       LinksCurrent, Linking
<1> QED BY <1>1, <1>2, <1>3, <1>4
       DEF IInv, TablesInv, RequestsInv

\* SignupSession, VerifyFlush and GoogleLookup only go on.
LEMMA GotoPreserves ==
  ASSUME IInv, NEW r \in Request,
         SignupSession(r) \/ VerifyFlush(r) \/ GoogleLookup(r)
  PROVE  IInv'
<1>1. TypeOK'
  BY DEF IInv, SignupSession, VerifyFlush, GoogleLookup, Goto, TypeOK, PC,
     tables, history
<1>2. TablesInv'
  BY TablesFrame DEF SignupSession, VerifyFlush, GoogleLookup, history
<1>3. InsertsExclusive' /\ RequestsOwn'
  BY DEF IInv, SignupSession, VerifyFlush, GoogleLookup, Goto,
     InsertsExclusive, RequestsOwn, Inserting, TypeOK, tables, Linking
<1>4. AcceptedOnce' /\ ResendsCurrent' /\ LinksCurrent'
  BY DEF IInv, SignupSession, VerifyFlush, GoogleLookup, Goto, AcceptedOnce,
     ResendsCurrent, TypeOK, Unused, tables, history,
       LinksCurrent, Linking
<1> QED BY <1>1, <1>2, <1>3, <1>4
       DEF IInv, TablesInv, RequestsInv

\* A request that is refused or rolled back.
LEMMA RollbackPreserves ==
  ASSUME IInv, NEW r \in Request, Finish(r),
         UNCHANGED <<tables, mailed, redeemed, contended>>
  PROVE  IInv'
<1>1. TypeOK'
  BY DEF IInv, Finish, Close, TypeOK, PC, tables, history
<1>2. TablesInv'
  BY TablesFrame
<1>3. InsertsExclusive' /\ RequestsOwn'
  BY DEF IInv, Finish, Close, InsertsExclusive, RequestsOwn, Inserting, TypeOK,
     tables, Linking
<1>4. AcceptedOnce' /\ ResendsCurrent' /\ LinksCurrent'
  BY DEF IInv, Finish, Close, AcceptedOnce, ResendsCurrent, TypeOK, Unused,
     tables, history,
       LinksCurrent, Linking
<1> QED BY <1>1, <1>2, <1>3, <1>4
       DEF IInv, TablesInv, RequestsInv

\* Expiry is looked at by SELECTs only; a token that expires stays unused.
LEMMA ExpirePreserves ==
  ASSUME IInv, NEW t \in Token, Expire(t)
  PROVE  IInv'
<1>1. TypeOK'
  BY DEF IInv, Expire, TypeOK, slots, history
<1>2. TablesInv'
  BY DEF IInv, Expire, TablesInv, UnverifiedHasUnusedToken, MailedTokensExist,
     VerifiedByOwner, SignupsNotLinked, TokensOwned, LinksOwned,
     OneActiveToken, VerifiedHasNoToken, AcceptedIsUsed, Unused, history
<1>3. InsertsExclusive' /\ RequestsOwn'
  BY DEF IInv, Expire, InsertsExclusive, RequestsOwn, Inserting, slots, Linking
<1>4. AcceptedOnce' /\ ResendsCurrent' /\ LinksCurrent'
  BY DEF IInv, Expire, slots, AcceptedOnce, ResendsCurrent, TypeOK, Unused,
     tables, history,
       LinksCurrent, Linking
<1> QED BY <1>1, <1>2, <1>3, <1>4
       DEF IInv, TablesInv, RequestsInv

\* Nothing changes.
LEMMA StutterPreserves == IInv /\ UNCHANGED vars => IInv'
<1> SUFFICES ASSUME IInv, UNCHANGED vars PROVE IInv'
  OBVIOUS
<1>1. TypeOK'
  BY DEF IInv, TypeOK, vars, tables, history, slots
<1>2. TablesInv'
  BY TablesFrame DEF vars, history
<1>3. InsertsExclusive' /\ RequestsOwn'
  BY DEF IInv, InsertsExclusive, RequestsOwn, Inserting, vars, tables, slots, Linking
<1>4. AcceptedOnce' /\ ResendsCurrent' /\ LinksCurrent'
  BY DEF IInv, vars, slots, AcceptedOnce, ResendsCurrent, TypeOK, Unused,
     tables, history,
       LinksCurrent, Linking
<1> QED BY <1>1, <1>2, <1>3, <1>4
       DEF IInv, TablesInv, RequestsInv

-----------------------------------------------------------------------------
(* Commits and mails.                                                       *)

\* A mail goes out only when its token is committed.
LEMMA SendMailPreserves ==
  ASSUME IInv, NEW r \in Request, SendMail(r)
  PROVE  IInv'
<1>1. TypeOK'
  BY DEF IInv, SendMail, Finish, Close, TypeOK, RequestsOwn, PC, tables
<1>2. /\ UnverifiedHasUnusedToken' /\ VerifiedByOwner' /\ SignupsNotLinked'
      /\ TokensOwned' /\ LinksOwned'
      /\ OneActiveToken' /\ VerifiedHasNoToken' /\ AcceptedIsUsed'
  BY DEF IInv, SendMail, UnverifiedHasUnusedToken, VerifiedByOwner,
     SignupsNotLinked, TokensOwned, LinksOwned, OneActiveToken,
     VerifiedHasNoToken, AcceptedIsUsed, Unused, tables
<1>3. MailedTokensExist'
  BY DEF IInv, SendMail, MailedTokensExist, TokensOwned, RequestsOwn, tables
<1>4. InsertsExclusive' /\ RequestsOwn'
  BY DEF IInv, SendMail, Finish, Close, InsertsExclusive, RequestsOwn, Inserting,
     TypeOK, tables, Linking
<1>5. AcceptedOnce' /\ ResendsCurrent' /\ LinksCurrent'
  BY DEF IInv, SendMail, Finish, Close, AcceptedOnce, ResendsCurrent, TypeOK,
     Unused, tables,
       LinksCurrent, Linking
<1> QED BY <1>1, <1>2, <1>3, <1>4, <1>5 DEF IInv

\* The account and its first token appear together.
LEMMA SignupCommitPreserves ==
  ASSUME IInv, NEW r \in Request, SignupCommit(r)
  PROVE  IInv'
<1>1. TypeOK'
  BY DEF IInv, SignupCommit, Goto, InsertToken, TypeOK, RequestsOwn, Account, PC,
     history
<1>2. UnverifiedHasUnusedToken'
  BY DEF IInv, SignupCommit, Goto, InsertToken, UnverifiedHasUnusedToken,
     TypeOK, RequestsOwn, Unused
<1>3. MailedTokensExist'
  BY DEF IInv, SignupCommit, InsertToken, MailedTokensExist, TypeOK
<1>4. VerifiedByOwner'
  BY DEF IInv, SignupCommit, InsertToken, VerifiedByOwner, MailedTokensExist,
     TypeOK, history
<1>5. TokensOwned'
  BY DEF IInv, SignupCommit, Goto, InsertToken, TokensOwned, RequestsOwn, TypeOK
<1>6. InsertsExclusive'
  BY DEF IInv, SignupCommit, Goto, InsertToken, InsertsExclusive, Inserting,
     TypeOK
<1>7. RequestsOwn'
  BY DEF IInv, SignupCommit, Goto, InsertToken, RequestsOwn, TypeOK, Linking
<1>8. SignupsNotLinked' /\ LinksOwned'
  BY DEF IInv, SignupCommit, Goto, InsertToken, SignupsNotLinked, LinksOwned,
     RequestsOwn, InsertsExclusive, Inserting, TypeOK
<1>9. scan[r] = {} /\ account[email[r]] = "absent"
  BY DEF IInv, SignupCommit, Goto, RequestsOwn, InsertsExclusive, Inserting
<1>10. \A t \in Token : tokenState[t] # "absent" => owner[t] # email[r]
  BY <1>9 DEF IInv, TokensOwned
<1>11. OneActiveToken' /\ VerifiedHasNoToken' /\ AcceptedIsUsed'
  BY <1>9, <1>10 DEF IInv, SignupCommit, InsertToken, OneActiveToken,
     VerifiedHasNoToken, AcceptedIsUsed, Unused, TypeOK, history
<1>12. AcceptedOnce'
  BY <1>9 DEF IInv, SignupCommit, Goto, InsertToken, AcceptedOnce, RequestsOwn,
     Unused, TypeOK, history
<1>13. ResendsCurrent'
  BY <1>9 DEF IInv, SignupCommit, Goto, InsertToken, ResendsCurrent,
     RequestsOwn, Unused, TypeOK, history
<1>14. LinksCurrent'
  BY DEF IInv, SignupCommit, Goto, InsertToken, LinksCurrent, Linking, TypeOK,
       history
<1> QED BY <1>1, <1>2, <1>3, <1>4, <1>5, <1>6, <1>7, <1>8, <1>11, <1>12, <1>13,
           <1>14 DEF IInv

\* The account's unused tokens make room for a fresh one.
LEMMA ResendCommitPreserves ==
  ASSUME IInv, NEW r \in Request, ResendCommit(r)
  PROVE  IInv'
<1>1. TypeOK'
  BY DEF IInv, ResendCommit, Goto, InsertToken, Overlap, Working,
     RequestsOwn, TypeOK, PC
<1>2. UnverifiedHasUnusedToken'
  BY DEF IInv, ResendCommit, Goto, InsertToken, UnverifiedHasUnusedToken,
     TypeOK, RequestsOwn, Unused
<1>3. MailedTokensExist'
  BY DEF IInv, ResendCommit, InsertToken, MailedTokensExist, TypeOK
<1>4. VerifiedByOwner'
  BY DEF IInv, ResendCommit, InsertToken, VerifiedByOwner, MailedTokensExist,
     TypeOK
<1>5. TokensOwned'
  BY DEF IInv, ResendCommit, Goto, InsertToken, TokensOwned, RequestsOwn, TypeOK
<1>6. InsertsExclusive'
  BY DEF IInv, ResendCommit, Goto, InsertToken, InsertsExclusive, Inserting,
     TypeOK
<1>7. RequestsOwn'
  BY DEF IInv, ResendCommit, Goto, InsertToken, RequestsOwn, TypeOK, Linking
<1>8. SignupsNotLinked' /\ LinksOwned'
  BY DEF IInv, ResendCommit, Goto, InsertToken, SignupsNotLinked, LinksOwned,
     RequestsOwn, InsertsExclusive, Inserting, TypeOK
<1>9. \A t \in scan[r] : owner[t] = email[r]
  BY DEF IInv, RequestsOwn
<1>10. ASSUME NEW t \in Token, owner'[t] # email[r]
       PROVE  owner'[t] = owner[t] /\ tokenState'[t] = tokenState[t]
  BY <1>9, <1>10 DEF IInv, ResendCommit, InsertToken, TypeOK
<1>11. \A e \in Email : e # email[r] => (e \in contended' <=> e \in contended)
  BY DEF ResendCommit
<1>12. ASSUME r \in overlapped
       PROVE  OneActiveToken' /\ VerifiedHasNoToken'
  <2>1. email[r] \in contended'
    BY <1>12 DEF ResendCommit
  <2>2. OneActiveToken' /\ VerifiedHasNoToken'
    BY <1>10, <1>11, <2>1, <1>1, NoValueAssumption DEF IInv, ResendCommit,
       OneActiveToken, VerifiedHasNoToken, TypeOK, Unused, TokensOwned
  <2> QED BY <2>2
<1>13. ASSUME r \notin overlapped
       PROVE  OneActiveToken' /\ VerifiedHasNoToken'
  <2>1. PICK n \in Token : InsertToken(r, n)
    BY DEF ResendCommit
  <2>2. /\ account[email[r]] = "unverified"
        /\ \A t \in Token : Unused(t) /\ owner[t] = email[r] => t \in scan[r]
    BY <1>13 DEF IInv, ResendsCurrent, ResendCommit, Goto
  <2>3. \A t \in Token : Unused(t)' /\ owner'[t] = email[r] => t = n
    BY <2>1, <2>2 DEF IInv, InsertToken, Unused, TypeOK
  <2>4. OneActiveToken' /\ VerifiedHasNoToken'
    BY <1>10, <1>11, <2>2, <2>3, <1>5 DEF IInv, ResendCommit, OneActiveToken,
       VerifiedHasNoToken, TypeOK, Unused, TokensOwned
  <2> QED BY <2>4
<1>14. AcceptedIsUsed'
  BY DEF IInv, ResendCommit, InsertToken, AcceptedIsUsed, TypeOK
<1>15. \A q \in Request \ overlapped' : q # r =>
         /\ q \notin overlapped /\ q \notin Working(email[r])
         /\ pc'[q] = pc[q] /\ email'[q] = email[q]
         /\ tok'[q] = tok[q] /\ scan'[q] = scan[q]
  BY DEF IInv, TypeOK, ResendCommit, Overlap, Goto, InsertToken
<1>16. pc'[r] = "mail"
  BY DEF IInv, TypeOK, ResendCommit, Goto
<1>17. AcceptedOnce'
  BY <1>10, <1>15, <1>16 DEF IInv, ResendCommit, InsertToken, Working,
     AcceptedOnce, RequestsOwn, Unused, TypeOK
<1>18. ResendsCurrent'
  BY <1>10, <1>15, <1>16 DEF IInv, ResendCommit, Working, ResendsCurrent,
     RequestsOwn, Unused, TypeOK
<1>19. LinksCurrent'
  BY <1>15, <1>16 DEF IInv, ResendCommit, LinksCurrent, Linking
<1> QED BY <1>1, <1>2, <1>3, <1>4, <1>5, <1>6, <1>7, <1>8, <1>12, <1>13, <1>14,
           <1>17, <1>18, <1>19 DEF IInv

\* A token is used up together with the verification of its account.
LEMMA VerifyCommitPreserves ==
  ASSUME IInv, NEW r \in Request, VerifyCommit(r)
  PROVE  IInv'
<1>1. TypeOK'
  BY DEF IInv, VerifyCommit, Close, TypeOK, Overlap, Working,
     RequestsOwn, Account, PC
<1>2. UnverifiedHasUnusedToken'
  BY DEF IInv, VerifyCommit, UnverifiedHasUnusedToken, RequestsOwn, TypeOK,
     Unused
<1>3. MailedTokensExist' /\ TokensOwned' /\ SignupsNotLinked' /\ LinksOwned'
  BY DEF IInv, VerifyCommit, MailedTokensExist, TokensOwned, SignupsNotLinked,
     LinksOwned, RequestsOwn, TypeOK
<1>4. VerifiedByOwner'
  <2>1. /\ tok[r] \in Token /\ tok[r] \in mailed /\ owner[tok[r]] = email[r]
        /\ redeemed \in [Token -> Nat]
    BY DEF IInv, TypeOK, VerifyCommit, RequestsOwn
  <2>2. \A t \in Token : redeemed[t] > 0 => redeemed'[t] > 0
    BY <2>1 DEF VerifyCommit
  <2>3. redeemed'[tok[r]] > 0
    BY <2>1 DEF VerifyCommit
  <2> SUFFICES ASSUME NEW e \in Email, account'[e] = "verified"
               PROVE  \/ \E t \in mailed : owner[t] = e /\ redeemed'[t] > 0
                      \/ \E g \in Identity : <<g, e>> \in link
    BY DEF VerifiedByOwner, VerifyCommit
  <2>4. CASE e = email[r]
    BY <2>1, <2>3, <2>4
  <2>5. CASE e # email[r]
    <3>1. account[e] = "verified"
      BY <2>5 DEF IInv, TypeOK, VerifyCommit
    <3> QED BY <2>2, <3>1 DEF IInv, TypeOK, VerifiedByOwner
  <2> QED BY <2>4, <2>5
<1>5. InsertsExclusive'
  BY DEF IInv, VerifyCommit, Close, InsertsExclusive, MailedTokensExist,
     RequestsOwn, Inserting, TypeOK
<1>6. RequestsOwn'
  BY DEF IInv, VerifyCommit, Close, RequestsOwn, TypeOK, Linking
<1>7. /\ tok[r] \in Token /\ owner[tok[r]] = email[r] /\ email[r] \in Email
      /\ r \notin overlapped => Unused(tok[r])
  BY DEF IInv, VerifyCommit, RequestsOwn, AcceptedOnce
<1>8. OneActiveToken' /\ AcceptedIsUsed'
  BY <1>7 DEF IInv, VerifyCommit, OneActiveToken, AcceptedIsUsed, Unused, TypeOK
<1>9. VerifiedHasNoToken'
  <2> SUFFICES ASSUME NEW e \in Email, account'[e] = "verified",
                      e \notin contended', NEW t \in Token, Unused(t)'
               PROVE  owner[t] # e
    BY DEF VerifiedHasNoToken, VerifyCommit
  <2>1. t # tok[r] /\ Unused(t) /\ e \notin contended
    BY <1>7 DEF IInv, VerifyCommit, Unused, TypeOK
  <2>2. CASE e = email[r]
    BY <1>7, <2>1, <2>2 DEF IInv, VerifyCommit, OneActiveToken
  <2>3. CASE e # email[r]
    BY <2>1, <2>3 DEF IInv, VerifyCommit, VerifiedHasNoToken, TypeOK
  <2> QED BY <2>2, <2>3
<1>10. \A q \in Request \ overlapped' : q # r =>
         /\ q \notin overlapped /\ q \notin Working(email[r])
         /\ pc'[q] = pc[q] /\ email'[q] = email[q]
         /\ tok'[q] = tok[q] /\ scan'[q] = scan[q]
  BY DEF IInv, TypeOK, VerifyCommit, Overlap, Close
<1>11. pc'[r] = "idle"
  BY DEF IInv, TypeOK, VerifyCommit, Close
<1>12. AcceptedOnce'
  BY <1>7, <1>10, <1>11 DEF IInv, VerifyCommit, Working, AcceptedOnce,
     RequestsOwn, Unused, TypeOK
<1>13. ResendsCurrent'
  BY <1>7, <1>10, <1>11 DEF IInv, VerifyCommit, Working, ResendsCurrent,
     RequestsOwn, Unused, TypeOK
<1>14. LinksCurrent'
  BY <1>10, <1>11 DEF IInv, VerifyCommit, LinksCurrent, Linking
<1> QED BY <1>1, <1>2, <1>3, <1>4, <1>5, <1>6, <1>8, <1>9, <1>12, <1>13,
           <1>14 DEF IInv

\* A Google account is verified and linked at once; nobody has signed up for
\* its address.
LEMMA GoogleCommitPreserves ==
  ASSUME IInv, NEW r \in Request, GoogleCommit(r)
  PROVE  IInv'
<1>1. TypeOK'
  BY DEF IInv, GoogleCommit, Close, TypeOK, RequestsOwn, Account, PC, Linking
<1>2. UnverifiedHasUnusedToken' /\ MailedTokensExist' /\ TokensOwned' /\ LinksOwned'
  BY DEF IInv, GoogleCommit, UnverifiedHasUnusedToken, MailedTokensExist,
     TokensOwned, LinksOwned, TypeOK, Unused
<1>3. VerifiedByOwner'
  <2> SUFFICES ASSUME NEW e \in Email, account'[e] = "verified"
               PROVE  \/ \E t \in mailed : owner[t] = e /\ redeemed[t] > 0
                      \/ \E g \in Identity : <<g, e>> \in link'
    BY DEF VerifiedByOwner, GoogleCommit
  <2>1. CASE e = email[r]
    <3>1. tok[r] \in Identity /\ <<tok[r], e>> \in link'
      BY <2>1 DEF IInv, GoogleCommit, RequestsOwn, Linking
    <3> QED BY <3>1
  <2>2. CASE e # email[r]
    BY <2>2 DEF IInv, GoogleCommit, VerifiedByOwner, TypeOK
  <2> QED BY <2>1, <2>2
<1>4. SignupsNotLinked'
  BY DEF IInv, GoogleCommit, SignupsNotLinked, TokensOwned, InsertsExclusive,
     Inserting
<1>5. InsertsExclusive'
  BY DEF IInv, GoogleCommit, Close, InsertsExclusive, Inserting, TypeOK
<1>6. RequestsOwn'
  BY DEF IInv, GoogleCommit, Close, RequestsOwn, InsertsExclusive, Inserting,
     TypeOK, Linking
<1>7. account[email[r]] = "absent"
  BY DEF IInv, GoogleCommit, InsertsExclusive, Inserting
<1>8. OneActiveToken' /\ VerifiedHasNoToken' /\ AcceptedIsUsed'
  BY <1>7 DEF IInv, GoogleCommit, OneActiveToken, VerifiedHasNoToken,
     AcceptedIsUsed, TokensOwned, Unused, TypeOK
<1>9. AcceptedOnce' /\ ResendsCurrent' /\ LinksCurrent'
  BY <1>7 DEF IInv, GoogleCommit, Close, AcceptedOnce, ResendsCurrent,
     Unused, TypeOK,
       LinksCurrent, Linking
<1> QED BY <1>1, <1>2, <1>3, <1>4, <1>5, <1>6, <1>8, <1>9 DEF IInv

-----------------------------------------------------------------------------
\* Every step of the system preserves the inductive invariant.
LEMMA Consecution == IInv /\ [Next]_vars => IInv'
<1> SUFFICES ASSUME IInv, [Next]_vars PROVE IInv'
  OBVIOUS
<1>1. ASSUME NEW r \in Request,
             \/ \E e \in Email : SignupRead(r, e) \/ ResendRead(r, e)
             \/ \E t \in Token : VerifyRead(r, t)
             \/ \E g \in Identity, e \in Email : GoogleRead(r, g, e)
      PROVE  IInv'
  BY <1>1, ReadPreserves
<1>2. ASSUME NEW r \in Request,
             \/ SignupInsert(r) \/ GoogleInsert(r) \/ ResendSelect(r)
             \/ SignupSession(r) \/ VerifyFlush(r) \/ GoogleLookup(r)
      PROVE  IInv'
  BY <1>2, InsertPreserves, ResendSelectPreserves, GotoPreserves
<1>3. ASSUME NEW r \in Request,
             SignupConflict(r) \/ GoogleRefused(r) \/ GoogleFails(r) \/ Abort(r)
      PROVE  IInv'
  BY <1>3, RollbackPreserves DEF SignupConflict, GoogleRefused, GoogleFails,
     Abort
<1>4. ASSUME NEW r \in Request,
             \/ SendMail(r) \/ SignupCommit(r) \/ ResendCommit(r)
             \/ VerifyCommit(r) \/ GoogleCommit(r)
      PROVE  IInv'
  BY <1>4, SendMailPreserves, SignupCommitPreserves, ResendCommitPreserves,
     VerifyCommitPreserves, GoogleCommitPreserves
<1>5. ASSUME NEW t \in Token, Expire(t)
      PROVE  IInv'
  BY <1>5, ExpirePreserves
<1>6. CASE UNCHANGED vars
  BY <1>6, StutterPreserves
<1> QED BY <1>1, <1>2, <1>3, <1>4, <1>5, <1>6 DEF Next

\* IInv holds in every state the system reaches.
THEOREM InductiveInvariant == Spec => []IInv
<1>1. Init => IInv
  BY Initiation
<1>2. IInv /\ [Next]_vars => IInv'
  BY Consecution
<1> QED BY <1>1, <1>2, PTL DEF Spec

\* Tables and requests keep their types.
THEOREM TypeCorrect == Spec => []TypeOK
<1>1. IInv => TypeOK
  BY DEF IInv
<1> QED BY <1>1, InductiveInvariant, PTL

\* No account is stranded: while it is not verified one of its tokens is not
\* used (create_verification_token, verify_email).
THEOREM NeverStranded == Spec => []UnverifiedHasUnusedToken
<1>1. IInv => UnverifiedHasUnusedToken
  BY DEF IInv
<1> QED BY <1>1, InductiveInvariant, PTL

\* A token in a mailbox is a committed row of an existing account.
THEOREM MailsAreCommitted == Spec => []MailedTokensExist
<1>1. IInv => MailedTokensExist
  BY DEF IInv
<1> QED BY <1>1, InductiveInvariant, PTL

\* Only a token mailed to its address, or the Google identity it was made
\* for, verifies an account.
THEOREM VerifiedOnlyByOwner == Spec => []VerifiedByOwner
<1>1. IInv => VerifiedByOwner
  BY DEF IInv
<1> QED BY <1>1, InductiveInvariant, PTL

\* No Google identity is linked to an account that was signed up for
\* (find_or_create_user: "do NOT silently link").
THEOREM NeverLinkedSilently == Spec => []SignupsNotLinked
<1>1. IInv => SignupsNotLinked
  BY DEF IInv
<1> QED BY <1>1, InductiveInvariant, PTL

\* An account has one active token at most, unless requests about its tokens
\* overlapped and no resend has run alone since (create_verification_token).
THEOREM OneActive == Spec => []OneActiveToken
<1>1. IInv => OneActiveToken
  BY DEF IInv
<1> QED BY <1>1, InductiveInvariant, PTL

\* A verified account has no token left, with the same exception.
THEOREM NothingLeft == Spec => []VerifiedHasNoToken
<1>1. IInv => VerifiedHasNoToken
  BY DEF IInv
<1> QED BY <1>1, InductiveInvariant, PTL

\* A verification uses up an unused token nobody was accepted with, unless
\* another request of the account committed beside it (verify_email).
THEOREM AcceptedAtMostOnce == Spec => []AcceptedOnce
<1>1. IInv => AcceptedOnce
  BY DEF IInv
<1> QED BY <1>1, InductiveInvariant, PTL

-----------------------------------------------------------------------------
\* A Google identity ends up with two accounts only if two of its callbacks
\* overlapped (find_or_create_user reads the link first and inserts it last).
THEOREM OneAccountEach == Spec => OneAccountPerIdentity
<1>1. ASSUME IInv, [Next]_vars, NEW g \in Identity, NEW a \in Email, NEW e \in Email,
             <<g, a>> \in link, <<g, e>> \in link' \ link
      PROVE  \E r \in overlapped : pc[r] = "google_commit" /\ pc'[r] = "idle"
  <2>1. PICK r \in Request : GoogleCommit(r)
    BY <1>1 DEF Next, vars, tables, SignupRead, ResendRead, VerifyRead,
       GoogleRead, Begin, SignupInsert, SignupConflict, SignupCommit,
       SignupSession, SendMail, ResendSelect, ResendCommit, VerifyFlush,
       VerifyCommit, GoogleLookup, GoogleRefused, GoogleInsert, GoogleFails,
       Abort, Expire
  <2>2. tok[r] = g
    BY <1>1, <2>1 DEF GoogleCommit
  <2>3. r \in overlapped
    BY <1>1, <2>1, <2>2 DEF IInv, LinksCurrent, Linking, GoogleCommit
  <2>4. pc[r] = "google_commit" /\ pc'[r] = "idle"
    BY <1>1, <2>1 DEF IInv, TypeOK, GoogleCommit, Close
  <2> QED BY <2>3, <2>4
<1>2. IInv /\ [Next]_vars =>
        [\A g \in Identity, a, e \in Email :
           <<g, a>> \in link /\ <<g, e>> \in link' \ link =>
             \E r \in overlapped : pc[r] = "google_commit" /\ pc'[r] = "idle"]_vars
  BY <1>1
<1> QED BY <1>2, InductiveInvariant, PTL DEF Spec, OneAccountPerIdentity

=============================================================================
