------------------------- MODULE AccountsRefinement -------------------------
(***************************************************************************)
(* Accounts implements AccountLifecycle, for any number of addresses,      *)
(* tokens, Google identities and requests.  Four commits and the arrival   *)
(* of a mail are its steps, by what IInv says of the request at that       *)
(* moment; every other action leaves the life of the accounts alone.       *)
(***************************************************************************)
EXTENDS AccountsProofs

\* The mapped variable that is not a variable of Accounts.
UnusedTokens == {t \in Token : Unused(t)}

\* What the life of the accounts consists of.
Seen == <<account, link, owner, UnusedTokens, mailed, contended>>

\* A token gets its owner with the commit that inserts it.
Unissued == \A t \in Token : tokenState[t] = "absent" => owner[t] = NoEmail

\* Nothing is made, issued or mailed at the start.
LEMMA InitRefines == Init => Lifecycle!Init
<1> SUFFICES ASSUME Init PROVE Lifecycle!Init
  OBVIOUS
<1>1. {t \in Token : Unused(t)} = {}
  BY DEF Init, Unused
<1> QED BY <1>1 DEF Init, Lifecycle!Init

\* Every step commits, delivers a mail, or changes nothing of that.
LEMMA StepCases ==
  ASSUME [Next]_vars
  PROVE  \/ UNCHANGED <<account, link, owner, tokenState, mailed, contended>>
         \/ \E r \in Request : \/ SignupCommit(r) \/ ResendCommit(r)
                               \/ VerifyCommit(r) \/ GoogleCommit(r)
                               \/ SendMail(r)
BY DEF Next, vars, tables, history, SignupRead, ResendRead, VerifyRead,
   GoogleRead, Begin, SignupInsert, SignupConflict, SignupSession,
   ResendSelect, VerifyFlush, GoogleLookup, GoogleRefused, GoogleInsert,
   GoogleFails, Abort, Expire

\* Rows get their owner with the commit that inserts them, and none is ever
\* deleted.
LEMMA UnissuedPreserved ==
  ASSUME IInv, Unissued, [Next]_vars
  PROVE  Unissued'
<1>1. CASE UNCHANGED <<account, link, owner, tokenState, mailed, contended>>
  BY <1>1 DEF Unissued
<1>2. ASSUME NEW r \in Request, SignupCommit(r) \/ ResendCommit(r)
      PROVE  Unissued'
  BY <1>2 DEF SignupCommit, ResendCommit, InsertToken, Unissued, IInv, TypeOK
<1>3. ASSUME NEW r \in Request, VerifyCommit(r) \/ GoogleCommit(r) \/ SendMail(r)
      PROVE  Unissued'
  BY <1>3 DEF VerifyCommit, GoogleCommit, SendMail, Unissued, IInv, TypeOK,
     tables
<1> QED BY <1>1, <1>2, <1>3, StepCases

-----------------------------------------------------------------------------

\* The commit of a signup makes an account and its first token.
LEMMA SignupRefines ==
  ASSUME IInv, Unissued, NEW r \in Request, SignupCommit(r)
  PROVE  Lifecycle!Next
<1>1. PICK n \in Token : InsertToken(r, n)
  BY DEF SignupCommit
<1>2. /\ email[r] \in Email /\ account[email[r]] = "absent" /\ scan[r] = {}
  BY DEF IInv, SignupCommit, Goto, RequestsOwn, InsertsExclusive, Inserting
<1>3. UnusedTokens' = (UnusedTokens \ {}) \cup {n}
  BY <1>1, <1>2 DEF IInv, TypeOK, InsertToken, UnusedTokens, Unused
<1>4. Lifecycle!SignUp(email[r], n)
  BY <1>1, <1>2, <1>3 DEF SignupCommit, InsertToken, Unissued, UnusedTokens,
     history, Lifecycle!SignUp, Lifecycle!Issue
<1> QED BY <1>2, <1>4 DEF Lifecycle!Next

\* The commit of a resend that had the account to itself replaces every unused
\* token; that of another one replaces those it found.
LEMMA ResendRefines ==
  ASSUME IInv, Unissued, NEW r \in Request, ResendCommit(r)
  PROVE  Lifecycle!Next
<1>1. PICK n \in Token : InsertToken(r, n)
  BY DEF ResendCommit
<1>2. DEFINE ended == scan[r] \cap UnusedTokens
<1>3. /\ email[r] \in Email /\ account[email[r]] # "absent"
      /\ \A g \in Identity : <<g, email[r]>> \notin link
      /\ \A t \in scan[r] : owner[t] = email[r]
  BY DEF IInv, ResendCommit, Goto, RequestsOwn
<1>4. ended \subseteq Lifecycle!UnusedOf(email[r])
  BY <1>3 DEF UnusedTokens, Lifecycle!UnusedOf
<1>5. UnusedTokens' = (UnusedTokens \ ended) \cup {n}
  <2>1. n \notin scan[r]
    BY <1>1 DEF IInv, RequestsOwn, ResendCommit, InsertToken
  <2> QED BY <1>1, <2>1 DEF IInv, TypeOK, InsertToken, UnusedTokens, Unused
<1>6. Lifecycle!Issue(email[r], n, ended)
  BY <1>1, <1>5 DEF InsertToken, Unissued, UnusedTokens, Lifecycle!Issue
<1>7. CASE r \in overlapped
  <2>1. Lifecycle!ResendBeside(email[r], n)
    BY <1>3, <1>4, <1>6, <1>7 DEF ResendCommit, Lifecycle!ResendBeside,
       Lifecycle!SignedUp
  <2> QED BY <1>3, <2>1 DEF Lifecycle!Next
<1>8. CASE r \notin overlapped
  <2>1. /\ account[email[r]] = "unverified"
        /\ \A t \in Token : Unused(t) /\ owner[t] = email[r] => t \in scan[r]
    BY <1>8 DEF IInv, ResendsCurrent, ResendCommit, Goto
  <2>2. ended = Lifecycle!UnusedOf(email[r])
    BY <1>4, <2>1 DEF UnusedTokens, Lifecycle!UnusedOf
  <2>3. Lifecycle!Resend(email[r], n)
    BY <1>6, <1>8, <2>1, <2>2 DEF ResendCommit, Lifecycle!Resend
  <2> QED BY <1>3, <2>3 DEF Lifecycle!Next
<1> QED BY <1>7, <1>8

\* The commit of a verification spends the token that was mailed.
LEMMA VerifyRefines ==
  ASSUME IInv, NEW r \in Request, VerifyCommit(r)
  PROVE  Lifecycle!Next
<1>1. /\ tok[r] \in Token /\ tok[r] \in mailed /\ owner[tok[r]] = email[r]
  BY DEF IInv, VerifyCommit, RequestsOwn
<1>2. UnusedTokens' = UnusedTokens \ {tok[r]}
  BY <1>1 DEF IInv, TypeOK, VerifyCommit, UnusedTokens, Unused
<1>3. \/ tok[r] \in UnusedTokens /\ contended' = contended
      \/ contended' = contended \cup {owner[tok[r]]}
  BY <1>1 DEF IInv, AcceptedOnce, VerifyCommit, UnusedTokens
<1>4. Lifecycle!Verify(tok[r])
  BY <1>1, <1>2, <1>3 DEF VerifyCommit, UnusedTokens, Lifecycle!Verify
<1> QED BY <1>1, <1>4 DEF Lifecycle!Next

\* The commit of a callback makes a verified account and its link.
LEMMA GoogleRefines ==
  ASSUME IInv, NEW r \in Request, GoogleCommit(r)
  PROVE  Lifecycle!Next
<1>1. /\ tok[r] \in Identity /\ email[r] \in Email
      /\ account[email[r]] = "absent"
  BY DEF IInv, GoogleCommit, RequestsOwn, Linking, InsertsExclusive, Inserting
<1>2. UnusedTokens' = UnusedTokens
  BY DEF GoogleCommit, UnusedTokens, Unused
<1>3. Lifecycle!SignInWithGoogle(tok[r], email[r])
  BY <1>1, <1>2 DEF GoogleCommit, UnusedTokens, Lifecycle!SignInWithGoogle
<1> QED BY <1>1, <1>3 DEF Lifecycle!Next

\* A mail that arrives carries a token that was issued.
LEMMA MailRefines ==
  ASSUME IInv, NEW r \in Request, SendMail(r)
  PROVE  Lifecycle!Next
<1>1. tok[r] \in Token /\ owner[tok[r]] # NoEmail
  BY NoValueAssumption DEF IInv, SendMail, RequestsOwn
<1>2. UnusedTokens' = UnusedTokens
  BY DEF SendMail, UnusedTokens, Unused, tables
<1>3. Lifecycle!Deliver(tok[r])
  BY <1>1, <1>2 DEF SendMail, UnusedTokens, tables, Lifecycle!Deliver
<1> QED BY <1>1, <1>3 DEF Lifecycle!Next

-----------------------------------------------------------------------------

\* Every step of Accounts is a step in the life of an account or none.
LEMMA StepRefines ==
  ASSUME IInv, Unissued, [Next]_vars
  PROVE  [Lifecycle!Next]_Lifecycle!vars
<1>1. CASE UNCHANGED <<account, link, owner, tokenState, mailed, contended>>
  BY <1>1 DEF Unused, Lifecycle!vars
<1>2. CASE \E r \in Request : \/ SignupCommit(r) \/ ResendCommit(r)
                              \/ VerifyCommit(r) \/ GoogleCommit(r)
                              \/ SendMail(r)
  BY <1>2, SignupRefines, ResendRefines, VerifyRefines, GoogleRefines,
     MailRefines
<1> QED BY <1>1, <1>2, StepCases

\* Accounts implements the lifecycle: whatever signups, resends,
\* verifications and Google callbacks overlap, fail or are rolled back.
THEOREM Implementation == Spec => ImplementsLifecycle
<1>1. Init => Lifecycle!Init
  BY InitRefines
<1>2. Init => Unissued
  BY DEF Init, Unissued
<1>3. IInv /\ Unissued /\ [Next]_vars => Unissued'
  BY UnissuedPreserved
<1>4. IInv /\ Unissued /\ [Next]_vars => [Lifecycle!Next]_Lifecycle!vars
  BY StepRefines
<1> QED BY <1>1, <1>2, <1>3, <1>4, InductiveInvariant, PTL
       DEF Spec, ImplementsLifecycle, Lifecycle!Spec

\* What the lifecycle promises holds of the tables: no account loses its
\* verification or its link, no spent token is accepted as unused again.
THEOREM NeverBack == Spec => Lifecycle!OnlyForward
<1>1. ASSUME IInv, Unissued, [Next]_vars PROVE [Lifecycle!Forward]_Lifecycle!vars
  <2>1. /\ account \in [Email -> Account]
        /\ owner \in [Token -> Email \cup {NoEmail}]
    BY <1>1 DEF IInv, TypeOK
  <2>2. CASE UNCHANGED Lifecycle!vars
    BY <2>2
  <2>3. CASE Lifecycle!Next
    BY <2>1, <2>3 DEF Lifecycle!Forward, Lifecycle!Next, Lifecycle!SignUp,
       Lifecycle!Resend, Lifecycle!ResendBeside, Lifecycle!Issue,
       Lifecycle!Deliver, Lifecycle!Verify, Lifecycle!SignInWithGoogle
  <2> QED BY <1>1, <2>2, <2>3, StepRefines
<1>2. Init => Unissued
  BY DEF Init, Unissued
<1>3. IInv /\ Unissued /\ [Next]_vars => Unissued'
  BY UnissuedPreserved
<1>4. IInv /\ Unissued /\ [Next]_vars => [Lifecycle!Forward]_Lifecycle!vars
  BY <1>1
<1> QED BY <1>2, <1>3, <1>4, InductiveInvariant, PTL
       DEF Spec, Lifecycle!OnlyForward

=============================================================================
