------------------------- MODULE AccountLifecycle -------------------------
(***************************************************************************)
(* What the MeetMind backend promises about accounts, without statements,  *)
(* requests or transactions.  An account is made once, by a signup or by a *)
(* Google identity, and stays what it was made as.  A signup is verified   *)
(* with a token that was mailed to its address, and never turns back.  A   *)
(* fresh token takes the place of all unused ones of its account.          *)
(*                                                                         *)
(* The exception is part of the promise: requests about the tokens of one  *)
(* account that overlap may leave some of them unused and accept one twice.*)
(* The account is then untidy, until a resend has it to itself again.      *)
(* Accounts implements this specification.                                 *)
(***************************************************************************)
CONSTANTS
  Email,     \* addresses, which name accounts
  Token,     \* verification tokens
  Identity,  \* Google account ids
  NoEmail    \* the owner of a token that was not issued yet

VARIABLES
  account,   \* absent, unverified or verified
  link,      \* pairs of an identity and the account it made
  owner,     \* the account a token was issued for
  unused,    \* tokens that verify_email accepts, if they have not expired
  mailed,    \* tokens that reached the mailbox of their account
  untidy     \* accounts on which requests overlapped

vars == <<account, link, owner, unused, mailed, untidy>>

UnusedOf(e) == {t \in unused : owner[t] = e}
SignedUp(e) == account[e] # "absent" /\ \A g \in Identity : <<g, e>> \notin link

Init ==
  /\ account = [e \in Email |-> "absent"]
  /\ link = {}
  /\ owner = [t \in Token |-> NoEmail]
  /\ unused = {}
  /\ mailed = {}
  /\ untidy = {}

\* The fresh token n is issued for e in the place of those in ended.
Issue(e, n, ended) ==
  /\ owner[n] = NoEmail
  /\ owner' = [owner EXCEPT ![n] = e]
  /\ unused' = (unused \ ended) \cup {n}

\* The account and its first token come together.
SignUp(e, n) ==
  /\ UNCHANGED <<link, mailed, untidy>>
  /\ account[e] = "absent"
  /\ account' = [account EXCEPT ![e] = "unverified"]
  /\ Issue(e, n, {})

\* A resend that has the account to itself replaces every unused token, and
\* does so for an account that waits for its verification only.
Resend(e, n) ==
  /\ UNCHANGED <<account, link, mailed>>
  /\ account[e] = "unverified"
  /\ Issue(e, n, UnusedOf(e))
  /\ untidy' = untidy \ {e}

\* One that overlaps replaces some, and may come after the verification.
ResendBeside(e, n) ==
  /\ UNCHANGED <<account, link, mailed>>
  /\ SignedUp(e)
  /\ \E ended \in SUBSET UnusedOf(e) : Issue(e, n, ended)
  /\ untidy' = untidy \cup {e}

\* The mail of a token that was issued arrives.
Deliver(t) ==
  /\ UNCHANGED <<account, link, owner, unused, untidy>>
  /\ owner[t] # NoEmail
  /\ mailed' = mailed \cup {t}

\* Whoever got the mail verifies the account; the token is spent.
Verify(t) ==
  /\ UNCHANGED <<link, owner, mailed>>
  /\ t \in mailed
  /\ account' = [account EXCEPT ![owner[t]] = "verified"]
  /\ unused' = unused \ {t}
  /\ \/ t \in unused /\ untidy' = untidy
     \/ untidy' = untidy \cup {owner[t]}

\* A Google identity makes an account of its own, verified from the start.
SignInWithGoogle(g, e) ==
  /\ UNCHANGED <<owner, unused, mailed, untidy>>
  /\ account[e] = "absent"
  /\ account' = [account EXCEPT ![e] = "verified"]
  /\ link' = link \cup {<<g, e>>}

Next ==
  \/ \E e \in Email, n \in Token : SignUp(e, n) \/ Resend(e, n) \/ ResendBeside(e, n)
  \/ \E t \in Token : Deliver(t) \/ Verify(t)
  \/ \E g \in Identity, e \in Email : SignInWithGoogle(g, e)

Spec == Init /\ [][Next]_vars

\* What an owner may rely on: the account stays, keeps its verification and
\* its Google link, and a token that is spent is never accepted again.
Forward ==
  /\ link \subseteq link'
  /\ \A e \in Email :
       /\ account[e] = "verified" => account'[e] = "verified"
       /\ account[e] = "unverified" => account'[e] \in {"unverified", "verified"}
  /\ \A t \in Token : owner[t] # NoEmail =>
       /\ owner'[t] = owner[t]
       /\ t \in unused' => t \in unused
OnlyForward == [][Forward]_vars
=============================================================================
