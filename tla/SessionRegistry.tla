-------------------------- MODULE SessionRegistry --------------------------
(***************************************************************************)
(* What the MeetMind backend promises about signed-in devices, without     *)
(* statements, locks or requests: a refresh token is issued once, lives,   *)
(* and ends for good; it is listed while a row of active_sessions carries  *)
(* it.  A refresh moves the session from one token to the next, a logout   *)
(* ends one, a password reset ends all of its user's.                      *)
(*                                                                         *)
(* The promise has two exceptions, and they are part of it.  A refresh     *)
(* whose token ended while it was in flight still issues a new one         *)
(* (Reissue), and a reset may leave tokens it raced with (spare) alive,    *)
(* listed or not.  Sessions implements this specification.                 *)
(***************************************************************************)
CONSTANTS
  User,    \* the people who sign in
  Token,   \* refresh tokens
  NoUser   \* the holder of a token that was not issued yet

VARIABLES
  holder,  \* whose token it is, once issued
  live,    \* tokens that a refresh accepts
  listed,  \* tokens a session carries
  spare    \* tokens issued beside a reset of their holder

vars == <<holder, live, listed, spare>>

Of(u) == {t \in Token : holder[t] = u}
Issued == {t \in Token : holder[t] # NoUser}

Init ==
  /\ holder = [t \in Token |-> NoUser]
  /\ live = {}
  /\ listed = {}
  /\ spare = {}

\* The fresh token n is issued to u, with a session, in the place of the tokens in ended.
Grant(u, n, ended) ==
  /\ holder' = [holder EXCEPT ![n] = u]
  /\ live' = (live \ ended) \cup {n}
  /\ listed' = (listed \ ended) \cup {n}
  /\ spare' \in {spare, spare \cup {n}}
  /\ ended \cap spare # {} => n \in spare'

\* A login, a signup or a Google callback.
SignIn(u, n) == Grant(u, n, {})

\* A refresh: the token changes, the session stays.
Rotate(t, n) == Grant(holder[t], n, {t}) /\ t \in live

\* A refresh whose token ended after it was read.
Reissue(t, n) == Grant(holder[t], n, {t}) /\ t \notin live

\* A logout ends the token and its session.
SignOut(t) ==
  /\ UNCHANGED <<holder, spare>>
  /\ live' = live \ {t}
  /\ listed' = listed \ {t}

\* A reset ends what its user has, but for tokens issued beside it: they may
\* stay live, and of those that stay live some may stay listed.
SignOutEverywhere(u) ==
  /\ UNCHANGED <<holder, spare>>
  /\ \E kept \in SUBSET (Of(u) \cap live \cap spare) :
       /\ live' = live \ (Of(u) \ kept)
       /\ \E shown \in SUBSET kept : listed' = listed \ (Of(u) \ shown)

Next ==
  \/ \E n \in Token \ Issued :
       \/ \E u \in User : SignIn(u, n)
       \/ \E t \in Issued : Rotate(t, n) \/ Reissue(t, n)
  \/ \E t \in live : SignOut(t)
  \/ \E u \in User : SignOutEverywhere(u)

Spec == Init /\ [][Next]_vars

\* What a user may rely on: a session in the list is one that can be used, and
\* a token that can be used is in the list unless it was issued beside a reset.
ListedIsUsable == listed \subseteq live /\ live \ listed \subseteq spare
=============================================================================
