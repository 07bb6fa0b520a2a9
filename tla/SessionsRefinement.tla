------------------------- MODULE SessionsRefinement -------------------------
(***************************************************************************)
(* Sessions implements SessionRegistry, for any number of users, tokens    *)
(* and requests.  Four actions change what a user can see: the commits of  *)
(* a login, a refresh, a logout and a reset.  Each is a step of the        *)
(* registry, by what IInv says of its request at that moment; every other  *)
(* action leaves the registry alone.                                       *)
(***************************************************************************)
EXTENDS SessionsProofs

\* The mapped variables that are not variables of Sessions.
LiveTokens == {t \in Token : Live(t)}
ListedTokens == {session[s] : s \in Token} \ {NoToken}

\* What the registry sees of a state.
Seen == <<owner, LiveTokens, ListedTokens, raced>>

\* No token is issued, live or listed at the start.
LEMMA InitRefines == Init => Registry!Init
<1> SUFFICES ASSUME Init PROVE Registry!Init
  OBVIOUS
<1>1. {t \in Token : Live(t)} = {}
  BY DEF Init, Live
<1>2. {session[s] : s \in Token} \ {NoToken} = {}
  BY DEF Init
<1> QED BY <1>1, <1>2 DEF Init, Registry!Init


\* Only a committed row has an owner.
Unissued == \A t \in Token : tokenState[t] = "absent" => owner[t] = NoUser

\* An action other than the four commits changes nothing the registry sees.
LEMMA QuietStep ==
  ASSUME UNCHANGED <<tokens, history>>
  PROVE  UNCHANGED <<Seen, tokenState, session>>
BY DEF Seen, LiveTokens, ListedTokens, Live, tokens, history

\* Every step is one of the four commits or quiet.
LEMMA StepCases ==
  ASSUME [Next]_vars
  PROVE  \/ UNCHANGED <<tokens, history>>
         \/ \E r \in Request : \/ CreateRefreshToken(r) \/ RefreshCommit(r)
                               \/ LogoutCommit(r) \/ ResetCommit(r)
<1>1. CASE UNCHANGED vars
  BY <1>1 DEF vars
<1>2. ASSUME NEW t \in Token \cup ResetToken, Expire(t)
      PROVE  UNCHANGED <<tokens, history>>
  BY <1>2 DEF Expire
<1>3. ASSUME NEW r \in Request, Abort(r) PROVE UNCHANGED <<tokens, history>>
  BY <1>3 DEF Abort
<1>4. ASSUME NEW r \in Request, Receive(r) PROVE UNCHANGED <<tokens, history>>
  BY <1>4 DEF Receive, LoginRead, ForgotRead, RefreshRead, LogoutRead,
     ResetRead, Begin
<1>5. ASSUME NEW r \in Request, Advance(r)
      PROVE  \/ UNCHANGED <<tokens, history>>
             \/ CreateRefreshToken(r) \/ RefreshCommit(r)
             \/ LogoutCommit(r) \/ ResetCommit(r)
  BY <1>5 DEF Advance, RefreshFlush, RefreshSelect, RefreshStale, LogoutFlush,
     LogoutSelect, ForgotCommit, ResetFlush, ResetScan, ResetRevoke,
     ResetDelete
<1> QED BY <1>1, <1>2, <1>3, <1>4, <1>5 DEF Next

\* Rows get their owner with the commit that inserts them, and none is
\* ever deleted.
LEMMA UnissuedPreserved ==
  ASSUME IInv, Unissued, [Next]_vars
  PROVE  Unissued'
<1>1. CASE UNCHANGED <<tokens, history>>
  BY <1>1 DEF Unissued, tokens
<1>2. ASSUME NEW r \in Request, CreateRefreshToken(r) PROVE Unissued'
  BY <1>2 DEF CreateRefreshToken, Minted, Unissued, IInv, TypeOK
<1>3. ASSUME NEW r \in Request, RefreshCommit(r) PROVE Unissued'
  BY <1>3 DEF RefreshCommit, Minted, Unissued, IInv, TypeOK
<1>4. ASSUME NEW r \in Request, LogoutCommit(r) PROVE Unissued'
  BY <1>4 DEF LogoutCommit, Unissued, IInv, TypeOK
<1>5. ASSUME NEW r \in Request, ResetCommit(r) PROVE Unissued'
  BY <1>5 DEF ResetCommit, Unissued, IInv, TypeOK
<1> QED BY <1>1, <1>2, <1>3, <1>4, <1>5, StepCases

-----------------------------------------------------------------------------

\* The commit of a login is a sign-in.
LEMMA LoginRefines ==
  ASSUME IInv, Unissued, NEW r \in Request, CreateRefreshToken(r)
  PROVE  Registry!Next
<1>1. PICK n \in Token :
        /\ tokenState[n] = "absent"
        /\ tokenState' = [tokenState EXCEPT ![n] = "live"]
        /\ session' = [session EXCEPT ![n] = n]
        /\ Minted(r, n, seen[r], FALSE)
  BY DEF CreateRefreshToken
<1>2. owner' = [owner EXCEPT ![n] = user[r]] /\ owner[n] = NoUser
  BY <1>1 DEF Minted, Unissued
<1>3. raced' \in {raced, raced \cup {n}}
  BY <1>1 DEF Minted
<1>4. {t \in Token : Live(t)}' = {t \in Token : Live(t)} \cup {n}
  BY <1>1 DEF Live, IInv, TypeOK
<1>5. ({session[s] : s \in Token} \ {NoToken})'
        = ({session[s] : s \in Token} \ {NoToken}) \cup {n}
  <2>1. session[n] = NoToken
    BY <1>1 DEF IInv, RowsCommitted
  <2>2. n # NoToken
    BY NoValueAssumption
  <2> QED BY <1>1, <2>1, <2>2 DEF IInv, TypeOK
<1>6. PICK u \in User : u = user[r]
  BY DEF IInv, RowsCommitted, CreateRefreshToken
<1>7. Registry!SignIn(u, n)
  BY <1>2, <1>3, <1>4, <1>5, <1>6 DEF Registry!SignIn, Registry!Grant
<1>8. n \in Token \ Registry!Issued
  BY <1>2 DEF Registry!Issued
<1> QED BY <1>7, <1>8 DEF Registry!Next

\* The commit of a refresh moves the session of the token it presented; if
\* that token has ended meanwhile, it makes a session of its own.
LEMMA RefreshRefines ==
  ASSUME IInv, Unissued, NEW r \in Request, RefreshCommit(r)
  PROVE  Registry!Next
<1>1. PICK n \in Token :
        /\ tokenState[n] = "absent"
        /\ tokenState' = [tokenState EXCEPT ![n] = "live", ![tok[r]] = "revoked"]
        /\ session' = [s \in Token |->
                         IF s \in scan[r] \/ (scan[r] = {} /\ s = n)
                         THEN n ELSE session[s]]
        /\ Minted(r, n, gen[tok[r]], tok[r] \in raced)
  BY DEF RefreshCommit
<1>2. PICK t \in Token : t = tok[r]
  BY DEF IInv, RowsCommitted, Refreshing, RefreshCommit
<1>3. tokenState[t] # "absent" /\ owner[t] = user[r] /\ owner[t] \in User
  BY <1>2 DEF IInv, RowsCommitted, Refreshing, RefreshCommit
<1>4. t # n
  BY <1>1, <1>3
<1>5. owner' = [owner EXCEPT ![n] = owner[t]] /\ owner[n] = NoUser
  BY <1>1, <1>3 DEF Minted, Unissued
<1>6. /\ raced' \in {raced, raced \cup {n}}
      /\ {t} \cap raced # {} => n \in raced'
  BY <1>1, <1>2 DEF Minted
<1>7. {x \in Token : Live(x)}' = ({x \in Token : Live(x)} \ {t}) \cup {n}
  BY <1>1, <1>2, <1>4 DEF Live, IInv, TypeOK
<1>8. ({session[s] : s \in Token} \ {NoToken})'
        = (({session[s] : s \in Token} \ {NoToken}) \ {t}) \cup {n}
  <2>1. /\ \A s \in scan[r] : s \in Token /\ session[s] = t
        /\ \A s \in Token : session[s] = t => s \in scan[r]
    BY <1>2 DEF IInv, RowsCommitted, RefreshOwnsToken, RefreshCommit
  <2>2. session[n] = NoToken /\ n # NoToken /\ t # NoToken
    BY <1>1, NoValueAssumption DEF IInv, RowsCommitted
  <2>3. \A s \in Token : session'[s] = IF s \in scan[r] \/ (scan[r] = {} /\ s = n)
                                      THEN n ELSE session[s]
    BY <1>1
  <2>4. \E s \in Token : session'[s] = n
    BY <2>1, <2>3
  <2>5. \A x : x # n => ((\E s \in Token : session'[s] = x /\ x # NoToken)
                        <=> (\E s \in Token : session[s] = x /\ x # NoToken /\ x # t))
    BY <2>1, <2>2, <2>3
  <2> QED BY <2>2, <2>4, <2>5
<1>9. Registry!Grant(owner[t], n, {t})
  BY <1>5, <1>6, <1>7, <1>8 DEF Registry!Grant
<1>10. n \in Token \ Registry!Issued /\ t \in Registry!Issued
  BY <1>3, <1>5, NoValueAssumption DEF Registry!Issued
<1>11. Registry!Rotate(t, n) \/ Registry!Reissue(t, n)
  BY <1>9 DEF Registry!Rotate, Registry!Reissue
<1> QED BY <1>10, <1>11 DEF Registry!Next

\* The commit of a logout ends the token and the session it has, or finds the
\* token ended and without a session.
LEMMA LogoutRefines ==
  ASSUME IInv, NEW r \in Request, LogoutCommit(r)
  PROVE  Registry!Next \/ UNCHANGED Seen
<1>1. PICK t \in Token : t = tok[r]
  BY DEF IInv, RowsCommitted, LoggingOut, LogoutCommit
<1>2. /\ tokenState' = [tokenState EXCEPT ![t] = "revoked"]
      /\ session' = [s \in Token |-> IF s \in scan[r] THEN NoToken ELSE session[s]]
      /\ UNCHANGED <<owner, raced>>
  BY <1>1 DEF LogoutCommit, history
<1>3. /\ \A s \in scan[r] : s \in Token /\ session[s] \in {t, NoToken}
      /\ \A s \in Token : session[s] = t => s \in scan[r]
  BY <1>1 DEF IInv, RowsCommitted, LogoutOwnsToken, LogoutCommit
<1>4. {x \in Token : Live(x)}' = {x \in Token : Live(x)} \ {t}
  BY <1>2 DEF Live, IInv, TypeOK
<1>5. ({session[s] : s \in Token} \ {NoToken})'
        = ({session[s] : s \in Token} \ {NoToken}) \ {t}
  <2>1. \A s \in Token : session'[s] = IF s \in scan[r] THEN NoToken ELSE session[s]
    BY <1>2
  <2>2. t # NoToken
    BY NoValueAssumption
  <2>3. \A x : x # NoToken =>
          ((\E s \in Token : session'[s] = x)
             <=> (\E s \in Token : session[s] = x) /\ x # t)
    BY <1>3, <2>1, <2>2
  <2> QED BY <2>3
<1>6. CASE t \in {x \in Token : Live(x)}
  BY <1>2, <1>4, <1>5, <1>6 DEF Registry!Next, Registry!SignOut
<1>7. CASE t \notin {x \in Token : Live(x)}
  <2>1. t \notin {session[s] : s \in Token}
    BY <1>7, NoValueAssumption DEF IInv, SessionsTrackLiveTokens
  <2> QED BY <1>2, <1>4, <1>5, <1>7, <2>1 DEF Seen, LiveTokens, ListedTokens
<1> QED BY <1>6, <1>7

\* The commit of a reset ends what its user has.  What it does not hold is
\* raced, and a listed token that it ends loses its session with it.
LEMMA ResetRefines ==
  ASSUME IInv, NEW r \in Request, ResetCommit(r)
  PROVE  Registry!Next
<1> DEFINE live == {t \in Token : Live(t)}
           listed == {session[s] : s \in Token} \ {NoToken}
           kept == (live \cap Registry!Of(user[r])) \ held[r]
           shown == {session'[s] : s \in Token} \cap kept
<1>1. /\ tokenState' = [t \in Token |->
                          IF t \in held[r] THEN "revoked" ELSE tokenState[t]]
      /\ session' = [s \in Token |-> IF s \in scan[r] THEN NoToken ELSE session[s]]
      /\ UNCHANGED <<owner, raced>>
  BY DEF ResetCommit, history
<1>2. PICK u \in User : u = user[r]
  BY DEF IInv, RowsCommitted, ResetCommit
<1>3. /\ \A t \in held[r] : t \in Token /\ owner[t] = u
      /\ \A s \in scan[r] : s \in Token /\ owner[s] = u
      /\ \A t \in Token : Live(t) /\ owner[t] = u => t \in held[r] \cup raced
      /\ \A s \in Token : session[s] \in held[r] => s \in scan[r]
  BY <1>2 DEF IInv, TypeOK, RowsCommitted, ResetOwnsTokens, Scanned, ResetCommit
<1>4. kept \in SUBSET (Registry!Of(u) \cap live \cap raced)
  BY <1>2, <1>3 DEF Registry!Of
<1>5. live' = live \ (Registry!Of(u) \ kept)
  BY <1>1, <1>2, <1>3 DEF Registry!Of, Live, IInv, TypeOK
<1>6. shown \in SUBSET kept
  OBVIOUS
<1>7. listed' = listed \ (Registry!Of(u) \ shown)
  <2>1. \A s \in Token : session[s] # NoToken =>
          session[s] \in Token /\ Live(session[s]) /\ owner[session[s]] = owner[s]
    BY DEF IInv, TypeOK, SessionsTrackLiveTokens
  <2>2. \A s \in Token : session'[s] = IF s \in scan[r] THEN NoToken ELSE session[s]
    BY <1>1
  <2>3. \A s1, s2 \in Token : session[s1] = session[s2] /\ session[s1] # NoToken
                                => s1 = s2
    BY DEF IInv, SessionHashesUnique
  <2>4. \A x \in listed' : x \in listed /\ (x \in Registry!Of(u) => x \in shown)
    BY <1>2, <1>3, <2>1, <2>2 DEF Registry!Of
  <2>5. \A x \in listed : x \notin Registry!Of(u) => x \in listed'
    BY <1>3, <2>1, <2>2 DEF Registry!Of
  <2>6. \A x \in shown : x \in listed => x \in listed'
    BY <2>1, <2>2
  <2> QED BY <2>4, <2>5, <2>6
<1>8. Registry!SignOutEverywhere(u)
  BY <1>1, <1>4, <1>5, <1>6, <1>7 DEF Registry!SignOutEverywhere
<1> QED BY <1>8 DEF Registry!Next

-----------------------------------------------------------------------------

\* Every step of Sessions is a step of the registry or leaves it alone.
LEMMA StepRefines ==
  ASSUME IInv, Unissued, [Next]_vars
  PROVE  [Registry!Next]_Registry!vars
<1>1. UNCHANGED Seen => UNCHANGED Registry!vars
  BY DEF Seen, LiveTokens, ListedTokens, Registry!vars
<1>2. CASE UNCHANGED <<tokens, history>>
  BY <1>1, <1>2, QuietStep
<1>3. CASE \E r \in Request : \/ CreateRefreshToken(r) \/ RefreshCommit(r)
                              \/ LogoutCommit(r) \/ ResetCommit(r)
  BY <1>1, <1>3, LoginRefines, RefreshRefines, LogoutRefines, ResetRefines
<1> QED BY <1>2, <1>3, StepCases

\* Sessions implements the registry: whatever the interleaving of logins,
\* refreshes, logouts and resets, what a user sees is a behaviour of it.
THEOREM Implementation == Spec => ImplementsRegistry
<1>1. Init => Registry!Init
  BY InitRefines
<1>2. Init => Unissued
  BY DEF Init, Unissued
<1>3. IInv /\ Unissued /\ [Next]_vars => Unissued'
  BY UnissuedPreserved
<1>4. IInv /\ Unissued /\ [Next]_vars => [Registry!Next]_Registry!vars
  BY StepRefines
<1> QED BY <1>1, <1>2, <1>3, <1>4, InductiveInvariant, PTL
       DEF Spec, ImplementsRegistry, Registry!Spec

\* What the registry promises holds of the tables: every session in the list
\* can be used, and a usable token outside it was issued beside a reset.
THEOREM ListIsUsable == Spec => []Registry!ListedIsUsable
<1>1. IInv => Registry!ListedIsUsable
  <2> SUFFICES ASSUME IInv PROVE Registry!ListedIsUsable
    OBVIOUS
  <2>1. \A s \in Token : session[s] \in Token \cup {NoToken}
    BY DEF IInv, TypeOK
  <2>2. \A s \in Token : session[s] # NoToken => Live(session[s])
    BY DEF IInv, SessionsTrackLiveTokens
  <2>3. \A t \in Token : Live(t) => (\E s \in Token : session[s] = t) \/ t \in raced
    BY DEF IInv, UntrackedOnlyIfRaced, Tracked
  <2> QED BY <2>1, <2>2, <2>3, NoValueAssumption DEF Registry!ListedIsUsable
<1> QED BY <1>1, InductiveInvariant, PTL

=============================================================================
