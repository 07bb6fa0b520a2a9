-------------------------- MODULE AccessTokensProofs --------------------------
(***************************************************************************)
(* IInv is an inductive invariant of AccessTokens, for any lifetime and    *)
(* any resolution of the clock.  A logged-out token is on the blacklist    *)
(* until the second of its exp; a request that is checked for it is        *)
(* accepted at most within that second.                                    *)
(***************************************************************************)
EXTENDS AccessTokens, TLAPS

\* Nothing is issued, stored or in flight at the start.
LEMMA Initiation == Init => IInv
<1> SUFFICES ASSUME Init PROVE IInv
  OBVIOUS
<1>1. TypeOK
  BY ClockAssumption DEF Init, TypeOK
<1>2. SlotsCurrent /\ KeysLast /\ LogoutsStored /\ LateAtTheEnd
  BY DEF Init, SlotsCurrent, KeysLast, LogoutsStored, LateAtTheEnd
<1> QED BY <1>1, <1>2 DEF IInv

\* What is said of keys and logouts depends on the time and the store alone.
LEMMA StoreFrame ==
  ASSUME IInv, UNCHANGED <<now, store>>
  PROVE  KeysLast' /\ LogoutsStored'
BY DEF IInv, KeysLast, LogoutsStored, store

\* The clock may tick at any moment: keys and TTLs reach beyond the tokens
\* from whatever instant they are counted.
LEMMA TickPreserves ==
  ASSUME IInv, Tick
  PROVE  IInv'
<1>1. TypeOK'
  BY ClockAssumption DEF IInv, Tick, TypeOK, store, slots
<1>2. SlotsCurrent'
  BY DEF IInv, Tick, SlotsCurrent, TypeOK, store, slots
<1>3. KeysLast'
  BY DEF IInv, Tick, KeysLast, store
<1>4. LogoutsStored'
  BY DEF IInv, Tick, LogoutsStored, TypeOK, store
<1>5. LateAtTheEnd'
  BY DEF IInv, Tick, LateAtTheEnd, Checked, TypeOK, SlotsCurrent, store, slots
<1> QED BY <1>1, <1>2, <1>3, <1>4, <1>5 DEF IInv

\* Redis fails and returns; also the stuttering step.
LEMMA OutagePreserves ==
  ASSUME IInv, up' \in BOOLEAN, outages' \in Nat, UNCHANGED <<now, store, slots>>
  PROVE  IInv'
<1>1. TypeOK'
  BY DEF IInv, TypeOK, store, slots
<1>2. KeysLast' /\ LogoutsStored'
  BY StoreFrame
<1>3. SlotsCurrent' /\ LateAtTheEnd'
  BY DEF IInv, SlotsCurrent, LateAtTheEnd, Checked, store, slots
<1> QED BY <1>1, <1>2, <1>3 DEF IInv

\* A new token has exp in the future and no key.
LEMMA IssuePreserves ==
  ASSUME IInv, NEW t \in Token, Issue(t)
  PROVE  IInv'
<1>1. TypeOK'
  BY ClockAssumption DEF IInv, Issue, TypeOK, clock, slots
<1>2. SlotsCurrent' /\ LateAtTheEnd'
  BY ClockAssumption
     DEF IInv, Issue, SlotsCurrent, LateAtTheEnd, Checked, TypeOK, clock, slots
<1>3. KeysLast' /\ LogoutsStored'
  BY DEF IInv, Issue, KeysLast, LogoutsStored, clock
<1> QED BY <1>1, <1>2, <1>3 DEF IInv

-----------------------------------------------------------------------------
\* A slot that is freed says nothing: LogoutAbort, Accept and Refuse.
LEMMA FinishPreserves ==
  ASSUME IInv, NEW r \in Request, Finish(r), UNCHANGED <<clock, store>>
  PROVE  IInv'
<1>1. TypeOK'
  BY DEF IInv, Finish, TypeOK, clock, store
<1>2. KeysLast' /\ LogoutsStored'
  BY StoreFrame DEF clock
<1>3. SlotsCurrent' /\ LateAtTheEnd'
  BY DEF IInv, Finish, SlotsCurrent, LateAtTheEnd, Checked, TypeOK, clock, store
<1> QED BY <1>1, <1>2, <1>3 DEF IInv

\* A logout begins with an issued token.
LEMMA LogoutBeginPreserves ==
  ASSUME IInv, NEW r \in Request, NEW t \in Token, LogoutBegin(r, t)
  PROVE  IInv'
<1>1. TypeOK'
  BY DEF IInv, LogoutBegin, Start, TypeOK, clock, store
<1>2. KeysLast' /\ LogoutsStored'
  BY StoreFrame DEF LogoutBegin, clock
<1>3. SlotsCurrent' /\ LateAtTheEnd'
  BY DEF IInv, LogoutBegin, Start, SlotsCurrent, LateAtTheEnd, Checked, TypeOK, clock,
     store
<1> QED BY <1>1, <1>2, <1>3 DEF IInv

\* The TTL is computed: counted from now it reaches the second of exp.
LEMMA LogoutRevokePreserves ==
  ASSUME IInv, NEW r \in Request, LogoutRevoke(r)
  PROVE  IInv'
<1>1. TypeOK'
  BY DEF IInv, LogoutRevoke, TypeOK, SlotsCurrent, clock, store
<1>2. KeysLast' /\ LogoutsStored'
  BY StoreFrame DEF LogoutRevoke, clock
<1>3. SlotsCurrent'
  BY DEF IInv, LogoutRevoke, SlotsCurrent, TypeOK, clock, store
<1>4. LateAtTheEnd'
  BY DEF IInv, LogoutRevoke, LateAtTheEnd, Checked, clock, store
<1> QED BY <1>1, <1>2, <1>3, <1>4 DEF IInv

\* No second is left: nothing need be written.
LEMMA LogoutExpiredPreserves ==
  ASSUME IInv, NEW r \in Request, LogoutExpired(r)
  PROVE  IInv'
<1>1. TypeOK'
  BY DEF IInv, LogoutExpired, Finish, TypeOK, SlotsCurrent, clock
<1>2. KeysLast' /\ LogoutsStored'
  BY DEF IInv, LogoutExpired, KeysLast, LogoutsStored, SlotsCurrent, clock
<1>3. SlotsCurrent' /\ LateAtTheEnd'
  BY DEF IInv, LogoutExpired, Finish, SlotsCurrent, LateAtTheEnd, Checked, TypeOK, clock
<1> QED BY <1>1, <1>2, <1>3 DEF IInv

\* The key is written: it outlives the token however late the write comes.
LEMMA SetExPreserves ==
  ASSUME IInv, NEW r \in Request, SetEx(r)
  PROVE  IInv'
<1>1. TypeOK'
  BY DEF IInv, SetEx, Finish, TypeOK, SlotsCurrent, clock
<1>2. KeysLast'
  BY DEF IInv, SetEx, KeysLast, SlotsCurrent
<1>3. LogoutsStored'
  BY NoValueAssumption
     DEF IInv, SetEx, LogoutsStored, TypeOK, SlotsCurrent, clock
<1>4. SlotsCurrent' /\ LateAtTheEnd'
  BY DEF IInv, SetEx, Finish, SlotsCurrent, LateAtTheEnd, Checked, TypeOK, clock
<1> QED BY <1>1, <1>2, <1>3, <1>4 DEF IInv

\* Redis fails: the token is lost from sight.
LEMMA SetExFailsPreserves ==
  ASSUME IInv, NEW r \in Request, SetExFails(r)
  PROVE  IInv'
<1>1. TypeOK'
  BY DEF IInv, SetExFails, Finish, TypeOK, SlotsCurrent, clock
<1>2. KeysLast' /\ LogoutsStored'
  BY DEF IInv, SetExFails, KeysLast, LogoutsStored, clock
<1>3. SlotsCurrent' /\ LateAtTheEnd'
  BY DEF IInv, SetExFails, Finish, SlotsCurrent, LateAtTheEnd, Checked, TypeOK, clock
<1> QED BY <1>1, <1>2, <1>3 DEF IInv

\* Until the second of exp an answered logout is found on the blacklist.
LEMMA StoredIsBlacklisted == IInv => AnsweredIsBlacklisted
BY DEF IInv, AnsweredIsBlacklisted, Blacklisted, NotAfter, TypeOK, KeysLast,
   LogoutsStored

\* So a request that is let through after it has come in the last second.
LEMMA CheckPreserves ==
  ASSUME IInv, NEW r \in Request,
         NEW c \in Token \cup {NoToken}, NEW b \in Token \cup {NoToken},
         NEW twoParts \in BOOLEAN, Check(r, c, b, twoParts)
  PROVE  IInv'
<1> DEFINE checked == Extract(c, b, twoParts)
           found == Resolve(c, b)
<1>1. found \in Token /\ exp[found] # 0 /\ checked \in {found, NoToken}
  BY DEF Check, Extract, Resolve
<1>2. checked # NoToken /\ up => ~Blacklisted(checked)
  BY DEF Check
<1>3. /\ pc[r] = "idle" /\ pc' = [pc EXCEPT ![r] = "handler"]
      /\ tok' = [tok EXCEPT ![r] = checked]
      /\ cred' = [cred EXCEPT ![r] = found]
      /\ late' = [late EXCEPT ![r] = found \in loggedOut]
      /\ open' = [open EXCEPT ![r] = checked # NoToken /\ ~up]
      /\ UNCHANGED <<clock, store, ttl>>
  BY DEF Check, Start
<1> HIDE DEF checked, found
<1>4. TypeOK'
  BY <1>1, <1>3 DEF IInv, TypeOK, clock, store
<1>5. KeysLast' /\ LogoutsStored'
  BY <1>3, StoreFrame DEF clock
<1>6. SlotsCurrent'
  BY <1>1, <1>3 DEF IInv, SlotsCurrent, TypeOK, clock, store
<1>7. LateAtTheEnd'
  <2>1. checked # NoToken /\ up /\ found \in loggedOut \ lost
          => now[1] >= exp[found]
    BY <1>1, <1>2, StoredIsBlacklisted DEF IInv, TypeOK, AnsweredIsBlacklisted
  <2> QED BY <1>1, <1>3, <2>1
          DEF IInv, TypeOK, LateAtTheEnd, Checked, clock, store
<1> QED BY <1>4, <1>5, <1>6, <1>7 DEF IInv

-----------------------------------------------------------------------------
\* Every step of the system preserves the inductive invariant.
LEMMA Consecution == IInv /\ [Next]_vars => IInv'
<1> SUFFICES ASSUME IInv, [Next]_vars PROVE IInv'
  OBVIOUS
<1>1. CASE Tick
  BY <1>1, TickPreserves
<1>2. CASE RedisFails \/ RedisReturns \/ UNCHANGED vars
  <2>1. up' \in BOOLEAN
    BY <1>2, Zenon DEF IInv, TypeOK, RedisFails, RedisReturns, vars, clock
  <2>2. outages' \in Nat
    BY <1>2 DEF IInv, TypeOK, RedisFails, RedisReturns, vars, clock
  <2> QED BY <1>2, <2>1, <2>2, OutagePreserves DEF RedisFails, RedisReturns, vars, clock
<1>3. ASSUME NEW t \in Token, Issue(t) PROVE IInv'
  BY <1>3, IssuePreserves
<1>4. ASSUME NEW r \in Request,
             \/ \E t \in Token : LogoutBegin(r, t)
             \/ \E c, b \in Token \cup {NoToken}, twoParts \in BOOLEAN :
                  Check(r, c, b, twoParts)
      PROVE  IInv'
  BY <1>4, LogoutBeginPreserves, CheckPreserves
<1>5. ASSUME NEW r \in Request, LogoutAbort(r) \/ Accept(r) \/ Refuse(r)
      PROVE  IInv'
  BY <1>5, FinishPreserves DEF LogoutAbort, Accept, Refuse
<1>6. ASSUME NEW r \in Request,
             LogoutRevoke(r) \/ LogoutExpired(r) \/ SetEx(r) \/ SetExFails(r)
      PROVE  IInv'
  BY <1>6, LogoutRevokePreserves, LogoutExpiredPreserves, SetExPreserves,
     SetExFailsPreserves
<1> QED BY <1>1, <1>2, <1>3, <1>4, <1>5, <1>6 DEF Next

\* IInv holds in every state the system reaches.
THEOREM InductiveInvariant == Spec => []IInv
<1>1. Init => IInv
  BY Initiation
<1>2. IInv /\ [Next]_vars => IInv'
  BY Consecution
<1> QED BY <1>1, <1>2, PTL DEF Spec

\* Clock, store and requests keep their types.
THEOREM TypeCorrect == Spec => []TypeOK
<1>1. IInv => TypeOK
  BY DEF IInv
<1> QED BY <1>1, InductiveInvariant, PTL

\* From its answer on, a logout that reached Redis keeps the access token on
\* the blacklist until the second of exp (blacklist_access_token_raw).
THEOREM LogoutIsStored == Spec => []AnsweredIsBlacklisted
<1>1. IInv => AnsweredIsBlacklisted
  BY StoredIsBlacklisted
<1> QED BY <1>1, InductiveInvariant, PTL

\* A token whose logout was answered before the middleware looked it up is
\* accepted in the second of exp or never, unless Redis failed.
THEOREM AcceptedAtTheEnd == Spec => AcceptedOnlyInLastSecond
<1>1. ASSUME IInv, NEW r \in Request, Accept(r), late[r], Checked(r),
             cred[r] \notin lost
      PROVE  now[1] = exp[cred[r]]
  <2>1. cred[r] \in Token /\ now[1] \in Nat /\ exp[cred[r]] \in Nat
    BY <1>1 DEF IInv, TypeOK, SlotsCurrent, Accept
  <2>2. now[1] >= exp[cred[r]] /\ now[1] <= exp[cred[r]]
    BY <1>1 DEF IInv, LateAtTheEnd, Accept
  <2> QED BY <2>1, <2>2
<1>2. IInv /\ [Next]_vars =>
        [\A r \in Request :
           Accept(r) /\ late[r] /\ Checked(r) /\ cred[r] \notin lost
             => now[1] = exp[cred[r]]]_vars
  BY <1>1
<1> QED BY <1>2, InductiveInvariant, PTL DEF Spec, AcceptedOnlyInLastSecond

=============================================================================
