---------------------------- MODULE AccessTokens ----------------------------
(***************************************************************************)
(* Access tokens: JWTs that carry their expiry in whole seconds, and the   *)
(* Redis blacklist by which a logout revokes one before that.              *)
(*                                                                         *)
(* A logout handler revokes the refresh token (module Sessions), then      *)
(* computes the seconds the access token has left and writes a key with    *)
(* that TTL.  A request passes the blacklist middleware first and the      *)
(* get_current_user dependency later; it may carry a cookie, a bearer      *)
(* header or both, and either of the two picks its token by itself: the    *)
(* middleware misses a header that blanks split into more than two parts,  *)
(* and then looks nothing up.  Each await on the database or on Redis is a *)
(* step boundary, at which time may pass and Redis may fail.               *)
(*                                                                         *)
(* Time is a pair <<second, fraction>>: the server truncates it to seconds *)
(* for the JWT, Redis keeps it in milliseconds.                            *)
(***************************************************************************)
EXTENDS Naturals, FiniteSets

CONSTANTS
  Token,        \* access tokens, identified by their jti
  Request,      \* slots for requests in flight; a slot is reused
  Lifetime,     \* ACCESS_TOKEN_EXPIRE_MINUTES, in seconds
  Fractions,    \* fractions of a second that are told apart
  MaxSecond,    \* bound: when the clock stops
  MaxOutages,   \* bound: how often Redis fails
  NoToken,
  NoKey

ASSUME ClockAssumption ==
  /\ Lifetime \in Nat \ {0}
  /\ Fractions \in Nat \ {0}
  /\ MaxSecond \in Nat /\ MaxOutages \in Nat
ASSUME NoValueAssumption == NoToken \notin Token /\ NoKey \notin Nat \X Nat

VARIABLES
  now,          \* <<second, fraction>>
  exp,          \* claim exp of each token, 0 before it is issued
  key,          \* the Redis key of each jti: when it expires
  up, outages,  \* Redis answers; how often it has failed
  pc, tok,      \* per slot: the step it runs next, the token it works on; of a
                \* request the token the middleware looked up, if any
  cred,         \* request: the token get_current_user will find in it
  ttl,          \* logout: "remaining", computed before the write
  late,         \* history: the logout of what the request will be let in with
                \* was answered when the middleware ran
  open,         \* request: let through because Redis failed
  loggedOut,    \* history: tokens whose logout was answered with a 200
  lost          \* history: tokens whose blacklisting failed without a trace

clock == <<now, up, outages>>
store == <<exp, key, loggedOut, lost>>
slots == <<pc, tok, cred, ttl, late, open>>
vars  == <<clock, store, slots>>

\* a is not later than b.
NotAfter(a, b) == a[1] < b[1] \/ (a[1] = b[1] /\ a[2] <= b[2])

\* EXISTS: Redis drops a key once its expiry has passed.
Blacklisted(t) == key[t] # NoKey /\ NotAfter(now, key[t])

Init ==
  /\ now = <<0, 0>>
  /\ exp = [t \in Token |-> 0]
  /\ key = [t \in Token |-> NoKey]
  /\ up = TRUE
  /\ outages = 0
  /\ pc = [r \in Request |-> "idle"]
  /\ tok = [r \in Request |-> NoToken]
  /\ cred = [r \in Request |-> NoToken]
  /\ ttl = [r \in Request |-> 0]
  /\ late = [r \in Request |-> FALSE]
  /\ open = [r \in Request |-> FALSE]
  /\ loggedOut = {}
  /\ lost = {}

-----------------------------------------------------------------------------
(* The clock and Redis.                                                     *)

Tick ==
  /\ now[1] < MaxSecond
  /\ now' = IF now[2] + 1 < Fractions THEN <<now[1], now[2] + 1>>
                                      ELSE <<now[1] + 1, 0>>
  /\ UNCHANGED <<up, outages, store, slots>>

RedisFails ==
  /\ up
  /\ outages < MaxOutages
  /\ up' = FALSE
  /\ outages' = outages + 1
  /\ UNCHANGED <<now, store, slots>>

RedisReturns ==
  /\ ~up
  /\ up' = TRUE
  /\ UNCHANGED <<now, outages, store, slots>>

-----------------------------------------------------------------------------
Start(r, t, next) ==
  /\ pc[r] = "idle"
  /\ pc' = [pc EXCEPT ![r] = next]
  /\ tok' = [tok EXCEPT ![r] = t]

Finish(r) ==
  /\ pc' = [pc EXCEPT ![r] = "idle"]
  /\ tok' = [tok EXCEPT ![r] = NoToken]
  /\ cred' = [cred EXCEPT ![r] = NoToken]
  /\ ttl' = [ttl EXCEPT ![r] = 0]
  /\ late' = [late EXCEPT ![r] = FALSE]
  /\ open' = [open EXCEPT ![r] = FALSE]

\* create_access_token: a fresh jti; jose truncates exp to seconds.
Issue(t) ==
  /\ exp[t] = 0
  /\ exp' = [exp EXCEPT ![t] = now[1] + Lifetime]
  /\ UNCHANGED <<clock, key, loggedOut, lost, slots>>

\* POST /logout with access token t, which may have expired.
LogoutBegin(r, t) ==
  /\ exp[t] # 0
  /\ Start(r, t, "revoke")
  /\ UNCHANGED <<clock, store, cred, ttl, late, open>>

\* Mutant of LogoutRevoke: the test "expires_in <= 0" is missing.
LogoutRevokeAlways(r) ==
  /\ pc[r] = "revoke"
  /\ pc' = [pc EXCEPT ![r] = "setex"]
  /\ ttl' = [ttl EXCEPT ![r] = exp[tok[r]] - now[1]]
  /\ UNCHANGED <<clock, store, tok, cred, late, open>>

\* The refresh token is revoked; blacklist_access_token_raw computes the
\* seconds left, and writes nothing if there are none.
LogoutRevoke(r) ==
  /\ pc[r] = "revoke"
  /\ now[1] < exp[tok[r]]
  /\ pc' = [pc EXCEPT ![r] = "setex"]
  /\ ttl' = [ttl EXCEPT ![r] = exp[tok[r]] - now[1]]
  /\ UNCHANGED <<clock, store, tok, cred, late, open>>

LogoutExpired(r) ==
  /\ pc[r] = "revoke"
  /\ now[1] >= exp[tok[r]]
  /\ loggedOut' = loggedOut \cup {tok[r]}
  /\ Finish(r)
  /\ UNCHANGED <<clock, exp, key, lost>>

\* Mutant of SetEx: the TTL is taken for a point in time (EXAT for EX).
SetExAt(r) ==
  /\ pc[r] = "setex"
  /\ up
  /\ key' = [key EXCEPT ![tok[r]] = <<ttl[r], 0>>]
  /\ loggedOut' = loggedOut \cup {tok[r]}
  /\ Finish(r)
  /\ UNCHANGED <<clock, exp, lost>>

\* blacklist_token: Redis counts the TTL from when it runs the command.
SetEx(r) ==
  /\ pc[r] = "setex"
  /\ up
  /\ key' = [key EXCEPT ![tok[r]] = <<now[1] + ttl[r], now[2]>>]
  /\ loggedOut' = loggedOut \cup {tok[r]}
  /\ Finish(r)
  /\ UNCHANGED <<clock, exp, lost>>

\* A RedisError is logged, and the logout answered all the same.
SetExFails(r) ==
  /\ pc[r] = "setex"
  /\ ~up
  /\ loggedOut' = loggedOut \cup {tok[r]}
  /\ lost' = lost \cup {tok[r]}
  /\ Finish(r)
  /\ UNCHANGED <<clock, exp, key>>

\* The handler stops before its answer: the refresh token is unknown, the
\* commit fails, the worker is killed.
LogoutAbort(r) ==
  /\ pc[r] \in {"revoke", "setex"}
  /\ Finish(r)
  /\ UNCHANGED <<clock, store>>

\* _extract_token takes the cookie; without one it takes the bearer token, if
\* splitting the header at its blanks gives exactly two parts.
Extract(c, b, twoParts) ==
  IF c # NoToken THEN c ELSE IF twoParts THEN b ELSE NoToken

\* Mutant of Resolve: the header goes first.
ResolveBearerFirst(c, b) == IF b # NoToken THEN b ELSE c

\* get_current_user takes the cookie too; without one it takes whatever follows
\* the first space of the header, and jose skips blanks in the signature of b.
Resolve(c, b) == IF c # NoToken THEN c ELSE b

\* The middleware lets a request with cookie c and bearer token b through: it
\* found nothing to look up, or no answer from Redis (fail-open), or no key.  With
\* a key the request ends in a 401 here; one in which get_current_user finds no
\* token it can decode ends in a 401 there.  Neither changes anything.
Check(r, c, b, twoParts) ==
  LET checked == Extract(c, b, twoParts)
      found   == Resolve(c, b)
  IN
  /\ found # NoToken
  /\ \A x \in {c, b} \ {NoToken} : exp[x] # 0
  /\ checked # NoToken /\ up => ~Blacklisted(checked)
  /\ Start(r, checked, "handler")
  /\ cred' = [cred EXCEPT ![r] = found]
  /\ late' = [late EXCEPT ![r] = found \in loggedOut]
  /\ open' = [open EXCEPT ![r] = checked # NoToken /\ ~up]
  /\ UNCHANGED <<clock, store, ttl>>

\* decode_access_token: jose refuses a token when exp < now, in seconds.
Accept(r) ==
  /\ pc[r] = "handler"
  /\ now[1] <= exp[cred[r]]
  /\ Finish(r)
  /\ UNCHANGED <<clock, store>>

Refuse(r) ==
  /\ pc[r] = "handler"
  /\ now[1] > exp[cred[r]]
  /\ Finish(r)
  /\ UNCHANGED <<clock, store>>

Next ==
  \/ Tick \/ RedisFails \/ RedisReturns
  \/ \E t \in Token : Issue(t)
  \/ \E r \in Request, t \in Token : LogoutBegin(r, t)
  \/ \E r \in Request, c, b \in Token \cup {NoToken}, twoParts \in BOOLEAN :
       Check(r, c, b, twoParts)
  \/ \E r \in Request :
       \/ LogoutRevoke(r) \/ LogoutExpired(r) \/ SetEx(r) \/ SetExFails(r)
       \/ LogoutAbort(r) \/ Accept(r) \/ Refuse(r)

Spec == Init /\ [][Next]_vars

-----------------------------------------------------------------------------
(* Properties.                                                              *)

TypeOK ==
  /\ now \in Nat \X (0 .. Fractions - 1)
  /\ exp \in [Token -> Nat]
  /\ key \in [Token -> (Nat \X (0 .. Fractions - 1)) \cup {NoKey}]
  /\ up \in BOOLEAN
  /\ outages \in Nat
  /\ pc \in [Request -> {"idle", "revoke", "setex", "handler"}]
  /\ tok \in [Request -> Token \cup {NoToken}]
  /\ cred \in [Request -> Token \cup {NoToken}]
  /\ ttl \in [Request -> Nat]
  /\ late \in [Request -> BOOLEAN]
  /\ open \in [Request -> BOOLEAN]
  /\ loggedOut \subseteq Token
  /\ lost \subseteq Token

\* From the answer of a logout until the second named by exp the access token
\* is on the blacklist, unless Redis failed to store it: the TTL, computed
\* before the write and counted from after it, is never short.
AnsweredIsBlacklisted ==
  \A t \in loggedOut \ lost : now[1] < exp[t] => Blacklisted(t)

\* The middleware found a token in the request, and Redis answered it.
Checked(r) == tok[r] # NoToken /\ ~open[r]

\* A request that passed the middleware after the logout of its token was
\* answered gets in only because Redis failed it or the logout, because the
\* middleware found nothing to look up in it, or in the very second named by exp.
\* The token is the one it is let in with, whatever the middleware looked up.
AcceptedOnlyInLastSecond ==
  [][\A r \in Request :
       Accept(r) /\ late[r] /\ Checked(r) /\ cred[r] \notin lost
         => now[1] = exp[cred[r]]]_vars

-----------------------------------------------------------------------------
(* The inductive invariant behind the safety properties.                    *)

\* Slots in use hold an issued token; a logout that is about to write holds a
\* TTL that reaches the second of exp if it is counted from now on; a request
\* is let in with the token that was looked up, if any was.
SlotsCurrent ==
  \A r \in Request :
    /\ pc[r] \in {"revoke", "setex"} => tok[r] \in Token /\ exp[tok[r]] # 0
    /\ pc[r] = "setex" => now[1] + ttl[r] >= exp[tok[r]]
    /\ pc[r] = "handler" => /\ cred[r] \in Token /\ exp[cred[r]] # 0
                           /\ tok[r] \in {cred[r], NoToken}

\* A key outlives its token.
KeysLast == \A t \in Token : key[t] # NoKey => exp[t] # 0 /\ key[t][1] >= exp[t]

\* An answered logout has written the key, or came too late for it.
LogoutsStored ==
  \A t \in loggedOut \ lost : exp[t] # 0 /\ (key[t] # NoKey \/ now[1] >= exp[t])

\* A request checked and let through after the logout came in the last second.
LateAtTheEnd ==
  \A r \in Request :
    pc[r] = "handler" /\ late[r] /\ Checked(r) /\ cred[r] \notin lost
      => now[1] >= exp[cred[r]]

IInv == TypeOK /\ SlotsCurrent /\ KeysLast /\ LogoutsStored /\ LateAtTheEnd

=============================================================================
