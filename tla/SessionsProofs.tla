--------------------------- MODULE SessionsProofs ---------------------------
(***************************************************************************)
(* IInv is an inductive invariant of Sessions, for any number of users,    *)
(* tokens and requests, and the safety properties follow from it.          *)
(*                                                                         *)
(* One lemma per action shows that the action preserves IInv, with one     *)
(* step per conjunct.  Actions that write no table leave the conjuncts     *)
(* about tables alone, which TablesFrame says once.                        *)
(***************************************************************************)
EXTENDS Sessions, TLAPS

\* The conjuncts of IInv that speak of tables only.
TablesInv ==
  /\ SessionsTrackLiveTokens /\ SessionHashesUnique
  /\ ResetCutsOff /\ UntrackedOnlyIfRaced

\* A step that leaves the tokens, the passwords and the history alone keeps
\* what is said of them.
LEMMA TablesFrame ==
  ASSUME IInv, UNCHANGED <<password, tokens, history>>
  PROVE  TablesInv'
BY DEF IInv, TablesInv, SessionsTrackLiveTokens, SessionHashesUnique,
   ResetCutsOff, UntrackedOnlyIfRaced, Live, Tracked, tokens, history

\* The tables start empty and no request is in flight.
LEMMA Initiation == Init => IInv
<1> SUFFICES ASSUME Init PROVE IInv
  OBVIOUS
<1>1. TypeOK
  BY DEF Init, TypeOK, TokenState, ResetState, PC
<1>2. TablesInv
  BY DEF Init, TablesInv, SessionsTrackLiveTokens, SessionHashesUnique,
     ResetCutsOff, UntrackedOnlyIfRaced, Live
<1>3. LocksExclusive /\ RowsCommitted
  BY DEF Init, LocksExclusive, RowsCommitted, Refreshing, LoggingOut,
     Resetting, Writing, Scanned
<1>4. RefreshOwnsToken /\ LogoutOwnsToken /\ ResetOwnsTokens /\ IssuesCurrent
  BY DEF Init, RefreshOwnsToken, LogoutOwnsToken, ResetOwnsTokens,
     IssuesCurrent, Refreshing, Scanned
<1>5. ResetsExclusive /\ LinksFound
  BY DEF Init, ResetsExclusive, LinksFound, Writing, Scanned
<1> QED BY <1>1, <1>2, <1>3, <1>4, <1>5 DEF IInv, TablesInv

-----------------------------------------------------------------------------

\* Reading writes no table; the password seen is the current one.
LEMMA LoginReadPreserves ==
  ASSUME IInv, NEW r \in Request, NEW u \in User, LoginRead(r, u)
  PROVE  IInv'
<1>1. TypeOK'
  BY DEF IInv, LoginRead, Begin, TypeOK, PC, Issuing, tokens, resets,
       history
<1>2. TablesInv'
  BY TablesFrame DEF LoginRead, Begin
<1>3. LocksExclusive'
  BY DEF IInv, LoginRead, Begin, LocksExclusive, Scanned, Holding, tokens
<1>4. RowsCommitted'
  BY DEF IInv, LoginRead, Begin, RowsCommitted, TypeOK, Scanned, Writing,
       Refreshing, LoggingOut, Resetting, tokens, resets
<1>5. RefreshOwnsToken'
  BY DEF IInv, LoginRead, Begin, RefreshOwnsToken, tokens
<1>6. LogoutOwnsToken'
  BY DEF IInv, LoginRead, Begin, LogoutOwnsToken, tokens
<1>7. ResetOwnsTokens'
  BY DEF IInv, LoginRead, Begin, ResetOwnsTokens, Live, Scanned, tokens,
       history
<1>8. IssuesCurrent'
  BY DEF IInv, LoginRead, Begin, IssuesCurrent, TypeOK, Refreshing, history
<1>9. ResetsExclusive' /\ LinksFound'
  BY DEF IInv, LoginRead, Begin, ResetsExclusive, LinksFound, TypeOK,
       Writing, Scanned, resets
<1> QED BY <1>1, <1>2, <1>3, <1>4, <1>5, <1>6, <1>7, <1>8, <1>9 DEF IInv, TablesInv

\* Reading writes no table.
LEMMA ForgotReadPreserves ==
  ASSUME IInv, NEW r \in Request, NEW u \in User, ForgotRead(r, u)
  PROVE  IInv'
<1>1. TypeOK'
  BY DEF IInv, ForgotRead, Begin, TypeOK, PC, tokens, resets, history
<1>2. TablesInv'
  BY TablesFrame DEF ForgotRead, Begin
<1>3. LocksExclusive'
  BY DEF IInv, ForgotRead, Begin, LocksExclusive, Scanned, Holding, tokens
<1>4. RowsCommitted'
  BY DEF IInv, ForgotRead, Begin, RowsCommitted, TypeOK, Scanned, Writing,
       Refreshing, LoggingOut, Resetting, tokens, resets
<1>5. RefreshOwnsToken'
  BY DEF IInv, ForgotRead, Begin, RefreshOwnsToken, tokens
<1>6. LogoutOwnsToken'
  BY DEF IInv, ForgotRead, Begin, LogoutOwnsToken, tokens
<1>7. ResetOwnsTokens'
  BY DEF IInv, ForgotRead, Begin, ResetOwnsTokens, Live, Scanned, tokens,
       history
<1>8. IssuesCurrent'
  BY DEF IInv, ForgotRead, Begin, IssuesCurrent, Refreshing, history
<1>9. ResetsExclusive' /\ LinksFound'
  BY DEF IInv, ForgotRead, Begin, ResetsExclusive, LinksFound, TypeOK,
       Writing, Scanned, resets
<1> QED BY <1>1, <1>2, <1>3, <1>4, <1>5, <1>6, <1>7, <1>8, <1>9 DEF IInv, TablesInv

\* The token read is live, so by ResetCutsOff it is of the current password.
LEMMA RefreshReadPreserves ==
  ASSUME IInv, NEW r \in Request, NEW t \in Token, RefreshRead(r, t)
  PROVE  IInv'
<1>1. TypeOK'
  BY DEF IInv, RefreshRead, Begin, TypeOK, PC, Issuing, tokens, resets,
       history
<1>2. TablesInv'
  BY TablesFrame DEF RefreshRead, Begin
<1>3. LocksExclusive'
  BY DEF IInv, RefreshRead, Begin, LocksExclusive, Scanned, Holding, tokens
<1>4. RowsCommitted'
  BY DEF IInv, RefreshRead, Begin, RowsCommitted, TypeOK, Live, Scanned,
       Writing, Resetting, tokens, resets
<1>5. RefreshOwnsToken'
  BY DEF IInv, RefreshRead, Begin, RefreshOwnsToken, tokens
<1>6. LogoutOwnsToken'
  BY DEF IInv, RefreshRead, Begin, LogoutOwnsToken, tokens
<1>7. ResetOwnsTokens'
  BY DEF IInv, RefreshRead, Begin, ResetOwnsTokens, Live, Scanned, tokens,
       history
<1>8. IssuesCurrent'
  BY DEF IInv, RefreshRead, Begin, IssuesCurrent, TypeOK, history,
       ResetCutsOff
<1>9. ResetsExclusive' /\ LinksFound'
  BY DEF IInv, RefreshRead, Begin, ResetsExclusive, LinksFound, TypeOK,
       Writing, Scanned, resets
<1> QED BY <1>1, <1>2, <1>3, <1>4, <1>5, <1>6, <1>7, <1>8, <1>9 DEF IInv, TablesInv

\* The token read exists, and if it is not live it is revoked.
LEMMA LogoutReadPreserves ==
  ASSUME IInv, NEW r \in Request, NEW t \in Token, LogoutRead(r, t)
  PROVE  IInv'
<1>1. TypeOK'
  BY DEF IInv, LogoutRead, Begin, TypeOK, PC, tokens, resets, history
<1>2. TablesInv'
  BY TablesFrame DEF LogoutRead, Begin
<1>3. LocksExclusive'
  BY DEF IInv, LogoutRead, Begin, LocksExclusive, Scanned, Holding, tokens
<1>4. RowsCommitted'
  BY DEF IInv, LogoutRead, Begin, RowsCommitted, TypeOK, Scanned, Writing,
       Resetting, tokens, resets
<1>5. RefreshOwnsToken'
  BY DEF IInv, LogoutRead, Begin, RefreshOwnsToken, tokens
<1>6. LogoutOwnsToken'
  BY DEF IInv, LogoutRead, Begin, LogoutOwnsToken, TypeOK, Live, TokenState,
       tokens
<1>7. ResetOwnsTokens'
  BY DEF IInv, LogoutRead, Begin, ResetOwnsTokens, Live, Scanned, tokens,
       history
<1>8. IssuesCurrent'
  BY DEF IInv, LogoutRead, Begin, IssuesCurrent, Refreshing, history
<1>9. ResetsExclusive' /\ LinksFound'
  BY DEF IInv, LogoutRead, Begin, ResetsExclusive, LinksFound, TypeOK,
       Writing, Scanned, resets
<1> QED BY <1>1, <1>2, <1>3, <1>4, <1>5, <1>6, <1>7, <1>8, <1>9 DEF IInv, TablesInv

\* The link read belongs to a user.
LEMMA ResetReadPreserves ==
  ASSUME IInv, NEW r \in Request, NEW t \in ResetToken, ResetRead(r, t)
  PROVE  IInv'
<1>1. TypeOK'
  BY DEF IInv, ResetRead, Begin, TypeOK, PC, tokens, resets, history
<1>2. TablesInv'
  BY TablesFrame DEF ResetRead, Begin
<1>3. LocksExclusive'
  BY DEF IInv, ResetRead, Begin, LocksExclusive, Scanned, Holding, tokens
<1>4. RowsCommitted'
  BY DEF IInv, ResetRead, Begin, RowsCommitted, TypeOK, Scanned, Refreshing,
       LoggingOut, tokens, resets
<1>5. RefreshOwnsToken'
  BY DEF IInv, ResetRead, Begin, RefreshOwnsToken, tokens
<1>6. LogoutOwnsToken'
  BY DEF IInv, ResetRead, Begin, LogoutOwnsToken, tokens
<1>7. ResetOwnsTokens'
  BY DEF IInv, ResetRead, Begin, ResetOwnsTokens, Live, Scanned, tokens,
       history
<1>8. IssuesCurrent'
  BY DEF IInv, ResetRead, Begin, IssuesCurrent, Refreshing, history
<1>9. ResetsExclusive' /\ LinksFound'
  BY DEF IInv, ResetRead, Begin, ResetsExclusive, LinksFound, TypeOK,
       Writing, Scanned, resets
<1> QED BY <1>1, <1>2, <1>3, <1>4, <1>5, <1>6, <1>7, <1>8, <1>9 DEF IInv, TablesInv

\* The lock taken is free, so locks stay exclusive.
LEMMA RefreshFlushPreserves ==
  ASSUME IInv, NEW r \in Request, RefreshFlush(r)
  PROVE  IInv'
<1>1. TypeOK'
  BY DEF IInv, RefreshFlush, Goto, TypeOK, PC, Issuing, Refreshing, tokens,
       resets, history, RowsCommitted
<1>2. TablesInv'
  BY TablesFrame DEF RefreshFlush, Goto
<1>3. LocksExclusive'
  BY DEF IInv, RefreshFlush, Goto, TokenFree, LocksExclusive, TypeOK,
       Refreshing, Holding, tokens, RowsCommitted
<1>4. RowsCommitted'
  BY DEF IInv, RefreshFlush, Goto, RowsCommitted, Scanned, Writing,
       Refreshing, Resetting, tokens, resets
<1>5. RefreshOwnsToken'
  BY DEF IInv, RefreshFlush, Goto, RefreshOwnsToken, TypeOK, tokens
<1>6. LogoutOwnsToken'
  BY DEF IInv, RefreshFlush, Goto, LogoutOwnsToken, tokens
<1>7. ResetOwnsTokens'
  BY DEF IInv, RefreshFlush, Goto, ResetOwnsTokens, Live, Scanned, tokens,
       history
<1>8. IssuesCurrent'
  BY DEF IInv, RefreshFlush, Goto, IssuesCurrent, Refreshing, history
<1>9. ResetsExclusive' /\ LinksFound'
  BY DEF IInv, RefreshFlush, Goto, ResetsExclusive, LinksFound, TypeOK,
       Writing, Scanned, resets
<1> QED BY <1>1, <1>2, <1>3, <1>4, <1>5, <1>6, <1>7, <1>8, <1>9 DEF IInv, TablesInv

\* The lock taken is free, so locks stay exclusive.
LEMMA LogoutFlushPreserves ==
  ASSUME IInv, NEW r \in Request, LogoutFlush(r)
  PROVE  IInv'
<1>1. TypeOK'
  BY DEF IInv, LogoutFlush, Goto, TypeOK, PC, LoggingOut, tokens, resets,
       history, RowsCommitted
<1>2. TablesInv'
  BY TablesFrame DEF LogoutFlush, Goto
<1>3. LocksExclusive'
  BY DEF IInv, LogoutFlush, Goto, TokenFree, LocksExclusive, TypeOK,
       LoggingOut, Holding, tokens, RowsCommitted
<1>4. RowsCommitted'
  BY DEF IInv, LogoutFlush, Goto, RowsCommitted, Scanned, Writing,
       LoggingOut, Resetting, tokens, resets
<1>5. RefreshOwnsToken'
  BY DEF IInv, LogoutFlush, Goto, RefreshOwnsToken, tokens
<1>6. LogoutOwnsToken'
  BY DEF IInv, LogoutFlush, Goto, LogoutOwnsToken, TypeOK, tokens
<1>7. ResetOwnsTokens'
  BY DEF IInv, LogoutFlush, Goto, ResetOwnsTokens, Live, Scanned, tokens,
       history
<1>8. IssuesCurrent'
  BY DEF IInv, LogoutFlush, Goto, IssuesCurrent, Refreshing, history
<1>9. ResetsExclusive' /\ LinksFound'
  BY DEF IInv, LogoutFlush, Goto, ResetsExclusive, LinksFound, TypeOK,
       Writing, Scanned, resets
<1> QED BY <1>1, <1>2, <1>3, <1>4, <1>5, <1>6, <1>7, <1>8, <1>9 DEF IInv, TablesInv

\* The session found is the only one with the hash of the held token.
LEMMA RefreshSelectPreserves ==
  ASSUME IInv, NEW r \in Request, RefreshSelect(r)
  PROVE  IInv'
<1>1. TypeOK'
  BY DEF IInv, RefreshSelect, Goto, TypeOK, PC, Issuing, tokens, resets,
       history
<1>2. TablesInv'
  BY TablesFrame DEF RefreshSelect, Goto
<1>3. LocksExclusive'
  BY DEF IInv, RefreshSelect, Goto, LocksExclusive, Holding, tokens
<1>4. RowsCommitted'
  BY NoValueAssumption DEF IInv, RefreshSelect, Goto, RowsCommitted, TypeOK,
       Scanned, Writing, Refreshing, Resetting, tokens, resets
<1>5. RefreshOwnsToken'
  BY NoValueAssumption DEF IInv, RefreshSelect, Goto, RefreshOwnsToken,
       TypeOK, tokens, SessionHashesUnique
<1>6. LogoutOwnsToken'
  BY DEF IInv, RefreshSelect, Goto, LogoutOwnsToken, tokens
<1>7. ResetOwnsTokens'
  BY DEF IInv, RefreshSelect, Goto, ResetOwnsTokens, Live, Scanned, tokens,
       history
<1>8. IssuesCurrent'
  BY DEF IInv, RefreshSelect, Goto, IssuesCurrent, Refreshing, history
<1>9. ResetsExclusive' /\ LinksFound'
  BY DEF IInv, RefreshSelect, Goto, ResetsExclusive, LinksFound, TypeOK,
       Writing, Scanned, resets
<1> QED BY <1>1, <1>2, <1>3, <1>4, <1>5, <1>6, <1>7, <1>8, <1>9 DEF IInv, TablesInv

\* A revoked token has no session; a held one has at most the one found.
LEMMA LogoutSelectPreserves ==
  ASSUME IInv, NEW r \in Request, LogoutSelect(r)
  PROVE  IInv'
<1>1. TypeOK'
  BY DEF IInv, LogoutSelect, Goto, TypeOK, PC, tokens, resets, history
<1>2. TablesInv'
  BY TablesFrame DEF LogoutSelect, Goto
<1>3. LocksExclusive'
  BY DEF IInv, LogoutSelect, Goto, LocksExclusive, Holding, tokens
<1>4. RowsCommitted'
  BY NoValueAssumption DEF IInv, LogoutSelect, Goto, RowsCommitted, TypeOK,
       Scanned, Writing, LoggingOut, Resetting, tokens, resets
<1>5. RefreshOwnsToken'
  BY DEF IInv, LogoutSelect, Goto, RefreshOwnsToken, tokens
<1>6. LogoutOwnsToken'
  BY DEF IInv, LogoutSelect, Goto, LogoutOwnsToken, TypeOK, tokens
<1>7. ResetOwnsTokens'
  BY DEF IInv, LogoutSelect, Goto, ResetOwnsTokens, Live, Scanned, tokens,
       history
<1>8. IssuesCurrent'
  BY DEF IInv, LogoutSelect, Goto, IssuesCurrent, Refreshing, history
<1>9. ResetsExclusive' /\ LinksFound'
  BY DEF IInv, LogoutSelect, Goto, ResetsExclusive, LinksFound, TypeOK,
       Writing, Scanned, resets
<1> QED BY <1>1, <1>2, <1>3, <1>4, <1>5, <1>6, <1>7, <1>8, <1>9 DEF IInv, TablesInv

\* Nothing but the program counter changes.
LEMMA ResetFlushPreserves ==
  ASSUME IInv, NEW r \in Request, ResetFlush(r)
  PROVE  IInv'
<1>1. TypeOK'
  BY DEF IInv, ResetFlush, Goto, TypeOK, PC, Writing, tokens, resets,
       history
<1>2. TablesInv'
  BY TablesFrame DEF ResetFlush, Goto
<1>3. LocksExclusive'
  BY DEF IInv, ResetFlush, Goto, LocksExclusive, Scanned, Holding, tokens
<1>4. RowsCommitted'
  BY DEF IInv, ResetFlush, Goto, RowsCommitted, Scanned, Refreshing,
       LoggingOut, Resetting, tokens, resets
<1>5. RefreshOwnsToken'
  BY DEF IInv, ResetFlush, Goto, RefreshOwnsToken, tokens
<1>6. LogoutOwnsToken'
  BY DEF IInv, ResetFlush, Goto, LogoutOwnsToken, tokens
<1>7. ResetOwnsTokens'
  BY DEF IInv, ResetFlush, Goto, ResetOwnsTokens, Live, Scanned, tokens,
       history
<1>8. IssuesCurrent'
  BY DEF IInv, ResetFlush, Goto, IssuesCurrent, Refreshing, history
<1>9. ResetsExclusive' /\ LinksFound'
  BY DEF IInv, ResetFlush, Goto, UserFree, ResetsExclusive, LinksFound,
       TypeOK, Writing, Scanned, resets
<1> QED BY <1>1, <1>2, <1>3, <1>4, <1>5, <1>6, <1>7, <1>8, <1>9 DEF IInv, TablesInv

\* The scan covers every live token of the user.
LEMMA ResetScanPreserves ==
  ASSUME IInv, NEW r \in Request, ResetScan(r)
  PROVE  IInv'
<1>1. TypeOK'
  BY DEF IInv, ResetScan, Goto, TypeOK, PC, Scanned, Writing, tokens,
       resets, history
<1>2. TablesInv'
  BY TablesFrame DEF ResetScan, Goto
<1>3. LocksExclusive'
  BY DEF IInv, ResetScan, Goto, LocksExclusive, Scanned, Holding, tokens
<1>4. RowsCommitted'
  BY DEF IInv, ResetScan, Goto, RowsCommitted, TypeOK, Live, Writing,
       Refreshing, LoggingOut, Resetting, tokens, resets
<1>5. RefreshOwnsToken'
  BY DEF IInv, ResetScan, Goto, RefreshOwnsToken, tokens
<1>6. LogoutOwnsToken'
  BY DEF IInv, ResetScan, Goto, LogoutOwnsToken, tokens
<1>7. ResetOwnsTokens'
  BY DEF IInv, ResetScan, Goto, ResetOwnsTokens, TypeOK, Live, Holding,
       tokens, history, LocksExclusive
<1>8. IssuesCurrent'
  BY DEF IInv, ResetScan, Goto, IssuesCurrent, Refreshing, history
<1>9. ResetsExclusive' /\ LinksFound'
  BY DEF IInv, ResetScan, Goto, ResetsExclusive, LinksFound, TypeOK,
       Writing, Scanned, resets
<1> QED BY <1>1, <1>2, <1>3, <1>4, <1>5, <1>6, <1>7, <1>8, <1>9 DEF IInv, TablesInv

\* A token moves from those to be revoked to those held.
LEMMA ResetRevokePreserves ==
  ASSUME IInv, NEW r \in Request, NEW t \in Token, ResetRevoke(r, t)
  PROVE  IInv'
<1>1. TypeOK'
  BY DEF IInv, ResetRevoke, Goto, TypeOK, tokens, resets, history
<1>2. TablesInv'
  BY TablesFrame DEF ResetRevoke, Goto
<1>3. LocksExclusive'
  BY DEF IInv, ResetRevoke, Goto, TokenFree, LocksExclusive, Scanned,
       Holding, tokens, RowsCommitted
<1>4. RowsCommitted'
  BY DEF IInv, ResetRevoke, Goto, RowsCommitted, tokens, resets
<1>5. RefreshOwnsToken'
  BY DEF IInv, ResetRevoke, Goto, RefreshOwnsToken, tokens
<1>6. LogoutOwnsToken'
  BY DEF IInv, ResetRevoke, Goto, LogoutOwnsToken, tokens
<1>7. ResetOwnsTokens'
  BY DEF IInv, ResetRevoke, Goto, ResetOwnsTokens, TypeOK, Live, tokens,
       history
<1>8. IssuesCurrent'
  BY DEF IInv, ResetRevoke, Goto, IssuesCurrent, history
<1>9. ResetsExclusive' /\ LinksFound'
  BY DEF IInv, ResetRevoke, Goto, ResetsExclusive, LinksFound, TypeOK,
       Writing, Scanned, resets
<1> QED BY <1>1, <1>2, <1>3, <1>4, <1>5, <1>6, <1>7, <1>8, <1>9 DEF IInv, TablesInv

\* By SessionsTrackLiveTokens the sessions of the held tokens are the user's.
LEMMA ResetDeletePreserves ==
  ASSUME IInv, NEW r \in Request, ResetDelete(r)
  PROVE  IInv'
<1>1. TypeOK'
  BY DEF IInv, ResetDelete, Goto, TypeOK, PC, Scanned, Writing, tokens,
       resets, history
<1>2. TablesInv'
  BY TablesFrame DEF ResetDelete, Goto
<1>3. LocksExclusive'
  BY DEF IInv, ResetDelete, Goto, LocksExclusive, Scanned, Holding, tokens
<1>4. RowsCommitted'
  BY DEF IInv, ResetDelete, Goto, RowsCommitted, Scanned, Writing,
       Refreshing, LoggingOut, Resetting, tokens, resets
<1>5. RefreshOwnsToken'
  BY DEF IInv, ResetDelete, Goto, RefreshOwnsToken, tokens
<1>6. LogoutOwnsToken'
  BY DEF IInv, ResetDelete, Goto, LogoutOwnsToken, tokens
<1>7. ResetOwnsTokens'
  BY NoValueAssumption DEF IInv, ResetDelete, Goto, ResetOwnsTokens, TypeOK,
       Live, Scanned, tokens, history, SessionsTrackLiveTokens
<1>8. IssuesCurrent'
  BY DEF IInv, ResetDelete, Goto, IssuesCurrent, Refreshing, history
<1>9. ResetsExclusive' /\ LinksFound'
  BY DEF IInv, ResetDelete, Goto, ResetsExclusive, LinksFound, TypeOK,
       Writing, Scanned, resets
<1> QED BY <1>1, <1>2, <1>3, <1>4, <1>5, <1>6, <1>7, <1>8, <1>9 DEF IInv, TablesInv

\* A fresh token comes with its session, of the password that was verified.
LEMMA CreateRefreshTokenPreserves ==
  ASSUME IInv, NEW r \in Request, CreateRefreshToken(r)
  PROVE  IInv'
<1>1. TypeOK'
  BY DEF IInv, CreateRefreshToken, Finish, Close, Minted, TypeOK,
       TokenState, PC, resets
<1>2. SessionsTrackLiveTokens'
  BY DEF IInv, CreateRefreshToken, Minted, SessionsTrackLiveTokens, TypeOK,
       Live
<1>3. SessionHashesUnique'
  BY DEF IInv, CreateRefreshToken, SessionHashesUnique, Live,
       SessionsTrackLiveTokens
<1>4. ResetCutsOff'
  BY DEF IInv, CreateRefreshToken, Minted, ResetCutsOff, TypeOK, Live,
       IssuesCurrent
<1>5. UntrackedOnlyIfRaced'
  BY NoValueAssumption DEF IInv, CreateRefreshToken, Minted,
       UntrackedOnlyIfRaced, TypeOK, Live, Tracked, RowsCommitted
<1>6. LocksExclusive'
  BY DEF IInv, CreateRefreshToken, Finish, Close, LocksExclusive, Scanned,
       Holding
<1>7. RowsCommitted'
  BY DEF IInv, CreateRefreshToken, Finish, Close, Minted, RowsCommitted,
       TypeOK, Scanned, Writing, Refreshing, LoggingOut, Resetting, resets
<1>8. RefreshOwnsToken'
  BY DEF IInv, CreateRefreshToken, Finish, Close, RefreshOwnsToken,
       LocksExclusive, RowsCommitted
<1>9. LogoutOwnsToken'
  BY DEF IInv, CreateRefreshToken, Finish, Close, LogoutOwnsToken,
       LocksExclusive, RowsCommitted
<1>10. ResetOwnsTokens'
  BY NoValueAssumption DEF IInv, CreateRefreshToken, Finish, Close, Minted,
       ResetOwnsTokens, TypeOK, Live, LocksExclusive, RowsCommitted
<1>11. IssuesCurrent'
  BY DEF IInv, CreateRefreshToken, Finish, Close, Minted, IssuesCurrent,
       TypeOK, Refreshing, RowsCommitted
<1>12. ResetsExclusive' /\ LinksFound'
  BY DEF IInv, CreateRefreshToken, Finish, Close, ResetsExclusive,
       LinksFound, TypeOK, Writing, Scanned, resets
<1> QED BY <1>1, <1>2, <1>3, <1>4, <1>5, <1>6, <1>7, <1>8, <1>9, <1>10,
  <1>11, <1>12 DEF IInv

\* The row held and the session found move to the fresh token together; nobody
\* else holds that row, so nobody else has found that session.
LEMMA RefreshCommitPreserves ==
  ASSUME IInv, NEW r \in Request, RefreshCommit(r)
  PROVE  IInv'
<1>1. TypeOK'
  BY DEF IInv, RefreshCommit, Finish, Close, Minted, TypeOK, TokenState, PC,
       Refreshing, LoggingOut, resets, RefreshOwnsToken
<1>2. SessionsTrackLiveTokens'
  BY DEF IInv, RefreshCommit, Minted, SessionsTrackLiveTokens, TypeOK, Live,
       Refreshing, RowsCommitted, RefreshOwnsToken
<1>3. SessionHashesUnique'
  BY DEF IInv, RefreshCommit, SessionHashesUnique, Live,
       SessionsTrackLiveTokens, RefreshOwnsToken
<1>4. ResetCutsOff'
  BY DEF IInv, RefreshCommit, Minted, ResetCutsOff, TypeOK, Live,
       Refreshing, IssuesCurrent
<1>5. UntrackedOnlyIfRaced'
  BY NoValueAssumption DEF IInv, RefreshCommit, Minted,
       UntrackedOnlyIfRaced, TypeOK, Live, Tracked, RowsCommitted,
       RefreshOwnsToken
<1>6. LocksExclusive'
  BY DEF IInv, RefreshCommit, Finish, Close, LocksExclusive, TypeOK
<1>7. RowsCommitted'
  BY DEF IInv, RefreshCommit, Finish, Close, Minted, RowsCommitted, TypeOK,
       Scanned, Writing, Refreshing, LoggingOut, Resetting, resets
<1>8. RefreshOwnsToken'
  <2>1. PICK n \in Token :
          /\ tokenState[n] = "absent"
          /\ session' = [s \in Token |->
                           IF s \in scan[r] \/ (scan[r] = {} /\ s = n)
                           THEN n ELSE session[s]]
    BY DEF RefreshCommit
  <2>2. pc'[r] = "idle"
    BY DEF IInv, TypeOK, RefreshCommit, Finish, Close
  <2>3. SUFFICES ASSUME NEW q \in Request, q # r,
                        pc[q] \in {"refresh_select", "refresh_commit"}
                 PROVE  /\ held[q] = {tok[q]}
                        /\ pc[q] = "refresh_commit" =>
                             /\ \A s \in scan[q] : session'[s] \in {tok[q], NoToken}
                             /\ \A s \in Token : session'[s] = tok[q] => s \in scan[q]
                             /\ \A s1, s2 \in scan[q] : s1 = s2
    <3>1. ASSUME NEW q \in Request, q # r
          PROVE  /\ pc'[q] = pc[q] /\ tok'[q] = tok[q]
                 /\ scan'[q] = scan[q] /\ held'[q] = held[q]
      BY <3>1 DEF IInv, TypeOK, RefreshCommit, Finish, Close
    <3> QED BY <2>2, <3>1 DEF RefreshOwnsToken
  <2>4. tok[q] # tok[r] /\ tok[q] # n
    BY <2>1, <2>3 DEF IInv, RefreshOwnsToken, LocksExclusive, RowsCommitted,
       Refreshing, RefreshCommit
  <2>5. ASSUME NEW s \in Token, session'[s] # session[s]
        PROVE  /\ session'[s] = n
               /\ \/ session[s] = tok[r]
                  \/ s = n /\ session[s] = NoToken
    BY <2>1, <2>5 DEF IInv, TypeOK, RefreshOwnsToken, RowsCommitted, RefreshCommit
  <2>6. pc[q] = "refresh_commit" =>
          \A s \in scan[q] : s \in Token /\ s # n
    BY <2>1, <2>3 DEF IInv, RowsCommitted
  <2>7. pc[q] = "refresh_commit" =>
          \A s \in scan[q] : session'[s] = session[s]
    <3> SUFFICES ASSUME pc[q] = "refresh_commit", NEW s \in scan[q],
                        session'[s] # session[s]
                 PROVE  FALSE
      OBVIOUS
    <3>1. s \in Token /\ s # n
      BY <2>6
    <3>2. session[s] = tok[r]
      BY <3>1, <2>5
    <3>3. tok[r] \in Token
      BY DEF IInv, RowsCommitted, Refreshing, RefreshCommit
    <3> QED BY <3>2, <3>3, <2>4, NoValueAssumption DEF IInv, RefreshOwnsToken
  <2>8. \A s \in Token : session'[s] = tok[q] => session[s] = tok[q]
    BY <2>4, <2>5
  <2> QED BY <2>3, <2>7, <2>8 DEF IInv, RefreshOwnsToken
<1>9. LogoutOwnsToken'
  BY DEF IInv, RefreshCommit, Finish, Close, LogoutOwnsToken, TypeOK, Live,
       LoggingOut, SessionsTrackLiveTokens, LocksExclusive, RowsCommitted,
       RefreshOwnsToken
<1>10. ResetOwnsTokens'
  BY NoValueAssumption DEF IInv, RefreshCommit, Finish, Close, Minted,
       ResetOwnsTokens, TypeOK, Live, LocksExclusive, RowsCommitted
<1>11. IssuesCurrent'
  BY DEF IInv, RefreshCommit, Finish, Close, Minted, IssuesCurrent, TypeOK,
       Refreshing, RowsCommitted
<1>12. ResetsExclusive' /\ LinksFound'
  BY DEF IInv, RefreshCommit, Finish, Close, ResetsExclusive, LinksFound,
       TypeOK, Writing, Scanned, resets
<1> QED BY <1>1, <1>2, <1>3, <1>4, <1>5, <1>6, <1>7, <1>8, <1>9, <1>10,
  <1>11, <1>12 DEF IInv

\* Nothing is committed.
LEMMA RefreshStalePreserves ==
  ASSUME IInv, NEW r \in Request, RefreshStale(r)
  PROVE  IInv'
<1>1. TypeOK'
  BY DEF IInv, RefreshStale, Finish, Close, TypeOK, PC, tokens, resets,
       history
<1>2. TablesInv'
  BY TablesFrame DEF RefreshStale
<1>3. LocksExclusive'
  BY DEF IInv, RefreshStale, Finish, Close, LocksExclusive, TypeOK, tokens
<1>4. RowsCommitted'
  BY DEF IInv, RefreshStale, Finish, Close, RowsCommitted, TypeOK, Scanned,
       Writing, Refreshing, LoggingOut, Resetting, tokens, resets
<1>5. RefreshOwnsToken'
  BY DEF IInv, RefreshStale, Finish, Close, RefreshOwnsToken, TypeOK, tokens
<1>6. LogoutOwnsToken'
  BY DEF IInv, RefreshStale, Finish, Close, LogoutOwnsToken, tokens
<1>7. ResetOwnsTokens'
  BY DEF IInv, RefreshStale, Finish, Close, ResetOwnsTokens, Live, Scanned,
       tokens, history
<1>8. IssuesCurrent'
  BY DEF IInv, RefreshStale, Finish, Close, IssuesCurrent, TypeOK,
       Refreshing, history
<1>9. ResetsExclusive' /\ LinksFound'
  BY DEF IInv, RefreshStale, Finish, Close, ResetsExclusive, LinksFound,
       TypeOK, Writing, Scanned, resets
<1> QED BY <1>1, <1>2, <1>3, <1>4, <1>5, <1>6, <1>7, <1>8, <1>9 DEF IInv, TablesInv

\* The session deleted is the one of the token revoked.
LEMMA LogoutCommitPreserves ==
  ASSUME IInv, NEW r \in Request, LogoutCommit(r)
  PROVE  IInv'
<1>1. TypeOK'
  BY DEF IInv, LogoutCommit, Finish, Close, TypeOK, TokenState, PC,
       LoggingOut, resets, history, RowsCommitted
<1>2. SessionsTrackLiveTokens'
  BY DEF IInv, LogoutCommit, SessionsTrackLiveTokens, Live, LogoutOwnsToken
<1>3. SessionHashesUnique'
  BY DEF IInv, LogoutCommit, SessionHashesUnique
<1>4. ResetCutsOff'
  BY DEF IInv, LogoutCommit, ResetCutsOff, Live, history
<1>5. UntrackedOnlyIfRaced'
  BY DEF IInv, LogoutCommit, UntrackedOnlyIfRaced, TypeOK, Live, Tracked,
       history, LogoutOwnsToken
<1>6. LocksExclusive'
  BY DEF IInv, LogoutCommit, Finish, Close, LocksExclusive, TypeOK
<1>7. RowsCommitted'
  BY DEF IInv, LogoutCommit, Finish, Close, RowsCommitted, TypeOK, Scanned,
       Writing, Refreshing, LoggingOut, Resetting, resets
<1>8. RefreshOwnsToken'
  BY NoValueAssumption DEF IInv, LogoutCommit, Finish, Close,
       RefreshOwnsToken, Refreshing, RowsCommitted
<1>9. LogoutOwnsToken'
  BY NoValueAssumption DEF IInv, LogoutCommit, Finish, Close,
       LogoutOwnsToken, TypeOK, LoggingOut, RowsCommitted
<1>10. ResetOwnsTokens'
  BY NoValueAssumption DEF IInv, LogoutCommit, Finish, Close,
       ResetOwnsTokens, TypeOK, Live, history, RowsCommitted
<1>11. IssuesCurrent'
  BY DEF IInv, LogoutCommit, Finish, Close, IssuesCurrent, Refreshing,
       history
<1>12. ResetsExclusive' /\ LinksFound'
  BY DEF IInv, LogoutCommit, Finish, Close, ResetsExclusive, LinksFound,
       TypeOK, Writing, Scanned, resets
<1> QED BY <1>1, <1>2, <1>3, <1>4, <1>5, <1>6, <1>7, <1>8, <1>9, <1>10,
  <1>11, <1>12 DEF IInv

\* Only password_reset_tokens is written.
LEMMA ForgotCommitPreserves ==
  ASSUME IInv, NEW r \in Request, ForgotCommit(r)
  PROVE  IInv'
<1>1. TypeOK'
  BY DEF IInv, ForgotCommit, Linked, Close, TypeOK, ResetState, PC, tokens,
       history
<1>2. TablesInv'
  BY TablesFrame DEF ForgotCommit
<1>3. LocksExclusive'
  BY DEF IInv, ForgotCommit, Linked, Close, LocksExclusive, Scanned,
       Holding, tokens
<1>4. RowsCommitted'
  BY DEF IInv, ForgotCommit, Linked, Close, RowsCommitted, TypeOK, Scanned,
       Writing, Refreshing, LoggingOut, Resetting, tokens
<1>5. RefreshOwnsToken'
  BY DEF IInv, ForgotCommit, Linked, Close, RefreshOwnsToken, tokens
<1>6. LogoutOwnsToken'
  BY DEF IInv, ForgotCommit, Linked, Close, LogoutOwnsToken, tokens
<1>7. ResetOwnsTokens'
  BY DEF IInv, ForgotCommit, Linked, Close, ResetOwnsTokens, Live, Scanned,
       tokens, history
<1>8. IssuesCurrent'
  BY DEF IInv, ForgotCommit, Linked, Close, IssuesCurrent, Refreshing,
       history
<1>9. ResetsExclusive' /\ LinksFound'
  BY DEF IInv, ForgotCommit, Close, Linked, ResetsExclusive, LinksFound,
       TypeOK, Writing, Scanned
<1> QED BY <1>1, <1>2, <1>3, <1>4, <1>5, <1>6, <1>7, <1>8, <1>9 DEF IInv, TablesInv

\* The tokens held lose their sessions with them; what stays live was issued
\* beside the reset.
LEMMA ResetCommitPreserves ==
  ASSUME IInv, NEW r \in Request, ResetCommit(r)
  PROVE  IInv'
<1>1. TypeOK'
  BY DEF IInv, ResetCommit, Close, TypeOK, TokenState, ResetState, PC,
       Scanned, Writing, Resetting, history, RowsCommitted
<1>2. SessionsTrackLiveTokens'
  BY DEF IInv, ResetCommit, SessionsTrackLiveTokens, TypeOK, Live,
       ResetOwnsTokens
<1>3. SessionHashesUnique'
  BY DEF IInv, ResetCommit, SessionHashesUnique
<1>4. ResetCutsOff'
  BY DEF IInv, ResetCommit, ResetCutsOff, Live, Scanned, history,
       ResetOwnsTokens
<1>5. UntrackedOnlyIfRaced'
  BY DEF IInv, ResetCommit, UntrackedOnlyIfRaced, Live, Tracked, Scanned,
       history, SessionsTrackLiveTokens, ResetOwnsTokens
<1>6. LocksExclusive'
  BY DEF IInv, ResetCommit, Close, LocksExclusive, TypeOK
<1>7. RowsCommitted'
  BY DEF IInv, ResetCommit, Close, RowsCommitted, TypeOK, Scanned, Writing,
       Refreshing, LoggingOut, Resetting, ResetOwnsTokens
<1>8. RefreshOwnsToken'
  BY NoValueAssumption DEF IInv, ResetCommit, Close, RefreshOwnsToken,
       Refreshing, RowsCommitted
<1>9. LogoutOwnsToken'
  BY NoValueAssumption DEF IInv, ResetCommit, Close, LogoutOwnsToken,
       LoggingOut, RowsCommitted
<1>10. ResetOwnsTokens'
  BY NoValueAssumption DEF IInv, ResetCommit, Close, ResetOwnsTokens,
       TypeOK, Live, history, RowsCommitted
<1>11. IssuesCurrent'
  BY DEF IInv, ResetCommit, Close, IssuesCurrent, Issuing, Refreshing,
       history
<1>12. ResetsExclusive' /\ LinksFound'
  BY DEF IInv, ResetCommit, Close, ResetsExclusive, LinksFound, TypeOK,
       Writing, Scanned
<1> QED BY <1>1, <1>2, <1>3, <1>4, <1>5, <1>6, <1>7, <1>8, <1>9, <1>10,
  <1>11, <1>12 DEF IInv

\* Nothing is committed.
LEMMA AbortPreserves ==
  ASSUME IInv, NEW r \in Request, Abort(r)
  PROVE  IInv'
<1>1. TypeOK'
  BY DEF IInv, Abort, Finish, Close, TypeOK, PC, tokens, resets, history
<1>2. TablesInv'
  BY TablesFrame DEF Abort
<1>3. LocksExclusive'
  BY DEF IInv, Abort, Finish, Close, LocksExclusive, TypeOK, tokens
<1>4. RowsCommitted'
  BY DEF IInv, Abort, Finish, Close, RowsCommitted, TypeOK, Scanned,
       Writing, Refreshing, LoggingOut, Resetting, tokens, resets
<1>5. RefreshOwnsToken'
  BY DEF IInv, Abort, Finish, Close, RefreshOwnsToken, TypeOK, tokens
<1>6. LogoutOwnsToken'
  BY DEF IInv, Abort, Finish, Close, LogoutOwnsToken, TypeOK, tokens
<1>7. ResetOwnsTokens'
  BY NoValueAssumption DEF IInv, Abort, Finish, Close, ResetOwnsTokens,
       TypeOK, Live, tokens, history, RowsCommitted
<1>8. IssuesCurrent'
  BY DEF IInv, Abort, Finish, Close, IssuesCurrent, TypeOK, Refreshing,
       history
<1>9. ResetsExclusive' /\ LinksFound'
  BY DEF IInv, Abort, Finish, Close, ResetsExclusive, LinksFound, TypeOK,
       Writing, Scanned, resets
<1> QED BY <1>1, <1>2, <1>3, <1>4, <1>5, <1>6, <1>7, <1>8, <1>9 DEF IInv, TablesInv

\* Expiry is looked at by SELECTs only.
LEMMA ExpirePreserves ==
  ASSUME IInv, NEW t \in Token \cup ResetToken, Expire(t)
  PROVE  IInv'
<1>1. TypeOK'
  BY DEF IInv, TypeOK, Expire, tokens, resets, locals, history
<1>2. TablesInv'
  BY TablesFrame DEF Expire
<1>3. LocksExclusive' /\ RowsCommitted' /\ RefreshOwnsToken' /\ LogoutOwnsToken'
  BY DEF IInv, Expire, LocksExclusive, RowsCommitted, RefreshOwnsToken,
     LogoutOwnsToken, tokens, resets, locals
<1>4. ResetOwnsTokens' /\ IssuesCurrent'
  BY DEF IInv, Expire, ResetOwnsTokens, IssuesCurrent, Live, tokens, locals,
     history
<1>5. ResetsExclusive' /\ LinksFound'
  BY DEF IInv, Expire, ResetsExclusive, LinksFound, resets, locals
<1> QED BY <1>1, <1>2, <1>3, <1>4, <1>5 DEF IInv, TablesInv

\* A step that changes no variable keeps everything.
LEMMA StutterPreserves == IInv /\ UNCHANGED vars => IInv'
<1> SUFFICES ASSUME IInv, UNCHANGED vars PROVE IInv'
  OBVIOUS
<1>1. TypeOK'
  BY DEF IInv, TypeOK, vars, tokens, resets, locals, history
<1>2. TablesInv'
  BY TablesFrame DEF vars
<1>3. LocksExclusive' /\ RowsCommitted' /\ RefreshOwnsToken' /\ LogoutOwnsToken'
  BY DEF IInv, LocksExclusive, RowsCommitted, RefreshOwnsToken,
     LogoutOwnsToken, vars, tokens, resets, locals
<1>4. ResetOwnsTokens' /\ IssuesCurrent'
  BY DEF IInv, ResetOwnsTokens, IssuesCurrent, Live, vars, tokens, locals,
     history
<1>5. ResetsExclusive' /\ LinksFound'
  BY DEF IInv, ResetsExclusive, LinksFound, vars, resets, locals
<1> QED BY <1>1, <1>2, <1>3, <1>4, <1>5 DEF IInv, TablesInv

-----------------------------------------------------------------------------
\* Every step of the system preserves the inductive invariant.
LEMMA Consecution == IInv /\ [Next]_vars => IInv'
<1> SUFFICES ASSUME IInv, [Next]_vars PROVE IInv'
  OBVIOUS
<1>1. ASSUME NEW r \in Request, Receive(r) PROVE IInv'
  BY <1>1, LoginReadPreserves, ForgotReadPreserves, RefreshReadPreserves,
     LogoutReadPreserves, ResetReadPreserves DEF Receive
<1>2. ASSUME NEW r \in Request, Advance(r) PROVE IInv'
  <2>1. CASE CreateRefreshToken(r)
    BY <2>1, CreateRefreshTokenPreserves
  <2>2. CASE RefreshFlush(r) \/ RefreshSelect(r) \/ RefreshCommit(r)
               \/ RefreshStale(r)
    BY <2>2, RefreshFlushPreserves, RefreshSelectPreserves,
       RefreshCommitPreserves, RefreshStalePreserves
  <2>3. CASE LogoutFlush(r) \/ LogoutSelect(r) \/ LogoutCommit(r)
    BY <2>3, LogoutFlushPreserves, LogoutSelectPreserves, LogoutCommitPreserves
  <2>4. CASE ForgotCommit(r)
    BY <2>4, ForgotCommitPreserves
  <2>5. CASE ResetFlush(r) \/ ResetScan(r) \/ ResetDelete(r) \/ ResetCommit(r)
    BY <2>5, ResetFlushPreserves, ResetScanPreserves, ResetDeletePreserves,
       ResetCommitPreserves
  <2>6. CASE \E t \in Token : ResetRevoke(r, t)
    BY <2>6, ResetRevokePreserves
  <2> QED BY <1>2, <2>1, <2>2, <2>3, <2>4, <2>5, <2>6 DEF Advance
<1>3. ASSUME NEW r \in Request, Abort(r) PROVE IInv'
  BY <1>3, AbortPreserves
<1>4. ASSUME NEW t \in Token \cup ResetToken, Expire(t) PROVE IInv'
  BY <1>4, ExpirePreserves
<1>5. CASE UNCHANGED vars
  BY <1>5, StutterPreserves
<1> QED BY <1>1, <1>2, <1>3, <1>4, <1>5 DEF Next

\* IInv holds in every state the system reaches.
THEOREM InductiveInvariant == Spec => []IInv
<1>1. Init => IInv
  BY Initiation
<1>2. IInv /\ [Next]_vars => IInv'
  BY Consecution
<1> QED BY <1>1, <1>2, PTL DEF Spec

\* Tables and requests keep their types.
THEOREM TypeCorrect == Spec => []TypeOK
<1>1. IInv => TypeOK
  BY DEF IInv
<1> QED BY <1>1, InductiveInvariant, PTL

\* No session row is ever left with a revoked token, or with the token of
\* another user (refresh_access_token, logout, reset_password).
THEOREM SessionsTrack == Spec => []SessionsTrackLiveTokens
<1>1. IInv => SessionsTrackLiveTokens
  BY DEF IInv
<1> QED BY <1>1, InductiveInvariant, PTL

\* The lookups of active_sessions by hash never find two rows, and the unique
\* column never refuses a write.
THEOREM HashesUnique == Spec => []SessionHashesUnique
<1>1. IInv => SessionHashesUnique
  BY DEF IInv
<1> QED BY <1>1, InductiveInvariant, PTL

\* A reset leaves no live token of an older password, but for those issued
\* beside it.
THEOREM ResetIsEffective == Spec => []ResetCutsOff
<1>1. IInv => ResetCutsOff
  BY DEF IInv
<1> QED BY <1>1, InductiveInvariant, PTL

\* A live token without a session was issued beside a reset.
THEOREM LiveTokensTracked == Spec => []UntrackedOnlyIfRaced
<1>1. IInv => UntrackedOnlyIfRaced
  BY DEF IInv
<1> QED BY <1>1, InductiveInvariant, PTL

-----------------------------------------------------------------------------
\* The step that changes the password of u is a commit of a reset for u.
LEMMA PasswordStep ==
  ASSUME IInv, [Next]_vars, NEW u \in User, password'[u] # password[u]
  PROVE  \E r \in Request : ResetCommit(r) /\ user[r] = u
<1>1. PICK r \in Request : Advance(r)
  BY DEF Next, Receive, Abort, Expire, LoginRead, ForgotRead, RefreshRead,
     LogoutRead, ResetRead, Begin, vars
<1>2. ResetCommit(r)
  BY <1>1 DEF Advance, CreateRefreshToken, RefreshFlush, RefreshSelect,
     RefreshCommit, RefreshStale, LogoutFlush, LogoutSelect, LogoutCommit,
     ForgotCommit, ResetFlush, ResetScan, ResetRevoke, ResetDelete
<1>3. user[r] = u
  BY <1>2 DEF IInv, TypeOK, ResetCommit
<1> QED BY <1>2, <1>3

\* A reset changes tokens and sessions of its own user only.
THEOREM ResetIsScoped == Spec => ResetScope
<1>1. ASSUME IInv, [Next]_vars, NEW u \in User, password'[u] # password[u],
             NEW t \in Token, owner[t] # u
      PROVE  tokenState'[t] = tokenState[t] /\ session'[t] = session[t]
  <2>1. PICK r \in Request : ResetCommit(r) /\ user[r] = u
    BY <1>1, PasswordStep
  <2>2. t \notin held[r] /\ t \notin scan[r]
    BY <1>1, <2>1 DEF IInv, ResetOwnsTokens, ResetCommit, Scanned
  <2> QED BY <2>1, <2>2 DEF IInv, TypeOK, ResetCommit
<1>2. IInv /\ [Next]_vars =>
        [\A u \in User : password'[u] # password[u] =>
           \A t \in Token : owner[t] # u =>
             tokenState'[t] = tokenState[t] /\ session'[t] = session[t]]_vars
  BY <1>1
<1> QED BY <1>2, InductiveInvariant, PTL DEF Spec, ResetScope

-----------------------------------------------------------------------------
(* Waiting.  A request waits for one that is nearer to its commit: whoever   *)
(* has yet to flush for one that holds a row, a reset that revokes for a     *)
(* refresh or a logout, and those for the commit of a reset.                 *)

\* Some request in flight can go on.
SomeoneUnblocked == \E r \in Request : pc[r] # "idle" /\ Unblocked(r)

\* A reset about to commit waits for nobody.
LEMMA ResetCommitGoesOn ==
  ASSUME NEW r \in Request, pc[r] = "reset_commit"
  PROVE  SomeoneUnblocked
BY DEF SomeoneUnblocked, Unblocked

\* A refresh or a logout that holds its row waits for a reset's commit only.
LEMMA HolderGoesOn ==
  ASSUME NEW r \in Request,
         pc[r] \in {"refresh_select", "refresh_commit",
                    "logout_select", "logout_commit"}
  PROVE  SomeoneUnblocked
<1>1. CASE Unblocked(r)
  BY <1>1 DEF SomeoneUnblocked
<1>2. CASE ~Unblocked(r)
  <2>1. PICK q \in Request : pc[q] = "reset_commit"
    BY <1>2 DEF Unblocked, SessionFree
  <2> QED BY <2>1, ResetCommitGoesOn
<1> QED BY <1>1, <1>2

\* A reset waits for rows of its user that a refresh or a logout holds: another
\* reset would have to be one of the same user.
LEMMA ResetGoesOn ==
  ASSUME IInv, NEW r \in Request, pc[r] \in Writing
  PROVE  SomeoneUnblocked
<1>1. CASE Unblocked(r)
  BY <1>1 DEF SomeoneUnblocked, Writing, Scanned
<1>2. CASE ~Unblocked(r)
  <2>1. PICK t \in scan[r] : pc[r] = "reset_revoke" /\ ~TokenFree(r, t)
    BY <1>2 DEF Unblocked, Writing, Scanned
  <2>2. PICK q \in Request \ {r} : t \in held[q]
    BY <2>1 DEF TokenFree
  <2>3. pc[q] \in Holding
    BY <2>2 DEF IInv, LocksExclusive
  <2>4. owner[t] = user[r]
    BY <2>1 DEF IInv, ResetOwnsTokens, Scanned
  <2>5. pc[q] \notin Scanned
    BY <2>1, <2>2, <2>4 DEF IInv, ResetOwnsTokens, ResetsExclusive, Writing,
       Scanned
  <2> QED BY <2>3, <2>5, HolderGoesOn DEF Holding
<1> QED BY <1>1, <1>2

\* In every state of the invariant, if a request is in flight one can go on.
LEMMA NobodyStuck ==
  ASSUME IInv, NEW r \in Request, pc[r] # "idle"
  PROVE  SomeoneUnblocked
<1>1. CASE Unblocked(r)
  BY <1>1 DEF SomeoneUnblocked
<1>2. ASSUME NEW q \in Request, pc[q] \in Holding \cup Writing
      PROVE  SomeoneUnblocked
  BY <1>2, HolderGoesOn, ResetGoesOn DEF Holding, Writing
<1>3. CASE ~Unblocked(r) /\ pc[r] \in {"refresh_flush", "logout_flush"}
  <2>1. PICK q \in Request : tok[r] \in held[q]
    BY <1>3 DEF Unblocked, TokenFree
  <2> QED BY <2>1, <1>2 DEF IInv, LocksExclusive
<1>4. CASE ~Unblocked(r) /\ pc[r] \in {"forgot_commit", "reset_flush"}
  BY <1>2, <1>4 DEF Unblocked, UserFree
<1>5. CASE ~Unblocked(r) /\ pc[r] \in {"refresh_commit", "logout_commit", "reset_revoke"}
  BY <1>2, <1>5 DEF Holding, Writing, Scanned
<1> QED BY <1>1, <1>3, <1>4, <1>5 DEF Unblocked

\* Whatever rows they take and in whatever order, requests in flight never all
\* wait for each other.
THEOREM NeverAllWait == Spec => []NoWaitCycle
<1>1. IInv => NoWaitCycle
  BY NobodyStuck DEF NoWaitCycle, SomeoneUnblocked
<1> QED BY <1>1, InductiveInvariant, PTL

-----------------------------------------------------------------------------
\* The step that issues the link n is a commit of a forgot-password.
LEMMA LinkStep ==
  ASSUME [Next]_vars, NEW n \in ResetToken,
         IInv, resetState[n] = "absent", resetState'[n] = "unused"
  PROVE  \E r \in Request : ForgotCommit(r) /\ Linked(r, n, scan[r])
<1>1. PICK r \in Request : Advance(r)
  BY DEF Next, Receive, Abort, Expire, LoginRead, ForgotRead, RefreshRead,
     LogoutRead, ResetRead, Begin, vars, resets
<1>2. ~ResetCommit(r)
  BY DEF IInv, TypeOK, ResetCommit
<1>3. ForgotCommit(r)
  BY <1>1, <1>2 DEF Advance, CreateRefreshToken, RefreshFlush, RefreshSelect,
     RefreshCommit, RefreshStale, LogoutFlush, LogoutSelect, LogoutCommit,
     ResetFlush, ResetScan, ResetRevoke, ResetDelete, resets
<1>4. PICK m \in ResetToken : Linked(r, m, scan[r])
  BY <1>3 DEF ForgotCommit
<1>5. m = n
  BY <1>4 DEF Linked
<1> QED BY <1>3, <1>4, <1>5

\* A forgot-password leaves its user one working link, unless another one
\* committed beside it.
THEOREM LinksAreReplaced == Spec => OneResetLink
<1>1. ASSUME IInv, [Next]_vars, NEW n \in ResetToken, NEW t \in ResetToken,
             resetState[n] = "absent", resetState'[n] = "unused",
             resetState'[t] = "unused", resetOwner'[t] = resetOwner'[n], t # n
      PROVE  \E r \in overlapped : pc[r] = "forgot_commit" /\ pc'[r] = "idle"
  <2>1. PICK r \in Request : ForgotCommit(r) /\ Linked(r, n, scan[r])
    BY <1>1, LinkStep
  <2>2. pc[r] = "forgot_commit" /\ pc'[r] = "idle"
    BY <1>1, <2>1 DEF IInv, TypeOK, ForgotCommit, Close
  <2>3. /\ t \notin scan[r] /\ resetState[t] = "unused"
        /\ resetOwner[t] = user[r]
    BY <1>1, <2>1 DEF IInv, TypeOK, Linked
  <2>4. r \in overlapped
    BY <1>1, <2>2, <2>3 DEF IInv, LinksFound
  <2> QED BY <2>2, <2>4
<1>2. IInv /\ [Next]_vars =>
        [\A n, t \in ResetToken :
           /\ resetState[n] = "absent" /\ resetState'[n] = "unused"
           /\ resetState'[t] = "unused" /\ resetOwner'[t] = resetOwner'[n]
           => t = n \/ \E r \in overlapped : pc[r] = "forgot_commit" /\ pc'[r] = "idle"]_vars
  BY <1>1
<1> QED BY <1>2, InductiveInvariant, PTL DEF Spec, OneResetLink

=============================================================================
