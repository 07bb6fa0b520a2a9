\* Two users, two requests at a time, three refresh tokens, two reset links.
CONSTANTS
  User = {u1, u2}
  Token = {t1, t2, t3}
  ResetToken = {p1, p2}
  Request = {r1, r2}
  NoToken = NoToken
  NoUser = NoUser
  MaxExpired = 0
SPECIFICATION Spec
SYMMETRY Symmetry
INVARIANTS
  SessionsTrackLiveTokens
  SessionHashesUnique
  ResetCutsOff
  UntrackedOnlyIfRaced
PROPERTIES
  ResetScope
  OneResetLink
  ImplementsRegistry
