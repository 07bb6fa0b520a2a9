\* Termination of every request; no symmetry, which liveness does not allow.
CONSTANTS
  User = {u1}
  Token = {t1, t2}
  ResetToken = {p1}
  Request = {r1, r2}
  NoToken = NoToken
  NoUser = NoUser
  MaxExpired = 1
SPECIFICATION LiveSpec
INVARIANT TypeOK
PROPERTIES
  EveryRequestCompletes
