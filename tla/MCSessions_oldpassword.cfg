\* A login or a refresh beside a reset.
CONSTANTS
  User = {u1}
  Token = {t1, t2}
  ResetToken = {p1}
  Request = {r1, r2}
  NoToken = NoToken
  NoUser = NoUser
  MaxExpired = 0
SPECIFICATION Spec
SYMMETRY Symmetry
INVARIANTS
  NoTokenOfOldPassword
