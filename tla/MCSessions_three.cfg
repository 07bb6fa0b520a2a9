\* Three requests at a time: a refresh, a logout and a reset can all overlap.
CONSTANTS
  User = {u1}
  Token = {t1, t2, t3}
  ResetToken = {p1}
  Request = {r1, r2, r3}
  NoToken = NoToken
  NoUser = NoUser
  MaxExpired = 0
SPECIFICATION Spec
SYMMETRY Symmetry
INVARIANTS
  IInv
  NoWaitCycle
  OnlyLocksBlock
