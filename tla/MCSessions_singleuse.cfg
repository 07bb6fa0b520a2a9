\* Two resets with one link.
CONSTANTS
  User = {u1}
  Token = {t1}
  ResetToken = {p1}
  Request = {r1, r2}
  NoToken = NoToken
  NoUser = NoUser
  MaxExpired = 0
SPECIFICATION LiveSpec
PROPERTIES
  ResetTokenSingleUse
