\* One address, two callbacks of one Google identity.
CONSTANTS
  Email = {e1}
  Token = {t1}
  Identity = {g1}
  Request = {r1, r2}
  NoEmail = NoEmail
  NoToken = NoToken
  MaxExpired = 0
SPECIFICATION Spec
PROPERTIES
  RefusedOnlyForSignups
\* Once every token is used and every account verified, clients ask in vain.
CHECK_DEADLOCK FALSE
