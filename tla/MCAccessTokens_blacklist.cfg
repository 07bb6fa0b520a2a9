\* Two tokens of two seconds, half seconds, two requests, one Redis outage.
CONSTANTS
  Token = {a1, a2}
  Request = {r1, r2}
  Lifetime = 2
  Fractions = 2
  MaxSecond = 4
  MaxOutages = 1
  NoToken = NoToken
  NoKey = NoKey
SPECIFICATION Spec
SYMMETRY Symmetry
INVARIANTS
  TypeOK
  AnsweredIsBlacklisted
PROPERTIES
  AcceptedOnlyInLastSecond
