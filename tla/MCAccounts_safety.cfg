\* Two addresses, three tokens, two Google identities, three requests at a time.
CONSTANTS
  Email = {e1, e2}
  Token = {t1, t2, t3}
  Identity = {g1, g2}
  Request = {r1, r2, r3}
  NoEmail = NoEmail
  NoToken = NoToken
  MaxExpired = 1
SPECIFICATION Spec
SYMMETRY Symmetry
INVARIANTS
  TypeOK
  UnverifiedHasUnusedToken
  MailedTokensExist
  VerifiedByOwner
  SignupsNotLinked
  OneActiveToken
  VerifiedHasNoToken
  AcceptedOnce
PROPERTIES
  OneAccountPerIdentity
  ImplementsLifecycle
\* Once every token is used and every account verified, clients ask in vain.
CHECK_DEADLOCK FALSE
