SPECIFICATION MCSpec
CONSTANTS
  Users = {u1, u2}
  Members = {u1}
  Emails = {e1, e2}
  Passwords = {p1}
  Tokens = {k1, k2}
  Requests = {r1, r2}
  MaxRequests = 4
  MaxLogins = 4
  MaxTogether = 5
  None = None
SYMMETRY Symmetry
CHECK_DEADLOCK FALSE
INVARIANTS
  LinksServeUntilVerified
  OutdatedLinksResetNothing
  CodesAreSingleUse
  EnabledSecretsAreProven
  SecondFactorIsAsked
  SuccessesHaveSessions
