SPECIFICATION MCSpec
CONSTANTS
  Users = {u1}
  Members = {u1}
  Emails = {e1}
  Passwords = {p1}
  Tokens = {k1, k2}
  Requests = {r1, r2}
  MaxRequests = 4
  MaxLogins = 1
  MaxTogether = 0
  None = None
SYMMETRY Symmetry
CHECK_DEADLOCK FALSE
INVARIANTS
  ResetsDoNotRace
