SPECIFICATION Spec
CONSTANTS
  Tab = {t1, t2}
  Call = {c1, c2}
  MaxTokens = 3
  MaxUpsets = 2
SYMMETRY Symmetry
INVARIANTS
  ReuseNeedsTwoHolders
  OneTokenUnlessShared
  WaitersHaveAnExchange
  RevokedSessionsAreOver
PROPERTIES
  SignedOutStaysOut
