SPECIFICATION Spec
CONSTANTS
  c1 = c1
  c2 = c2
  a1 = a1
  r1 = r1
  p1 = p1
  h1 = h1
  h2 = h2
  d1 = d1
  d2 = d2
  NULL = NULL
  Client = {c1, c2}
  Corrector = {a1}
  Round = {r1}
  Player = {p1}
  PlayerOf <- MCPlayerOf
  AdminRounds = {r1}
  Linked = {}
  Hole = {h1, h2}
  Score = {4}
  HoleCounts = {1, 2}
  Day = {d1, d2}
  Pcc = {0}
  DefaultPcc = 0
  MinRounds = 1
  Ops <- MCEdits
  MaxFaults = 1
SYMMETRY MCSymmetry
INVARIANTS
  PendingScoresAreFresh
  ReviewedRoundsAreComplete
PROPERTIES
  ApprovedRoundsAreFrozen
