SPECIFICATION Spec
CONSTANTS
  c1 = c1
  c2 = c2
  a1 = a1
  r1 = r1
  p1 = p1
  h1 = h1
  d1 = d1
  NULL = NULL
  Client = {c1, c2}
  Corrector = {a1}
  Round = {r1}
  Player = {p1}
  PlayerOf <- MCPlayerOf
  AdminRounds = {}
  Linked = {}
  Hole = {h1}
  Score = {4, 5}
  HoleCounts = {1}
  Day = {d1}
  Pcc = {0}
  DefaultPcc = 0
  MinRounds = 1
  Ops <- MCEdits
  MaxFaults = 0
SYMMETRY MCSymmetry
PROPERTIES
  ScoresAreCorrectAtApproval
