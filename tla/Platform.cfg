SPECIFICATION MCSpec
CONSTANTS
  Runs = {m1, m2}
  Boots = {b1}
  FileCount = 3
  Versions = {"a", "b"}
  NoFile = NoFile
  Shipped <- MCShipped
  Queries = {q1, q2}
  Transactions = {t1, t2, t3}
  Rows = {x1, x2}
  PoolSize = 2
  Unheld = Unheld
  NULL = NULL
  Client = {c1, c2}
  Corrector = {a1}
  Round = {r1}
  Player = {p1}
  PlayerOf <- MCPlayerOf
  AdminRounds = {}
  Linked = {}
  Hole = {h1}
  Score = {4}
  HoleCounts = {1}
  Day = {d1}
  Pcc = {0}
  DefaultPcc = 0
  MinRounds = 1
  Ops <- MCProgress
  MaxFaults = 1
INVARIANTS
  RunsDoNotConflict
  CleanReportsStayTrue
  StuckOnFullPool
PROPERTIES
  FilesApplyInOrder
  RunsEnd
  EveryRequestEnds
CHECK_DEADLOCK FALSE
