SPECIFICATION MCSpec
CONSTANTS
  NULL = NULL
  Last = 5
  Differential = {8000, 24000}
  OverrideIndex = {40}
  Window = 1
  RawIndex <- calculateHandicapIndex
  NineHole = {1, 2, 4}
  MaxEffective = 6
  MaxClock = 2
  MaxChanges = 3
  LongLast = 9
  LongDifferential <- MCDifferential
  HoleCount = 9
  Tees <- MCTees
  Handicaps <- MCHandicaps
  Strokes = {6, 9}
  Ratings <- MCRatings
  Entries = {e1, e2}
  NoScore = NoScore
INVARIANTS
  AdjustmentsMatchTee
CHECK_DEADLOCK FALSE
