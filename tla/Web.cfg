SPECIFICATION MCSpec
CONSTANTS
  CourseIds = {c1, c2}
  Tees = {t1, t2}
  Rounds = {n1}
  Names = {a1}
  Requests = {r1, r2}
  MaxRequests = 4
  None = None
  Scores = {4, 5}
  Blank = Blank
  NoData = NoData
  Slots = {1, 2}
  MaxSaves = 2
  MaxWrites = 2
CHECK_DEADLOCK FALSE
INVARIANTS
  TeesAreWhole
  DeletionsSawEarlierRounds
  OwnSavesAreShown
  OwnWritesAreShown
  PagesAskWhatTheyMay
PROPERTIES
  DeletedRowsAreFrozen
