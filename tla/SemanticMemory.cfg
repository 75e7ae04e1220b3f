SPECIFICATION Spec
CONSTANTS
  Memories = {m1, m2, m3}
  None = None
  Writers = {w1, w2}
  Synchronizers = {s1, s2}
  Limit = 2
  MaxCommands = 2
  MaxExpired = 1
  MaxGiven = 1
SYMMETRY Symmetry
CHECK_DEADLOCK FALSE
INVARIANTS
  TypeOK
  NothingUnindexed
  VersionTellsActive
  OneSuccessor
PROPERTIES
  EvidenceReviewed
