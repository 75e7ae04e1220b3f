SPECIFICATION Spec
CONSTANTS
  Trees = {w1, w2}
  Workers = {r1}
  Threads = {h1}
  NoTree = NoTree
  NoProc = NoProc
  MaxHead = 1
SYMMETRY SymmetricTrees
INVARIANTS
  TypeOK
  OneWriter
  CommandsExclusive
  NothingLost
PROPERTIES
  NeverReentered
