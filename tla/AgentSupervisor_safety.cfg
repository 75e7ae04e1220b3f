SPECIFICATION Spec
CONSTANTS
  MaxRuns = 2
  MaxEvents = 1
  MaxBoots = 2
  MaxWorkers = 1
  MaxPending = 1
  k1 = k1
  k2 = k2
  sA = sA
  sB = sB
  w = w
  Sessions = {sA, sB}
  Keys = {k1, k2}
  Roots = {w}
  NoRoot = NoRoot
  NoReq = NoReq
  Overlap <- MCOverlap
  Inputs <- MCTwoInputs
  Faults = {"torn_crash", "snapshot_crash"}
SYMMETRY SymmetricInputs
CHECK_DEADLOCK FALSE
INVARIANTS
  TypeOK
  ReleaseIsClean
  JournalReadable
  MemoryIsDurable
  WorktreeFollowsRun
PROPERTIES
  TerminalIsFinal
  QuarantineIsSticky
  ImplementsLifecycle
