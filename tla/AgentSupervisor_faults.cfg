SPECIFICATION Spec
CONSTANTS
  MaxRuns = 2
  MaxEvents = 0
  MaxBoots = 2
  MaxWorkers = 1
  MaxPending = 1
  k1 = k1
  k2 = k2
  sA = sA
  sB = sB
  w = w
  Sessions = {sA, sB}
  Keys = {k1, k2}
  Roots = {w}
  NoRoot = NoRoot
  NoReq = NoReq
  Overlap <- MCOverlap
  Inputs <- MCInputs
  Faults = {"append_error", "torn_error", "snapshot_error", "torn_crash", "read_error", "torn_message", "registry_error"}
CHECK_DEADLOCK FALSE
INVARIANTS
  Consistent
  SessionExclusive
  AtMostOnce
  IdempotentAdmission
