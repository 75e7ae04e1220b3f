SPECIFICATION Spec
CONSTANTS
  MaxMessages = 9
  MaxFaults = 2
CHECK_DEADLOCK FALSE
INVARIANTS
  TypeOK
  SnapshotsAgree
  LineageIsHistory
  RestartArchivesNothing
  EventsMirrorMessages
PROPERTY
  CompactionDropsNothing
