SPECIFICATION Spec
CONSTANTS
  Root = root
  Tasks = {t1, t2}
  PoolSize = 2
  MaxModel = 4
  MaxTool = 2
  MaxTokens = 2
  Cost = 2
CHECK_DEADLOCK FALSE
INVARIANTS
  TypeOK
  OvershootBounded
  ReportHonest
PROPERTIES
  NothingGrantedAfter
  TurnEnds
