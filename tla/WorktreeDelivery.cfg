SPECIFICATION Spec
CONSTANTS
  Deliveries = {d1}
  Commits = {c1, c2}
  NoCommit = NoCommit
  Threads = {h1, h2}
  NoDelivery = NoDelivery
  MaxHead = 1
  MaxBoots = 3
INVARIANTS
  TypeOK
  ExposesOnce
PROPERTIES
  DeliversAsPromised
  
