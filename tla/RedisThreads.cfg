SPECIFICATION FairSpec
CONSTANTS
  User = {p1, p2, p3}
  MaxPublished = 3
  MaxSubscriptions = 3
CHECK_DEADLOCK FALSE
INVARIANTS
  TypeOK
  WorkerHasContext
  OwnCallback
  NoLeakedContext
PROPERTIES
  DisconnectReturns
  CommandsAreServed
