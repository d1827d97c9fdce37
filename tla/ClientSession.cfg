SPECIFICATION FairSpec
CONSTANTS
  User = {u1, u2}
  NoUser = NoUser
  Choices = {"login", "register", "chat"}
  MaxRequests = 4
INVARIANTS
  TypeOK
  FlagFollowsServer
  StaysReading
PROPERTIES
  LossIsNoticed
  ClientExits
