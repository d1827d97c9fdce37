SPECIFICATION FairSpec
CONSTANTS
    a = a
    b = b
    c = c
    Session <- ThreePeers
    NoSession = NoSession
    Lines <- TwoOneNone
    Private <- OnlyB
    InsertFails <- OnlyB
INVARIANTS
    TypeOK
    OneWrite
    SavedBeforeSeen
    PrivateIsPrivate
PROPERTIES
    RoomSpec
    EverybodyHears
CHECK_DEADLOCK FALSE
