SPECIFICATION Spec
CONSTANTS
    User = {ann}
    Password = {p1}
    Token = {t1}
    Client = {c1}
    Manager = {}
    Disabled = {}
    Rejected <- Bobs
    Lifetime = 1
    Zone <- WestOfGreenwich
    ClockSteps = FALSE
    WritesFail = FALSE
    MaxTime = 3
PROPERTIES
    NoServiceAfterExpiry
