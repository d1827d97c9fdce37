SPECIFICATION Spec
CONSTANTS
    User = {ann, bob}
    Password = {p1, p2}
    Token = {t1, t2}
    Client = {c1, c2}
    Manager = {c2}
    Disabled = {bob}
    Rejected <- Bobs
    Lifetime = 1
    Zone = 0
    ClockSteps = TRUE
    WritesFail = TRUE
    MaxTime = 3
SYMMETRY Symmetric
INVARIANTS
    TypeOK
    OneWinner
    RowsHaveAccounts
    RefusedStaysRefused
PROPERTIES
    NoServiceAfterExpiry
    RowsOnlyDie
