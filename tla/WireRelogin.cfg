SPECIFICATION Spec
CONSTANTS
    c = c
    d = d
    Client = {c, d}
    Word <- Words
    Name <- PromptNames
    Password <- Passwords
    Email <- Emails
    Line <- Lines
    InDatabase <- Old
    Disabled <- NoLonger
    Patient = {c}
    MaxRequests <- ThreeAndTwo
INVARIANTS
    SaidWasTyped
CHECK_DEADLOCK FALSE
