SPECIFICATION Spec
CONSTANTS
    c = c
    d = d
    Client = {c, d}
    Word <- Words
    Name <- PromptNames
    Password <- Plainly
    Email <- Emails
    Line <- Lines
    InDatabase <- Old
    Disabled <- NoLonger
    Patient = {c}
    MaxRequests <- ThreeAndTwo
INVARIANTS
    TypeOK
    Understood
    Attribution
    ParserFaithful
CHECK_DEADLOCK FALSE
