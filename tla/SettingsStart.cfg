SPECIFICATION Spec
CONSTANTS
    port = port
    host = host
    tls = tls
    redis = redis
    session = session
    one = one
    true = true
    word = word
    Setting = {port, host, tls}
    Numeric = {port}
    Flag = {tls}
    Value = {one, true, word}
    True = true
    Number <- Stoi
    NotANumber = NotANumber
    Default <- Initially
    Secret = {redis, session}
    SecretText <- Texts
    OtherKey = OtherKey
    ConfigFile <- ConfigFiles
    SecretsFile <- SecretsFiles
    Environment <- Environments
    Absent = Absent
    NoFile = NoFile
INVARIANTS
    TypeOK
    Precedence
    ServedSecrets
