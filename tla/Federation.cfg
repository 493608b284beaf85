\* Two requests, two units of time.
SPECIFICATION FairSpec
CONSTANTS
    hs = hs  other = other  withPort = withPort  k1 = k1  k2 = k2
    Name = {hs, other, withPort}
    Direct = {withPort}
    NoServer = NoServer  EmptyServer = EmptyServer  Unencodable = Unencodable
    Absent = Absent  Bad = Bad
    NameError = NameError  DomainError = DomainError  Unavailable = Unavailable
    Malformed = Malformed  ConnectionError = ConnectionError
    WellKnownAnswers <- WellKnownMay
    SrvAnswers <- SrvMay
    KeyAnswers <- KeysMay
    Unbind <- UnbindMay
    EndsWith <- EndsWithPort
    Key = {k1, k2}
    InvalidPeriod = 1  DefaultPeriod = 1  Jitter = 0  MaxPeriod = 1
    MaxTtl = 1
    MaxTime = 2
    Call = {1, 2}
    anyName = hs
    NoBody = NoBody
INVARIANTS
    TypeOK
    CacheInStep
    RouteIsRecent
    KeysWereGiven
    UnbindIsAuthorised
PROPERTY SignedIsAnswered
CHECK_DEADLOCK FALSE
