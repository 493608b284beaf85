\* Two addresses, two mxids of which one cannot be notified, two tokens,
\* two binds and a crash anywhere.
SPECIFICATION FairSpec
CONSTANTS
    Address = {a1, a2}
    NoAddress = NoAddress
    Mxid = {m1, m2}
    NoMxid = NoMxid
    Unreachable = {m2}
    Token = {t1, t2}
    DeleteTokensOnBind = TRUE
    MaxBinds = 2
    MaxCrashes = 1
INVARIANTS
    TypeOK
    SignedForOneMxid
    NoTokenLeftBehind
    KeyBeforeToken
PROPERTY DeliveredUnlessKilled
