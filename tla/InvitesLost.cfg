\* One crash: a token that is marked as sent may never be delivered.
SPECIFICATION FairSpec
CONSTANTS
    Address = {a1}
    NoAddress = NoAddress
    Mxid = {m1}
    NoMxid = NoMxid
    Unreachable = {}
    Token = {t1}
    DeleteTokensOnBind = TRUE
    MaxBinds = 2
    MaxCrashes = 1
PROPERTY MarkedIsDelivered
