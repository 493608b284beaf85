\* Two users, each of a homeserver of their own, that may name any user; terms
\* that are switched on, extended, switched off and put back.
SPECIFICATION Spec
CONSTANTS
    u1 = u1  u2 = u2  h1 = h1  h2 = h2  v1 = v1  v2 = v2
    tosEn = tosEn  tosFr = tosFr  privacy = privacy
    User = {u1, u2}
    NoUser = NoUser
    Homeserver = {h1, h2}
    ServerOf <- OneUserEach
    AllowList = {}
    Token = {t1, t2}
    Url = {tosEn, tosFr, privacy}
    Version = {v1, v2}
    NoVersion = NoVersion
    TermsFile <- OldAndNew
    NoAccount = NoAccount
SYMMETRY TokenSymmetry
INVARIANTS
    TypeOK
    AuthorisedHasAgreed
    TokensAreVouched
PROPERTIES
    AgreeingSuffices
    ConsentOnlyByTerms
