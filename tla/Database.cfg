\* One address in three spellings, three associations of two users, any
\* of which may be from the earlier release.
SPECIFICATION Spec
CONSTANTS
    strasse = strasse  Strasse = Strasse  sharpS = sharpS
    Address = {strasse, Strasse, sharpS}
    Casefold <- FoldsAll
    Lower <- FoldsAscii
    MaxMxid = 2
    Pepper = "pepper"
    MaxTs = 3
    MaxOldTs = 3
INVARIANTS
    TypeOK
    NothingLost
    StartsUnlessKilled
    ServedIsComplete
    FoldedWhenDone
    LookupsAgree
PROPERTIES
    BoundIsVisible
    CasefoldKeepsLocal
    MailBeforeLocalDelete
    CasefoldKeepsGlobal
