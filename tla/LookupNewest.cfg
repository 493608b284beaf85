\* An address is bound twice, on a new database.
SPECIFICATION Spec
CONSTANTS
    strasse = strasse  Strasse = Strasse  sharpS = sharpS
    Address = {strasse, Strasse}
    Casefold <- FoldsAll
    Lower <- FoldsAscii
    MaxMxid = 2
    Pepper = "pepper"
    MaxTs = 2
    MaxOldTs = 0
INVARIANT NewestIsFound
