\* Two spellings of a mail address and a phone number, two secrets, two session
\* ids of which one may also be the id of a token row; two sessions, so that an
\* id is drawn again after its session has expired and been deleted.
SPECIFICATION Spec
CONSTANTS
    e1 = e1  E1 = E1
    Email = {e1, E1}
    Fold <- FoldToE1
    Phone = {p1}
    Secret = {c1, c2}
    Sid <- RowAndSid
    Mxid = {m1}
    NoMxid = NoMxid
    Attempt = {0, 1}
    Lifetime = 1
    MaxSessions = 2
SYMMETRY SecretSymmetry
INVARIANTS
    TypeOK
    BoundWasProven
    OneTokenPerSession
PROPERTY UsableSessionsStay
