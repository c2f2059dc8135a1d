CONSTANTS
    r1 = r1
    r2 = r2
    a1 = a1
    Readers = {r1, r2}
    Networks = {n1}
    Accounts = {a1, a2}
    Profiles = {p1}
    CacheTtl = 1
    MaxTime = 1
    MaxSignatures = 1
    None = None
SPECIFICATION MCSpec
INVARIANTS
    TypeOK
    SingleFlight
    InFlightIsAwaited
    AnswersOwnIdentity
    NeverServesExpired
    StaleOnlyFromOverlap
PROPERTY ReadsReturn
