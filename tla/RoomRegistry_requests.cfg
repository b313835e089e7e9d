CONSTANTS
    Rooms = {a, b}
    Users = {1, 2}
    NoUser = nobody
    Requests = {p, q}
    NoRequest = none
    LateVacates = TRUE
SPECIFICATION FairSpec
INVARIANTS
    TypeOK
    TwoPlayersPlay
    NoInheritedMark
    NoLockCycle
PROPERTIES
    RequestsEnd
