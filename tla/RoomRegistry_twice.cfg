CONSTANTS
    Rooms = {a, b}
    Users = {1, 2, 3}
    NoUser = nobody
    Requests = {p, q}
    NoRequest = none
    LateVacates = TRUE
SPECIFICATION Spec
SYMMETRY Symmetry
INVARIANTS
    OneActiveRoom
