CONSTANTS
    Rooms = {a, b}
    Users = {1, 2}
    NoUser = nobody
    Requests = {p, q, s}
    NoRequest = none
    LateVacates = FALSE
SPECIFICATION Spec
SYMMETRY Symmetry
INVARIANTS
    OneActiveRoom
PROPERTIES
    ImplementsSeats
