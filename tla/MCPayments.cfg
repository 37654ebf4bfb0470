SPECIFICATION Spec
CONSTANTS
    o1 = o1
    p1 = p1
    p2 = p2
    r1 = r1
    r2 = r2
    Orders = {o1}
    Payments = {p1, p2}
    OrderOf <- SameOrder
    Online = {p2}
    Events <- ProviderEvents
    Requests = {r1, r2}
    Amount = 2
    MaxSent = 3
    MaxKeys = 1
    None = None
CHECK_DEADLOCK FALSE
SYMMETRY Symmetry
INVARIANTS
    TypeOK
    LocksAreHeld
    RefundsMatchStatus
    ChargedOnce
    RecordedRefundsWereSent
PROPERTIES
    StatusMovesAllowed
