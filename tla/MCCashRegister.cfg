SPECIFICATION Spec
CONSTANTS
    Registers = {g1}
    Shifts = {s1, s2}
    Clerks = {c1, c2}
    Amounts = {1, 2}
    MaxCash = 2
    None = None
CHECK_DEADLOCK FALSE
INVARIANTS
    TypeOK
    DrawerNeverOwes
    ClosedNeverOverstates
