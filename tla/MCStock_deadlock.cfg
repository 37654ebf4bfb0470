SPECIFICATION Spec
CONSTANTS
    Keys = {1, 2}
    Txs = {t1, t2, t3}
    Ops <- SortedOps
    Stocked = {1, 2}
    InitQty = 2
    MaxQty = 3
    Free = Free
SYMMETRY Symmetry
INVARIANTS
    NoWaitCycle
