SPECIFICATION Spec
CONSTANTS
    Keys = {1, 2}
    Txs = {t1, t2}
    Ops <- AllOps
    Stocked = {1, 2}
    InitQty = 2
    MaxQty = 4
    Free = Free
INVARIANTS
    TypeOK
    LedgerExplainsStock
PROPERTY
    ImplementsAtomic
