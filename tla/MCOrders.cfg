SPECIFICATION Spec
CONSTANTS
    v1 = v1
    v2 = v2
    c1 = c1
    c2 = c2
    o1 = o1
    Orders = {o1}
    Clerks = {c1, c2}
    Variants = {v1, v2}
    Handles <- OneOrder
    Baskets <- SomeBaskets
    Targets <- AllStatuses
    MaxHistory = 7
    Idle = Idle
CHECK_DEADLOCK FALSE
INVARIANTS
    TypeOK
    HistoryIsATree
    
PROPERTIES
    ImplementsLifecycle
