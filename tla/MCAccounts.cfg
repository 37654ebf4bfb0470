SPECIFICATION AccountsSpec
CONSTANTS
    s1 = s1
    s2 = s2
    k1 = k1
    k2 = k2
    k3 = k3
    c1 = c1
    c2 = c2
    h1 = h1
    h2 = h2
    f1 = f1
    f2 = f2
    q1 = q1
    x1 = x1
    x2 = x2
    y1 = y1
    User = {u1}
    Session = {s1, s2}
    Token = {k1, k2, k3}
    Legacy = {k1}
    Call = {c1, c2}
    MaxPassword = 1
    None = None
    Person = {u1}
    Link = {k1, k2, k3}
    Visit = {c1, c2}
    MaxSpent = 2
    NoVisit = NoVisit
    Shopper = {u1}
    Login = {s1, s2}
    Code = {k2, k3}
    Tab = {c1, c2}
    MaxChange = 2
    MaxTurn = 3
    Nobody = Nobody
    Node = {c1, c2}
    Holder = {h1, h2}
    HomeOf <- HolderHomes
    Pass = {k2, k3}
    Socket = {s1, s2}
    Story = {q1}
    StoryOf <- StoryHomes
    Expiry = 2
    Generations = 3
    MaxVersion = 2
    NoPass = NoPass
    Caller = {c1, c2}
    Thing = {q1}
    NoSend = NoSend
    MaxAsked = 2
    Id = {1, 2, 3}
    Value = {1, 2}
    Limit = {1, 2}
    MaxTake = 2
    Batch = 1
    MaxInstant = 2
    MaxChurn = 1
    Nil = Nil
    Bill = {1, 2}
    Patron = {x1, x2}
    Charge = {3, 4}
    Pile = {y1}
    Buyer <- BillBuyers
    Worth <- BillWorths
    Wanted = {1, y1}
    Days = 2
    DayTicks = 2
    Week = 2
    Moment = {1, 2}
    Repeated = {"inventory"}
    Ttl = 2
    MaxClock = 2
    MaxEvent = 1
    MaxStock = 1
    Never = Never
SYMMETRY AccountsSymmetry
CHECK_DEADLOCK FALSE
INVARIANTS
    AccountsTypeOK
    SecretsWorkOnce
    PasswordSignsOut
    AnswersAreSo
PROPERTIES
    SessionsEndForGood
