SPECIFICATION JobsSpec
CONSTANTS
    Parts = {"queue", "reports", "schedules", "notices", "files", "access"}
    g1 = g1
    g2 = g2
    Job = {j1, j2}
    Api = {x1}
    WorkerProcess = {y1}
    JobAttempts = 2
    MaxMishaps = 2
    NoJob = NoJob
    Report = {r1}
    Scheduled = {r1}
    Worker = {w1, w2}
    MaxFaults = 2
    NoReport = NoReport
    Schedule = {s1}
    Tick = {t1, t2}
    MaxPeriod = 3
    MaxTrouble = 2
    NoTick = NoTick
    Notice = {n1}
    Delivery = {d1, d2}
    Channel = {c1}
    Editor = {e1, e2}
    MaxWrongs = 3
    NoNotice = NoNotice
    Member = {m1, m2}
    Permission = {p1}
    Role = {admin, clerk}
    AdminRole = admin
    Manager = {a1, a2}
    Request = {q1}
    MaxEdits = 2
    NoEntry = NoEntry
    File = {f1, f2}
    Folder = {g1, g2}
    Base = Base
    FolderOf <- BothInOne
    Above <- OneInTheOther
    Client = {k1, k2}
    LinkLife = 1
    MaxNow = 2
    NoFile = NoFile
CHECK_DEADLOCK FALSE
INVARIANTS
    JobsTypeOK
    DoneOnce
    ShownIsSo
    CacheTellsTheTruth
    SomebodyIsAdmin
PROPERTIES
    NothingRedone
    EverythingEnds
