\* Two devices with a tab each, one sign-in more than devices; while one of them is
\* not used yet, also a session that ends, and two of: a message lost, the page
\* closed, storage full, the agreement damaged; at any point.
SPECIFICATION SessionsSpec
CONSTANTS
    t1 = t1
    t2 = t2
    d1 = d1
    d2 = d2
    Tabs = {t1, t2}
    Devices = {d1, d2}
    DeviceOf <- ATabPerDevice
    Keys = {}
    Texts = {}
    NoText = NoText
    Lessons = {l1}
    Steps = {}
    Goals = {g1}
    NoGoal = NoGoal
    MaxEdits = 1
    MaxPractice = 2
    MaxJoins = 3
    MaxReloads = 1
    MaxLost = 1
    MaxFull = 1
    MayExpire = {1}
    MaxDamaged = 1
    \* Two clients share two places a window and two a day, over two days.
    Clients = {cl1, cl2}
    Requests = {q1, q2}
    Window = 2
    MaxHits = 2
    CacheTime = 1
    CheckTime = 1
    DayTime = 2
    DailyMax = 2
    LastTime = 2
    MaxAsked = 3
INVARIANTS
    CountedAgainOnlyUnheard
    AgreementIsOnTheAccount
    TutorIsBounded
CONSTRAINT TroubleWithOneDevice
SYMMETRY DeviceSymmetry
CHECK_DEADLOCK FALSE
