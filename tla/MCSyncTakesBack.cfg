\* Two devices, nothing lost.
SPECIFICATION SessionsSpec
CONSTANTS
    t1 = t1
    t2 = t2
    d1 = d1
    d2 = d2
    Tabs = {t1, t2}
    Devices = {d1, d2}
    DeviceOf <- ATabPerDevice
    Keys = {}
    Texts = {}
    NoText = NoText
    Lessons = {l1}
    Steps = {}
    Goals = {g1}
    NoGoal = NoGoal
    MaxEdits = 0
    MaxPractice = 1
    MaxJoins = 2
    MaxReloads = 0
    MaxLost = 0
    MaxFull = 0
    MayExpire = {}
    MaxDamaged = 0
    Clients = {}
    Requests = {}
    Window = 2
    MaxHits = 2
    CacheTime = 1
    CheckTime = 1
    DayTime = 2
    DailyMax = 2
    LastTime = 2
    MaxAsked = 3
PROPERTY PracticeAddsUp
CHECK_DEADLOCK FALSE
