SPECIFICATION Spec
CONSTANTS
    Subscriptions = {s1, s2}
    TrialEnds = 1
    MaxTime = 2
    MaxQueue = 2
    MaxFaults = 1
    Calls = {c1, c2, c3}
    Limit = 2
    LastQuotaDay = 1
    MaxKilled = 1
    Tabs = {t1, t2}
    MaxRuns = 2
    MaxRestarts = 1
    Atoms = {"0", "NaN", "null", "undefined"}
    Keys = {"a", "b"}
INVARIANTS
    RowIsTrue
    EveryHintIsAccountedFor
    RunnersAreTrue
    
PROPERTIES
    LifetimeIsGranted
    RunnerComesFree
CHECK_DEADLOCK FALSE
