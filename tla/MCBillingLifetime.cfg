\* A yearly subscription is running when Lifetime is bought; nothing fails.
SPECIFICATION Spec
CONSTANTS
    Subscriptions = {s1}
    TrialEnds = 1
    MaxTime = 2
    MaxQueue = 2
    MaxFaults = 0
    Calls = {c1}
    Limit = 1
    LastQuotaDay = 0
    MaxKilled = 0
    Tabs = {t1}
    MaxRuns = 1
    MaxRestarts = 0
    Atoms = {"0", "undefined"}
    Keys = {"a"}
INVARIANT LifetimeNeverLapses
CHECK_DEADLOCK FALSE
