\* One page: work done while signed out, and an adoption that fails.
SPECIFICATION WorkSpec
CONSTANTS
    p1 = p1
    p2 = p2
    b1 = b1
    b2 = b2
    Pages = {p1}
    Browsers = {b1}
    Pushes = {"push1"}
    MAX_RETRIES = 2
    MaxEdits = 2
    MaxFailures = 1
    MaxLoads = 2
    Keys = {}
    Texts = {}
    NoText = NoText
    Lessons = {l1}
    Steps = {}
    Goals = {g1}
    NoGoal = NoGoal
    Scribbles = {}
    Starter = Starter
    MaxGestures = 0
    Jottings = {}
    Weights <- ThreeWeights
    MaxStrokes = 0
    Queries = {"all", "some", "few"}
    RowsFor <- Rows
    MaxMoves = 0
    Strides = {}
    LastStreak = 7
    RivalXp = 100
    MaxSteps = 0
    Modules = 1
    HintTiers = 0
    MaxVisits = 0
    MaxChecks = 0
INVARIANT OfflineWorkIsKept
CHECK_DEADLOCK FALSE
