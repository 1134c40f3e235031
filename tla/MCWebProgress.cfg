\* Two pages, same or different browser: overlapping pushes, adoptions that
\* race them, lost replies and full storage.
SPECIFICATION WorkSpec
CONSTANTS
    p1 = p1
    p2 = p2
    b1 = b1
    b2 = b2
    Pages = {p1, p2}
    Browsers = {b1, b2}
    Pushes = {"push1", "push2"}
    MAX_RETRIES = 2
    MaxEdits = 2
    MaxFailures = 1
    MaxLoads = 2
    Keys = {}
    Texts = {}
    NoText = NoText
    Lessons = {l1}
    Steps = {}
    Goals = {g1}
    NoGoal = NoGoal
    \* Two texts and three gestures in the playground.
    Scribbles = {x1, x2}
    Starter = Starter
    MaxGestures = 3
    \* Three strokes over the notes, a project and the backups.
    Jottings = {j1, j2}
    Weights <- ThreeWeights
    MaxStrokes = 3
    Queries = {"all", "some", "few"}
    RowsFor <- Rows
    MaxMoves = 4
    Strides = {1, 9}
    LastStreak = 7
    RivalXp = 100
    MaxSteps = 4
    \* A free and a paid module; a page, one after it, and two checks at once.
    Modules = 2
    HintTiers = 1
    MaxVisits = 2
    MaxChecks = 2
INVARIANTS
    WebWorkIsKept
PROPERTY PushReplaysOnTheRow
CONSTRAINT WebBound
SYMMETRY WebSymmetry
\* The learner may stop.
CHECK_DEADLOCK FALSE
