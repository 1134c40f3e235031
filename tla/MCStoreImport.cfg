\* One tab: two imports, a damaged record, a third import that fails half-way.
SPECIFICATION Spec
CONSTANTS
    k1 = k1
    x = x
    y = y
    Tabs = {t1}
    Keys = {k1}
    Texts = {x, y}
    NoText = NoText
    Lessons = {}
    Steps = {}
    Goals = {g1}
    NoGoal = NoGoal
    Imports <- OneImport
    Merges = {}
    MaxEdits = 3
    MaxQueue = 2
    MaxFaults = 1
    MaxDamage = 1
PROPERTY ImportKeepsACopy
CHECK_DEADLOCK FALSE
