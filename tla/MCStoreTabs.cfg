\* Two tabs and an import, storage working: every order of three gestures, one of
\* which may be a merge of the sync client, with up to two calls waiting in each
\* tab's chain.
SPECIFICATION Spec
CONSTANTS
    k1 = k1
    x = x
    y = y
    Tabs = {t1, t2}
    Keys = {k1}
    Texts = {x, y}
    NoText = NoText
    Lessons = {l1}
    Steps = {}
    Goals = {g1}
    NoGoal = NoGoal
    Imports <- OneImport
    Merges <- OneMerge
    MaxEdits = 3
    MaxQueue = 2
    MaxFaults = 0
    MaxDamage = 0
SYMMETRY TabSymmetry
INVARIANTS
    ShownIsSavedOrPending
PROPERTIES
    NoSilentOverwrite
    ImportFence
    ImplementsSharedRecord
\* The learner may stop.
CHECK_DEADLOCK FALSE
