\* Two tabs, an edit, an import or a sync merge, a failure (full or denied storage,
\* a crash between two writes) and a damaged record, in any order, with up to two
\* calls in a chain.  Liveness needs every tab by name: no symmetry.
SPECIFICATION FairSpec
CONSTANTS
    k1 = k1
    x = x
    y = x
    Tabs = {t1, t2}
    Keys = {k1}
    Texts = {x}
    NoText = NoText
    Lessons = {}
    Steps = {}
    Goals = {g1}
    NoGoal = NoGoal
    Imports <- OneImport
    Merges <- OneMerge
    MaxEdits = 1
    MaxQueue = 2
    MaxFaults = 1
    MaxDamage = 1
INVARIANTS
    ShownIsSavedOrPending
    StatusLineIsHonest
PROPERTIES
    PracticeIsConserved
    CorruptIsNotOverwritten
    SavingKeepsACopy
    ChangesAreSaved
\* The learner may stop.
CHECK_DEADLOCK FALSE
