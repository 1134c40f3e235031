\* Two texts for one key, two lessons, one step, two goals; three edits a side
\* reach every way two writers can touch the same path.
SPECIFICATION PartsSpec
CONSTANTS
    Keys = {k1}
    Texts = {x, y}
    NoText = NoText
    Lessons = {l1, l2}
    Steps = {i1}
    Goals = {g1, g2}
    NoGoal = NoGoal
    MaxEdits = 3
    \* Two learners race for one code and end; one request each runs at a time.
    Learners = {a, b}
    Codes = {c1, c2}
    Routes = {r1, r2}
    Nobody = Nobody
    NoCode = NoCode
    MaxMints = 2
    \* A session longer than what is left of the day.
    FocusTabs = {f1, f2}
    Session = 3
    DayLength = 2
    LastDay = 1
    Track = {t1, t2}
    NoLesson = NoLesson
    MaxGestures = 5
    MaxElsewhere = 1
    Exercises = {e1, e2}
    Drafts = {d1, d2}
    Starter = Starter
    Nowhere = Nowhere
    Nothing = Nothing
    Tiers = 2
    MaxActs = 6
    \* Five days, with gaps longer and shorter than the shield.
    LastHabitDay = 5
    Shield = 2
    Players = {u1, u2, u3}
    MaxXp = 1
    \* Both discounts end within the two hours; one visit and one link from before.
    OfferEnds = 1
    StudentTerm = 1
    LastHour = 2
    MaxVisits = 2
    Teams = {tm1, tm2}
    LastAccessDay = 1
    MaxWrites = 2
    \* Both lessons of a track opened, solved and done, with the celebration's dialog.
    Course = {s1, s2}
    MaxTurns = 7
    \* The whole ladder of a lesson, with advice from the hosted tutor.
    Hosted = TRUE
    Authored = 0
    MaxEvents = 4
    \* A preview, one that replaces it, and the languages changed meanwhile.
    MaxStrokes = 4
INVARIANTS
    PartsTypeOK
    MergingIsSafe
    ChangesAreFaithful
    AccountsAreWhole
    StudioIsTrue
    PageIsHonest
    LessonsAreTrue
    HabitsMeanWhatTheySay
    PaymentIsFair
PROPERTIES
    CountsLikeAStopWatch
CHECK_DEADLOCK FALSE
