\* A renewal that was under way when the learner signed out.
SPECIFICATION SidesSpec
CONSTANTS
    Requests = {r1, r2, r3}
    Addresses = {a1}
    NoOne = NoOne
    MaxHashes = 1
    MaxCrashes = 0
    MaxChanges = 0
    MaxGestured = 0
    MaxWorks = 1
    MaxMishaps = 0
    Tabs = {}
    Emails = {}
    Nobody = Nobody
    MaxAttempts = 0
SYMMETRY RequestSymmetry
INVARIANT LoggedOutStaysOut
CHECK_DEADLOCK FALSE
