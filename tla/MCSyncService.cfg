\* Three requests at one address, one slot of scrypt, one restart.
SPECIFICATION SidesSpec
CONSTANTS
    Requests = {r1, r2, r3}
    Addresses = {a1}
    NoOne = NoOne
    MaxHashes = 1
    MaxCrashes = 1
    \* Two changes, gestures, calls waiting and mishaps of the panel.
    MaxChanges = 2
    MaxGestured = 2
    MaxWorks = 2
    MaxMishaps = 2
    \* One tab at the forms, one address, three attempts.
    Tabs = {t1}
    Emails = {e1}
    Nobody = Nobody
    MaxAttempts = 3
INVARIANTS
    SlotsAreAccountedFor
    ConfirmedIsKept
    RevisionNamesState
    SignInKeepsItsWord
PROPERTIES
    AccountsOnlyGrow
    EveryRequestEnds
    ExpiredIsRemoved
    ChangesAreSent
    FormsComeFree
CHECK_DEADLOCK FALSE
