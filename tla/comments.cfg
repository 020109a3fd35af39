\* Two devices comment, in any overlap; the app may be killed.
SPECIFICATION FairSpec
CONSTANTS
    d1 = d1
    d2 = d2
    u1 = u1
    u2 = u2
    NoDoc = NoDoc
    NoThen = NoThen
    NoView = NoView
    Devices = {d1, d2}
    Users = {u1, u2}
    UidOf <- OneEach
    Owner = u1
    Failures = FALSE
    MaxComments = 2
    MaxTexts = 1
    MaxScreens = 2
    MaxCrashes = 1
INVARIANTS
    CommentsInv
    OwnerNotified
PROPERTIES
    CommentsSettle
    NoTextLost
\* The bounds on touches stop the model.
CHECK_DEADLOCK FALSE
