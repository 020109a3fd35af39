\* Two accounts write to each other, in any overlap; the app may be killed.
SPECIFICATION FairSpec
CONSTANTS
    d1 = d1
    d2 = d2
    u1 = u1
    u2 = u2
    NoDoc = NoDoc
    NoThen = NoThen
    NoView = NoView
    NoMessage = NoMessage
    Devices = {d1, d2}
    Users = {u1, u2}
    UidOf <- OneEach
    Partner <- Each
    Failures = FALSE
    MaxMessages = 2
    MaxTexts = 0
    MaxChats = 2
    MaxCrashes = 1
INVARIANTS
    CopiesAgree
    MessagesInv
PROPERTIES
    MessagesAppear
\* The bounds on touches stop the model.
CHECK_DEADLOCK FALSE
