\* Posts are shared, liked and deleted on two devices, in any overlap.
SPECIFICATION Spec
CONSTANTS
    d1 = d1
    d2 = d2
    d3 = d3
    u1 = u1
    u2 = u2
    u3 = u3
    p1 = p1
    p2 = p2
    NoDoc = NoDoc
    NoThen = NoThen
    NoView = NoView
    Devices = {d1, d2}
    Users = {u1, u2}
    UidOf <- OneEach
    OldPosts = {p1}
    OldOwner = u1
    Failures = FALSE
    Sharers = {d1}
    MaxShares = 2
    MaxScreens = 2
    MaxDeletes = 1
    MaxLikes = 1
    MaxTaps = 2
    MaxReads = 1
INVARIANTS
    FeedCurrent
    PostsInv
    DeletionCleansUp
PROPERTIES
    NoResurrection
\* The bounds on touches stop the model.
CHECK_DEADLOCK FALSE
