\* One account follows another, who may follow it already, from all three places,
\* in an app that may be killed.
SPECIFICATION FairSpec
CONSTANTS
    d1 = d1
    d2 = d2
    u1 = u1
    u2 = u2
    u3 = u3
    NoDoc = NoDoc
    NoThen = NoThen
    NoView = NoView
    NoRow = NoRow
    NoMenu = NoMenu
    Marked = Marked
    UidOf <- UidOneEach
    Failures = FALSE
    Devices = {d1}
    Users = {u1, u2}
    Profiles <- U1OnU2
    FeedOwners <- U1OnU2
    Cells = {c1}
    InitialFollows <- U2FollowsU1
    MaxOps = 2
    MaxReads = 1
    MaxCrashes = 1
INVARIANTS
    FollowTruthful
    FollowInv
PROPERTIES
    LoaderGoes
    FollowsArePaired
\* The bound on touches stops the app, but for refreshing.
CHECK_DEADLOCK FALSE
