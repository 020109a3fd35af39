\* Two accounts race on one post, in apps that may be killed.
SPECIFICATION FairSpec
CONSTANTS
    d1 = d1
    d2 = d2
    u1 = u1
    u2 = u2
    p1 = p1
    p2 = p2
    Home = Home
    NoDoc = NoDoc
    NoThen = NoThen
    NoPost = NoPost
    Marked = Marked
    Devices = {d1, d2}
    Users = {u1, u2}
    Posts = {p1}
    Cells = {c1}
    OwnerOf <- OwnerU1
    UidOf <- UidOneEach
    Details <- NoDetails
    InitialLikes <- Nobody
    Failures = FALSE
    MaxOps = 3
    MaxReads = 0
    MaxCrashes = 1
INVARIANTS
    LikesInv
    NoPhantomNotification
PROPERTIES
    LikesArePaired
    EventuallyAgree
CHECK_DEADLOCK FALSE
