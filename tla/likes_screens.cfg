\* Two posts share one reusable cell of the feed; one also has a screen of its own.
SPECIFICATION Spec
CONSTANTS
    d1 = d1
    d2 = d2
    u1 = u1
    u2 = u2
    p1 = p1
    p2 = p2
    Home = Home
    NoDoc = NoDoc
    NoThen = NoThen
    NoPost = NoPost
    Marked = Marked
    Devices = {d1}
    Users = {u1, u2}
    Posts = {p1, p2}
    Cells = {c1}
    OwnerOf <- OwnerEach
    UidOf <- UidU2
    Details <- DetailD1
    InitialLikes <- Nobody
    Failures = FALSE
    MaxOps = 2
    MaxReads = 1
    MaxCrashes = 0
INVARIANTS
    LikesNonNegative
    LikesExact
