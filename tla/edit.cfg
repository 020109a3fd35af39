\* One account edits its profile, in any overlap.
SPECIFICATION Spec
CONSTANTS
    p1 = p1
    p2 = p2
    d1 = d1
    NoDoc = NoDoc
    NoThen = NoThen
    NoView = NoView
    Devices = {d1}
    Posts = {p1, p2}
    Failures = FALSE
    MaxScreens = 3
    MaxDone = 2
INVARIANTS
    PicturesAgree
    EditInv
    ImageAvailable
\* The bounds on touches stop the model.
CHECK_DEADLOCK FALSE
