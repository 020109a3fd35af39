\* A listener and a getDocuments, one after the other or at once, with a fault.
SPECIFICATION Spec
CONSTANTS
    Keys = {a, b}
    Listeners = {l, g}
    Once = {g}
    kMaxLimbo = 1
    NoDoc = NoDoc
    None = None
    Pasts <- OneGone
    MaxChanges = 1
    MaxFaults = 1
    Hasty = FALSE
INVARIANTS
    SyncedIsServer
    ListenAssertions
    LimboTracked
PROPERTIES
    ListenerInformed
    GetAnswered
\* The bounds stop the model.
CHECK_DEADLOCK FALSE
