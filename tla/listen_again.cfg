SPECIFICATION Spec
CONSTANTS
    Keys = {a}
    Listeners = {l, g}
    Once = {g}
    kMaxLimbo = 1
    NoDoc = NoDoc
    None = None
    Pasts <- Unread
    MaxChanges = 1
    MaxFaults = 1
    Hasty = TRUE
INVARIANT
    SyncedIsServer
CHECK_DEADLOCK FALSE
