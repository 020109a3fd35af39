\* Every service may fail, the app may be killed, and nobody need wait.
SPECIFICATION FairSpec
CONSTANTS
    d1 = d1
    d2 = d2
    u1 = u1
    u2 = u2
    u3 = u3
    NoDoc = NoDoc
    NoThen = NoThen
    NoUser = NoUser
    Profile = Profile
    Users = {u1, u2}
    InitialAccounts = {u1}
    Devices = {d1, d2}
    Failures = TRUE
    MaxOps = 2
    MaxCrashes = 1
INVARIANTS
    ScreensTruthful
    SessionInv
    AccountsHaveProfiles
PROPERTIES
    TabsAppear
\* The bound on taps stops the model.
CHECK_DEADLOCK FALSE
