\* A list of accounts of any kind is loaded while the user searches.
SPECIFICATION FairSpec
CONSTANTS
    d1 = d1
    u1 = u1
    u2 = u2
    u3 = u3
    u4 = u4
    s1 = s1
    s2 = s2
    NoDoc = NoDoc
    NoThen = NoThen
    NoText = NoText
    Profile = Profile
    Devices = {d1}
    Users = {u1, u2, u3, u4}
    Members = {u1, u2, u3}
    Registered = {u1, u2, u4}
    Texts = {s1, s2}
    Matches <- TwoTexts
    MaxTexts = 4
    Failures = TRUE
INVARIANTS
    SearchInv
PROPERTIES
    EventuallyComplete
\* The bound on texts stops the model.
CHECK_DEADLOCK FALSE
