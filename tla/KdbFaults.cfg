SPECIFICATION Spec
CONSTANTS
    a = a
    b = b
    c = c
    N = 2
    Keys = {a, b, c}
    BackendOf <- TwoBackends
    Values = {1, 2}
    Absent = 0
    GetParents <- AllBackends
    SetParents <- AllBackends
    MaxEdits = 1
    MaxExternal = 1
    EditedGet = TRUE
    MayEmpty = TRUE
    ExternalUnlink = TRUE
    ReadFails = TRUE
    HookFails = TRUE
    WriteFails = TRUE
    CommitFails = TRUE
INVARIANTS PreparedBeforeCommit NoLockLeft
