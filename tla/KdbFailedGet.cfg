SPECIFICATION Spec
CONSTANTS
    a = a
    b = b
    c = c
    N = 2
    Keys = {a, b, c}
    BackendOf <- TwoBackends
    Values = {1, 2}
    Absent = 0
    GetParents <- AllBackends
    SetParents <- AllBackends
    MaxEdits = 1
    MaxExternal = 0
    EditedGet = FALSE
    MayEmpty = FALSE
    ExternalUnlink = FALSE
    ReadFails = TRUE
    HookFails = FALSE
    WriteFails = FALSE
    CommitFails = FALSE
INVARIANTS KnownMeansRead
