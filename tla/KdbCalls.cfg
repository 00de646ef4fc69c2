SPECIFICATION Spec
CONSTANTS
    a = a
    b = b
    c = c
    N = 2
    Keys = {a, b, c}
    BackendOf <- TwoBackends
    Values = {1, 2}
    Absent = 0
    GetParents <- FirstOrAll
    SetParents <- AllBackends
    MaxEdits = 2
    MaxExternal = 1
    EditedGet = FALSE
    MayEmpty = FALSE
    ExternalUnlink = FALSE
    ReadFails = FALSE
    HookFails = TRUE
    WriteFails = TRUE
    CommitFails = FALSE
INVARIANTS TypeOK ZeroMeansNothingToDo OneMeansStored KnownMeansRead GetDelivers
PROPERTIES CommitReplacesSeen
