SPECIFICATION Spec
CONSTANTS
    h1 = h1
    h2 = h2
    h3 = h3
    Handles = {h1}
    Procs = {h1}
    ProcOf <- OwnProcess
    NoProc = NoProc
    NoHandle = NoHandle
    NoKs = NoKs
    MaxSets = 5
    Ticks = {0, 1}
    StartTime = 10
    Empties = FALSE
    StoreFails = FALSE
    RenameFails = FALSE
    CrashAt <- NoCrash
    Initially = {"file", "dir", "nothing"}
    MonoTimes = {1, 10}
    Inodes = {0, 1, 2}
INVARIANTS AloneMeansNoConflict
