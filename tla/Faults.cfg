SPECIFICATION Spec
CONSTANTS
    h1 = h1
    h2 = h2
    h3 = h3
    Handles = {h1, h2}
    Procs = {h1, h2}
    ProcOf <- OwnProcess
    NoProc = NoProc
    NoHandle = NoHandle
    NoKs = NoKs
    MaxSets = 1
    Ticks = {0, 1}
    StartTime = 10
    Empties = TRUE
    StoreFails = TRUE
    RenameFails = TRUE
    CrashAt <- AnyPoint
    Initially = {"nothing"}
    MonoTimes = {1, 10}
    Inodes = {0, 1, 2, 3, 4}
INVARIANTS VisibleIsComplete
