SPECIFICATION RaceSpec
CONSTANTS
    h1 = h1
    h2 = h2
    h3 = h3
    h4 = h4
    h5 = h5
    Handles = {h1, h2, h3, h4, h5}
    Procs = {h1, h4, h5}
    ProcOf <- OwnProcesses
    Teams <- Pure
    NoProc = NoProc
    NoHandle = NoHandle
    NoKs = NoKs
    MaxSets = 1
    Ticks = {0, 1}
    StartTime = 10
    Empties = FALSE
    StoreFails = FALSE
    RenameFails = FALSE
    CrashAt <- NoCrash
    Initially = {"file", "dir"}
    MonoTimes = {1}
    Inodes = {0, 1, 2, 3, 4, 5, 6}
CHECK_DEADLOCK FALSE
INVARIANTS OneWinner
