SPECIFICATION Spec
CONSTANTS
    h1 = h1
    h2 = h2
    h3 = h3
    Handles = {h1, h2}
    Procs = {h1, h2}
    ProcOf <- OwnProcess
    NoProc = NoProc
    NoHandle = NoHandle
    NoKs = NoKs
    MaxSets = 2
    Ticks = {1}
    StartTime = 10
    Empties = FALSE
    StoreFails = TRUE
    RenameFails = FALSE
    CrashAt <- OutsideWindow
    Initially = {"file"}
    MonoTimes = {1}
    Inodes = {0, 1, 2, 3, 4}
INVARIANTS TypeOK NoLostUpdate CheckedFileIsCurrent ReturnReleasesEverything
PROPERTIES StoreSpec FailedSetChangesNothing
