SPECIFICATION Spec
CHECK_DEADLOCK FALSE
CONSTANTS
    Handles = {"h1", "h2", "h3", "h4"}
    Denied = {"h4"}
    MaxInstances = 1
    Reopening = FALSE
    MaxCalls = 3
    Calls <- AllPaired
INVARIANTS SemlockTypeOK Exclusion LockedWhileWorking HookRunsItsPlacement
PROPERTIES WriterGoesFirst CallsEnd SemlockSpec
