SPECIFICATION Spec
CHECK_DEADLOCK FALSE
CONSTANTS
    Configs <- AnyConfig
    Modules <- ThreeModules
    Paths <- SomePaths
    Configured <- FourBackends
    Letters = {"a", "b"}
    MaxMounted = 3
INVARIANTS MountTypeOK LongestMountpoint ElektraStaysReachable EveryKeyIsSplit AllReleased
