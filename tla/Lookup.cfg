SPECIFICATION Spec
CHECK_DEADLOCK FALSE
CONSTANTS
    Paths <- TwoPaths
    Contents <- AnyKeys
    Specs <- LinkedSpecs
    OptionSets <- Options
    Depth = 2
    NULL = NULL
    Overflow = Overflow
INVARIANTS FindsFirst Independent OverflowNeedsCycle
