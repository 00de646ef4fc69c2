SPECIFICATION Spec
CONSTANTS
    ka = ka
    ka2 = ka2
    kab = kab
    kc = kc
    Keys = {ka, ka2, kab, kc}
    Sets = {s1, s2}
    NameOf <- Names4
    CutPoints <- Cuts
    Namespaces <- TwoNamespaces
    Hints = {0}
    Kept = {kab}
    Browsed = {s1}
    MaxLoose = 1
    MaxAlloc = 3
    KEYSET_SIZE = 3
    NULL = NULL
    Junk = Junk
    Gone = Gone
    Moved = Moved
    Invalid = Invalid
INVARIANTS RefCounts Sorted Terminated CursorValid SeenUpToCursor
PROPERTIES MapSpec
SYMMETRY SameName
