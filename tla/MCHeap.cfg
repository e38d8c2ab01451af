SPECIFICATION Spec
CONSTANTS
    PageSize = 4
    PagesPerMapping = 2
    LargeSize = 2
    MinThreshold = 6
    MinCap = 1
    MaxLen = 2
    MaxOps = 8
    Menus <- Programs
CHECK_DEADLOCK FALSE
INVARIANTS Denotes ViewsOK RootsOK LocksFollow BytesOK
