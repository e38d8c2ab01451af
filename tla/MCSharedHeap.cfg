CONSTANTS
    Threads = {t1, t2, t3}
    Slots = {s1, s2}
    NoThread = NoThread
SPECIFICATION Spec
INVARIANTS
    StopTheWorld
    NoStaleAddress
    SleepersJustified
    HeapInv
PROPERTIES
    CollectionCompletes
    WaitersReleased
