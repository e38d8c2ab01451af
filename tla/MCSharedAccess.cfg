CONSTANTS
    Threads = {t1, t2, t3}
    Cancellable = {t1, t2}
    Locks = {l1}
    None = None
SPECIFICATION Spec
INVARIANTS
    AccessInv
    MutualExclusion
    CancelDelivered
PROPERTIES
    CancelInterrupts
