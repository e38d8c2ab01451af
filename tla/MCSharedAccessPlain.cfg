CONSTANTS
    Threads = {t1, t2, t3}
    Cancellable = {}
    Locks = {l1}
    None = None
SPECIFICATION Spec
INVARIANT FreeLockWakes
PROPERTY ReleaseUnblocks
