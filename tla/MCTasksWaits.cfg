\* Two tasks with three external waits or jobs and a cleanup each: stale
\* notifications, failing cleanups in drains.
CONSTANTS
    MaxTasks = 2
    MaxWaits = 3
    MaxCleanups = 1
    Workers = TRUE
SPECIFICATION Spec
INVARIANT PendingOK
PROPERTY ChildrenFirst
