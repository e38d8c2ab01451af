\* Four tasks with a cleanup each: adoption, returned tasks, observation,
\* cancellation, drains with failing cleanups.
CONSTANTS
    MaxTasks = 4
    MaxWaits = 0
    MaxCleanups = 1
    Workers = FALSE
SPECIFICATION Spec
INVARIANTS NoFatal OneTree WaitsServed QueueOK
PROPERTIES OutcomeFinal ChildrenFirst
