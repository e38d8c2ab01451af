\* Three tasks with a wait or a worker call each, under fairness.
CONSTANTS
    MaxTasks = 3
    MaxWaits = 1
    MaxCleanups = 0
    Workers = TRUE
SPECIFICATION Spec
INVARIANTS NoFatal
PROPERTY Finishes
