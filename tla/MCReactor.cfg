SPECIFICATION Spec
CONSTANTS
    Handles = {h1}
    NoHandle = NoHandle
    MaxIssued = 2
    MaxKeys = 4
    MaxNow = 1
    MaxFailures = 1
CHECK_DEADLOCK FALSE
INVARIANTS InterestOK NoOversleep
PROPERTIES Implements DueFires
