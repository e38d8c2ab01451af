SPECIFICATION Spec
CONSTANTS
  Programs <- Interrupted
  EachCalls = 2
  MaxChoices = 3
INVARIANT CleanupCompletes
