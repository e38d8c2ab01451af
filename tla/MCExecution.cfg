SPECIFICATION Spec
CONSTANTS
  Programs <- AllPrograms
  EachCalls = 2
  MaxChoices = 3
INVARIANTS NoStaleUse Faithful CleanupsOnce
