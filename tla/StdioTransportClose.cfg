SPECIFICATION Spec
CONSTANTS
  Requests = {"a", "b"}
  Impatient = {"b"}
  MaxRetries = 2
INVARIANT
  CloseLeavesNoProcess
CHECK_DEADLOCK FALSE
