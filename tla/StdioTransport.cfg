SPECIFICATION Spec
CONSTANTS
  Requests = {"a", "b"}
  Impatient = {"b"}
  MaxRetries = 2
INVARIANTS
  AnswersOwnRequest
  NobodyLeftWaiting
PROPERTIES
  SendReturns
CHECK_DEADLOCK FALSE
