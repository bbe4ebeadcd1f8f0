SPECIFICATION Spec
CONSTANTS
  Workers = {"v", "w"}
  Dispatchers = {"a", "b"}
  Tasks = {1, 2}
  Batch <- MCBatch
  Flaky = {1}
  Impatient = {"a"}
  Capacity = 1
  MaxPools = 2
INVARIANTS
  TypeOK
  OneOwner
  OwnResultsWhenAlone
CHECK_DEADLOCK FALSE
