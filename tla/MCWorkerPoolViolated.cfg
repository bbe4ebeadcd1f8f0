\* What the pool does not keep, one line at a time.
SPECIFICATION Spec
CONSTANTS
  Workers = {"v", "w"}
  Dispatchers = {"a", "b"}
  Tasks = {1, 2}
  Batch <- MCBatch
  Flaky = {1}
  Impatient = {"a"}
  Capacity = 1
  MaxPools = 2
INVARIANT AgentsApart
\* INVARIANT SubmitReturnsFalseWhenStopped
\* INVARIANT ReturnsResultOfEachTask
CHECK_DEADLOCK FALSE
