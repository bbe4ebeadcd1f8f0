\* What the store does not keep, one line at a time.
SPECIFICATION Spec
CONSTANTS
  Ids = {"a", "b"}
  Callers = {"tui", "agent"}
  MaxHot = 1
  MaxClock = 3
PROPERTY NeverOlder
\* PROPERTY ClosedStaysStored
\* INVARIANT CacheWithinSize
