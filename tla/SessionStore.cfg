SPECIFICATION Spec
CONSTANTS
  Ids = {"a", "b", "c"}
  Callers = {"tui", "agent"}
  MaxHot = 2
  MaxClock = 4
INVARIANTS
  CleanIsOnDisk
PROPERTIES
  ReleasedIsStored
