SPECIFICATION Spec
CONSTANTS
  Names <- MCNames
  Keys <- MCKeys
  Lists <- MCLists
INVARIANTS
  OrderTopological
  CycleReported
CHECK_DEADLOCK FALSE
