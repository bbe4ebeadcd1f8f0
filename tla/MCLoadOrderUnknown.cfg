SPECIFICATION Spec
CONSTANTS
  Names <- MCNames
  Keys <- MCKeys
  Lists <- MCLists
INVARIANT
  UnknownReportedFirst
CHECK_DEADLOCK FALSE
