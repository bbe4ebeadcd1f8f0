SPECIFICATION Spec
CONSTANTS
  Names <- MCNames
  Keys <- MCKeys
  Lists <- MCLists
INVARIANTS
  TypeOK
  OrderComplete
  ProvidersServeConsumers
PROPERTIES
  Returns
CHECK_DEADLOCK FALSE
