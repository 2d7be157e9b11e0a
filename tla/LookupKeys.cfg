SPECIFICATION Spec
CONSTANTS
  Setups <- AllSetups
  ValuesOf <- Values
  Steps <- AllSteps
  IDs <- AllIDs
  MaxCells = 2
CHECK_DEADLOCK FALSE
INVARIANTS
  TypeOK
  SameKeyClose
  SameCoarseClose
