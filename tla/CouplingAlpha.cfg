SPECIFICATION Spec
CONSTANTS
  Props <- MCProps
  tug_side_mapping <- MCSides
  Transported = {"Ca"}
  MaxCells = 9
  MaxSize = 10
  MaxIter = 2
  OutSave = {2}
  Scripts <- MatrixScripts
INVARIANTS
  AlphasInPlace
CHECK_DEADLOCK FALSE
