SPECIFICATION Spec
CONSTANTS
  NCells = 4
  WPSize = 2
  NWorkers = 2
  MaxIter = 1
  Collective = {FALSE}
  Tables = FALSE
  AISurrogate = TRUE
  Validities = {{0}}
INVARIANT
  FieldAdvanced
