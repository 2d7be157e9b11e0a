SPECIFICATION FairSpec
CONSTANTS
  NCells = 7
  WPSize = 2
  NWorkers = 3
  MaxIter = 2
  Collective = {TRUE, FALSE}
  Tables = TRUE
  AISurrogate = FALSE
  Validities = {}
INVARIANTS
  TypeOK
  WorkerListExact
  NothingLeftOver
PROPERTIES
  ImplementsSerial
  SimulationEnds
