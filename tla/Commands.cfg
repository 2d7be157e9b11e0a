SPECIFICATION FairSpec
CONSTANTS
  NWorkers = 2
  NSpecies = 2
  Setups <- AllSetups
  MaxEvents = 2
INVARIANTS
  TypeOK
  CollectivesMatch
  MetricsExact
  FreshValidity
  AskedExists
PROPERTY
  ProgramEnds
