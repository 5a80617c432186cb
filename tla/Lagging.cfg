SPECIFICATION FairSpec
CONSTANTS
  Edits <- ThenDown
  Ephemeral = FALSE
  SkipIfSuperseded = FALSE
  ReadsOwnWrites = FALSE
  ReportedStatuses = {"Ready"}
  MaxAborts = 0
INVARIANTS
  TypeOK
  ConfigsCarryTheirGeneration
  ListsDecide
  LastAppliedIsReal
PROPERTIES
  ObservedGenerationAdvances
  ScaledToZeroReleasesRobin
