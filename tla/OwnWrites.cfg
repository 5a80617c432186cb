SPECIFICATION FairSpec
CONSTANTS
  Edits <- DownMaybeUp
  Ephemeral = TRUE
  SkipIfSuperseded = TRUE
  ReadsOwnWrites = TRUE
  ReportedStatuses = {"Ready"}
  MaxAborts = 1
INVARIANTS
  SequenceFollowsGeneration
  ObservedHasConfig
  RestIsSettled
PROPERTIES
  CleanupKeepsWork
  ScaledToZeroHasNoConfigs
  RestIsKept
  ImplementsEditQueue
  Converges
