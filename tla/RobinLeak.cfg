SPECIFICATION FairSpec
CONSTANTS
  Edits <- Down
  Ephemeral = FALSE
  SkipIfSuperseded = FALSE
  ReadsOwnWrites = TRUE
  ReportedStatuses = {"Ready"}
  MaxAborts = 1
PROPERTY ScaledToZeroReleasesRobin
