SPECIFICATION Spec
CONSTANTS
  Edits <- Touch
  Ephemeral = FALSE
  SkipIfSuperseded = FALSE
  ReadsOwnWrites = TRUE
  ReportedStatuses = {"Ready"}
  MaxAborts = 0
INVARIANT ReadyMeansLatestApplied
