SPECIFICATION FairSpec
CONSTANTS
  Edits <- Touch
  Ephemeral = FALSE
  SkipIfSuperseded = FALSE
  ReadsOwnWrites = FALSE
  ReportedStatuses = {"Ready"}
  MaxAborts = 0
PROPERTY Converges
