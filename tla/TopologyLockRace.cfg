SPECIFICATION Spec
CONSTANTS
  Edits <- DownUpOther
  Ephemeral = FALSE
  SkipIfSuperseded = FALSE
  ReadsOwnWrites = TRUE
  ReportedStatuses = {"Ready"}
  MaxAborts = 0
PROPERTY LockIsRaceFree
