SPECIFICATION StatusSpec
CONSTANTS
  Edits <- DownUp
  Ephemeral = FALSE
  SkipIfSuperseded = FALSE
  ReadsOwnWrites = TRUE
  ReportedStatuses = {"Ready"}
  MaxAborts = 0
  Replicas <- UpAny
  Reported = {"False"}
  MaxReports = 1
PROPERTIES
  ScaleUpRestoresApplied
  HealthShown
