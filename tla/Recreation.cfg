SPECIFICATION DeletionSpec
CONSTANTS
  Edits <- AnyEdit
  Ephemeral = TRUE
  SkipIfSuperseded = FALSE
  ReadsOwnWrites = TRUE
  ReportedStatuses = {"Ready"}
  MaxAborts = 0
  Lives <- ThenDown
INVARIANT OwnedConfigsFaithful
PROPERTIES
  DeletedLeavesNothing
  
