SPECIFICATION FairSpec
CONSTANTS
  Specs <- TwoSpecs
  MaxEdits = 1
  MaxTampers = 1
  MaxAborts = 1
INVARIANTS
  TypeOK
  RobinKnowsItsCluster
PROPERTIES
  InternalLabelsKept
  RevisionKept
  DriftRepaired
  ObjectsRepaired
  PatchingStops
