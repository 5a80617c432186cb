SPECIFICATION FairSpec
CONSTANTS
  Keys = {k1, k2}
  Operations = {"ScalingUp", "Upgrading"}
  Reports <- SomeReports
  None = None
  MaxChanges = 5
  MaxRestarts = 1
INVARIANTS
  TypeOK
  OperationsAccounted
  GaugeMatchesTracker
PROPERTIES
  SampledOnTransition
  SeriesDropped
  GaugesSettle
