SPECIFICATION Spec
CONSTANTS
  Name <- ShippedNames
  Jobs <- ShippedJobs
  FirstInstance = 2
  MaxDrops = 2
CHECK_DEADLOCK FALSE
INVARIANTS
  TypeOK
  ReferencesResolve
  CompleteMeansAllSteps
  OneRepeatPerDrop
PROPERTIES
  ImplementsProvisionFlow
