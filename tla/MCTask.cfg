SPECIFICATION Spec
CONSTANTS
  MaxTime = 2
  Retries = 1
  MaxRuns = 2
  Environments <- MCEnvironments
  Triggers <- MCTriggers
  None = None
INVARIANTS
  SuccessIsBuilt
  BuildSeesWhatWasValidated
  LockedOutByOrphanOnly
