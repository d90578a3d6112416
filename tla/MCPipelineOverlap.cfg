SPECIFICATION FairSpec
CONSTANTS
  NumHours = 2
  Retries = 1
  MaxRuns = 2
  ManualKinds = {"shifted", "recent"}
  None = None
INVARIANTS SucceededIsStored WideNeverPasses
PROPERTIES RunsEnd
