SPECIFICATION Spec
CONSTANTS
  NumHours = 2
  Retries = 1
  MaxRuns = 3
  ManualKinds = {"hour", "shifted"}
  None = None
PROPERTIES
  OnlyTheWindowIsReplaced
