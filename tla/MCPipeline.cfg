SPECIFICATION Spec
CONSTANTS
  NumHours = 2
  Retries = 1
  MaxRuns = 3
  ManualKinds = {"hour"}
  None = None
INVARIANTS
  NoPartialHour
  SucceededIsPublished
  SummaryShowsWindow
PROPERTIES
  OnlyTheWindowIsReplaced
