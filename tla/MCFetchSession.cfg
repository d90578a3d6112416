SPECIFICATION SessionSpec
CONSTANTS
  MinInterval = 2
  MaxRetries = 1
  Backoff = 1
  Jitter = 0
  MaxLatency = 1
  MaxPause = 0
  None = None
  MaxBlock = 2
  MaxBlocksPerLogRequest = 2
  MaxLookups = 2
  Modes = {"interval", "recent", "smoke", "notebook01", "notebook02"}
INVARIANTS
  PostBudget
  RateBounded
  DoneIsComplete
  GiveUpIsJustified
PROPERTY
  ImplementsLogCollector
