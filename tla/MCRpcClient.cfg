SPECIFICATION FairSpec
CONSTANTS
  MinInterval = 3
  MaxRetries = 2
  Backoff = 1
  Jitter = 1
  MaxLatency = 2
  MaxPause = 1
  MaxCalls = 2
  None = None
INVARIANTS
  TypeOK
  RateBounded
  RetryPolicy
  BackoffHonoured
PROPERTY
  CallsEnd
