SPECIFICATION Spec
CONSTANTS
  NumHours = 3
  Start = 4
  Threshold = 2
  Overrides = {"latest_v2_local"}
  None = None
  Contents <- MCContents
  Triggered <- MCTriggered
  Leftovers <- MCLeftovers
  Batches <- MCBatches
INVARIANT VerifiedMeansCollected
