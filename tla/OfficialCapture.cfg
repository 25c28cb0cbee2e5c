\* Five resources, one of them malformed, in pages of at most three; the confirmed
\* limit is rounded up from four to six.
SPECIFICATION FairSpec
CONSTANTS
  Target = 4
  Recent = TRUE
  PageLimit = 3
  MinPage = 3
  Feed = 5
  Malformed = {3}
  MaxRetries = 1
  MaxAttempts = 2
  Faults = {"crash", "shutdown", "storage", "cancel", "garbled", "refused", "repeat", "excess"}
CHECK_DEADLOCK FALSE
INVARIANTS TypeOK BilledWithinCeiling SucceededIsComplete
PROPERTIES CaptureEnds
