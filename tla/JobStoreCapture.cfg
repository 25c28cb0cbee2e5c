\* A migrated row in any state, over two or three attempts with two posts.
SPECIFICATION Spec
CONSTANTS
  a = a  b = b  autha = autha  authb = authb  k1 = k1  k2 = k2  b1 = b1
  NoKey = NoKey  NoBatch = NoBatch  NoWorker = NoWorker  NoRequest = NoRequest
  w1 = w1  w2 = w2  p1 = p1  p2 = p2
  LegacyRequest <- MCLegacyRequest
  JobId = {1}
  Legacy = {1}
  Request <- CaptureRequests
  Worker = {w1, w2}
  Post = {p1, p2}
  ReportedCode = {"provider_error", "rate_limited"}
  SavedSource = {}
  Capacity = 1
  MaxTime = 2
  MaxSequence = 3
  MaxAttempts = 3
  MaxUsage = 1
CHECK_DEADLOCK FALSE
INVARIANTS TypeOK SnapshotMatchesStatus PositionsContiguous IndexMirrorsObservations
PROPERTIES ObservationsAppendOnly RateLimitIsFinal CancellationWins
