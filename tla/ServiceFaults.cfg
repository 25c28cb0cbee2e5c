\* Cancellations, resumptions, rate limits and crashes over a queue of one.
SPECIFICATION Spec
CONSTANTS
  a = a  b = b  x = x  y = y  k1 = k1  k2 = k2  b1 = b1
  NoKey = NoKey  NoBatch = NoBatch  NoWorker = NoWorker  NoRequest = NoRequest
  NoItem = NoItem  NoClient = NoClient  UnknownAuth = UnknownAuth
  JobId = {1, 2}
  Request <- SharedAuth
  Post = {}
  ReportedCode = {"rate_limited"}
  Thread = {t1, t2}
  Client = {c1}
  Calls = {"submit", "cancel", "resume"}
  Faults = {"crash"}
  LeaseTime = 1
  MaxQueue = 1
  MaxTime = 3
  MaxSequence = 3
  MaxAttempts = 2
  MaxEpoch = 2
CHECK_DEADLOCK FALSE
INVARIANTS TypeOK OneCapturePerSourceAndAuth EveryLeaseHasItsWorker
SYMMETRY ThreadSymmetry
