\* Batches and cancellations, crashes or shutdowns at any moment.
SPECIFICATION Spec
CONSTANTS
  a = a  b = b  x = x  y = y  k1 = k1  k2 = k2  b1 = b1
  NoKey = NoKey  NoBatch = NoBatch  NoWorker = NoWorker  NoRequest = NoRequest
  NoItem = NoItem  NoClient = NoClient  UnknownAuth = UnknownAuth
  JobId = {1, 2}
  Request <- BatchOfTwo
  Post = {}
  ReportedCode = {}
  Thread = {t1, t2}
  Client = {c1}
  Calls = {"submit_batch", "cancel"}
  Faults = {"crash", "shutdown"}
  LeaseTime = 1
  MaxQueue = 2
  MaxTime = 3
  MaxSequence = 2
  MaxAttempts = 2
  MaxEpoch = 2
CHECK_DEADLOCK FALSE
INVARIANTS QueueMatchesTable
PROPERTIES ShutdownInterruptsTruthfully
SYMMETRY ThreadSymmetry
