\* A batch is admitted while a cancelled job is still in the queue.
SPECIFICATION Spec
CONSTANTS
  a = a  b = b  x = x  y = y  k1 = k1  k2 = k2  b1 = b1
  NoKey = NoKey  NoBatch = NoBatch  NoWorker = NoWorker  NoRequest = NoRequest
  NoItem = NoItem  NoClient = NoClient  UnknownAuth = UnknownAuth
  JobId = {1, 2, 3}
  Request <- BatchOfTwo
  Post = {}
  ReportedCode = {}
  Thread = {t1}
  Client = {c1, c2}
  Calls = {"submit", "submit_batch", "cancel"}
  Faults = {}
  LeaseTime = 1
  MaxQueue = 2
  MaxTime = 2
  MaxSequence = 3
  MaxAttempts = 1
  MaxEpoch = 1
CHECK_DEADLOCK FALSE
INVARIANTS RefusedBatchAdmitsNothing
