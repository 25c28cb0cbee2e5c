\* Cancel and resume while the first worker still collects.
SPECIFICATION Spec
CONSTANTS
  a = a  b = b  x = x  y = y  k1 = k1  k2 = k2  b1 = b1
  NoKey = NoKey  NoBatch = NoBatch  NoWorker = NoWorker  NoRequest = NoRequest
  NoItem = NoItem  NoClient = NoClient  UnknownAuth = UnknownAuth
  JobId = {1}
  Request <- Repeatable
  Post = {}
  ReportedCode = {}
  Thread = {t1}
  Client = {c1, c2}
  Calls = {"submit", "cancel", "resume"}
  Faults = {}
  LeaseTime = 1
  MaxQueue = 2
  MaxTime = 3
  MaxSequence = 2
  MaxAttempts = 2
  MaxEpoch = 1
CHECK_DEADLOCK FALSE
INVARIANTS NoStrandedJob
