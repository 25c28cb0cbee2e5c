\* Every admitted job starts.
SPECIFICATION FairSpec
CONSTANTS
  a = a  b = b  x = x  y = y  k1 = k1  k2 = k2  b1 = b1
  NoKey = NoKey  NoBatch = NoBatch  NoWorker = NoWorker  NoRequest = NoRequest
  NoItem = NoItem  NoClient = NoClient  UnknownAuth = UnknownAuth
  JobId = {1, 2}
  Request <- SharedAuth
  Post = {p}
  ReportedCode = {}
  Thread = {t1, t2}
  Client = {c1}
  Calls = {"submit", "cancel", "delete"}
  Faults = {"pause"}
  LeaseTime = 1
  MaxQueue = 2
  MaxTime = 2
  MaxSequence = 2
  MaxAttempts = 1
  MaxEpoch = 1
CHECK_DEADLOCK FALSE
PROPERTIES QueuedJobStarts
