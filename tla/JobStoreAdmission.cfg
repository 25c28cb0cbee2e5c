\* Admissions, leases, resumptions, deletions and purges of two rows.
SPECIFICATION Spec
CONSTANTS
  a = a  b = b  autha = autha  authb = authb  k1 = k1  k2 = k2  b1 = b1
  NoKey = NoKey  NoBatch = NoBatch  NoWorker = NoWorker  NoRequest = NoRequest
  w1 = w1  w2 = w2  p1 = p1  p2 = p2
  LegacyRequest <- MCLegacyRequest
  JobId = {1, 2}
  Legacy = {}
  Request <- AdmissionRequests
  Worker = {w1, w2}
  Post = {}
  ReportedCode = {}
  SavedSource = {a}
  Capacity = 2
  MaxTime = 3
  MaxSequence = 3
  MaxAttempts = 1
  MaxUsage = 0
CHECK_DEADLOCK FALSE
INVARIANTS LeaseWithinDeadline LastStatusHonest SequenceUnique OneRowPerKey BatchAdmittedWhole
PROPERTIES TerminalImmutable QueueOrderKept PurgeKeepsNewest
