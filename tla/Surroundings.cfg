\* Two posts over two attempts and a second sign-in at any moment; beside them a
\* batch of two, a buffer of two events, two processes and a window of two samples.
SPECIFICATION PartsSpec
CONSTANTS
  Posts = {1, 2}
  Target = 2
  NoProgressLimit = 2
  MaxAttempts = 2
  MaxSignIns = 2
  Faults = {"cancel", "crash", "deadline", "disk", "page", "remove", "shutdown", "storage"}
  Source = {1, 2}
  Thread = {1, 2}
  QueueCapacity = 2
  Spans = {1, 4}
  PreviewLeast = 1
  PreviewMost = 1
  LastTime = 2
  MaxBatch = 1
  MaxSingles = 1
  MaxLife = 2
  Jobs = {1, 2}
  EventCapacity = 2
  Limit = 1
  MaxSequence = 4
  MaxEpoch = 2
  Process = {1, 2}
  MaxStarts = 2
  Interval = 1
  Window = 2
  MaxTime = 7
CHECK_DEADLOCK FALSE
INVARIANTS CheckpointIsHonest ApprovalHonoured NoSilentGap WorksOnWholeDatabase
PROPERTIES NewerSignInKept CaptureEnds LiveLockKept ResumesAfterWindow
