\* Two workers, two priorities, a shared auth state and a queue that overflows.
SPECIFICATION FairSpec
CONSTANTS
  a = a  b = b  c = c  x = x  y = y
  NoItem = NoItem
  Item <- MixedItems
  Worker = {w1, w2}
  MaxQueue = 3
  Calls <- Batches
CHECK_DEADLOCK FALSE
INVARIANTS TypeOK IndexesAgree ExclusiveSlots
PROPERTIES NoMissedWakeup QueueSpec ShutdownReachesAll OwnersStart
