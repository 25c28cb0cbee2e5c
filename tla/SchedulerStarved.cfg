\* Two workers: a source is passed over for ever.
SPECIFICATION FairSpec
CONSTANTS
  a = a  b = b  c = c  x = x  y = y
  NoItem = NoItem
  Item <- ThreeSources
  Worker = {w1, w2}
  MaxQueue = 3
  Calls <- Singles
CHECK_DEADLOCK FALSE
PROPERTIES TopItemsStart
