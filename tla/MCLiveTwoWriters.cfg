SPECIFICATION Spec
CONSTANTS
  w1 = w1
  w2 = w2
  v1 = v1
  c1 = c1
  c2 = c2
  Writers = {w1, w2}
  Viewers = {v1}
  Connections = {c1, c2}
  NoConnection = NoConnection
  MaximumConnections = 1
  BatchSize = 2
  PageSize = 1
  MaxBlock = 2
  MaxSequence = 4
  MaxDrops = 2
PROPERTIES
  OfflineEventsAreReplayed
CHECK_DEADLOCK FALSE
