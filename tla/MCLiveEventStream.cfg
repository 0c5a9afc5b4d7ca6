SPECIFICATION Spec
CONSTANTS
  w1 = w1
  w2 = w2
  v1 = v1
  c1 = c1
  c2 = c2
  Writers = {w1}
  Viewers = {v1}
  Connections = {c1, c2}
  NoConnection = NoConnection
  MaximumConnections = 1
  BatchSize = 2
  PageSize = 1
  MaxBlock = 2
  MaxSequence = 5
  MaxDrops = 2
INVARIANTS
  FramesRise
  NoEventIsSkipped
PROPERTIES
  EveryEventIsSeen
CHECK_DEADLOCK FALSE
