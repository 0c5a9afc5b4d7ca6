SPECIFICATION Spec
CONSTANTS
  x1 = x1
  Exchanges = {x1}
  InSession = {x1}
  BodyLimit = 3
  BudgetLimit = 4
  ManifestLimit = 2
  ChunkBytes = 2
  PutAnswers = {TRUE, FALSE}
  Calls = {"settle", "close"}
  MaxObserved = 4
INVARIANTS
  RecordingFailsOpen
CHECK_DEADLOCK FALSE
