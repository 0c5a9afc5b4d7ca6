SPECIFICATION Spec
CONSTANTS
  r = r
  x1 = x1
  x2 = x2
  RunSessions = {r}
  ProxySessions = {}
  Exchanges = {x1, x2}
  SessionOf <- MCSessionOf
  Normalized <- MCNormalized
  NoExchange = NoExchange
  MaxRecords = 2
INVARIANTS
  TypeOK
  NoSequenceReuse
  CountersMatchEvents
  NormalizationAtomic
  
PROPERTIES
  
  CrashedRecordingIsClosed
  EvidenceIsImmutable
  SequencesOnlyGrow
CHECK_DEADLOCK FALSE
