\* Every call has an id of its own; one worker method and one process fail.
CONSTANTS
  c1 = c1
  c2 = c2
  c3 = c3
  Calls = {c1, c2, c3}
  RequestId <- MCOwnIds
  NoCall = NoCall
  WorldSize = 2
  MaxFailures = 1
  MaxFaults = 1
  Tokens = 2
  MaxSteps = 2
  Uses <- MCUses
SPECIFICATION FairSpec
INVARIANTS
  TypeOK
  OwnResult
  StepsTrue
  ComputesMapped
  SocketsReady
  QueuesCleaned
PROPERTIES
  NoOrphans
  EveryCallAnswered
CHECK_DEADLOCK FALSE
