\* Two calls, one after the other, with the same request id; nothing fails.
CONSTANTS
  c1 = c1
  c2 = c2
  c3 = c3
  Calls = {c1, c2}
  RequestId <- MCSameId
  NoCall = NoCall
  WorldSize = 2
  MaxFailures = 0
  MaxFaults = 0
  Tokens = 2
  MaxSteps = 1
  Uses <- MCPatient
SPECIFICATION FairSpec
PROPERTY EveryCallAnswered
CHECK_DEADLOCK FALSE
