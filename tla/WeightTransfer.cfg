SPECIFICATION FairSpec
CONSTANTS
  NumWeights = 3
  Sizes <- MCSizes
  ItemSizes = {1, 2}
  BucketSize = 4
  SendMayRaise = TRUE
  LoadMayRaise = TRUE
INVARIANT SentMeansReceived
PROPERTY ImplementsWeightUpdate
PROPERTY BufferStable
PROPERTY DeliveredOrFailed
CHECK_DEADLOCK FALSE
