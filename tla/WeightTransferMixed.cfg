SPECIFICATION FairSpec
CONSTANTS
  NumWeights = 2
  Sizes <- MCMixedSizes
  ItemSizes = {1, 2}
  BucketSize = 4
  SendMayRaise = FALSE
  LoadMayRaise = FALSE
PROPERTY WeightsDelivered
CHECK_DEADLOCK FALSE
