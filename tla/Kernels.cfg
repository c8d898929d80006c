CONSTANTS
  NUM_SMS = 3
  GROUP_SIZE_M = 2
  RowBlock = 2
  PageSize = 2
  MaxBlocksPerReq = 3
  MaxBlocks = 5
  MaxNumSeqs = 2
  MaxNumBatchedTokens = 4
  HistBlock = 4
  IndexBlock = 2
  HiddenBlock = 1
  H = 2
  I = 1
  MatmulTiles <- MCMatmulTiles
  BmmLadder <- MCBmmLadder
  BmmLadderK <- MCBmmLadderK
  GroupTile <- MCGroupTile
  Jobs <- MCJobs
SPECIFICATION Spec
INVARIANTS
  WrittenOnce
  DenseExact
  PagedExact
  PackedExact
  GradExact
  FlexExact
  CacheKept
  DispatchSorted
  MoEExact
  MoEGradExact
CHECK_DEADLOCK FALSE
