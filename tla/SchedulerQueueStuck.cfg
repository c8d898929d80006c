SPECIFICATION FairSpec
CONSTANTS
  a = a
  b = b
  c = c
  Requests = {a, b, c}
  PromptLen <- MCPromptLen
  MaxNewTokens <- MCMaxNewTokens
  MaxLength <- MCMaxLength
  EosRequests = {}
  OutputLogits = {}
  OutputScores = {}
  MaxCacheBlocks = 4
  PageSize = 2
  PPSize = 1
  MaxNumBatchedTokens = 4
  MaxNumSeqs = 3
  MaxQueueSize = 1
  EnableChunkedPrefill = TRUE
  EnablePPFairShare = FALSE
PROPERTY RequeueCompletes
CHECK_DEADLOCK FALSE
