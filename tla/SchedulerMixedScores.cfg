SPECIFICATION Spec
CONSTANTS
  a = a
  b = b
  c = c
  Requests = {a, b, c}
  PromptLen <- MCPromptLen
  MaxNewTokens <- MCThreeNewTokens
  MaxLength <- MCMaxLength
  EosRequests = {b}
  OutputLogits = {}
  OutputScores = {a, b}
  MaxCacheBlocks = 4
  PageSize = 2
  PPSize = 1
  MaxNumBatchedTokens = 4
  MaxNumSeqs = 3
  MaxQueueSize = 0
  EnableChunkedPrefill = TRUE
  EnablePPFairShare = FALSE
INVARIANT ScoresExact
CHECK_DEADLOCK FALSE
