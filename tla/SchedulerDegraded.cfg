SPECIFICATION Spec
CONSTANTS
  a = a
  b = b
  c = c
  Requests = {a, b, c}
  PromptLen <- MCPromptLen
  MaxNewTokens <- MCMaxNewTokens
  MaxLength <- MCMaxLength
  EosRequests = {b}
  OutputLogits = {a}
  OutputScores = {b}
  MaxCacheBlocks = 4
  PageSize = 2
  PPSize = 1
  MaxNumBatchedTokens = 5
  MaxNumSeqs = 3
  MaxQueueSize = 1
  EnableChunkedPrefill = FALSE
  EnablePPFairShare = FALSE
INVARIANT PlacedOnce
INVARIANT BatchFits
CHECK_DEADLOCK FALSE
