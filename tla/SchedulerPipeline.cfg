SPECIFICATION FairSpec
CONSTANTS
  a = a
  b = b
  c = c
  Requests = {a, b, c}
  PromptLen <- MCPromptLen
  MaxNewTokens <- MCThreeNewTokens
  MaxLength <- MCMaxLength
  EosRequests = {b}
  OutputLogits = {}
  OutputScores = {}
  MaxCacheBlocks = 4
  PageSize = 2
  PPSize = 3
  MaxNumBatchedTokens = 3
  MaxNumSeqs = 2
  MaxQueueSize = 0
  EnableChunkedPrefill = TRUE
  EnablePPFairShare = TRUE
INVARIANT TokensExact
INVARIANT OutputsAligned
PROPERTY EveryRequestAnswered
