SPECIFICATION FairSpec
CONSTANTS
  a = a
  b = b
  c = c
  Requests = {a, b, c}
  PromptLen <- MCPromptLen
  MaxNewTokens <- MCMaxNewTokens
  MaxLength <- MCMaxLength
  EosRequests = {}
  OutputLogits = {}
  OutputScores = {}
  MaxCacheBlocks = 4
  PageSize = 2
  PPSize = 1
  MaxNumBatchedTokens = 3
  MaxNumSeqs = 3
  MaxQueueSize = 0
  EnableChunkedPrefill = FALSE
  EnablePPFairShare = FALSE
PROPERTY PreemptedIsReplayed
