SPECIFICATION FairSpec
CONSTANTS
  a = a
  b = b
  c = c
  Requests = {a, b, c}
  PromptLen <- MCPromptLen
  MaxNewTokens <- MCMaxNewTokens
  MaxLength <- MCMaxLength
  EosRequests = {b}
  OutputLogits = {}
  OutputScores = {a, b, c}
  MaxCacheBlocks = 4
  PageSize = 2
  PPSize = 1
  MaxNumBatchedTokens = 3
  MaxNumSeqs = 3
  MaxQueueSize = 0
  EnableChunkedPrefill = TRUE
  EnablePPFairShare = FALSE
INVARIANT TypeOK
INVARIANT BlocksConserved
INVARIANT PlacedOnce
INVARIANT BatchFits
INVARIANT BatchCovered
INVARIANT TokensExact
INVARIANT ScoresExact
INVARIANT LimitsRespected
PROPERTY AnswerFinal
PROPERTY EveryRequestAnswered
