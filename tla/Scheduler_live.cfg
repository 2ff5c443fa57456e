CONSTANTS
  s1 = s1 s2 = s2 s3 = s3
  b1 = b1 b2 = b2 b3 = b3 b4 = b4 b5 = b5
  n1 = n1
  NoKey = NoKey
  Seqs = {s1, s2, s3}
  Blocks = {b1, b2, b3}
  Tokens = {1}
  Namespaces = {n1}
  BlockSize = 2
  Prompt <- WarmedPrompt
  MaxTokens <- WarmedMax
  Namespace <- OneNamespace
  CacheEnabled <- All
  Breakpoints <- NoBreakpoints
  HasTTL <- OnlyS3
  EnablePrefixCache = TRUE
  MinTokens = 0
  MaxCached = 0
  MaxCachedPerNs = 0
  Policy = "alternate"
  MaxNumSeqs = 2
  MaxBatched = 3
  MaxPrefillChunk = 4
  MinPrefillChunk = 1
  Watermark = 2
  StarvationLimit = 8
  Eos = 2
  IgnoreEos <- None
  Recurring = {s1, s3}
  MaxAge = 0
SPECIFICATION FairSpec
INVARIANTS GivesUpOnlyIfTooSmall
PROPERTIES EveryRequestFinishes 
CHECK_DEADLOCK FALSE
