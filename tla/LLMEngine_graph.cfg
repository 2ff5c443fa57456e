CONSTANTS
  s1 = s1 s2 = s2 s3 = s3
  b1 = b1 b2 = b2 b3 = b3 b4 = b4
  n1 = n1
  NoKey = NoKey
  Seqs = {s1, s2, s3}
  Blocks = {b1, b2, b3, b4}
  Tokens = {1, 2}
  Namespaces = {n1}
  BlockSize = 2
  Prompt <- ShortPrompt
  MaxTokens <- ShortMax
  Namespace <- OneNamespace
  CacheEnabled <- All
  Breakpoints <- NoBreakpoints
  HasTTL <- OnlyS1
  EnablePrefixCache = TRUE
  MinTokens = 0
  MaxCached = 0
  MaxCachedPerNs = 0
  Policy = "alternate"
  MaxNumSeqs = 4
  MaxBatched = 4
  MaxPrefillChunk = 3
  MinPrefillChunk = 1
  Watermark = 0
  StarvationLimit = 8
  Eos = 2
  IgnoreEos <- None
  Recurring = {}
  MaxAge = 0
  MaxModelLen = 5
  EnforceEager = FALSE
  Block0 = b1
SPECIFICATION EngineSpec
INVARIANTS AttendsToOwnPrefix
CHECK_DEADLOCK FALSE
