CONSTANTS
  s1 = s1 s2 = s2 s3 = s3
  b1 = b1 b2 = b2 b3 = b3 b4 = b4
  n1 = n1
  NoKey = NoKey
  Seqs = {s1, s2, s3}
  Blocks = {b1, b2, b3, b4}
  Tokens = {1}
  Namespaces = {n1}
  BlockSize = 2
  Prompt <- MixedPrompt
  MaxTokens <- MixedMax
  Namespace <- OneNamespace
  CacheEnabled <- All
  Breakpoints <- NoBreakpoints
  HasTTL <- OnlyS1
  EnablePrefixCache = TRUE
  MinTokens = 0
  MaxCached = 0
  MaxCachedPerNs = 0
  Policy = "cache_aware_lpm"
  MaxNumSeqs = 3
  MaxBatched = 3
  MaxPrefillChunk = 2
  MinPrefillChunk = 1
  Watermark = 1
  StarvationLimit = 2
  Eos = 2
  IgnoreEos <- None
  Recurring = {}
  MaxAge = 2
  MaxModelLen = 6
  EnforceEager = FALSE
  Block0 = b1
SPECIFICATION EngineSpec
SYMMETRY BlockSymmetry
INVARIANTS PromisedBlocksAreThere QueuesMatchStatus BatchIsRunnable WritesArePrivate AttendsToOwnPrefix CacheHoldsItsKey UsageAddsUp
PROPERTIES ImplementsBlockManager 
CHECK_DEADLOCK FALSE
