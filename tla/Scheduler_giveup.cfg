CONSTANTS
  s1 = s1 s2 = s2 s3 = s3
  b1 = b1 b2 = b2 b3 = b3 b4 = b4 b5 = b5
  n1 = n1
  NoKey = NoKey
  Seqs = {s1, s2}
  Blocks = {b1, b2}
  Tokens = {1, 2}
  Namespaces = {n1}
  BlockSize = 2
  Prompt <- ApartPrompt
  MaxTokens <- OneToken
  Namespace <- OneNamespace
  CacheEnabled <- All
  Breakpoints <- NoBreakpoints
  HasTTL <- None
  EnablePrefixCache = FALSE
  MinTokens = 0
  MaxCached = 0
  MaxCachedPerNs = 0
  Policy = "alternate"
  MaxNumSeqs = 3
  MaxBatched = 4
  MaxPrefillChunk = 2
  MinPrefillChunk = 1
  Watermark = 0
  StarvationLimit = 8
  Eos = 2
  IgnoreEos <- None
  Recurring = {}
  MaxAge = 0
SPECIFICATION Spec
SYMMETRY BlockSymmetry
INVARIANTS GivesUpOnlyIfTooSmall
CHECK_DEADLOCK FALSE
