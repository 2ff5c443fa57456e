CONSTANTS
  s1 = s1 s2 = s2 s3 = s3
  b1 = b1 b2 = b2 b3 = b3 b4 = b4
  n1 = n1 n2 = n2
  NoKey = NoKey
  Seqs = {s1,s2,s3}
  Blocks = {b1,b2,b3,b4}
  Tokens = {1}
  Namespaces = {n1,n2}
  BlockSize = 1
  Prompt <- QuotaPrompt
  MaxTokens <- QuotaMax
  Namespace <- QuotaNs
  CacheEnabled <- AllOn
  Breakpoints <- QuotaBreakpoints
  HasTTL <- OnlyS1
  EnablePrefixCache = TRUE
  MinTokens = 1
  MaxCached = 3
  MaxCachedPerNs = 2
SPECIFICATION Spec
SYMMETRY BlockSymmetry
CHECK_DEADLOCK FALSE
INVARIANTS PoolPartition RefCountsExact HashTableExact PrefixIntegrity QuotasHold CachedWithinBreakpoints
PROPERTIES ExpiredNeverRevived DeallocateIsTheLoop ImplementsPool
