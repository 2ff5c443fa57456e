CONSTANTS
  r1 = r1 r2 = r2 r3 = r3
  i1 = i1 i2 = i2 i3 = i3
  n1 = n1 n2 = n2
  Reqs = {r1, r2}
  Ids = {i1, i2}
  Id <- OwnId
  Namespace <- TwoNamespaces
  Priority <- Priorities
  PromptTokens <- Prompts
  MaxTokens <- Maxes
  QueueTimeout <- None
  RequestTimeout <- None
  MaxPending = 2
  MaxPendingPerNs = 2
  MaxPendingPrompt = 4
  MaxActive = 2
  MaxActivePerNs = 2
  MaxActiveTokens = 8
  MaxActiveTokensPerNs = 8
  QueueSize = 2
  Operators = {1}
  Loops = {1}
  Racing = FALSE
SPECIFICATION Spec
INVARIANTS FinishedIsDelivered
CHECK_DEADLOCK FALSE
