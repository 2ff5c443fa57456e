CONSTANTS
  r1 = r1 r2 = r2 r3 = r3
  i1 = i1 i2 = i2 i3 = i3
  n1 = n1 n2 = n2
  Reqs = {r1, r2, r3}
  Ids = {i1, i2}
  Id <- SharedId
  Namespace <- TwoNamespaces
  Priority <- Priorities
  PromptTokens <- Prompts
  MaxTokens <- Maxes
  QueueTimeout <- OnlyR2
  RequestTimeout <- OnlyR1
  MaxPending = 2
  MaxPendingPerNs = 2
  MaxPendingPrompt = 3
  MaxActive = 2
  MaxActivePerNs = 2
  MaxActiveTokens = 6
  MaxActiveTokensPerNs = 6
  QueueSize = 2
  Operators = {1}
  Loops = {1}
  Racing = FALSE
SPECIFICATION FairSpec
INVARIANTS OnePlacePerRequest BudgetsHold OutcomeDecidedOnce TokensInOrder
PROPERTIES HigherPriorityFirst RestartLosesNothing EveryStreamEnds
CHECK_DEADLOCK FALSE
