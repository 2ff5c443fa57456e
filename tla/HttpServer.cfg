SPECIFICATION FairSpec
CONSTANTS
  r1 = r1
  r2 = r2
  r3 = r3
  a = a
  b = b
  Reqs = {r1, r2, r3}
  Ids = {a, b}
  Id <- MCId
  Kind <- MCKind
  Lengths <- MCLengths
  Cancelling = {a}
  QueueSize = 2
INVARIANTS TablesAgree RunsWithModel OutcomeCountedOnce DoneMeansOver
PROPERTIES EveryResponseEnds 
CHECK_DEADLOCK FALSE
