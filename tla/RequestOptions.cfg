CONSTANTS
  Payloads <- SomePayloads
  MaxBreakpoints = 4
SPECIFICATION Spec
INVARIANTS LongestMarksSurvive 
CHECK_DEADLOCK FALSE
