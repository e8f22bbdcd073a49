SPECIFICATION CalmSpec
CONSTANTS
  n1 = n1
  n2 = n2
  n3 = n3
  v = v
  None = None
  Node = {n1, n2, n3}
  Command = {v}
  PreVote = FALSE
  Compaction = FALSE
  Lossless = TRUE
  MaxBatch = 3
  MaxTerm = 3
  MaxLog = 0
  MaxFlight = 4
  MaxCopies = 1
  MaxCrashes = 0
  Contender = {n1, n2, n3}
  Steady = n1
CHECK_DEADLOCK FALSE
PROPERTIES EventuallyLed EventuallyCommitted
