SPECIFICATION CalmSpec
CONSTANTS
  n1 = n1
  n2 = n2
  v = v
  None = None
  Node = {n1, n2}
  Command = {v}
  PreVote = TRUE
  Compaction = FALSE
  Lossless = TRUE
  MaxBatch = 3
  MaxTerm = 3
  MaxLog = 0
  MaxFlight = 3
  MaxCopies = 1
  MaxCrashes = 0
  Contender = {n1, n2}
  Steady = n1
CHECK_DEADLOCK FALSE
PROPERTY EventuallyLed
