SPECIFICATION RSpec
CONSTANTS
  n1 = n1
  n2 = n2
  n3 = n3
  v = v
  None = None
  Node = {n1, n2, n3}
  Command = {v}
  PreVote = FALSE
  Compaction = FALSE
  Lossless = TRUE
  MaxBatch = 3
  MaxTerm = 3
  MaxLog = 2
  MaxFlight = 3
  MaxCopies = 1
  MaxCrashes = 1
  Contender = {n1, n2}
SYMMETRY Symm
CHECK_DEADLOCK FALSE
INVARIANTS OneLeaderPerTerm ElectedByBallot LogsAgree
PROPERTIES VoteStands
