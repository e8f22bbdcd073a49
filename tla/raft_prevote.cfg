SPECIFICATION Spec
CONSTANTS
  n1 = n1
  n2 = n2
  n3 = n3
  v = v
  None = None
  Node = {n1, n2, n3}
  Command = {v}
  PreVote = TRUE
  Compaction = FALSE
  Lossless = FALSE
  MaxBatch = 3
  MaxTerm = 3
  MaxLog = 0
  MaxFlight = 2
  MaxCopies = 1
  MaxCrashes = 1
  Contender = {n1, n2}
SYMMETRY Symm
CHECK_DEADLOCK FALSE
INVARIANT TermsStayTogether
