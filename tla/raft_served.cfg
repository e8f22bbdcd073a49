SPECIFICATION ServedSpec
CONSTANTS
  n1 = n1
  n2 = n2
  n3 = n3
  v = v
  None = None
  Node = {n1, n2, n3}
  Command = {v}
  PreVote = FALSE
  Compaction = TRUE
  Lossless = FALSE
  MaxBatch = 1
  MaxTerm = 3
  MaxLog = 4
  MaxFlight = 2
  MaxCopies = 1
  MaxCrashes = 0
  Contender = {n1, n2}
  First = n1
SYMMETRY Symm
CHECK_DEADLOCK FALSE
INVARIANTS CommitsAreTruthful SnapshotIsCommitted
PROPERTIES CommitNeverFalls
