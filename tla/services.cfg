SPECIFICATION MCSpec
CONSTANTS
  None = None
  Absent = Absent
  Refused = Refused
  Yes = Yes
  No = No
  text = text
  drawn1 = drawn1
  drawn2 = drawn2
  Random = {drawn1, drawn2}
  r1 = r1
  r2 = r2
  Server = {r1, r2}
  c1 = c1
  c2 = c2
  Key <- Requests
  Wish <- Wishes
  MaxCopies = 2
  MaxLog = 3
  MaxUpsets = 1
  MinTimeout = 10
  Heartbeat = 3
  MinDelay = 1
  Lengths = {5, 10, 15}
  Drifts = {0, 4, 8, 12}
  Reads = 30
  n1 = n1
  n2 = n2
  n3 = n3
  n4 = n4
  Node = {n1, n2, n3, n4}
  MaxOpen = 3
  a = a
  b = b
  Candidate = {a, b}
  Term = {1, 2}
  LeaderLog <- PartingLogs
  Lists = {{"term", "vote"}, {"term", "log"}}
  MaxCrashes = 1
  Writes = 6
  WriteEveries = {1, 2}
  CopyTicks = {0, 1, 3, 8}
  Replicas = 3
  Window = 40
  Leases = 4
  Length = 9
  GrantEveries = {1, 2, 5}
  Skews = {1, 2, 4}
  Sweeps = {1, 4, 6}
  w1 = w1
  w2 = w2
  Watcher = {w1, w2}
  k1 = k1
  k2 = k2
  Watched = {k1, k2}
  All = All
  MaxIndex = 4
  MaxGap = 2
  Member = {n1, n2, n3}
  Anyone = Anyone
  Cut <- OneWayCuts
  Delays <- SteadyOrSpread
  MaxSent = 2
  MaxDivisions = 1
SYMMETRY Symm
CHECK_DEADLOCK FALSE
INVARIANTS
  TakesEffectOnce AnswerStands
  LeaseReadsAreCurrent
  NobodyDecidesApart RuleIsExact
  OneVoteInATerm AcknowledgedIsKept
  MoveIsOrdered
  ExpiryIsAgreed
  SeenIsWanted
PROPERTY NetworkKeepsItsWord
