SPECIFICATION SearchSpec
CONSTANTS
  MaxLength = 5
  MaxTerm = 4
  Candidate <- SmallLogs
  Limit = 5
  Patience = 2
  MaxProbes = 8
  None = None
  Absent = Absent
  Refused = Refused
  Yes = Yes
  No = No
  text = text
  Wish <- Commands
  Told <- Replied
  StatesAllowed = {4, 50}
  MaxCalls = 3
  World = {1, 2, 3, 4, 5, 6}
  Root = 1
  Graphs <- AllGraphs
  Shapes <- SomeShapes
  BadOnes = {{4}, {6}}
  Depths = {2, 3}
  WorldsAllowed = {5, 7}
  Firing <- FiringThree
  RunLength = 5
  Floor = 3
  Schedules <- CutSchedules
  Sizes = {1, 2, 3}
  Ticks = 8
  Drawn = 4
  Runs <- SmallRuns
  Cmd = {1, 2}
CHECK_DEADLOCK FALSE
INVARIANTS
  InReach FindsThePlace Cost
  VerdictIsRight CacheIsSound
  SearchIsSound ShrunkIsMinimal
  NoFaultIsInert
  AlarmsAreReal ViolationsAreFound
PROPERTY SearchesEnd
