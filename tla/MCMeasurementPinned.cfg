SPECIFICATION Spec
CONSTANTS
  Parts = {"scoring"}
  p1 = p1
  p2 = p2
  d1 = d1
  d2 = d2
  c1 = c1
  c2 = c2
  None = None
  Open = Open
  Refused = Refused
  Parents <- MCParents
  Launches <- MCLaunches
  Builds = {1, 2}
  Plans <- MCPlans
  Drifts = TRUE
  Overrides = {TRUE, FALSE}
  Warmup = 1
  Repeat = 2
  MaxFaults = 2
  Traces <- MCTraces
  ChangesFrom <- MCChangesFrom
  NativeWarmup = 1
  NativeRepeat = 2
  MaxCases = 1
  MaxNativeFaults = 1
  Paths <- MCPaths
  Spaces <- MCSpaces
  DeviceTime <- MCDeviceTime
  Overheads = {2, 4}
  Kinds = {"good", "no_benchmark", "invalid"}
  Runs = 2
  Cases <- MCCases
  Backends <- MCBackends
  Selections <- MCSelections
  Indices <- MCIndices
  OperatorList <- MCOperatorList
  Graph = TRUE
  Faults = {"wrong", "fewer", "raises", "untimed", "lost", "inplace", "uncaptured"}
  MaxRuns = 3
  MaxBenchFaults = 1
  Devices <- MCOneDevice
  Directories <- MCDirectories
  Operators = {"add", "mul"}
  ModeLists <- MCModeLists
  Work <- MCWork
  Modes <- MCModes
  Bandwidth = "hbm"
  Declarable = {"mma"}
  Tolerance = 5
  Records <- MCRecords
  MaxEdits = 2
  Probed <- MCTwoPeaks
INVARIANT ScoredAsPinned
\* The parts end when their bounds are reached.
CHECK_DEADLOCK FALSE
