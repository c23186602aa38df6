SPECIFICATION Spec
CONSTANTS
  p1 = p1
  p2 = p2
  None = None
  Processes <- MCProcesses
  Operators <- MCOneOperator
  Options <- MCOptions
  Rounds = 2
  Readiness <- MCReadiness
  MaxVersion = 2
  MaxDisturbances = 1
  MaxCommands = 1
  Latencies <- MCLatencies
INVARIANTS RunsAreExclusive RoundsMatchBindings
PROPERTY NothingIsLost
\* Every process and the operator stop.
CHECK_DEADLOCK FALSE
SYMMETRY MCSymmetry
