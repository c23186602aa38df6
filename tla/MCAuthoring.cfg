SPECIFICATION Spec
CONSTANTS
  None = None
  Torn = Torn
  triton = triton
  cutile = cutile
  c1 = c1
  o1 = o1
  o2 = o2
  Trajectories <- MCTrajectories
  Contents <- MCContents
  States <- MCStates
  Changed <- MCChanged
  Folds <- MCFolds
  Operators <- MCDistillOperators
  Models <- MCModels
  Dsl <- MCDsl
  SourceDevice <- MCSourceDevice
  TransferDevices <- MCTransferDevices
  MaxRuns = 2
  MaxChanges = 1
  MaxFaults = 1
  Backends <- MCBackends
  Cases <- MCCases
  Outcomes <- MCOutcomes
  MaxIters = 2
  MaxPrograms = 2
  Predeclared <- MCPredeclared
  Providers <- MCProviders
  Usages <- MCUsages
  Omittable <- MCOmittable
  Rules <- MCRules
  Tiers <- MCTiers
  Efficiencies <- MCEfficiencies
  Budgets <- MCBudgets
  Rounds = 2
  MaxRetries = 1
  MaxRequests = 2
  MaxStarted = 1
INVARIANTS InjectedIsAdmissible PaidIsKept CleanIsMeasured CostsAreSound
SYMMETRY MCSymmetry
\* The parts end when their bounds are reached.
CHECK_DEADLOCK FALSE
