SPECIFICATION Spec
CONSTANTS
  t1 = t1
  t2 = t2
  t3 = t3
  A = A
  B = B
  None = None
  Trajectories <- MCTrajectories
  Providers <- MCProviders
  ProviderOf <- MCProviderOf
  Initial = 1
  MaxLimit = 2
  MinLimit = 1
  Cap = 2
  Rounds = 1
  MaxRetries = 1
  Resume = TRUE
  MaxFaults = 1
INVARIANTS BudgetIsExact HoldsWhatItNeeds
SYMMETRY MCSymmetry
