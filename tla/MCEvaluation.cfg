SPECIFICATION Spec
CONSTANTS
  e1 = e1
  e2 = e2
  None = None
  Evaluations <- MCEvaluations
  N = 2
  CaptureFailureIsError = TRUE
INVARIANTS TypeOK WorkersAreExclusive
PROPERTIES ValidIsEarned BlameFollowsMarker FinishedCasesStand EveryEvaluationEnds
\* Every evaluation ends.
CHECK_DEADLOCK FALSE
