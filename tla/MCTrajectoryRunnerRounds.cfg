SPECIFICATION Spec
CONSTANTS
  Rounds <- MCTwoRounds
  Latencies <- MCLatencies
  Failures <- MCFailures
  Answers <- MCFewAnswers
  Checks <- MCChecks
  MaxTransportRetries <- MCNone
  MaxRateLimitRetries <- MCNone
  MaxDisturbances <- MCTwo
PROPERTY ImplementsTrajectory
