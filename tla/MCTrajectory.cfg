SPECIFICATION Spec
CONSTANTS
  Rounds <- MCRounds
  Latencies <- MCLatencies
  Failures <- MCFailures
INVARIANTS TypeOK RoundsInOrder StatusMatchesRounds AttemptMatchesRound NeverRaises BestIsFastest
PROPERTIES BestNeverRegresses HistoryIsFinal
\* A complete trajectory stops.
CHECK_DEADLOCK FALSE
