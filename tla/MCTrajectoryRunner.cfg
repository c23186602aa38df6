SPECIFICATION Spec
CONSTANTS
  Rounds <- MCOneRound
  Latencies <- MCLatencies
  Failures <- MCFailures
  Answers <- MCAnswers
  Checks <- MCChecks
  MaxTransportRetries <- MCOne
  MaxRateLimitRetries <- MCOne
  MaxDisturbances <- MCTwo
INVARIANTS CostIsTrue LedgerMatchesArchive EvidenceBacksResult
PROPERTIES NoSecondRequest FirstVerdictStands EvidenceAppendOnly
