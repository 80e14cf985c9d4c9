CONSTANTS
  RecentLimit = 3
  EvidenceRefLimit = 2
  CycleExpandLimit = 2
  SummaryPageSize = 3
  ProgressPageSize = 2
  SummaryKeyResultLimit = 1
  ProgressKeyResultLimit = 2
  ObjectiveDetailLimit = 1
  ObjectiveDiscoveryLimit = 2
  KeyResultDiscoveryLimit = 2
  ProgressTargetLimit = 3
  ProgressRecordPageSize = 1
  Answers = {"2xx", "401", "429", "code_busy", "garbled"}
  ScopeSets <- MCScopeSets
  TaskPageLimit = 2
  MinutesPageLimit = 2
  SummaryCharLimit = 4
  MaxIssued = 3
  Scenarios <- MCScenarios
  Pieces <- MCPieces
  StatusLimit = 2
  LiveSectionLimit = 2
  ChannelSize = 2
SPECIFICATION Spec
INVARIANT ReadsWithinGrant
INVARIANT EveryReadIsAnswered
INVARIANT UnqualifiedSummaryIsComplete
INVARIANT NoSilentTruncation
CHECK_DEADLOCK FALSE
