CONSTANTS
  Worlds = {a, b}
  GamePorts = {1, 2, 3}
  RconPorts = {11}
  Faults = {"crash", "helm", "lost"}
  MaxFaults = 2
  Promotes = {1, 2}
  MaxNames = 2
  MaxLines = 3
  TailLines = 2
  QueueSize = 2
  MaxTexts = 2
  MaxReads = 2
  MaxServers = 3
  MaxRepeats = 1
  Members <- ZipMembers
  Regenerable = {"logs"}
  VanillaFiles = {"ops.json"}
  Root = "root"
  Nodes <- Tree
  Tokens <- Words
  MaxTokens = 4
  a = a
  b = b
SPECIFICATION DashboardSpec
INVARIANTS DashboardTypeOK  FullRangeStops  SuggestionsFresh WholeOrShared TempsGone ShownOwn NothingMerged SnapshotRestores AcceptedContinues
PROPERTIES   EndTold PumpEnds LoadingEnds RecordedForward PendingEnds LabelsKept
CHECK_DEADLOCK FALSE
