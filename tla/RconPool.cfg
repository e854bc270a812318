CONSTANTS
  Polls = {poll}
  Consoles = {}
  Batches = {batch}
  MaxServers = 2
  MaxSecrets = 2
  Nobody = Nobody
SPECIFICATION FairSpec
INVARIANTS TypeOK RunsAtMostOnce BatchInOrder OwnConnection EvictionHonoured
PROPERTIES CallsEnd
CHECK_DEADLOCK FALSE
