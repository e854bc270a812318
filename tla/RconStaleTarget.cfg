CONSTANTS
  Polls = {poll1, poll2}
  Consoles = {console}
  Batches = {}
  MaxServers = 2
  MaxSecrets = 1
  Nobody = Nobody
SPECIFICATION Spec
INVARIANTS ConsoleReachesListed
CHECK_DEADLOCK FALSE
