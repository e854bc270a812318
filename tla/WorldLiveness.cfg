CONSTANTS
  Jobs = {j1, j2}
  Pods = {p1}
  Keep = 1
  Faults = {"job", "expire", "rcon"}
  MaxFaults = 1
  Archive = Archive
  None = None
SPECIFICATION FairSpec
PROPERTIES OperationsEnd DeleteFrees
CHECK_DEADLOCK FALSE
