CONSTANTS
  Jobs = {j1, j2, j3}
  Pods = {p1}
  Keep = 2
  Faults = {"crash"}
  MaxFaults = 1
  Archive = Archive
  None = None
SPECIFICATION FairSpec
PROPERTIES OperationsEnd
CHECK_DEADLOCK FALSE
