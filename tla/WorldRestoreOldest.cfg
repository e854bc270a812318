CONSTANTS
  Jobs = {j1, j2, j3, j4}
  Pods = {p1}
  Keep = 2
  Faults = {}
  MaxFaults = 0
  Archive = Archive
  None = None
SPECIFICATION Spec
PROPERTIES RestoreKeepsSource
CHECK_DEADLOCK FALSE
