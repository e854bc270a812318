CONSTANTS
  Jobs = {j1, j2}
  Pods = {p1}
  Keep = 1
  Faults = {"crash", "refused", "lost", "job", "expire", "rcon"}
  MaxFaults = 2
  Archive = Archive
  None = None
SPECIFICATION Spec
INVARIANTS TypeOK NoOrphans
PROPERTIES BusyProtected
CHECK_DEADLOCK FALSE
