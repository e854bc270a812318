CONSTANTS
  Jobs = {j1, j2, j3}
  Pods = {p1}
  Keep = 2
  Faults = {"job"}
  MaxFaults = 0
  Archive = Archive
  None = None
SPECIFICATION Spec
INVARIANTS SeedJobsTracked
CHECK_DEADLOCK FALSE
