CONSTANTS
  Jobs = {j1, j2, j3}
  Pods = {p1}
  Keep = 2
  Faults = {"job", "expire"}
  MaxFaults = 1
  Archive = Archive
  None = None
SPECIFICATION Spec
INVARIANTS FirstSeedAlone SavingResumes
CHECK_DEADLOCK FALSE
