CONSTANTS
  Jobs = {j1, j2, j3}
  Pods = {p1, p2}
  Keep = 2
  Faults = {"crash", "rcon"}
  MaxFaults = 1
  Archive = Archive
  None = None
SPECIFICATION Spec
INVARIANTS FirstSeedAlone OneServer ServerOnWholeWorld
PROPERTIES PlayedDataKept VolumePromise
CHECK_DEADLOCK FALSE
