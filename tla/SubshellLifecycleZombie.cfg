\* One operation at a time, on a node whose link stays up: no race at all.
SPECIFICATION Spec
CONSTANTS
  Tasks = {t1}
  Places = {"agent"}
  MaxKeys = 2
  MaxDrops = 0
  BackoffLimit = 1
  None = None
INVARIANTS
  FailedRestartLeavesNoPane
CHECK_DEADLOCK FALSE
