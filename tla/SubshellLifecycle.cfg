\* One subshell, on the server or on a node, two operations in flight, a first
\* launch and one more, and one loss of the link.
SPECIFICATION Spec
CONSTANTS
  Tasks = {t1, t2}
  Places = {"local", "agent"}
  MaxKeys = 2
  MaxDrops = 1
  BackoffLimit = 1
  None = None
SYMMETRY TaskSymmetry
INVARIANTS
  NoKeyOutlivesItsRow
  
  LivePaneHoldsItsKey
PROPERTIES
  NoFalseDeath
\* A deleted subshell is over, and the keys the run may mint are bounded.
CHECK_DEADLOCK FALSE
