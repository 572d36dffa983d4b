\* Both drivers, any plane; safety, and the return to service.
SPECIFICATION FairSpec
CONSTANTS
  Versions = {1, 2}
  First = 1
  Planes <- AnyPlane
  Actors <- Both
  MaxOps = 2
  MaxFaults = 2
  MaxMoves = 1
  None = None
INVARIANTS WayBack CopyIsAccounted RecordIsTrue
PROPERTY NodeReturns
CHECK_DEADLOCK FALSE
