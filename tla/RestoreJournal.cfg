\* Two restores of three components over a server that may be started by hand.
SPECIFICATION FairSpec
CONSTANTS
  N = 3
  Config = 2
  lean = lean
  full = full
  broken = broken
  Gens <- TwoWhole
  Has <- TheirParts
  Bad <- OneBroken
  c1 = c1
  c2 = c2
  Clis <- TwoClis
  Orders <- AnyOrder
  MaxFaults = 2
  MaxHands = 1
  None = None
INVARIANTS WholeWhenOpen TellsTruth
PROPERTIES RestoreIsAtomic ServesAgain
CHECK_DEADLOCK FALSE
