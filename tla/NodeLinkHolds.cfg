\* Holds at the binding: two overlapping sockets, no rotation.
CONSTANTS
    Sockets = {s1, s2}
    None = None
    Builds = {"otherProtocol", "plainCurrent", "plainOld", "belowFloor"}
    MaxRotations = 0
    MaxInbox = 1
SPECIFICATION Spec
SYMMETRY SocketSymmetry
INVARIANTS
    OpenSocketIsRegistered
    OnlineHasWitness
