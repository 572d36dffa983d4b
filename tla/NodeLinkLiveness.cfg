\* Liveness over two sockets of a daemon that is held at its binding.
CONSTANTS
    Sockets = {s1, s2}
    None = None
    Builds = {"otherProtocol"}
    MaxRotations = 0
    MaxInbox = 1
SPECIFICATION FairSpec
PROPERTIES
    DisableTakesHold
    HandshakeSettles
