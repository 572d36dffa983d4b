\* One build, one rotation.
CONSTANTS
    Sockets = {s1, s2}
    None = None
    Builds = {"current"}
    MaxRotations = 1
    MaxInbox = 1
SPECIFICATION Spec
SYMMETRY SocketSymmetry
INVARIANTS
    EstablishedKeyIsBound
    DisabledOwnerIsOffline
    AcceptedReadsOnline
PROPERTIES OfflineOnlyWhenGone
