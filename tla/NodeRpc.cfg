\* Two commands, one an update, over an encrypted and a plaintext socket; every
\* property of the channel, the promise with its liveness included.
CONSTANTS
    Sockets = {s1, s2}
    None = None
    Cmds = {c1, u1}
    Updates = {u1}
    Handshake = {s1}
SPECIFICATION FairSpec
INVARIANTS
    WireOrder
    EncryptedStaysSealed
    PendingMeansWaiting
PROPERTY CallersPromise
CHECK_DEADLOCK FALSE
