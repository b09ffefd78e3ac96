CONSTANTS
    MaxSubmits = 2
    MaxCancels = 1
    Modes = {TRUE, FALSE}
    HandleInitMemset = FALSE
    MaxReplies = 2
    p1 = p1
    p2 = p2
    Peer <- MCPeer
    NoPeer = NoPeer
    NpingsUntilViable = 1
    MaxPings = 2
    MaxRedirects = 1
SYMMETRY MCSymmetry
SPECIFICATION Spec
CHECK_DEADLOCK FALSE
INVARIANT TypeOK
INVARIANT CallbackAtMostOnce
INVARIANT NoCopyAfterCancel
