CONSTANTS
    MaxSubmits = 1
    MaxCancels = 1
    Modes = {TRUE}
    HandleInitMemset = FALSE
    MaxReplies = 2
    p1 = p1
    p2 = p2
    Peer <- MCPeer
    NoPeer = NoPeer
    NpingsUntilViable = 1
    MaxPings = 1
    MaxRedirects = 0
SPECIFICATION Spec
CHECK_DEADLOCK FALSE
INVARIANT NoUseAfterFree
