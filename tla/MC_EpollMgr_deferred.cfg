CONSTANTS
    h1 = h1
    h2 = h2
    None = None
    Handle <- MCHandle
    RefCb = {h1}
    CbDel = {}
    OwnerDeletes = TRUE
    NumEvents = 2
SPECIFICATION Spec
PROPERTY DeletedHandleReleased
