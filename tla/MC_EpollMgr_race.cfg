CONSTANTS
    h1 = h1
    h2 = h2
    None = None
    Handle <- MCHandle
    RefCb = {}
    CbDel = {}
    OwnerDeletes = TRUE
    NumEvents = 2
SPECIFICATION Spec
INVARIANT NoCallbackAfterDel
