CONSTANTS
    h1 = h1
    h2 = h2
    t1 = t1
    t2 = t2
    i1 = i1
    o1 = o1
    o2 = o2
    o3 = o3
    NoObj = NoObj
    None = None
    Handle <- MCHandle
    RefCb = {h1}
    CbDel = {h2}
    OwnerDeletes = TRUE
    NumEvents = 2
SPECIFICATION RuntimeSpec
INVARIANT TypeOK
INVARIANT NumHandlesConsistent
INVARIANT EpollSetMatchesRefs
INVARIANT StaleEventSkipped
INVARIANT VbhTypeOK
INVARIANT TreeHoldsLive
