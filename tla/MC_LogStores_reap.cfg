CONSTANTS
    v1 = v1
    v2 = v2
    Nil = Nil
    Voter <- MCVoter
    MaxTerm = 4
    MaxIdx = 4
    MaxWal = 3
    SyncWrites = FALSE
SYMMETRY MCSymmetry
SPECIFICATION StoresSpec
INVARIANT NextIndexFollowsLog
