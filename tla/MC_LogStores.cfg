CONSTANTS
    v1 = v1
    v2 = v2
    Nil = Nil
    Voter <- MCVoter
    MaxTerm = 4
    MaxIdx = 4
    MaxWal = 3
    SyncWrites = FALSE
SYMMETRY MCSymmetry
SPECIFICATION StoresSpec
INVARIANT TypeOK
INVARIANT LoadedHeaderIsLatest
INVARIANT KVTypeOK
INVARIANT EntriesContiguous
INVARIANT LowestIdxBelowEntries
PROPERTY HeaderRefinement
PROPERTY KVHeaderRefinement
INVARIANT CkTypeOK
INVARIANT CheckpointDurable
INVARIANT PxTypeOK
INVARIANT PxLoadedHeaderIsLatest
INVARIANT AppendNeverOverwrites
PROPERTY PxHeaderRefinement
