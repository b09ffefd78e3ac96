CONSTANTS
    s1 = s1
    s2 = s2
    s3 = s3
    Nil = Nil
    Server <- MCServer2
    LastLog <- EmptyLastLog2
    MaxTerm = 3
    MaxRestarts = 2
SPECIFICATION Spec
INVARIANT TypeOK
INVARIANT LeaderHoldsOwnVote
INVARIANT CandidateStateConsistent
INVARIANT GrantPersistedBeforeReply
PROPERTY PersistedVoteStable
