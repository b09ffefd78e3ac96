CONSTANTS
    v1 = v1
    v2 = v2
    Nil = Nil
    Voter <- MCVoter
    MaxTerm = 2
SPECIFICATION Spec
PROPERTY HeaderLiveness
