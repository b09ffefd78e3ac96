CONSTANTS
    s1 = s1
    s2 = s2
    s3 = s3
    Nil = Nil
    Server <- MCServer
    LastLog <- EmptyLastLog
    MaxTerm = 2
    MaxRestarts = 0
SYMMETRY MCSymmetry
SPECIFICATION Spec
INVARIANT ElectionSafety
