SPECIFICATION Spec
CONSTANTS
    Cpus = 1
    CacheNames <- TwoCaches
    Sockets = {s1, s2, s3, s4, s5, s6}
    NoSocket = none
    MaxDeaths = 2
SYMMETRY Symmetry
INVARIANTS
    TypeOK
    OwnAnswers
    Unshared
