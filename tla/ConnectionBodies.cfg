\* The strand and a worker ask for bodies, answer, throw or return.
SPECIFICATION FairSpec
CONSTANTS
    Lengths <- UpTo4
    MaxBodySize = 3
    SmallerSizes <- Sizes
    MayThrow = TRUE
INVARIANTS
    TypeOK
    OneOperation
    
    NobodyWaitsInVain
PROPERTIES
    EveryRequestAnswered
