\* A handler asks for the body from a worker.
SPECIFICATION Spec
CONSTANTS
    Lengths <- UpTo3
    MaxBodySize = 3
    SmallerSizes <- NoSize
    MayThrow = FALSE
PROPERTIES
    HandlersStop
