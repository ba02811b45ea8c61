\* Parsers throw, on the strand.
SPECIFICATION Spec
CONSTANTS
    Lengths <- UpTo3
    MaxBodySize = 3
    SmallerSizes <- NoSize
    MayThrow = TRUE
INVARIANTS
    ParserExceptionsCaught
