\* A server with an error view and one handler that leaves every request unhandled.
SPECIFICATION Spec
CONSTANTS
    Strand = strand
    NoThread = nobody
    w1 = w1
    Workers <- OneWorker
    NParsers = 1
    NHandlers = 1
    MaxAnswers = 1
    AppCodes <- NoStatus
    AppMaySend = FALSE
    AppMayThrow = FALSE
    Catchers <- NoCatchers
    ErrorViews <- SendViews
INVARIANTS
    ReturnsNotFound
