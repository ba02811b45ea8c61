\* Stages change the status and throw; threads are fair.
SPECIFICATION FairSpec
CONSTANTS
    Strand = strand
    NoThread = nobody
    w1 = w1
    Workers <- OneWorker
    NParsers = 1
    NHandlers = 1
    MaxAnswers = 1
    AppCodes <- AppStatus
    AppMaySend = FALSE
    AppMayThrow = TRUE
    Catchers <- AllCatchers
    ErrorViews <- AllViews
PROPERTIES
    EveryRequestEnds
    PromiseMatchesResponse
