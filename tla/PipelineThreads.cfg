\* Two threads, every behaviour of stages, catchers and views.
SPECIFICATION Spec
CONSTANTS
    Strand = strand
    NoThread = nobody
    w1 = w1
    Workers <- OneWorker
    NParsers = 1
    NHandlers = 2
    MaxAnswers = 1
    AppCodes <- NoStatus
    AppMaySend = TRUE
    AppMayThrow = TRUE
    Catchers <- AllCatchers
    ErrorViews <- AllViews
INVARIANTS
    TypeOK
    ProtectExcludes
    SingleResponse
    PromiseAfterResponse
    NoUseAfterDestruction
    StagesStartInOrder
PROPERTIES
    HandlersStopOnTrue
    ImplementsExchange
