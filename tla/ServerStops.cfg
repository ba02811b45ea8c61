\* Signals arrive at any time.
SPECIFICATION FairSpec
CONSTANTS
    Main = main
    t1 = t1
    t2 = t2
    r1 = r1
    r2 = r2
    Pool <- TwoThreads
    Requests <- TwoRequests
    Steps = 2
    Nothing = nothing
    MaxCatchers = 2
    Environments = {"Production"}
INVARIANTS
    TypeOK
    EndsAlone
    RestartHonoured
    KeepsAccepting
PROPERTIES
    CatchersSealed
    SignalEndsServer
