\* Requests are under way when a signal arrives.
SPECIFICATION Spec
CONSTANTS
    Main = main
    t1 = t1
    t2 = t2
    r1 = r1
    r2 = r2
    Pool <- TwoThreads
    Requests <- TwoRequests
    Steps = 2
    Nothing = nothing
    MaxCatchers = 1
    Environments = {"Production"}
INVARIANTS
    RequestsEnd
