\* The file changes, grows, shrinks and disappears under two requests.
SPECIFICATION FairSpec
CONSTANTS
    t1 = t1
    t2 = t2
    Threads <- TwoThreads
    Free = nobody
    MaxWrites = 2
    MaxSecond = 2
    Zones <- Around
INVARIANTS
    TypeOK
PROPERTIES
    LockIsReleased
    OnlyTheCacheGoesBack
    ConfirmedCopyStands
