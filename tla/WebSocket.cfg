SPECIFICATION FairSpec
CONSTANTS
    m1 = m1
    m2 = m2
    m3 = m3
    Nothing = nothing
    Messages <- ThreeMessages
INVARIANTS
    TypeOK
    OneOperation
    NoMessageForgotten
    GoodbyeComesLast
PROPERTIES
    ImplementsChannel
    EveryMessageArrives
