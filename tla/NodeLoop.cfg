\* Windows, where the poll takes the packets it returns for: safety, deadlock,
\* the turns of the loop's users, and what the fairness of the threads brings about
SPECIFICATION FairSpec
CONSTANTS
    Iocp = TRUE
    MaxDepth = 3
INVARIANTS
    IInv
    OneUserAtATime
    NoLostWakeup
PROPERTIES
    TakesTurns
    WorkIsDone
    DestructorReturns
