CONSTANT MaxGeneration = 2
SPECIFICATION FairSpec
INVARIANT ConnectOwnsNoSession
CHECK_DEADLOCK FALSE
