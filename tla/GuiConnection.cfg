CONSTANT MaxGeneration = 2
SPECIFICATION FairSpec
INVARIANTS SessionNotShared HealthIsOwn SchedulerServes ConnectedIsUsable
PROPERTIES BothSidesProgress
CHECK_DEADLOCK FALSE
