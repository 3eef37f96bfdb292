SPECIFICATION Spec
CONSTANTS
  Images = {2}
  ServicePackets = 1
  RecordCount = 3
  AttemptLimit = 2
  ReadFrames = 2
  MaxLost = 1
INVARIANTS ResultHolds CancellationHolds
PROPERTIES TrustGoesFirst ImplementsLifecycle
CHECK_DEADLOCK FALSE
