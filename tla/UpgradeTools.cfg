SPECIFICATION Spec
CONSTANTS
  Images = {1, 2}
  ServicePackets = 1
  RecordCount = 3
  AttemptLimit = 2
  WorkflowImages = {2}
  MaxLost = 1
INVARIANTS ToolsInv TrustIsEarned
PROPERTIES OneAttempt
CHECK_DEADLOCK FALSE
