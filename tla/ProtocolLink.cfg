SPECIFICATION Spec
CONSTANTS
  MaxRequests = 3
  MaxSequence = 3
  MaxFaults = 1
  InfoWords = 2
  MaxWords = 2
  DeviceLimits = {1}
INVARIANTS LinkInv ResponseIsOwn HandledInOrder
CHECK_DEADLOCK FALSE
