SPECIFICATION SessionsSpec
CONSTANTS
  Tools = {"", "hex2000"}
  Files = {"one.json", "two.json"}
  Images = {"A"}
  Ports = {"COM1", "COM2"}
  None = None
  Absent = Absent
  Corrupt = Corrupt
  MaxRecent = 2
  MaxMoves = 3
  MaxFaults = 1
INVARIANTS FilesAgree SessionsStayApart
PROPERTIES WorkIsKept QueueDrains
CHECK_DEADLOCK FALSE
