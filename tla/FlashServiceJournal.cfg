SPECIFICATION Spec
CONSTANTS
  RecordCount = 3
  AttemptLimit = 1
  UnitCount = 1
  SectorCount = 1
  MaxPackets = 1
  MaxDataUnits = 1
  imgA = imgA
  imgB = imgB
  BadImage = BadImage
  NoImage = NoImage
  Blank = Blank
  Damaged = Damaged
  Images <- TwoImages
  SectorOf <- OneSector
  Faults <- JournalFaults
INVARIANTS TypeOK JournalOrdered AcknowledgedAppendHolds
PROPERTIES AppendOnly ImplementsLifecycle
SYMMETRY ImageSymmetry
