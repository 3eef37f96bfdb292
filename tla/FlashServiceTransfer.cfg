SPECIFICATION Spec
CONSTANTS
  RecordCount = 1
  AttemptLimit = 1
  UnitCount = 2
  SectorCount = 2
  MaxPackets = 2
  MaxDataUnits = 2
  imgA = imgA
  imgB = imgB
  BadImage = BadImage
  NoImage = NoImage
  Blank = Blank
  Damaged = Damaged
  Images <- OneImage
  SectorOf <- SecondSector
  Faults <- TransferFaults
INVARIANTS VerifiedContentIntact SessionNeverOverruns
