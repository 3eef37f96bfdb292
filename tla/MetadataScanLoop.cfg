SPECIFICATION ScanSpec
CONSTANTS
  RecordCount = 4
  AttemptLimit = 3
  imgA = imgA
  imgB = imgB
  NoImage = NoImage
  Images <- MCImages
  Sequences32 <- MCSequences
INVARIANT ScanCorrect
CHECK_DEADLOCK FALSE
