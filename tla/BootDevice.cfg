SPECIFICATION FairSpec
CONSTANTS
  ServiceStart = 1
  CodeStart = 3
  DataStart = 4
  ServiceEnd = 5
  RamEnd = 6
  MaxLoadPackets = 2
  MaxLoadWords = 2
  MaxPacketWords = 2
  LoadEntries = {0, 3, 5}
  good = good
  old = old
  code = code
  entry = entry
  Headers <- TwoHeaders
  Codes <- OneCode
  Junk = Junk
  Published = Published
  FieldStatus <- HeaderVerdict
  CodeEnd <- HeaderCodeEnd
  CodeOf <- HeaderCode
  BootInitStatus <- HeaderInit
  Images = {i1}
  NoImage = NoImage
  AttemptLimit = 1
  EntryOf <- ImageEntry
  NoEntry = NoEntry
  BadEntry = BadEntry
  RunRamEnabled = TRUE
  AutoBootEnabled = TRUE
  LockByteMayGoMissing = TRUE
INVARIANTS AttachedServiceIntact PublishedServiceIntact OnlyTrustedRuns OnlyCheckedRamRuns
PROPERTIES FlashRunsToItsEnd DeviceComesBack
CHECK_DEADLOCK FALSE
