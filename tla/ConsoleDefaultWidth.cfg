SPECIFICATION FairSpec
CONSTANTS
  Width = 8
  Items <- MCItems
  Reasons <- MCReasons
  Repeated <- MCRepeated
  KLogWidth = 12
  MaxMessages = 2
  FifoSize = 2
INVARIANT DefaultWidth
