CONSTANTS
  BufferSize = 36
  RateLimit = 1
  RateWindow = 2
  Bytes = {0, 1, 5, 63, 64, 191, 192, 255}
  Horizon = 5
  MaxBurst = 3
  Lengths = {0, 11, 12, 13, 17, 18, 20, 22, 35, 36}
  Width = 4
  BackoffMax = 6
  MaxErrors = 7
  MaxChannels = 5
  Rssi <- MCRssi
  MaxRecords = 2
  MaxScans = 2
  CmdPlaces = 2
  MaxResets = 1
  FF_MAX_SS = 512
  Drives <- MCDrives
  FF_MAX_LFN = 26
  Directories <- MCDirectories
  MaxNamings = 3
SPECIFICATION MCSpec
CHECK_DEADLOCK FALSE
INVARIANTS
  DnsSafe
  ScanSafe
  ContextAllOrNothing
  TokenTrue
  FormatRight
  NamesRight
PROPERTIES
  BackoffGrows
  DatagramEnds
  GuestAtBootServed
  BeepEnds
