CONSTANTS
  Uris <- MCUris
  Matches <- MCMatches
  Methods = {"GET", "HEAD"}
  ANY = "ANY"
  MaxHandlers = 3
  MaxRegs = 4
  Streams <- MCStreams
  Block = 5
  MaxUri = 6
  MaxHdr = 8
  PurgeBuf = 2
  Setups <- MCSetups
  Length <- MCLength
  Requests <- MCRequests
  MaxStarts = 2
  MaxRequests = 1
  Cards <- MCCards
  Passwords = {"right", "wrong"}
  Configured = {"right"}
  NoPassword = "none"
  LastSector = 1
  MaxCalls = 3
  SS = 2
  Lfn <- MCLfn
  Volumes <- MCVolumes
  Handles = {1, 2}
  Programs <- MCPrograms
  MaxFiles = 2
  FF_VOLUMES = 2
  CopyUnit = 1
  NumVolumes = 2
  Partitions = {"p1", "p2"}
  Paths = {"/a", "/b"}
  Card = "card"
  Nobody = "nobody"
  MaxMounts = 4
  MaxWrites = 1
  Talks <- MCTalks
  ControlMax = 4
  ProtoBuf = 4
  PendingSize = 4
  MaxWorks = 2
  MaxSends = 1
  Values = {"v", "bad", "long"}
  BadValues = {"bad"}
  LongValues = {"long"}
  Sizes = {0, 1}
  Codes = {"404", "500"}
  HandledCodes = {"404", "500"}
  MaxRespHeaders = 1
  MaxRespCalls = 3
  MaxExchanges = 2
  FreeFns = {"free", "app"}
  MaxContexts = 3
  MaxSessions = 1
  MaxStartCalls = 2
  Messages <- MCMessages
  Csds <- MCCsds
  Statuses = {0, 1, 9}
  TimedNames = {"a", "b"}
  Moments <- MCMoments
  CodePages <- MCCodePages
  MaxPath = 6
  Mounts <- MCMounts
  Primary_ <- MCFirstMount
  Second_ <- MCSecondMount
  TypeOf <- MCTypeOf
SPECIFICATION MCSpec
CHECK_DEADLOCK FALSE
INVARIANTS
  TextsRead
  
  ParsedAsSent
  ServingRight
  
  FatRight
  PowerSafe
  
  MountsApart
  
  ResponseRight
  
  
  TimesRight
PROPERTIES
  ServiceKept
