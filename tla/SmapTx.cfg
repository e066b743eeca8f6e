SPECIFICATION IopSpec
CONSTANTS
  NumBufs = 2
  EeBuffers <- MCEeBuffers
  Loads <- MCLoads
  Files <- MCFiles
  Disc <- MCDisc
  Full <- MCFull
  Paths <- MCPaths
  Names <- MCNames
  MaxReq = 1
  TxSize = 3
  TxMax = 2
  Entries = 3
  Lens = {1, 2}
  Align = 2
  Retries = 3
  NumFds = 2
  SectorSize = 2
  MaxRead = 4
  MaxCache = 2
  RingRoom = 2
  Requests = {"rdata", "fetch", "notify", "empty"}
  MaxPackets = 2
INVARIANT TxIntact
CHECK_DEADLOCK FALSE
