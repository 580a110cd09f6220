CONSTANTS
  u1 = u1
  p1 = p1
  h1 = h1
  h2 = h2
  NoPart = NoPart
  Uploads = {u1}
  Paths = {p1}
  Handlers = {h1, h2}
  PathOf <- OnePath
  TotalChunks <- TwoChunks
  ChunkNumbers <- BothNumbers
  MaxChunks = 2
  Undersized = {}
  EmptyUploads = {}
  MaxFaults = 0
  MaxRequests = 2
  MaxStarts = 2
SPECIFICATION FairReplica
INVARIANTS CleanExitIsDrained LoneFileIsSentFile
  SendNeverBlocks Inv RequestsAreHandlers CleanExitStrandsNothing
PROPERTIES SignalledServiceExits DeadServerEndsProcess ImplementsProcess ImplementsCatalogue
  OnlyUncleanExitsStrandFiles
CHECK_DEADLOCK FALSE
