CONSTANTS
  h1 = h1
  h2 = h2
  r1 = r1
  u1 = u1
  u2 = u2
  p1 = p1
  NoPart = NoPart
  Uploads = {u1, u2}
  Paths = {p1}
  Handlers = {h1, h2}
  Readers = {}
  PathOf <- RacePathOf
  TotalChunks <- MixTotals
  ChunkNumbers <- MixNumbers
  MaxChunks = 2
  Undersized = {u2}
  EmptyUploads = {}
  MaxFaults = 1
SPECIFICATION FairSpec
INVARIANTS ObjectsHaveNoHoles AckedChunkIsKept
PROPERTIES ImplementsCatalogue EveryUploadIsAnswered OnlyFaultsStrandFiles
