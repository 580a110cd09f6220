CONSTANTS
  h1 = h1
  h2 = h2
  u1 = u1
  u2 = u2
  u3 = u3
  p1 = p1
  p2 = p2
  NoPart = NoPart
  NoHandler = NoHandler
  Uploads = {u1, u2, u3}
  Paths = {p1, p2}
  Handlers = {h1, h2}
  PathOf <- SharedPath
  SizeInBytes <- Sizes
  ContentBytes <- Contents
  ChunkSize = 2
  MaxChunks = 2
  Undersized = {}
  EmptyUploads = {}
  MaxCalls <- Calls
  MaxFaults = 1
SPECIFICATION FairSpec
INVARIANTS Inv FirstCallUploads ChunksAreTheFile NilKeepsChunks StoredFileIsTheFile
PROPERTIES UploadReturns CallsGoOn
CHECK_DEADLOCK FALSE
