CONSTANTS
  h1 = h1
  h2 = h2
  u1 = u1
  u2 = u2
  u3 = u3
  p1 = p1
  p2 = p2
  NoPart = NoPart
  NoHandler = NoHandler
  Uploads = {u1}
  Paths = {p1}
  Handlers = {h1, h2}
  PathOf <- OnePath
  SizeInBytes <- OneSize
  ContentBytes <- OneSize
  ChunkSize = 2
  MaxChunks = 2
  Undersized = {}
  EmptyUploads = {}
  MaxCalls <- TwoCalls
  MaxFaults = 2
SPECIFICATION Spec
SYMMETRY Symmetry
INVARIANTS NilMeansUploaded
CHECK_DEADLOCK FALSE
