CONSTANTS
  h1 = h1
  h2 = h2
  r1 = r1
  u1 = u1
  u2 = u2
  p1 = p1
  NoPart = NoPart
  Uploads = {u1, u2}
  Paths = {p1}
  Handlers = {h1, h2}
  Readers = {r1}
  PathOf <- RacePathOf
  TotalChunks <- RaceTotals
  ChunkNumbers <- RaceNumbers
  MaxChunks = 2
  Undersized = {}
  EmptyUploads = {}
  MaxFaults = 0
SPECIFICATION Spec
INVARIANT FirstChunkRegisters
