CONSTANTS
  u1 = u1
  u2 = u2
  u3 = u3
  i1 = i1
  i2 = i2
  NoPart = NoPart
  Uploads = {u1, u2, u3}
  Identifiers = {i1, i2}
  IdentifierOf <- MixedIdentifiers
  TotalChunks <- MixedTotals
  Clienteles <- MixedClienteles
  MaxChunks = 2
  Undersized = {u2}
  EmptyUploads = {}
  MaxFaults = 1
SPECIFICATION FairSpec
INVARIANTS Inv DoneChunkIsKept PostedFileIsStored CheckedFileIsStored
PROPERTIES FileIsStoredInTheEnd
CHECK_DEADLOCK FALSE
