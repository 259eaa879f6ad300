CONSTANTS
  a = a  pad = pad  i1 = i1  i2 = i2  x = x  y = y  h1 = h1
  None = None
  Names = {a, pad}
  Strip <- MCStrip
  Inodes = {i1, i2}
  Chunks = {x, y}
  Editions <- OneChunk
  Hashers = {h1}
  MaxEdits = 1
  MaxPosted = 1
SPECIFICATION Spec
SYMMETRY SymmetricInodes
INVARIANTS ManifestBindsTarget
CHECK_DEADLOCK FALSE
