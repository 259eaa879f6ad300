CONSTANTS
  a = a  pad = pad  i1 = i1  i2 = i2  x = x  y = y  h1 = h1
  None = None
  Names = {a, pad}
  Strip <- MCStrip
  Inodes = {i1}
  Chunks = {x, y}
  Editions <- Torn
  Hashers = {h1}
  MaxEdits = 2
  MaxPosted = 1
SPECIFICATION Spec
INVARIANTS TypeOK SealedBytes GateBindsTarget GateAndSealAgree UnsealedMatches
CHECK_DEADLOCK FALSE
