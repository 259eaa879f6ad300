CONSTANTS
  isoA = isoA  isoB = isoB  a = a  b = b  x = x  y = y  key = key  other = other
  plain = plain  paths = paths  bare = bare  both = both  loose = loose
  Images = {isoA, isoB}
  Name <- MCName
  Bare = Bare
  Digests = {x, y}
  Manifests = {m}
  Contents = {plain, paths, bare, both, loose}
  Lines <- MCLines
  Covered <- MCCovered
  Keys = {key, other}
  Genuine <- MCGenuine
  None = None
SPECIFICATION Spec
INVARIANTS TypeOK ResultsAreCurrent GateMatches GateIsSigned
