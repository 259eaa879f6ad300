CONSTANTS
  r1 = r1  r2 = r2  c1 = c1  c2 = c2  c3 = c3  side = side  v1 = v1  v2 = v2
  linux = linux  windows = windows
  Platforms = {linux, windows}
  Unknown = Unknown
  Runs = {r1, r2}
  Shas = {c1, c2, c3, side}
  Main = {c1, c2, c3}
  Versions = {v1, v2}
  VersionOf <- TwoVersions
  Windows = windows
  MaxReruns = 1
  Asked <- Asks
  Fragile <- Hit
  MaxFaults = 1
  None = None
SYMMETRY Alike
SPECIFICATION Spec
INVARIANTS TypeOK PublicIsConsistent SuccessIsPublished NeverDowngraded
CHECK_DEADLOCK FALSE
