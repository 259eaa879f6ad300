CONSTANTS
  d1 = d1  d2 = d2  part = part  vol = vol  boot = boot
  slash = slash  container = container  p1 = p1  p2 = p2  e1 = e1  e2 = e2
  Nodes = {slash, container, p1, p2, e1, e2}
  Slash = slash
  Worlds <- SomeWorlds
  NoNode = NoNode
  MaxLost = 1
  Devices = {d1, d2, part, vol}
  Disks = {d1, d2}
  Removable = {d1, d2}
  ReadOnly = {}
  Graphs <- AnyGraph
  Root = Root
  Mounts = {Root, boot}
  Critical <- Order
  Nothing = Nothing  Failed = Failed  Foreign = Foreign  Absent = Absent
SPECIFICATION FairDiscovery
INVARIANTS TypeOK SystemDisksBlocked OnlySystemDisksBlocked FailsClosed MacRootProtected MacFailsClosed
PROPERTIES EverySystemEnds
CHECK_DEADLOCK FALSE
