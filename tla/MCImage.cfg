CONSTANTS
  Sector = 2
  Optical = 4
  DescriptorStart = 1
  DescriptorLimit = 3
  MinSize = 2
  NoMark = NoMark
  Marks <- HintEnds
  Images <- SomeImages
SPECIFICATION Spec
INVARIANTS NothingMissing WholeIsAccepted
PROPERTIES AcceptedStays
CHECK_DEADLOCK FALSE
