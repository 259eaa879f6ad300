CONSTANTS
  u1 = u1  u2 = u2  big = big  small = small  imgA = imgA  imgB = imgB
  sda = sda
  Devices = {u1, u2}
  Paths = {sda}
  Fingerprints = {big, small}
  Fingerprint <- Distinct
  Capacity <- Sizes
  Images = {imgA, imgB}
  Length <- Lengths
  Blocks = 2
  Platforms = {"Darwin", "Windows"}
  Admin = TRUE
  File = File  Old = Old  None = None
SPECIFICATION FairSpec
PROPERTIES KeepsPromise SessionEnds
CHECK_DEADLOCK FALSE
