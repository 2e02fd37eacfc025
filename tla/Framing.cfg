CONSTANTS
  MaxFrames = 5
  Slots = 2
  Capacity = 2
  Blank = Blank
  Packages <- MCPackages
  Offsets = {0, 1}
  MaxPackages = 2
SPECIFICATION Spec
INVARIANT FramesInv
PROPERTIES ReturnsOnePackage OnlyOddPackagesLost TakesOnePackage
CHECK_DEADLOCK FALSE
